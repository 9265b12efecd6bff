---------------------------------- MODULE Key ----------------------------------
(***************************************************************************)
(* Type-level symbol keys: scopegen::key encodes a name's bytes as a        *)
(* balanced tree of bits with padding, and the Equal trait of                *)
(* src/scoped/key.rs compares two trees structurally.  Restrictions on child *)
(* scopes stand or fall with this comparison being exact.                    *)
(*                                                                          *)
(* A text is a sequence of bytes of Width bits (8 in the code).              *)
(***************************************************************************)
EXTENDS Naturals, Sequences

CONSTANTS Width,    \* bits per byte
          Default   \* the text "default"

Byte == 0 .. 2 ^ Width - 1

Zero == <<"Zero">>
One == <<"One">>
Pad == <<"Pad">>
Pair(left, right) == <<"Pair", left, right>>

Bits(text) ==
    [i \in 1 .. Width * Len(text) |->
        LET byte == text[1 + (i - 1) \div Width]
            bit == (i - 1) % Width
        IN  IF (byte \div 2 ^ bit) % 2 = 0 THEN Zero ELSE One]

RECURSIVE PowerFrom(_, _)
PowerFrom(p, n) == IF p >= n THEN p ELSE PowerFrom(2 * p, n)
NextPowerOfTwo(n) == PowerFrom(1, n)

PaddedWithZero(bits) ==
    [i \in 1 .. NextPowerOfTwo(Len(bits)) |->
        IF i <= Len(bits) THEN bits[i] ELSE Zero]

\* leaves.resize(leaves.len().max(1).next_power_of_two(), Pad)
Padded(bits) ==
    [i \in 1 .. NextPowerOfTwo(Len(bits)) |->
        IF i <= Len(bits) THEN bits[i] ELSE Pad]

\* while leaves.len() > 1: replace neighbours by their Pair.
RECURSIVE PairUp(_)
PairUp(leaves) ==
    IF Len(leaves) = 1 THEN leaves[1]
    ELSE PairUp([i \in 1 .. Len(leaves) \div 2 |->
                    Pair(leaves[2 * i - 1], leaves[2 * i])])

key(text) == PairUp(Padded(Bits(text)))

And(left, right) == IF left = "No" THEN "No" ELSE right
Or(left, right) == IF left = "Yes" THEN "Yes" ELSE right

\* The Equal impls: leaf against leaf, leaf against branch, branch by branch.
RECURSIVE Equal(_, _)
Equal(left, right) ==
    IF left[1] = "Pair" /\ right[1] = "Pair"
    THEN And(Equal(left[2], right[2]), Equal(left[3], right[3]))
    ELSE IF left[1] = right[1] THEN "Yes" ELSE "No"

\* Namespace::named: the omitted namespace is spelt `default`.
Named(namespace) == IF namespace = Default THEN <<"None">> ELSE <<"Some", namespace>>
Spelling(named) == IF named = <<"None">> THEN Default ELSE named[2]

\* scopegen::keys: namespace and group are separate components.
Restriction(namespace, group) == Pair(key(Spelling(Named(namespace))), key(group))
===============================================================================
