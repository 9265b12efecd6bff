-------------------------------- MODULE Rebase --------------------------------
(***************************************************************************)
(* Relative paths of source that moves into the generated module            *)
(* (systasis-macros/src/rebase.rs), and what rustc takes a path to mean.     *)
(*                                                                          *)
(* A module is the sequence of names from the crate root to it.  Moved       *)
(* source may declare modules of its own, all called "n"; its depth is the   *)
(* number of those around a path.  A path has its segments, a leading `::`   *)
(* or not, the number of segments that stand inside `<T as ...>` (0 when it  *)
(* is not qualified), and is an ordinary path, the restriction of `pub(...)` *)
(* or that of `pub(in ...)`.                                                 *)
(***************************************************************************)
EXTENDS Naturals, Sequences

CONSTANT Home    \* the module of the attributed function

ASSUME HomeAssumption == Home \in Seq(STRING) /\ Len(Home) > 0 /\ Home[1] = "crate"

Generated == Append(Home, "__systasis_injected")

\* take_while and count: how many elements equal to x a sequence begins with.
Leading(s, x) ==
    CHOOSE n \in 0 .. Len(s) : (\A i \in 1 .. n : s[i] = x) /\ (n < Len(s) => s[n + 1] # x)

Parents(segments) == Leading(segments, "super")

RebasedEverywhere(nested_modules, path) ==
    LET parents == Parents(path.segments)
    IN  IF path.colon THEN path
        ELSE IF parents > 0
        THEN [path EXCEPT !.segments = <<"super">> \o @]
        ELSE IF nested_modules = 0 /\ Len(path.segments) > 1 /\ path.segments[1] = "self"
        THEN [path EXCEPT !.segments[1] = "super"]
        ELSE path

\* Rebase::visit_path_mut and Rebase::use_tree, inside nested_modules modules.
Rebased(nested_modules, path) ==
    LET parents == Parents(path.segments)
    IN  IF path.colon THEN path
        ELSE IF parents > 0 /\ parents >= nested_modules
        THEN [path EXCEPT !.segments = <<"super">> \o @]
        ELSE IF nested_modules = 0 /\ Len(path.segments) > 1 /\ path.segments[1] = "self"
        THEN [path EXCEPT !.segments[1] = "super"]
        ELSE path

-------------------------------------------------------------------------------
(* rustc                                                                     *)

Inside(module, depth) == module \o [i \in 1 .. depth |-> "n"]

\* What segments denote in a module.  The generated module has `use super::*`.
Lookup(module, segments) ==
    LET own == IF segments[1] = "self" THEN Tail(segments) ELSE segments
        parents == Parents(own)
    IN  IF segments[1] = "crate" THEN segments
        ELSE IF segments[1] \in {"self", "super"}
        THEN SubSeq(module, 1, Len(module) - parents) \o SubSeq(own, parents + 1, Len(own))
        ELSE IF module = Generated /\ segments[1] # "n" THEN Home \o segments
        ELSE module \o segments

\* The item, and the associated items of it that a qualified path goes on to;
\* pub(super::super) is no Rust.
Meaning(module, path) ==
    IF path.colon THEN <<<<"extern">> \o path.segments>>
    ELSE IF path.form = "restricted" /\ Len(path.segments) > 1 THEN <<>>
    ELSE IF path.position = 0 THEN <<Lookup(module, path.segments)>>
    ELSE <<Lookup(module, SubSeq(path.segments, 1, path.position)),
           SubSeq(path.segments, path.position + 1, Len(path.segments))>>

\* An item in the modules of the source.
Own(item) ==
    LET home == Len(Home)
    IN  Len(item) > home /\ SubSeq(item, 1, home) = Home /\ item[home + 1] = "n"

\* Where an item of the source is after the move: those in its own modules
\* have moved with them.
Relocated(item) ==
    IF Own(item) THEN Generated \o SubSeq(item, Len(Home) + 1, Len(item)) ELSE item

\* A path that stood at this depth of the source means the same where it is now.
KeepsMeaning(depth, source, moved) ==
    LET before == Meaning(Inside(Home, depth), source)
        after == Meaning(Inside(Generated, depth), moved)
    IN  /\ Len(after) = Len(before)
        /\ Relocated(before[1]) = after[1]
        /\ Tail(before) = Tail(after)

-------------------------------------------------------------------------------
(* The paths the move is meant for.                                          *)

Path == [colon : BOOLEAN, segments : Seq(STRING) \ {<<>>}, position : Nat,
         form : {"path", "restricted", "in"}]

\* A path that can stand at a depth of the source, and of none of the forms that
\* visit_path_mut mistakes: a path with more super than modules around it is
\* neither qualified nor the restriction of pub(...), `self` is not all of a path
\* outside the modules, and inside them it is not followed by super.  The modules
\* of the source are items of a block: no path leads into them from outside.
Movable(nested_modules, path) ==
    LET segments == path.segments
        parents == Parents(segments)
        looked_up == IF path.position = 0 THEN segments ELSE SubSeq(segments, 1, path.position)
        outside == \/ segments[1] = "crate"
                   \/ parents > 0 /\ parents >= nested_modules
                   \/ nested_modules = 0 /\ segments[1] = "self"
    IN  /\ path \in Path /\ path.position <= Len(segments)
        /\ path.form = "restricted" => Len(segments) = 1
        /\ path.colon \/
              /\ parents > 0 /\ parents >= nested_modules =>
                    path.position = 0 /\ path.form # "restricted"
                    /\ parents < Len(Home) + nested_modules
              /\ path.position > 0 => path.position > parents
              /\ segments[1] = "self" =>
                    IF nested_modules = 0
                    THEN Len(looked_up) > 1 /\ Parents(Tail(looked_up)) < Len(Home)
                    ELSE Len(looked_up) > 1 => looked_up[2] # "super"
              /\ outside => ~Own(Lookup(Inside(Home, nested_modules), looked_up))
===============================================================================
