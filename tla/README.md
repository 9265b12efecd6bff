# A TLA+ model of systasis

systasis is a dependency-injection container for Rust. A function carrying the
`systasis` attribute declares registrations; the procedural macro analyses them
while the program compiles, and generates a container type, its initialization
and its resolver methods; a small runtime crate supplies the storage the
generated code uses. This directory models the parts of both crates where an
ordering, an interleaving or a partial failure decides whether the result is
right, checks them with TLC, and proves with TLAPS, for every size of instance,
the slots, the scheduler, the type lookups, the wiring tables, the build,
resolving, the names of resolver methods, and what happens to paths and types
that move into the generated module.

`PROJECT.json` maps every definition to the lines it models and lists the runs,
the hazards, the theorems, and for each property an altered definition that the
property must detect. Those altered forms (`AcquireShared`, `ReadyIgnoresLast`,
`ConsumedDirect`, ...) stand before the definition they alter; no specification
uses them.

## 1. Inventory

### Runtime crate (`src/src`)

| Component | State | Operations | Why it is hard |
| --- | --- | --- | --- |
| TakeSlot, `storage/standard.rs`, `storage/spin.rs` | an `RwLock` over the reservation flag, the payload in an `UnsafeCell` | `try_resolve`, `try_resolve_ref`, `try_resolve_ref_mut`, `try_resolve_clone`, `try_reserve_ref` | any number of threads; references outlive calls, through guards that may be forgotten, or with no guard at all after a reservation |
| LocalTakeSlot, `storage/local.rs` | `RefCell<Option<T>>` | the same without reservation | `Clone` of the payload is user code and may re-enter the slot or unwind |
| CopySlot, ReadSlot, FreshSlot, FactorySlot; `Select` | fixed at construction | reading, cloning, calling | which one a registration gets |
| Builder, `builder.rs`, and the helpers in `lib.rs` | captures, then the slots of a build in progress | `build`, drop, `discard`, `take` | an initializer may fail or unwind between any two steps |
| Keys and masks, `scoped.rs`, `scoped/` | none: all in types | `Equal`, `Blocked`, `ForChild`, `AsScope`, `ReScope` | a false equality or a dropped restriction weakens protection several containers away |
| Unchecked accessors, fallible helpers, error types | none | conversions | a mistake here is local |

### Macro crate (`src/systasis-macros/src`)

| Component | State | Operations | Why it is hard |
| --- | --- | --- | --- |
| Registration parsing and naming, `parse.rs`, `child.rs`, `generate.rs` | the declarations, the names in use | parse, override, name, check conflicts | aliases, namespaces and snake case make different declarations meet |
| Dependency analysis, `analysis.rs` | the active lookup path, the collected sets, the last error | expand a lookup, collect a query | recursion continues after errors |
| Scheduling, `graph.rs` | emitted set, order, current layer, walk | freeze a layer, emit, walk to a cycle | two `unreachable!` claims |
| Wiring, `wiring.rs`, `scopegen.rs` | tables per registration | `transitive`, `arguments`, `consumed_dependencies`, `propagate_child_calls` | folds along the schedule whose omissions surface only in generated code |
| Build closure and resolvers, `generate.rs` | slots, captures, `systasis_error` | initialization statements, resolver methods, constructor helpers | failure after partial initialization; constructors that interleave |
| Scopes, `scopegen.rs`, `child_codegen.rs` | restriction types | descriptors, child projections | composition of restrictions |
| Statement configuration, `configuration.rs` | selector counter, gates | first pass, helper struct, second pass | two traversals must count alike |
| Child queries, `child_queries.rs` | the operations asked of each child | recognise, rewrite, record, inherit | children are shared; a scope must refuse every operation that reaches a value it protects |
| Capture reconstruction, `captures.rs` | a type per binding, a stack of scopes, the capture record | observe a pattern, an item, an import; visit the closure; fall back | name resolution and binding modes redone on syntax, without types |
| Generic policy, `generic_policy.rs`, `storage/policy.rs` | none | recognise a bound, check a fallback | a decision about traits made by spelling |
| Rebasing, `rebase.rs` | a counter of nested modules | rewrite a path | the meaning of a path depends on where both ends of the move are |
| Declaration form, dyn targets, requirements, entry points | syntax trees | rewriting | see section 8 |

### How they interact

The attribute first selects conditional statements (Configuration), parses the
block into registrations (Registry), expands types and finds dependencies
(TypeLookup), orders them (Schedule) and computes what every constructor may
reach and consume (Wiring). Constructors have their captures reconstructed
(Captures); their source and the policy constants move into the generated
module, where rustc reads them (Injected). The generated function follows the order to
initialize slots (Build); the generated methods resolve from the finished slots
(Resolve), which TakeSlot or LocalTakeSlot implement. Restricted scopes (Key,
Scope) decide at compile time which methods may be called.

### What makes each part correct

* a slot never lets an exclusive reference coexist with another one, moves its
  payload once, and never waits;
* a build meets no empty slot, drops everything exactly once however it ends,
  and on failure discards in reverse order;
* resolving moves a value to exactly one owner, and takes only what the
  generator recorded and the caller's scope permits;
* a schedule is complete and dependency-first, or a real cycle is reported;
* overriding, naming, lookups and configuration agree with independent
  descriptions of what they should compute;
* a scope excludes exactly what its restrictions name, in the container and in
  its children;
* a reconstructed constructor reads what the constructor as written reads, at
  the same type; when that cannot be known the source is left alone;
* moved source means what it meant, and storage is never guessed: a type is
  stored as rustc knows it, or the registration is refused.

## 2. Modules

| Module | Models | Builds on |
| --- | --- | --- |
| `SlotSpec` | what a consumable slot promises: every operation takes effect at one instant | |
| `TakeSlot` | the synchronized slot at the grain of try-lock, flag check, payload access, release, return | refines `SlotSpec` |
| `TakeSlotProofs` | its theorems | `TakeSlot` |
| `LocalTakeSlot` | the single-threaded slot with a stack of `Clone` activations | refines `SlotSpec` |
| `LocalTakeSlotProofs` | its theorems | `LocalTakeSlot` |
| `Wiring` | storage selection and the tables `transitive`, `arguments`, `consumed_dependencies`, `propagate_child_calls`, all of them one fold, `Extended` | |
| `WiringProofs` | what the tables compute; induction for the other proof modules | `Wiring` |
| `Schedule` | `graph::schedule`, one step per emitted node or walk step | `Wiring` |
| `ScheduleProofs` | its theorems | `Schedule`, `WiringProofs` |
| `Build` | the builder, the generated build closure and the failure path | `Wiring` |
| `BuildProofs` | its theorems | `Build`, `WiringProofs` |
| `Resolve` | public resolvers, nested constructors, child queries, scopes, threads | `Wiring` |
| `ResolveProofs` | its theorems | `Resolve`, `WiringProofs` |
| `Key`, `Scope` | symbol keys; masks and descriptors on a walk through nested containers | `Scope` extends `Key` |
| `Registry` | declarations to registrations and resolver names | |
| `TypeLookup` | type lookups and query collection | |
| `TypeLookupProofs` | its theorems | `TypeLookup` |
| `Configuration` | both passes of conditional selection | |
| `CaptureTypes` | pattern typing in `captures.rs`, the projection traits it emits, and Rust's own typing as the reference | |
| `Captures` | observation of bindings, the visitor over a constructor, the plan | `CaptureTypes` |
| `Rebase` | what happens to a moved path, and what a path means | |
| `Policy` | recognition of explicit bounds, and what rustc can prove | `Rebase` |
| `Injected` | one registration: policy selection, the walk over the generated module, compilation | `Policy` |
| `ExpansionProofs` | the theorems about `Registry`, `Rebase`, `Policy` and `Injected` | `Registry`, `Injected`, `WiringProofs` |
| `MC*` | instances for TLC | |

Correspondence of state and actions:

* **TakeSlot.** `reserved` and `held`/`leaked` are the `RwLock<bool>`; `value`
  is the `UnsafeCell`, as a version number that changes with each write through
  a mutable guard. `pc` names the point of the operation each caller has
  reached. A caller is one activation, together with the reference it returned.
  `Invoke`, `DropGuard`, `ForgetGuard` and `Write` belong to the client; the
  rest is the code. The lock is external: readers exclude writers, a try-lock
  may fail, with `Spurious` even when nothing holds the lock. A `Clone` that
  panics releases the guard like one that returns.
* **LocalTakeSlot.** `borrow` is RefCell's counter. Nothing is concurrent: a
  new call starts only when no other executes, or from inside the innermost
  `Clone`.
* **Build.** Each registration that stores something owns one resource; `loc`
  follows it through captures (`pending`), a running initializer (`work`), its
  slot, a value that absorbed it (`inside`), the error, or its drop. `Init`
  picks every storage kind and every acyclic dependency shape; registrations are
  numbered in schedule order, since the closure never looks at any other. One action per generated statement kind: run an initializer, query
  from it, finish, fail, unwind, skip after an error, publish, discard in
  reverse, return the error, and drop the container.
* **Resolve.** `stack` holds each thread's constructor calls. Slots are atomic,
  which is what `SlotSpec` permits; constructors are not. `asks` are the child
  operations in each constructor's body, `calls` what `propagate_child_calls`
  makes of them. `Allowed` is the condition the generated where-clauses impose
  on a scope. A child's values can also be taken without this container.
* **Schedule.** `mode` is the point in the loop; `layer` is the frozen `ready`
  vector, `path` the walk.
* **Scope.** A mask is the term of the restriction type. `excluded` is the
  independent description, in absolute paths, against which it is compared.
* **Registry.** A method name is its sequence of words, so joining and suffixes
  can collide as they do in the code.
* **TypeLookup.** `stack` holds the unvisited rest of each type being expanded,
  `active` the path used for cycle detection.
* **Configuration.** A block is a tree of statements and expressions with
  attributes; the second pass consumes selector numbers in the same traversal.
* **Captures.** A function is its arguments, its statements and one constructor,
  whose body is a tree of the constructs that bind, use or hide names. The
  visitor's call stack is the sequence `agenda`; `scopes`, `glob_scopes`,
  `captures` and the error are the fields of `Visitor`, `types` and `uncertain`
  those of `Bindings`. The reference is Rust's name resolution written on the
  tree (`Free`, `Denotes`) and its pattern typing (`RustTypes`), neither of them
  a traversal with state.
* **Injected.** `nested_modules` is Rebase's counter, `depth` the real nesting.
  A path carries what the rewriting can touch: segments, leading colons, the
  position of a qualified path, and whether it restricts a visibility. `Proves`
  is what rustc can establish about a type in a module.

## 3. Runs

| Run | Instance | Distinct states | Shows |
| --- | --- | --- | --- |
| `take_slot` | 2 callers, 2 writes, spurious failures, fair | 49,645 | `Aliasing`, `SharedStable`, `MovedOnce`, `ReservedForever`, `ImplementsSlot`, `NeverBlocks` |
| `local_take_slot` | 3 callers, 1 write | 105,581 | `BorrowCounted`, `SharedStable`, `ImplementsSlot` |
| `schedule` | every graph of 4 registrations | 337,880 | `DependencyFirst`, `CompleteOrder`, `CycleIsReal`, `WalkNeverStuck`, `FrozenLayers`, `TransitiveIsReachability`, `Terminates` |
| `build` | 3 registrations, 1 child value | 463,138 | `UnwrapsSucceed`, `DroppedOnce`, `NothingLeftBehind`, `ReverseDiscard` |
| `resolve` | 3 registrations, 1 child value, 2 threads, one of them scoped, 3 queries per resolver call | 986,456 | `OneOwner`, `OnlyDeclared`, `MaskRespected`, `ContextCovers` |
| `scope` | 2 children and 2 namespaces per container, 2 groups, 2 restrictions, depth 2; keys over 1-bit bytes, namespaces of up to 2 and groups of up to 4 bytes | 34,891 | `ExclusionsExact`, `RestrictionExact` |
| `registry` | 3 declarations over `a::X`, `b::X`, `CloneX`, `XInS`, `Y`, `XY` | 406,202 | `LastWins`, `NamesUnique`, `OperationRecognized` |
| `type_lookup` | 3 registrations, 8 type shapes | 624,486 | `CollectsAll`, `RejectsExactly` |
| `configuration` | every nesting of 6 attribute forms, all truth assignments | 188,272 | `SelectsAsCompiler`, `NoForeignPredicate` |
| `captures` | 2 names; every small pattern over types with references, tuples, arrays, slices and aliases; bodies of every binding construct, nested | 594,902 | `ReconstructionExact`, `CapturedTypesExact`, `FallbackJustified` |
| `injected` | types of depth 2 over a parameter, a child's type and 7 spellings of a path; up to 2 bounds of 8 spellings; sources with modules two deep | 723,012 | `PathsPreserved`, `PolicyExact`, `AdviceHelps` |
| `injected_shifted` | a qualified path beginning with `super`, an item that is `pub(super)`, a module of the source using `self::super::super::X` | | `PathsPreserved` is violated, see below |

All pass but the last, which shows a divergence in three forms; TLC reports the
shortest trace, and `MCInjectedClimbing.cfg` checks the third form alone.
`MCCaptures2021.cfg` is an instance of `MCCaptures` beside the runs, on which TLC
finds `CapturedTypesExact` violated.

* `src/README.md:62` says "Source-relative paths are preserved when hoisted."
  `Rebase::visit_path_mut` (`rebase.rs:110`) inserts a `super` segment in front of
  a path and changes nothing else. In `<T as super::Tr>::Item` the position of the
  closing bracket stays where it was, so the moved text reads
  `<T as super::super>::Tr::Item`; and the restriction of an item declared inside
  moved source, `pub(super)`, becomes `pub(super::super)`, which rustc does not
  parse. Either fails to compile.
* The same function counts parents from the first segment on (`rebase.rs:104`). In
  a module of the moved source `self::super::super::X` begins with none, so it
  stays as it is although it leaves the source, and names `X` in the module of the
  attributed function instead of that module's parent. When both exist the
  program compiles with the other item. An import group
  with enough `super` inside, `use super::{super::super::X}` two modules deep, is
  miscounted in the same way.
* `captures.rs:316` says "Keep explicit modifiers' pre-2024 meaning too." Below an
  alias behind a reference the inherited mode has become part of the projected
  type (`captures.rs:497`), which a modifier cannot take away: with
  `type Pair = (u8, u8)`, `let (ref x, _): &Pair` is recorded as `&&u8`, where
  edition 2021 binds a `&u8`. rustc refuses the record. The repository's own
  edition is 2024, where such a pattern is not allowed.

The runs `injected` and `captures` cover the other forms, but for those section 7
names.

Sources of the properties, beyond the code: `SAFETY.md`
(reservation, guards, unwinding, failed builds), `USAGE.md` (order of discarding
and failure effects), the safety comments at the `unsafe` blocks of the slots,
the `unreachable!` calls of `graph.rs` and `wiring.rs`, and the comments of
`scoped.rs`.

Why the bounds suffice to meet the hard cases:

* Two callers give every pair of operations at every pair of points, and two
  writes a payload that changes under a reference; the theorems remove the bound
  for everything but `NeverBlocks`, whose steps concern one caller.
* Four nodes admit two disjoint cycles, a tail leading into a cycle, and layers
  of every shape. The theorems remove the bound for everything but `Terminates`.
* Three registrations give a build a value, a value that absorbed it, and a
  failure after both; the child's value may be taken by an initializer, by a
  constructor it calls, or from outside, before or after either. The theorems
  remove the bound.
* Three queries suffice for a constructor that takes a value, nests, and has
  the nested one take another; three registrations give a chain of two
  constructors over a value. The theorems remove both bounds, and the number of
  threads.
* Three callers of `local_take_slot` give a clone inside a clone with a guard
  held across both; three registrations of `type_lookup` a chain of lookups, a
  cycle behind a lookup that is not part of it, and one looked up twice. Both are
  proved without the bound.
* One-bit bytes keep every length, prefix and padding case; the encoding treats
  each bit of a byte alike. `scope` does not check deadlock: restrictions only
  grow to their bounds, where the walk ends.
* The interfaces of `registry` were chosen to collide: equal last segments, an
  interface that begins with an operation's modifier, one that ends like a
  namespace suffix, and one whose words are those of a group of two. The theorems
  remove the bounds on declarations, interfaces, namespaces and words.
* Two names give a binding that is captured and one that hides it; patterns up
  to two deep, over tuples, arrays and slices with an alias or a reference at
  each level, meet every rule of `observe_annotated_pattern` in every binding
  mode, and each projection behind no, one and two references.
* Modules two deep, and paths climbing up to two modules beyond them, lie on
  both sides of the comparison in `rebase.rs:109` at every depth. Two bounds
  allow one that is recognised beside one that is not. The theorems remove these
  bounds for every registration that is `WellFormed`; the assumptions
  `RegistrationsTyped` and `SourcesBalanced` of `MCInjected` have TLC evaluate that
  those of the run are.

## 4. Fairness

* `TakeSlot!FairSpec`: weak fairness of each caller's own steps. An operation is
  straight-line code over try-locks, so a scheduled thread can always take the
  next one. Clients are not fair: guards may be held or forgotten for ever.
* `Schedule`: weak fairness of the step of the loop, which is an ordinary call.
* `Build` assumes none: the generated build is straight-line code, and whether an
  initializer returns is the program's affair.
* `Resolve` assumes none: that two constructors over the same slots cannot wait
  for each other is `NeverBlocks` of the slots, the only thing they share.

## 5. Proofs

Each proof module about behaviours names an inductive invariant, proves it
preserved action by action, and derives the properties. TLC checked every
`IndInv` on the instance of the corresponding run, or one with a registration
less, before it was proved. `RegistryInv` and `InjectedInv` quantify over
sequences of any length, which TLC cannot enumerate; there the runs check the
properties that follow from them.

**TakeSlotProofs**, for any set of callers, any `MaxWrites` and either value of
`Spurious`, from `EmptyAssumption`, `MaxWritesAssumption` and
`SpuriousAssumption`. `Aliasing` is not inductive: what keeps a reference safe
is that its holder still has the lock, or that the flag is set. The invariant
therefore adds to `TypeOK`

* `LockInv`: who can hold the lock in which mode, forgotten guards included;
* `CallInv`: what each `pc` implies about lock, flag, payload and reference;
* `RefInv`: every payload reference is protected by the lock or by the flag;
* `SharedStable` and `MovedOnce` themselves.

`TypeCorrect`, `NoAliasing`, `StableShared`, `SingleMove`, `ReservationIsFinal`
(an action property) and `Refinement` (every step is a step or a stutter of
`SlotSpec`) follow.

**LocalTakeSlotProofs**, for any finite set of activations (`CallerAssumption`)
nested to any depth. That the borrow flag is right is a matter of counting:
`CountInv` says that it is -1 for an exclusive borrow and otherwise the number
of shared references and forgotten guards, and only with `ExclusiveInv` (an
exclusive borrow, even a forgotten one, is the only borrow) does a released
borrow leave the right number. `CallInv` ties each activation's reference to its
progress and to the payload it found; `StackInv` says that the suspended
activations are inside `Clone`, each once. `BorrowsCounted`, `StableShared` and
`Refinement` follow.

**WiringProofs** is about operators, not behaviours: for any set of
registrations and any dependency-first order, the single pass `Extended` solves
the equation it stands for, although it reads entries while they are computed
(`ExtendedEquation`). So `transitive` is reachability (`TransitiveReaches`: the
least table closed under dependencies), and `consumed_dependencies` and
`propagate_child_calls` account for every level of constructor calls
(`ConsumedAccounts`, `ChildCallsAccount`). These need induction along the order
and the existence of a recursively defined function. The library's induction
theorems cannot be instantiated here, since they take a predicate; the module
derives what it needs from the well-foundedness of `<` instead, with a set in
the place of the predicate (`LeastNatural`, `StepInduction`, `Recursion`).

**ScheduleProofs**, for any number of registrations and any graph, from
`NAssumption`. The invariant adds `LayerInv` (the frozen layer is unemitted and
its dependencies are emitted), `OrderInv` (the order enumerates the emitted
set, each after its dependencies) and `WalkInv` (the walk goes along
dependencies among unemitted nodes, and none of them is ready). A complete
order and a non-empty remainder exclude each other by cardinality, which one
lemma takes from the finite-set theorems. `OrderIsDependencyFirst`,
`OrderIsComplete`, `ReportedCycleIsReal` and `NeverStuck` follow; the last one
is the two `unreachable!` claims of `graph.rs`. That the result is sorted by
longest dependency chain and then by declaration (`LayersAreFrozen`) needs a
second invariant, `LayersInv`: there is an assignment of layers to nodes under
which everything placed is one above the deepest of its dependencies, and
everything not yet placed depends on the layer being placed or on something else
not placed; the latter is why the next frozen layer is exactly one deeper.
`WiringIsReachability` puts the order and `TransitiveReaches` together.

**TypeLookupProofs**, for any number of registrations, any types and queries,
from `NAssumption`, `ContentAssumption` and `QueriesAssumption`. The traversal
expands a registration again wherever it is looked up and goes on after errors,
so neither property is inductive. `WalkInv` relates each level to the text it is
the rest of and says that every active registration is reached from each one
around it. `FoundInv`, as long as there is no error, says that some set of
registrations was expanded to the end, is closed under lookups, free of cycles,
and together with the active ones accounts for every lookup passed and every
dependency collected. `ErrorInv` gives every error its reason. At the end the
expanded set is the least closed set: `FindsDependencies` and
`RejectsOnlyFaulty`.

**BuildProofs**, for any number of registrations and any set of child values,
from `NAssumption` and `ChildAssumption`. `PhaseInv`, `SlotInv` and `PlaceInv`
say for each slot what the position of the closure implies: done ones are `Some`
as long as nothing failed, those ahead still have their captures, and those
already passed in a discard hold nothing. `OwnerInv` follows a value that was
absorbed: its owner is stored, or in work. `LogInv` bounds what has been
discarded by the position. With `ReachIsLower` (along the schedule, everything
a constructor reaches comes before it) the slots in a constructor's context are
done. `NoEmptyUnwrap`, `NoDoubleDrop`, `NoLeak` and `DiscardsInReverse` follow;
the first is the `unreachable!` claims of the generated build.

**ResolveProofs**, for any number of registrations, child values, threads and
nested calls, from `NAssumption`, `KidAssumption` and `ScopedAssumption`.
`StackInv` says that calls nest along declared queries; `DeclaredInv` that what
an inner constructor may consume is part of what the tables say of the
registration the caller named, by the equations of `WiringProofs`, and that a
scope checked those entries before the call. `TakesOnlyDeclared`,
`ScopeProtects` and `ContextsSuffice` follow. For ownership, `OwnInv` states
without counting that a value is in exactly one place; `OwnershipConserved`
turns it into the sum of cardinalities that `OneOwner` is.

**ExpansionProofs**, first about names: for any number of declarations and
children, and any interfaces, namespaces and words, from `DefaultAssumption`,
`KindAssumption`, `PathAssumption` and `WordsAssumption`. `RegistryInv` says that
from overriding on the registrations are `Winning`, and while they are named,
that the known names are exactly those of the registrations named so far and that
no two of these share one; at a conflict two of them do. It gives
`RegistryNamesUnique` in both directions. `RegistryLastWins` needs besides that a
group is sorted and freed of repetitions when it is parsed, so that groups of the
same interfaces are the same sequence (`SameKey`). For
`RegistryOperationRecognized` a name is the words of its operation around those
of its interfaces, followed by a suffix. A scope takes the first pattern that
fits, so each generated operation's own pattern must fit and none before it, even
when an interface begins with the modifier of another operation (`Recognizes`).

Then about paths, from `HomeAssumption`. `RebasedKeepsMeaning` states it of
`Rebased` alone: a path that is `Movable` at a depth of the source means after
the move what it meant before, for every depth, every length and every module
the attributed function may be in. A module and a path are laid one after the
other, and a lookup cuts from the end of the first as much as the second begins
with `super`; the cases are whether the path climbs beyond the modules of the
source. `Movable` asks that the path can stand where it does (it does not climb
out of the crate) and excludes the forms that `visit_path_mut` mistakes: the three
of the finding in section 3, and those section 7 names.

Last about a whole registration, for any set of registrations that are
`WellFormed` (hypothesis `AllMovable`): typed, their types' paths movable, and
each source a sequence of paths and of module starts and ends that match, with
every path movable at its depth. `PathsPreserved` is not inductive, since what a
path means depends on where it stands, while `Rebase` only has its counter. `Placed`
says that the counter is the depth, and that the rest of the item closes the
modules that are open. `Staged` says which item is visited, and that the type
was moved once it was passed, `Chosen` that the chosen policy is the explicit
one for a type with generics and that a refused registration is one the fallback
check refuses. With them `InjectedPathsPreserved` follows from
`RebasedKeepsMeaning`, `InjectedPolicyExact` from two lemmas, `FlagExact` (rustc
finds the same impls for a moved type) and `AcceptedExact` (explicit bounds that
pass the check are what rustc knows), and `InjectedAdviceHelps` from
`AdviceEnough`. The last three hold whatever constructors are around the type and
however many bounds there are, because each constructor passes a trait on to its
operand, or implies or denies it by itself.

## 6. Model-checked only

* Liveness (`NeverBlocks`, `Terminates`): TLAPS does not reason about fairness
  here.
* What the recursive operators of `Key`, `Scope`, `Configuration`, `CaptureTypes`
  and `Captures` compute on trees and bit strings, and with it `ExclusionsExact`,
  `RestrictionExact`, `SelectsAsCompiler`, `NoForeignPredicate`,
  `ReconstructionExact`, `CapturedTypesExact` and `FallbackJustified`: the prover
  does not support RECURSIVE declarations, so those modules hold no theorem.

## 7. Abstractions

* Payloads are version numbers, names are short sequences, types are the
  sequences of lookups in them. Messages, spans and generated text are left out.
* `parking_lot` and `spin` backends are the same code over different locks, so
  one module covers both.
* `Build` treats an error value as the owner of what the failed initializer
  still held; it is dropped with the error.
* Borrow queries are rejected at this commit (`removed_borrow_query`), so the
  macro itself emits only empty child masks. Masks still act where a program
  names them (`AsScope`, as `tests/generated_scopes.rs` does), and that is what
  `Scope` walks through.
* The declaration form is not rebased (`build_errors`, `generate.rs:1508`), and
  `Injected` does not model it.
* `NoForeignPredicate` takes rustc to configure the attributes of a field in their
  order and to stop at the first false one, as the comment at
  `configuration.rs:87` does.
* Malformed input that the parser rejects, and `cfg_attr` syntax errors, are
  outside the models.
* `captures` enumerates patterns that rustc accepts in edition 2024, the
  repository's own; for edition 2021 see section 3.
* Also left out of `captures`: remainders of generic array aliases under
  let-else, which `docs/CAPTURE_LIMITS.md` documents as a limit; `ref rest @ ..`
  of an aliased slice below a reference; items of extern blocks inside a
  constructor; parenthesised types and patterns, which are transparent; and the
  choice of representation for the record.
* `injected` leaves out what `injected_shifted` shows,
  every other `self::super::...` inside nested modules, a path that is `self`
  alone, and import groups with a `super` after the first segment; so does
  `Movable`, and with it the theorems. A path from outside into a module that
  moved source declares is left out as well: such a module is an item of a block,
  which no path outside the block can name.

## 8. Not modelled

Child queries are modelled where they execute and where they are inherited; the
parsing of child paths and the rewriting of `resolve_type_from!` are text to
text. Declaration form, dyn targets, requirements, the entry points and the
error types have no state, or only rewrite syntax. Components and reasons are
listed one by one in `PROJECT.json`.

## 9. Plan

The order of work, most important behaviour first. Done: the slots with their
contract, the scheduler, type lookups, the wiring tables, the build and
resolving with child queries, names, generic policy and rebasing, each with its
proofs; keys and scopes, configuration and captures, model-checked.

What is left: theorems for `Scope`, `Configuration` and `Captures`, which would
need their trees coded as sequences, so that the recursion becomes a function on
naturals that `Recursion` of `WiringProofs` can establish.
