------------------------- MODULE ControlRegion_proofs -----------------------
(***************************************************************************)
(* The assertion of ControlRegion::finalize holds for every module and     *)
(* every order in which regions seed, grow, absorb and dissolve: all the   *)
(* outputs of a region rely on all of its inputs.  From that alone it      *)
(* follows that the regions add no deadlock.                               *)
(*                                                                         *)
(* Both arguments are about sets closed under the connections inside a     *)
(* region, in place of paths: what is not reached from given drivers is    *)
(* the greatest closed set with no member that they feed.                  *)
(***************************************************************************)
EXTENDS ControlRegion, TLAPS

-----------------------------------------------------------------------------
(* What no member of D reaches inside R.                                   *)

Fed(S, D) == \E d \in D, m \in S : <<d, m>> \in edges

Unreached(R, D) == UNION {S \in SUBSET R : Closed(S, R) /\ ~Fed(S, D)}

\* It is itself closed and not fed.
LEMMA UnreachedClosed ==
  ASSUME NEW R, NEW D
  PROVE  /\ Unreached(R, D) \subseteq R
         /\ Closed(Unreached(R, D), R)
         /\ ~Fed(Unreached(R, D), D)
  BY DEF Unreached, Closed, Fed

\* It is the greatest such set: a member outside of it is fed, or driven by
\* another member outside of it.
LEMMA ReachedHasDriver ==
  ASSUME NEW R, NEW D, NEW x \in R \ Unreached(R, D)
  PROVE  \E y \in D \cup (R \ Unreached(R, D)) : <<y, x>> \in edges
<1> DEFINE U == Unreached(R, D)
           S == U \cup {x}
<1>1. U \subseteq R /\ Closed(U, R) /\ ~Fed(U, D)
  BY UnreachedClosed
<1> SUFFICES ASSUME \A y \in D \cup (R \ U) : <<y, x>> \notin edges
             PROVE  FALSE
  OBVIOUS
<1>2. Closed(S, R)
  BY <1>1 DEF Closed
<1>3. ~Fed(S, D)
  BY <1>1 DEF Fed
<1>4. S \in SUBSET R
  BY <1>1
<1>5. S \subseteq U
  BY <1>2, <1>3, <1>4 DEF Unreached
<1>6. QED
  BY <1>5

\* An output that relies on all the inputs is reached from each of them.
LEMMA ExitReached ==
  ASSUME NEW R, NEW D, NEW o \in R, ReliesOnAll(R, o), Drivers(R) \cap D # {}
  PROVE  o \notin Unreached(R, D)
<1> DEFINE U == Unreached(R, D)
<1>1. U \subseteq R /\ Closed(U, R) /\ ~Fed(U, D)
  BY UnreachedClosed
<1> SUFFICES ASSUME o \in U PROVE FALSE
  OBVIOUS
<1>2. PICK d \in Drivers(R) \cap D : TRUE
  OBVIOUS
<1>3. \E m \in U : <<d, m>> \in edges
  BY <1>1, <1>2 DEF ReliesOnAll
<1>4. QED
  BY <1>1, <1>2, <1>3 DEF Fed

-----------------------------------------------------------------------------
(* A block that is moved into a region.                                    *)

\* A block that both drives a region and is driven by it would close a cycle,
\* because the output that drives it relies on the input it drives.
LEMMA NotBoth ==
  ASSUME NEW R \in SUBSET Ops, NEW n \in Ops \ R,
         Acyclic(edges, Ops),
         \A o \in Exits(R) : ReliesOnAll(R, o)
  PROVE  ~(FoundAsSink(R, {n}) /\ FoundAsDriver(R, {n}))
<1> SUFFICES ASSUME FoundAsSink(R, {n}), FoundAsDriver(R, {n}) PROVE FALSE
  OBVIOUS
<1> DEFINE T == {n} \cup (R \ Unreached(R, {n}))
<1>1. PICK r \in R : <<r, n>> \in edges
  BY DEF FoundAsSink, Drivers
<1>2. r \in Exits(R)
  BY <1>1 DEF Exits, Nodes
<1>3. r \in T
  BY <1>2, ExitReached DEF FoundAsDriver
<1>4. T \in SUBSET Ops /\ T # {}
  OBVIOUS
<1>5. PICK x \in T : \A y \in T : <<y, x>> \notin edges
  BY <1>4 DEF Acyclic
<1>6. x # n
  BY <1>1, <1>3, <1>5
<1>7. x \in R \ Unreached(R, {n})
  BY <1>6
<1>8. \E y \in T : <<y, x>> \in edges
  BY <1>7, ReachedHasDriver
<1>9. QED
  BY <1>5, <1>8

\* What is closed in the larger region is closed in the smaller one.
LEMMA ClosedRestricts ==
  ASSUME NEW R, NEW n, NEW S \in SUBSET (R \cup {n}), Closed(S, R \cup {n})
  PROVE  S \cap R \in SUBSET R /\ Closed(S \cap R, R)
  BY DEF Closed

\* A block that only the region feeds brings no input.
LEMMA AddSink ==
  ASSUME NEW R \in SUBSET Ops, NEW n \in Ops \ R,
         \A o \in Exits(R) : ReliesOnAll(R, o),
         FoundAsSink(R, {n}), ~FoundAsDriver(R, {n}), ~CreatesInput(R, {n}),
         NEW o \in Exits(R \cup {n})
  PROVE  ReliesOnAll(R \cup {n}, o)
<1> SUFFICES ASSUME NEW S \in SUBSET (R \cup {n}), o \in S, Closed(S, R \cup {n}),
                    NEW d \in Drivers(R \cup {n})
             PROVE  \E m \in S : <<d, m>> \in edges
  BY DEF ReliesOnAll
<1>1. d \in Drivers(R)
  BY DEF CreatesInput, Drivers
<1>2. PICK r \in R : <<r, n>> \in edges
  BY DEF FoundAsSink, Drivers
<1>3. \E p \in S \cap R : p \in Exits(R)
  <2>1. CASE o = n
    <3>1. r \in S
      BY <1>2, <2>1 DEF Closed
    <3>2. r \in Exits(R)
      BY <1>2 DEF Exits, Nodes
    <3>3. QED
      BY <3>1, <3>2
  <2>2. CASE o # n
    BY <2>2 DEF Exits
  <2>3. QED
    BY <2>1, <2>2
<1>4. S \cap R \in SUBSET R /\ Closed(S \cap R, R)
  BY ClosedRestricts
<1>5. \E m \in S \cap R : <<d, m>> \in edges
  BY <1>1, <1>3, <1>4 DEF ReliesOnAll
<1>6. QED
  BY <1>5

\* A block that feeds only the region brings no output.
LEMMA AddDriver ==
  ASSUME NEW R \in SUBSET Ops, NEW n \in Ops \ R,
         \A o \in Exits(R) : ReliesOnAll(R, o),
         FoundAsDriver(R, {n}), ~CreatesOutput(R, {n}),
         NEW o \in Exits(R \cup {n})
  PROVE  ReliesOnAll(R \cup {n}, o)
<1> SUFFICES ASSUME NEW S \in SUBSET (R \cup {n}), o \in S, Closed(S, R \cup {n}),
                    NEW d \in Drivers(R \cup {n})
             PROVE  \E m \in S : <<d, m>> \in edges
  BY DEF ReliesOnAll
<1>1. o # n
  BY DEF CreatesOutput, Exits, Sinks
<1>2. o \in Exits(R)
  BY <1>1 DEF Exits
<1>3. S \cap R \in SUBSET R /\ Closed(S \cap R, R) /\ o \in S \cap R
  BY <1>2, ClosedRestricts DEF Exits
<1>4. \A e \in Drivers(R) : \E m \in S \cap R : <<e, m>> \in edges
  BY <1>2, <1>3 DEF ReliesOnAll
<1>5. n \in S
  <2>1. n \in Drivers(R)
    BY DEF FoundAsDriver
  <2>2. \E m \in S \cap R : <<n, m>> \in edges
    BY <1>4, <2>1
  <2>3. QED
    BY <2>2 DEF Closed
<1>6. CASE d \in Drivers(R)
  BY <1>4, <1>6
<1>7. CASE d \notin Drivers(R)
  BY <1>5, <1>7 DEF Drivers
<1>8. QED
  BY <1>6, <1>7

\* Whatever add accepts leaves a region whose outputs rely on its inputs.
LEMMA AddKeeps ==
  ASSUME NEW R \in SUBSET Ops, NEW n \in Ops \ R,
         Acyclic(edges, Ops),
         \A o \in Exits(R) : ReliesOnAll(R, o),
         MayAdd(R, {n})
  PROVE  \A o \in Exits(R \cup {n}) : ReliesOnAll(R \cup {n}, o)
<1>1. ~(FoundAsSink(R, {n}) /\ FoundAsDriver(R, {n}))
  BY NotBoth
<1>2. CASE FoundAsSink(R, {n})
  BY <1>1, <1>2, AddSink DEF MayAdd
<1>3. CASE FoundAsDriver(R, {n})
  BY <1>1, <1>3, AddDriver DEF MayAdd
<1>4. QED
  BY <1>2, <1>3 DEF MayAdd

\* A region starts as one block, which relies on whatever drives it.
LEMMA SeedRelies ==
  ASSUME NEW n \in Ops
  PROVE  \A o \in Exits({n}) : ReliesOnAll({n}, o)
  BY DEF Exits, ReliesOnAll, Drivers

-----------------------------------------------------------------------------
(* The invariant.                                                          *)

\* owner() of a node is the region it is in, or a block of its own that no
\* region overlaps.
LEMMA OwnerIs ==
  ASSUME TypeOK, NEW n \in Nodes
  PROVE  /\ n \in Owner(n)
         /\ Owner(n) \in regions \/ (Owner(n) = {n} /\ \A r \in regions : n \notin r)
  BY DEF Owner

\* The graph the pass runs on has no cycle of ops.
LEMMA GraphAcyclic ==
  ASSUME TypeOK
  PROVE  edges \subseteq Nodes \X Nodes /\ Acyclic(edges, Ops)
  BY GraphsOK DEF TypeOK

\* What an edit of the regions has to keep.
RegionsOK(rs) ==
  /\ rs \subseteq SUBSET Ops
  /\ \A r, q \in rs : r = q \/ r \cap q = {}
  /\ \A R \in rs : \A o \in Exits(R) : ReliesOnAll(R, o)

IInv ==
  /\ edges \in Graphs
  /\ RegionsOK(regions)
  /\ pc \in {"search", "up", "down", "done"}
  /\ cur \in SUBSET Ops
  /\ pc \in {"up", "down"} => cur \in regions
  /\ grew \in BOOLEAN
  /\ crInputs \subseteq (SUBSET Nodes) \X Nodes
  /\ seen \subseteq SUBSET Nodes

LEMMA IInvImplies == IInv => TypeOK /\ OutputsRelyOnInputs
  BY DEF IInv, TypeOK, OutputsRelyOnInputs, RegionsOK

\* Growth by a driver or a sink of the region, which is in another region or
\* in none.
LEMMA AddIInv ==
  ASSUME IInv, cur \in regions, NEW n \in Nodes \ cur, Add(Owner(n))
  PROVE  RegionsOK(regions') /\ cur' \in regions' /\ cur' \in SUBSET Ops
<1> DEFINE B == Owner(n)
<1>1. n \in B /\ (B \in regions \/ (B = {n} /\ \A r \in regions : n \notin r))
  BY OwnerIs, IInvImplies
<1>2. RegionsOK(regions) /\ cur \in SUBSET Ops
  BY DEF IInv
<1>3. CASE B \in regions
  <2>1. regions' = regions \ {B} /\ cur' = cur
    BY <1>3 DEF Add
  <2>2. B # cur
    BY <1>1
  <2>3. QED
    BY <1>2, <2>1, <2>2 DEF RegionsOK
<1>4. CASE B \notin regions
  <2>1. B = {n} /\ \A r \in regions : n \notin r
    BY <1>1, <1>4
  <2>2. cur' = cur \cup {n} /\ regions' = (regions \ {cur}) \cup {cur \cup {n}}
    BY <1>4, <2>1 DEF Add
  <2>3. MayAdd(cur, {n})
    BY <2>1 DEF Add
  <2>4. n \in Ops
    BY <2>3 DEF MayAdd, Allowed
  <2>5. \A o \in Exits(cur \cup {n}) : ReliesOnAll(cur \cup {n}, o)
    BY <1>2, <2>3, <2>4, AddKeeps, GraphAcyclic, IInvImplies DEF RegionsOK
  <2>6. \A q \in regions \ {cur} : (cur \cup {n}) \cap q = {}
    BY <1>2, <2>1 DEF RegionsOK
  <2>7. QED
    BY <1>2, <2>2, <2>4, <2>5, <2>6 DEF RegionsOK
<1>5. QED
  BY <1>3, <1>4

\* The drivers and the sinks of a region are outside of it.
LEMMA NeighboursOutside ==
  /\ Drivers(cur) \subseteq Nodes \ cur
  /\ Sinks(cur) \subseteq Nodes \ cur
  BY DEF Drivers, Sinks

\* RegionsOK speaks of the graph, which no step changes.
LEMMA SameGraph ==
  ASSUME edges' = edges, RegionsOK(regions')
  PROVE  RegionsOK(regions)'
  BY DEF RegionsOK, Exits, ReliesOnAll, Closed, Drivers

\* What a search step takes up next: a block, or a region, and its drivers.
LEMMA PortsType ==
  ASSUME NEW B \in SUBSET Nodes
  PROVE  {B} \X Drivers(B) \subseteq (SUBSET Nodes) \X Nodes
  BY DEF Drivers

LEMMA InitIInv == Init => IInv
<1> SUFFICES ASSUME Init PROVE IInv
  OBVIOUS
<1>1. RegionsOK(regions)
  BY DEF Init, RegionsOK
<1>2. crInputs \subseteq (SUBSET Nodes) \X Nodes
  <2> SUFFICES ASSUME NEW c \in crInputs PROVE c \in (SUBSET Nodes) \X Nodes
    OBVIOUS
  <2>1. PICK t \in Start : c \in {{t}} \X Drivers({t})
    BY DEF Init
  <2>2. {t} \in SUBSET Nodes
    BY KindsDiffer DEF Nodes
  <2>3. QED
    BY <2>1, <2>2, PortsType
<1>3. QED
  BY <1>1, <1>2 DEF Init, IInv

LEMMA SearchIInv ==
  ASSUME IInv, Search
  PROVE  IInv'
<1> USE DEF IInv
<1>1. PICK ip \in crInputs :
        SkipPort(ip[1], ip[2]) \/ PassThrough(ip[1], ip[2]) \/ Seed(ip[1], ip[2])
  BY DEF Search
<1> DEFINE d == ip[2]
<1>2. d \in Nodes /\ pc = "search"
  BY <1>1 DEF Search
<1>3. CASE SkipPort(ip[1], d)
  <2>1. RegionsOK(regions)'
    BY <1>3, SameGraph DEF SkipPort
  <2>2. QED
    BY <1>3, <2>1 DEF SkipPort
<1>4. CASE PassThrough(ip[1], d)
  <2> DEFINE B == Owner(d)
  <2>1. RegionsOK(regions)'
    BY <1>4, SameGraph DEF PassThrough
  <2>2. B \in SUBSET Nodes
    BY <1>2, OwnerIs, IInvImplies DEF RegionsOK, Nodes
  <2>3. crInputs' \subseteq (SUBSET Nodes) \X Nodes
    BY <1>4, <2>2, PortsType DEF PassThrough
  <2>4. seen' \subseteq SUBSET Nodes
    BY <1>4, <2>2 DEF PassThrough
  <2>5. QED
    BY <1>4, <2>1, <2>3, <2>4 DEF PassThrough
<1>5. CASE Seed(ip[1], d)
  <2>1. d \in Ops /\ \A r \in regions : d \notin r
    BY <1>2, <1>5, OwnerIs, IInvImplies DEF Seed
  <2>2. regions' = regions \cup {{d}}
    BY <1>5 DEF Seed
  <2>3. RegionsOK(regions')
    <3>1. regions' \subseteq SUBSET Ops
      BY <2>1, <2>2 DEF RegionsOK
    <3>2. \A r, q \in regions' : r = q \/ r \cap q = {}
      <4>1. \A r, q \in regions : r = q \/ r \cap q = {}
        BY DEF RegionsOK
      <4>2. \A r \in regions : r \cap {d} = {}
        BY <2>1
      <4>3. QED
        BY <2>2, <4>1, <4>2
    <3>3. \A R \in regions' : \A o \in Exits(R) : ReliesOnAll(R, o)
      <4>1. \A o \in Exits({d}) : ReliesOnAll({d}, o)
        BY <2>1, SeedRelies
      <4>2. \A R \in regions : \A o \in Exits(R) : ReliesOnAll(R, o)
        BY DEF RegionsOK
      <4>3. QED
        BY <2>2, <4>1, <4>2
    <3>4. QED
      BY <3>1, <3>2, <3>3 DEF RegionsOK
  <2>4. RegionsOK(regions)'
    BY <1>5, <2>3, SameGraph DEF Seed
  <2>5. QED
    BY <1>5, <2>1, <2>4 DEF Seed
<1>6. QED
  BY <1>1, <1>3, <1>4, <1>5

\* Every step keeps the regions apart and their outputs dependent.
LEMMA NextIInv == IInv /\ [Next]_vars => IInv'
<1> SUFFICES ASSUME IInv, [Next]_vars PROVE IInv'
  OBVIOUS
<1> USE DEF IInv
<1>1. CASE GrowUp
  <2>1. PICK d \in Drivers(cur) : Add(Owner(d))
    BY <1>1 DEF GrowUp, Upwards
  <2>2. cur \in regions /\ d \in Nodes \ cur
    BY <1>1, NeighboursOutside DEF GrowUp
  <2>3. RegionsOK(regions') /\ cur' \in regions' /\ cur' \in SUBSET Ops
    BY <2>1, <2>2, AddIInv
  <2>4. RegionsOK(regions)'
    BY <1>1, <2>3, SameGraph DEF GrowUp
  <2>5. QED
    BY <1>1, <2>3, <2>4 DEF GrowUp
<1>2. CASE CannotGrowUp
  <2>1. RegionsOK(regions)'
    BY <1>2, SameGraph DEF CannotGrowUp
  <2>2. QED
    BY <1>2, <2>1 DEF CannotGrowUp
<1>3. CASE GrowDown
  <2>1. PICK x \in Sinks(cur) : Add(Owner(x))
    BY <1>3 DEF GrowDown, Downwards
  <2>2. cur \in regions /\ x \in Nodes \ cur
    BY <1>3, NeighboursOutside DEF GrowDown
  <2>3. RegionsOK(regions') /\ cur' \in regions' /\ cur' \in SUBSET Ops
    BY <2>1, <2>2, AddIInv
  <2>4. RegionsOK(regions)'
    BY <1>3, <2>3, SameGraph DEF GrowDown
  <2>5. QED
    BY <1>3, <2>3, <2>4 DEF GrowDown
<1>4. CASE CannotGrowDown
  <2>1. RegionsOK(regions)'
    BY <1>4, SameGraph DEF CannotGrowDown
  <2>2. {cur} \X Drivers(cur) \subseteq (SUBSET Nodes) \X Nodes
    BY PortsType DEF Nodes
  <2>3. QED
    BY <1>4, <2>1, <2>2 DEF CannotGrowDown
<1>5. CASE Search
  BY <1>5, SearchIInv
<1>6. CASE Finalize
  <2>1. regions' \subseteq regions
    BY <1>6 DEF Finalize
  <2>2. RegionsOK(regions')
    BY <2>1 DEF RegionsOK
  <2>3. RegionsOK(regions)'
    BY <1>6, <2>2, SameGraph DEF Finalize
  <2>4. QED
    BY <1>6, <2>3 DEF Finalize
<1>7. CASE UNCHANGED vars
  <2>1. RegionsOK(regions)'
    BY <1>7, SameGraph DEF vars
  <2>2. QED
    BY <1>7, <2>1 DEF vars
<1>8. QED
  BY <1>1, <1>2, <1>3, <1>4, <1>5, <1>6, <1>7 DEF Next

LEMMA RegionInvariant == Spec => []IInv
  BY InitIInv, NextIInv, PTL DEF Spec

-----------------------------------------------------------------------------
(* Theorems.                                                               *)

\* Regions never overlap and hold no block that BlockAllowed refuses,
\* whatever is seeded, absorbed and dissolved.
THEOREM TypeCorrect == Spec => []TypeOK
<1>1. IInv => TypeOK
  BY IInvImplies
<1>2. QED
  BY <1>1, RegionInvariant, PTL

\* The assertion of finalize: every output of a region relies on every input.
THEOREM OutputsRely == Spec => []OutputsRelyOnInputs
<1>1. IInv => OutputsRelyOnInputs
  BY IInvImplies
<1>2. QED
  BY <1>1, RegionInvariant, PTL

-----------------------------------------------------------------------------
(* A cycle of regions and blocks would contain a cycle of blocks.          *)

Elsewhere(T, B) == UNION (T \ {B})

\* The members of a set T of blocks that some other block of T reaches.
ReachedIn(T) == UNION {B \ Unreached(B, Elsewhere(T, B)) : B \in T}

\* What may be said of the regions and of the ops that are in none.
LEMMA WaitingBlocks ==
  ASSUME IInv
  PROVE  /\ \A B \in Waiting : B \in SUBSET Ops /\ \A o \in Exits(B) : ReliesOnAll(B, o)
         /\ \A B, C \in Waiting : B = C \/ B \cap C = {}
<1>1. TypeOK /\ OutputsRelyOnInputs
  BY IInvImplies
<1>2. ASSUME NEW B \in Waiting
      PROVE  B \in SUBSET Ops /\ \A o \in Exits(B) : ReliesOnAll(B, o)
  <2>1. B \in SUBSET Ops
    BY DEF Waiting
  <2>2. CASE B \in regions
    BY <1>1, <2>1, <2>2 DEF OutputsRelyOnInputs
  <2>3. CASE B \notin regions
    <3>1. PICK n \in Nodes : B = {n}
      BY <2>3 DEF Blocks, Waiting
    <3>2. n \in Ops
      BY <2>1, <3>1
    <3>3. QED
      BY <2>1, <3>1, <3>2, SeedRelies
  <2>4. QED
    BY <2>2, <2>3
<1>3. ASSUME NEW B \in Waiting, NEW C \in Waiting
      PROVE  B = C \/ B \cap C = {}
  <2>1. CASE B \in regions /\ C \in regions
    BY <1>1, <2>1 DEF TypeOK
  <2>2. CASE B \notin regions /\ C \notin regions
    <3>1. (\E n \in Nodes : B = {n}) /\ (\E n \in Nodes : C = {n})
      BY <2>2 DEF Blocks, Waiting
    <3>2. QED
      BY <3>1
  <2>3. CASE (B \in regions) # (C \in regions)
    <3>1. B \in regions \/ B \cap UNION regions = {}
      BY DEF Waiting
    <3>2. C \in regions \/ C \cap UNION regions = {}
      BY DEF Waiting
    <3>3. QED
      BY <2>3, <3>1, <3>2
  <2>4. QED
    BY <2>1, <2>2, <2>3
<1>4. QED
  BY <1>2, <1>3

\* In a set of blocks that all wait for each other, what drives another block
\* is itself reached from another block.
LEMMA DriverReached ==
  ASSUME IInv, NEW T \in SUBSET Waiting,
         \A B \in T : \E C \in T \ {B} : Drivers(B) \cap C # {},
         NEW C \in T, NEW B \in T \ {C}, NEW y \in C, NEW x \in B, <<y, x>> \in edges
  PROVE  y \in ReachedIn(T)
<1>1. C \in Waiting /\ B \in Waiting
  OBVIOUS
<1>2. x \in Nodes \ C
  BY <1>1, WaitingBlocks DEF Nodes
<1>3. y \in Exits(C)
  BY <1>2 DEF Exits
<1>4. ReliesOnAll(C, y)
  BY <1>1, <1>3, WaitingBlocks
<1>5. Drivers(C) \cap Elsewhere(T, C) # {}
  <2>1. PICK D \in T \ {C} : Drivers(C) \cap D # {}
    OBVIOUS
  <2>2. D \subseteq Elsewhere(T, C)
    BY DEF Elsewhere
  <2>3. QED
    BY <2>1, <2>2
<1>6. y \notin Unreached(C, Elsewhere(T, C))
  BY <1>4, <1>5, ExitReached
<1>7. QED
  BY <1>6 DEF ReachedIn

\* Regions whose outputs rely on their inputs never wait for each other.
LEMMA NoWaitingCycle ==
  ASSUME IInv
  PROVE  NoDeadlockAdded
<1> SUFFICES ASSUME NEW T \in SUBSET Waiting, T # {},
                    \A B \in T : \E C \in T \ {B} : Drivers(B) \cap C # {}
             PROVE  FALSE
  BY DEF NoDeadlockAdded
<1>1. ReachedIn(T) # {}
  <2>1. PICK B \in T : TRUE
    OBVIOUS
  <2>2. PICK C \in T \ {B} : Drivers(B) \cap C # {}
    OBVIOUS
  <2>3. PICK y \in C, x \in B : <<y, x>> \in edges
    BY <2>2 DEF Drivers
  <2>4. y \in ReachedIn(T)
    BY <2>3, DriverReached
  <2>5. QED
    BY <2>4
<1>2. ReachedIn(T) \in SUBSET Ops
  <2>1. \A B \in T : B \in SUBSET Ops
    BY WaitingBlocks
  <2>2. QED
    BY <2>1 DEF ReachedIn
<1>3. Acyclic(edges, Ops)
  BY IInvImplies, GraphAcyclic
<1>4. PICK x \in ReachedIn(T) : \A y \in ReachedIn(T) : <<y, x>> \notin edges
  BY <1>1, <1>2, <1>3 DEF Acyclic
<1>5. PICK B \in T : x \in B \ Unreached(B, Elsewhere(T, B))
  BY DEF ReachedIn
<1>6. PICK y \in Elsewhere(T, B) \cup (B \ Unreached(B, Elsewhere(T, B))) :
        <<y, x>> \in edges
  BY <1>5, ReachedHasDriver
<1>7. y \in ReachedIn(T)
  <2>1. CASE y \in Elsewhere(T, B)
    <3>1. PICK C \in T \ {B} : y \in C
      BY <2>1 DEF Elsewhere
    <3>2. QED
      BY <1>5, <1>6, <3>1, DriverReached
  <2>2. CASE y \in B \ Unreached(B, Elsewhere(T, B))
    BY <2>2 DEF ReachedIn
  <2>3. QED
    BY <1>6, <2>1, <2>2
<1>8. QED
  BY <1>4, <1>6, <1>7

\* Forming regions adds no deadlock to a module, whatever the module.
THEOREM AddsNoDeadlock == Spec => []NoDeadlockAdded
<1>1. IInv => NoDeadlockAdded
  BY NoWaitingCycle
<1>2. QED
  BY <1>1, RegionInvariant, PTL
=============================================================================
