--------------------------- MODULE ControlRegion ----------------------------
(***************************************************************************)
(* How FormControlRegionPass groups the blocks of a module into control    *)
(* regions (llpm/control_region.cpp): a search from the outputs of the     *)
(* module towards its inputs makes a region of every block it may, and     *)
(* ControlRegion::grow adds neighbours to it until none may be added.      *)
(*                                                                         *)
(* A block is a node of a graph and drives what it has an edge to.  Ops    *)
(* are the blocks that BlockAllowed accepts (AND firing rule, one output   *)
(* value); Others are the blocks it refuses: the module's own inputs and   *)
(* outputs, selects, routers, registers, memories, other modules.  A       *)
(* region is the set of the ops in it.  A port of a region carries the     *)
(* value of one driver: existingInputValues merges ports of equal driver.  *)
(***************************************************************************)
EXTENDS FiniteSets, Naturals

CONSTANTS
  Ops, Others,
  Start,        \* the blocks of Others that are outputs of the module
  Graphs        \* the modules the pass is run on

Nodes == Ops \cup Others

\* Every set of blocks has one that none of the set drives.
Acyclic(E, B) ==
  \A T \in SUBSET B : T # {} => \E x \in T : \A y \in T : <<y, x>> \notin E

\* A cycle of AND blocks alone holds no token to begin with and could never
\* fire, region or no region; createsCycle is for ever false without one.
ASSUME GraphsOK ==
  \A E \in Graphs : E \subseteq Nodes \X Nodes /\ Acyclic(E, Ops)
ASSUME KindsDiffer == Ops \cap Others = {} /\ Start \subseteq Others

VARIABLES
  edges,      \* which block drives which; never changes
  regions,    \* the control regions
  pc,         \* "search", growing "up" or "down", "done"
  cur,        \* the region that grows, {} when none does
  grew,       \* whether growUp succeeded in this round of grow
  crInputs,   \* input ports still to be searched, as <<their block, driver>>
  seen

vars == <<edges, regions, pc, cur, grew, crInputs, seen>>

Blocks == {{n} : n \in Nodes} \cup regions

TypeOK ==
  /\ edges \in Graphs
  /\ regions \subseteq SUBSET Ops
  /\ \A r, q \in regions : r = q \/ r \cap q = {}
  /\ pc \in {"search", "up", "down", "done"}
  /\ cur \in SUBSET Ops
  /\ pc \in {"up", "down"} => cur \in regions
  /\ grew \in BOOLEAN
  /\ crInputs \subseteq (SUBSET Nodes) \X Nodes
  /\ seen \subseteq SUBSET Nodes

-----------------------------------------------------------------------------
(* What the parent's ConnectionDB says.                                    *)

\* The values a block (an op, another block or a region) takes in, and the
\* nodes that what it puts out goes to.
Drivers(B) == {d \in Nodes \ B : \E m \in B : <<d, m>> \in edges}
Sinks(B)   == {x \in Nodes \ B : \E m \in B : <<m, x>> \in edges}

\* The members whose value leaves the region.
Exits(B) == {m \in B : \E x \in Nodes \ B : <<m, x>> \in edges}

\* owner(): the region a node was moved to, or the node.
Owner(n) == IF \E r \in regions : n \in r
            THEN CHOOSE r \in regions : n \in r
            ELSE {n}

-----------------------------------------------------------------------------
(* ControlRegion::add.                                                     *)

\* The dummy blocks, unrefined modules and blocks that BlockAllowed refuses;
\* a region without outputs has no firing rule.
Allowed(B) == B \subseteq Ops /\ (B \in regions => Exits(B) # {})

FoundAsSink(R, B)   == Drivers(B) \cap R # {}
FoundAsDriver(R, B) == Drivers(R) \cap B # {}
CreatesInput(R, B)  == \E d \in Drivers(B) \ R : d \notin Drivers(R)
CreatesOutput(R, B) == Sinks(B) \ R # {}

\* Mutant: a sink may bring new inputs.
MayAdd_AnyInput(R, B) ==
  /\ Allowed(B)
  /\ FoundAsSink(R, B) \/ FoundAsDriver(R, B)
  /\ CreatesOutput(R, B) => FoundAsSink(R, B)

\* Mutant: a driver may bring new outputs.
MayAdd_AnyOutput(R, B) ==
  /\ Allowed(B)
  /\ FoundAsSink(R, B) \/ FoundAsDriver(R, B)
  /\ CreatesInput(R, B) => FoundAsDriver(R, B)

MayAdd(R, B) ==
  /\ Allowed(B)
  /\ FoundAsSink(R, B) \/ FoundAsDriver(R, B)
  /\ CreatesInput(R, B)  => FoundAsDriver(R, B)
  /\ CreatesOutput(R, B) => FoundAsSink(R, B)

\* Mutant: another region is said to be absorbed but stays.
Add_KeepsRegion(B) ==
  /\ MayAdd(cur, B)
  /\ IF B \in regions
     THEN UNCHANGED <<regions, cur>>
     ELSE /\ cur' = cur \cup B
          /\ regions' = (regions \ {cur}) \cup {cur'}

\* Another region is dissolved, so that its blocks can be added one by one;
\* that counts as growth.  A block is moved into the region.
Add(B) ==
  /\ MayAdd(cur, B)
  /\ IF B \in regions
     THEN regions' = regions \ {B} /\ UNCHANGED cur
     ELSE /\ cur' = cur \cup B
          /\ regions' = (regions \ {cur}) \cup {cur'}

-----------------------------------------------------------------------------
(* ControlRegion::grow: a round tries the drivers, then the sinks.         *)

Upwards   == {Owner(d) : d \in Drivers(cur)}
Downwards == {Owner(x) : x \in Sinks(cur)}

GrowUp ==
  /\ pc = "up"
  /\ \E B \in Upwards : Add(B)
  /\ pc' = "down" /\ grew' = TRUE
  /\ UNCHANGED <<edges, crInputs, seen>>

CannotGrowUp ==
  /\ pc = "up"
  /\ \A B \in Upwards : ~MayAdd(cur, B)
  /\ pc' = "down" /\ grew' = FALSE
  /\ UNCHANGED <<edges, regions, cur, crInputs, seen>>

GrowDown ==
  /\ pc = "down"
  /\ \E B \in Downwards : Add(B)
  /\ pc' = "up"
  /\ UNCHANGED <<edges, grew, crInputs, seen>>

\* When neither direction grew, grow returns and the search goes on from the
\* inputs of the region.
CannotGrowDown ==
  /\ pc = "down"
  /\ \A B \in Downwards : ~MayAdd(cur, B)
  /\ IF grew
     THEN pc' = "up" /\ UNCHANGED <<cur, grew, crInputs>>
     ELSE /\ pc' = "search"
          /\ crInputs' = crInputs \cup ({cur} \X Drivers(cur))
          /\ cur' = {} /\ grew' = FALSE
  /\ UNCHANGED <<edges, regions, seen>>

-----------------------------------------------------------------------------
(* FormControlRegionPass::runInternal.                                     *)

\* The port may be gone: it belonged to a region that was dissolved.
Live(x, d) == (x \in regions \/ (\E n \in Others : x = {n})) /\ d \in Drivers(x)

SkipPort(x, d) ==
  /\ ~Live(x, d)
  /\ crInputs' = crInputs \ {<<x, d>>}
  /\ UNCHANGED <<edges, regions, pc, cur, grew, seen>>

\* A region, or a block that cannot be in one: go on from its inputs, once.
PassThrough(x, d) ==
  LET B == Owner(d) IN
  /\ Live(x, d)
  /\ B \in regions \/ d \in Others
  /\ crInputs' = (crInputs \ {<<x, d>>})
                   \cup (IF B \in seen THEN {} ELSE {B} \X Drivers(B))
  /\ seen' = seen \cup {B}
  /\ UNCHANGED <<edges, regions, pc, cur, grew>>

\* The constructor of ControlRegion adds the seed unconditionally.
Seed(x, d) ==
  /\ Live(x, d)
  /\ d \in Ops /\ Owner(d) \notin regions
  /\ cur' = {d}
  /\ regions' = regions \cup {{d}}
  /\ pc' = "up"
  /\ crInputs' = crInputs \ {<<x, d>>}
  /\ UNCHANGED <<edges, grew, seen>>

\* The order of the queue depends on the numbering of ports: any order.
Search ==
  /\ pc = "search"
  /\ \E ip \in crInputs :
       SkipPort(ip[1], ip[2]) \/ PassThrough(ip[1], ip[2]) \/ Seed(ip[1], ip[2])

\* Regions of one block are dissolved, the others finalized.
Finalize ==
  /\ pc = "search" /\ crInputs = {}
  /\ regions' = {r \in regions : Cardinality(r) > 1}
  /\ pc' = "done" /\ seen' = {}
  /\ UNCHANGED <<edges, cur, grew, crInputs>>

Init ==
  /\ edges \in Graphs
  /\ regions = {}
  /\ pc = "search"
  /\ cur = {} /\ grew = FALSE
  /\ crInputs = UNION {{{t}} \X Drivers({t}) : t \in Start}
  /\ seen = {}

Next == GrowUp \/ CannotGrowUp \/ GrowDown \/ CannotGrowDown \/ Search \/ Finalize

Spec == Init /\ [][Next]_vars

\* The pass is sequential code: it does not stop in the middle.
FairSpec == Spec /\ WF_vars(Next)

-----------------------------------------------------------------------------
(* Properties                                                              *)

\* Closed under the connections inside the region: with a member, all the
\* members it is computed from.
Closed(S, R) == \A m \in S, p \in R : <<p, m>> \in edges => p \in S

\* "All of the outputs rely on all of the inputs" (control_region.hpp:17), the
\* assertion of finalize ("control region may introduce a deadlock"): whatever
\* an output of a region is computed from includes every input of the region.
ReliesOnAll(R, o) ==
  \A S \in SUBSET R :
    o \in S /\ Closed(S, R) =>
      \A d \in Drivers(R) : \E m \in S : <<d, m>> \in edges

OutputsRelyOnInputs == \A R \in regions : \A o \in Exits(R) : ReliesOnAll(R, o)

\* What waits for all of its inputs: the regions, and the ops that are in none.
Waiting ==
  {B \in Blocks : B \subseteq Ops /\ (B \in regions \/ B \cap (UNION regions) = {})}

\* A region waits for all of its inputs before it fires.  Seen from outside,
\* the regions and the ops that are in none still form no cycle of blocks that
\* wait for each other.
NoDeadlockAdded ==
  \A T \in SUBSET Waiting :
    T # {} => \E B \in T : \A C \in T \ {B} : Drivers(B) \cap C = {}

\* The pass comes to an end, although growing may undo regions made before.
Terminates == <>(pc = "done")
=============================================================================
