---------------------------- MODULE ConnectionDB ----------------------------
(***************************************************************************)
(* ConnectionDB (llpm/connection.hpp, .cpp) of one module, with the edits  *)
(* its clients make through it and through Transformer (llpm/transform.cpp)*)
(*                                                                         *)
(* connect and disconnect are the only operations that write the indexes.  *)
(* Every other operation is a series of calls of those two, which `calls'  *)
(* holds while it runs: Step makes the next call, and no operation begins  *)
(* before the last one has returned (the program has one thread).  A call  *)
(* whose assertion would fail or that would throw is not made: the program *)
(* ends there, and NeverAborts says that it does not happen.               *)
(***************************************************************************)
EXTENDS Integers, Sequences, SequencesExt, FiniteSets

CONSTANTS
  Blocks, OutPorts, InPorts,
  Owner,            \* the block a port belongs to
  Type,             \* Port::type() of every port
  None,             \* the null pointer
  Self,             \* _module, the module this database belongs to
  Wrap              \* _changeCounter counts modulo this; 2^64 in the code

ASSUME PortsOwned == Owner \in [OutPorts \cup InPorts -> Blocks]
ASSUME PortsTyped == DOMAIN Type = OutPorts \cup InPorts
ASSUME PortsFinite == IsFiniteSet(InPorts)
ASSUME NoneIsNot == None \notin OutPorts \cup InPorts \cup Blocks /\ None # Self
ASSUME WrapWide == Wrap \in Nat /\ Wrap > 3

VARIABLES
  sinkIdx,          \* _sinkIdx; an absent key is an empty set
  sourceIdx,        \* _sourceIdx; an absent key is None
  useCount,         \* _blockUseCounts, 0 when absent
  known,            \* the keys of _blockUseCounts
  newBlocks,        \* _newBlocks
  changeCounter,    \* _changeCounter
  module,           \* Block::module() of every block
  calls             \* calls the running operation has still to make

indexVars == <<sinkIdx, sourceIdx>>
blockVars == <<useCount, known, newBlocks, module>>
vars      == <<indexVars, blockVars, changeCounter, calls>>

TypeOK ==
  /\ sinkIdx \in [OutPorts -> SUBSET InPorts]
  /\ sourceIdx \in [InPorts -> OutPorts \cup {None}]
  /\ useCount \in [Blocks -> Nat]
  /\ known \subseteq Blocks /\ newBlocks \subseteq Blocks
  /\ changeCounter \in 0..Wrap - 1
  /\ module \in [Blocks -> {None, Self}]

Inputs(b)  == {i \in InPorts  : Owner[i] = b}
Outputs(b) == {o \in OutPorts : Owner[o] = b}

\* exists(c), and the connections begin()..end() runs over.
Exists(o, i) == sourceIdx[i] = o
Connections  == {c \in OutPorts \X InPorts : Exists(c[1], c[2])}

-----------------------------------------------------------------------------
(* The two calls that write.  A self-loop registers its block twice.       *)

bump(n) == changeCounter' = (changeCounter + n) % Wrap

EndsAt(b, o, i) == (IF Owner[o] = b THEN 1 ELSE 0) + (IF Owner[i] = b THEN 1 ELSE 0)

\* registerBlock(o->owner), then registerBlock(i->owner): each sets the
\* module, counts and bumps the change counter.
Register(o, i) ==
  LET ends == {Owner[o], Owner[i]} IN
  /\ known' = known \cup ends
  /\ newBlocks' = newBlocks \cup (ends \ known)
  /\ module' = [b \in Blocks |-> IF b \in ends THEN Self ELSE module[b]]
  /\ useCount' = [b \in Blocks |-> useCount[b] + EndsAt(b, o, i)]

\* Mutant: a self-loop is counted down once.
Deregister_Once(o, i) ==
  /\ useCount' = [b \in Blocks |->
       IF EndsAt(b, o, i) > 0 THEN useCount[b] - 1 ELSE useCount[b]]
  /\ module' = [b \in Blocks |->
       IF EndsAt(b, o, i) > 0 /\ useCount'[b] = 0 THEN None ELSE module[b]]
  /\ UNCHANGED <<known, newBlocks>>

\* Mutant: a block keeps its module when its last connection goes.
Deregister_KeepsModule(o, i) ==
  /\ useCount' = [b \in Blocks |-> useCount[b] - EndsAt(b, o, i)]
  /\ UNCHANGED <<known, newBlocks, module>>

\* deregisterBlock of both: a block nothing counts any more has no module,
\* but stays a key of the map.
Deregister(o, i) ==
  /\ useCount' = [b \in Blocks |-> useCount[b] - EndsAt(b, o, i)]
  /\ module' = [b \in Blocks |->
       IF EndsAt(b, o, i) > 0 /\ useCount'[b] = 0 THEN None ELSE module[b]]
  /\ UNCHANGED <<known, newBlocks>>

MayConnect(o, i) ==
  /\ Type[o] = Type[i]                                      \* or throws
  /\ \A b \in {Owner[o], Owner[i]} : module[b] \in {None, Self}   \* or throws
  /\ sourceIdx[i] = None                                    \* asserted

connect(o, i) ==
  /\ MayConnect(o, i)
  /\ Register(o, i)
  /\ sourceIdx' = [sourceIdx EXCEPT ![i] = o]
  /\ sinkIdx' = [sinkIdx EXCEPT ![o] = @ \cup {i}]
  /\ bump(3)

MayDisconnect(o, i) ==
  /\ sourceIdx[i] \in {o, None}                             \* asserted
  /\ \A b \in Blocks : useCount[b] >= EndsAt(b, o, i)       \* asserted

\* Mutant: the sink index is left alone.
disconnect_OneIndex(o, i) ==
  /\ MayDisconnect(o, i)
  /\ sourceIdx' = [sourceIdx EXCEPT ![i] = None]
  /\ UNCHANGED sinkIdx
  /\ Deregister(o, i)
  /\ bump(1)

\* Mutant: the change counter is left alone.
disconnect_Unseen(o, i) ==
  /\ MayDisconnect(o, i)
  /\ sourceIdx' = [sourceIdx EXCEPT ![i] = None]
  /\ sinkIdx' = [sinkIdx EXCEPT ![o] = @ \ {i}]
  /\ Deregister(o, i)
  /\ UNCHANGED changeCounter

disconnect(o, i) ==
  /\ MayDisconnect(o, i)
  /\ sourceIdx' = [sourceIdx EXCEPT ![i] = None]
  /\ sinkIdx' = [sinkIdx EXCEPT ![o] = @ \ {i}]
  /\ Deregister(o, i)
  /\ bump(1)

-----------------------------------------------------------------------------
(* Calls of a running operation.                                           *)

Con(o, i) == <<"connect", o, i>>
Dis(o, i) == <<"disconnect", o, i>>
Rem(b)    == <<"removeBlock", b>>

\* The orders a pass over a std::set of port pointers can take.
Orders(S) == SetToSeqs(S)

DisAll(conns) == [n \in DOMAIN conns |-> Dis(conns[n][1], conns[n][2])]
ConAll(o, ins) == [n \in DOMAIN ins |-> Con(o, ins[n])]

\* Disconnect each of o's sinks and connect it to new before the next one.
Move(o, new, ins) ==
  IF new = None
  THEN [n \in DOMAIN ins |-> Dis(o, ins[n])]
  ELSE [n \in 1..2 * Len(ins) |-> IF n % 2 = 1 THEN Dis(o, ins[(n + 1) \div 2])
                                               ELSE Con(new, ins[n \div 2])]

\* Mutant: find lists a self-loop among the inputs too.
RemoveBlockStep_Twice(b) ==
  /\ \E outs \in Orders({c \in Connections : Owner[c[1]] = b}),
        ins  \in Orders({c \in Connections : Owner[c[2]] = b}) :
       calls' = DisAll(outs) \o DisAll(ins) \o Tail(calls)
  /\ UNCHANGED <<indexVars, blockVars, changeCounter>>

\* find(b): the connections of the outputs, then those of the inputs that do
\* not come from the block itself, which would be listed twice.
RemoveBlockStep(b) ==
  /\ \E outs \in Orders({c \in Connections : Owner[c[1]] = b}),
        ins  \in Orders({c \in Connections : Owner[c[2]] = b /\ Owner[c[1]] # b}) :
       calls' = DisAll(outs) \o DisAll(ins) \o Tail(calls)
  /\ UNCHANGED <<indexVars, blockVars, changeCounter>>

Step ==
  /\ calls # << >>
  /\ \/ \E o \in OutPorts, i \in InPorts :
          /\ \/ Head(calls) = Con(o, i) /\ connect(o, i)
             \/ Head(calls) = Dis(o, i) /\ disconnect(o, i)
          /\ calls' = Tail(calls)
     \/ \E b \in Blocks : Head(calls) = Rem(b) /\ RemoveBlockStep(b)

-----------------------------------------------------------------------------
(* The operations.  Their guards are what their callers respect: an input   *)
(* that is connected has no driver, and what takes another port's place has *)
(* its type.  (A caller that does not is in Simplify, where the removal of  *)
(* a Router throws.)                                                        *)

\* Whether port p may take the place of port q, or be connected to it.
Fits(p, q) == Type[p] = Type[q]

Begin(todo, bumps) ==
  /\ calls = << >>
  /\ calls' = todo
  /\ bump(bumps)
  /\ UNCHANGED <<indexVars, blockVars>>

Undriven(i) == sourceIdx[i] = None

Connect(o, i)    == Fits(o, i) /\ Undriven(i) /\ Begin(<<Con(o, i)>>, 0)
Disconnect(o, i) == Exists(o, i) /\ Begin(<<Dis(o, i)>>, 0)

\* remap of an input port to a vector of ports.
RemapIn(i, S) ==
  /\ \A n \in S : Fits(n, i) /\ (Undriven(n) \/ n = i)
  /\ IF Undriven(i)
     THEN Begin(<< >>, 1)
     ELSE LET o == sourceIdx[i] IN
          \E order \in Orders(S) :
            Begin(<<Dis(o, i)>> \o ConAll(o, order), 1)

\* remap of an output port; to nullptr it only disconnects.
RemapOut(o, new) ==
  /\ new # None => Fits(new, o)
  /\ \E order \in Orders(sinkIdx[o]) :
       Begin(Move(o, new, order), 1)

\* Transformer::insertBetween.
InsertBetween(o, i, nip, nop) ==
  /\ Exists(o, i) /\ Undriven(nip) /\ Fits(nip, o) /\ Fits(nop, i)
  /\ Begin(<<Dis(o, i), Con(o, nip), Con(nop, i)>>, 0)

\* Mutant: the sinks are read after the new connection was made.
InsertAfter_Late(o, nip, nop) ==
  /\ Undriven(nip) /\ Fits(nip, o) /\ Fits(nop, o)
  /\ \E order \in Orders(sinkIdx[o] \cup {nip}) :
       Begin(<<Con(o, nip)>> \o Move(o, nop, order), 0)

\* Transformer::insertAfter.
InsertAfter(o, nip, nop) ==
  /\ Undriven(nip) /\ Fits(nip, o) /\ Fits(nop, o)
  /\ \E order \in Orders(sinkIdx[o]) :
       Begin(Move(o, nop, order) \o <<Con(o, nip)>>, 0)

\* Transformer::remove.  The sinks are read after the input was disconnected.
TransformerRemove(b, ip, op) ==
  /\ Inputs(b) = {ip} /\ Outputs(b) = {op} /\ Fits(op, ip)
  /\ LET driver == sourceIdx[ip] IN
     \E order \in Orders(sinkIdx[op] \ {ip}) :
       Begin((IF driver = None THEN << >> ELSE <<Dis(driver, ip)>>)
               \o Move(op, driver, order) \o <<Rem(b)>>, 0)

\* Transformer::trash: the inputs first, then what is left of the outputs.
Trash(b) ==
  \E ins  \in Orders({c \in Connections : Owner[c[2]] = b}),
     outs \in Orders({c \in Connections : Owner[c[1]] = b /\ Owner[c[2]] # b}) :
       Begin(DisAll(ins) \o DisAll(outs) \o <<Rem(b)>>, 0)

RemoveBlock(b) == Begin(<<Rem(b)>>, 0)

\* clearNewBlocks, readAndClearNewBlocks.
ClearNewBlocks ==
  /\ calls = << >> /\ newBlocks # {}
  /\ newBlocks' = {}
  /\ UNCHANGED <<indexVars, useCount, known, module, changeCounter, calls>>

-----------------------------------------------------------------------------

Init ==
  /\ sinkIdx = [o \in OutPorts |-> {}]
  /\ sourceIdx = [i \in InPorts |-> None]
  /\ useCount = [b \in Blocks |-> 0]
  /\ known = {} /\ newBlocks = {}
  /\ changeCounter = 0
  /\ module = [b \in Blocks |-> None]
  /\ calls = << >>

Operation ==
  \/ \E o \in OutPorts, i \in InPorts : Connect(o, i) \/ Disconnect(o, i)
  \/ \E i \in InPorts, S \in SUBSET InPorts : RemapIn(i, S)
  \/ \E o \in OutPorts, new \in OutPorts \cup {None} : RemapOut(o, new)
  \/ \E b \in Blocks :
       \/ \E ip \in InPorts, op \in OutPorts :
            \/ TransformerRemove(b, ip, op)
            \/ \E nip \in Inputs(b), nop \in Outputs(b) :
                 InsertBetween(op, ip, nip, nop) \/ InsertAfter(op, nip, nop)
       \/ Trash(b)
       \/ RemoveBlock(b)
  \/ ClearNewBlocks

Next == Step \/ Operation

Spec == Init /\ [][Next]_vars

-----------------------------------------------------------------------------
(* The connections when the running operation returns: its calls cut some, *)
(* then make some, and a removeBlock, the last of them, cuts what is left   *)
(* at its block.                                                           *)

Outcome(conns, todo) ==
  LET Has(call) == call \in Range(todo) IN
  {c \in OutPorts \X InPorts :
     /\ Has(Con(c[1], c[2])) \/ (c \in conns /\ ~Has(Dis(c[1], c[2])))
     /\ ~Has(Rem(Owner[c[1]])) /\ ~Has(Rem(Owner[c[2]]))}

goal == Outcome(Connections, calls)

Net == INSTANCE Netlist WITH conns <- goal

-----------------------------------------------------------------------------
(* Properties                                                              *)

\* Every operation, whatever the number of its calls, self-loops and the order
\* of its passes over sets of ports, is one step of the netlist: the one it
\* takes when it begins, and the connections are just that when it returns.
NetlistSpec == Net!Spec

\* The two indexes are each other's inverse, also between the calls of an
\* operation: findSource and findSinks never contradict each other.
IndexesAgree ==
  \A o \in OutPorts, i \in InPorts : i \in sinkIdx[o] <=> Exists(o, i)

\* A block is counted once for each end of a connection at one of its ports,
\* a self-loop twice.
Drives(b) == {i \in InPorts : sourceIdx[i] # None /\ Owner[sourceIdx[i]] = b}
Fed(b)    == {i \in InPorts : sourceIdx[i] # None /\ Owner[i] = b}
Ends(b)   == Cardinality(Drives(b)) + Cardinality(Fed(b))

UsesCounted == \A b \in Blocks : useCount[b] = Ends(b)

\* A block belongs to the module exactly as long as a connection touches it:
\* it is neither disowned while in use nor kept when its last one goes.
OwnedWhileUsed == \A b \in Blocks : module[b] = Self <=> useCount[b] > 0

\* No operation that is called as its callers do runs into an assertion or
\* an exception halfway, with some of its calls made and the others not.
NeverAborts ==
  \A o \in OutPorts, i \in InPorts :
    calls # << >> =>
      /\ Head(calls) = Con(o, i) => MayConnect(o, i)
      /\ Head(calls) = Dis(o, i) => MayDisconnect(o, i) /\ Exists(o, i)

\* Whatever changes the connections or the blocks in use also changes the
\* change counter, by which Cache and Refinery::refine tell a stale answer.
ChangesSeen ==
  [][(indexVars' # indexVars \/ useCount' # useCount) =>
       changeCounter' # changeCounter]_vars
=============================================================================
