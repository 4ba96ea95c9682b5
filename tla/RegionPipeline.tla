--------------------------- MODULE RegionPipeline ---------------------------
(***************************************************************************)
(* A control region from its last block to its clock: ControlRegion::       *)
(* finalize takes out the Waits and Forks and joins the outputs,            *)
(* SynthesizeForksPass forks, PipelineFrequencyPass puts registers where    *)
(* the clock needs them, ControlRegion::schedule balances the other paths   *)
(* and gives each register a stage, and writeCRControl prints the control:  *)
(* one PipelineStageController for each stage, which clocks its             *)
(* PipelineReg_Slave registers.  Then the region runs: all inputs are taken *)
(* at once, and a step is the clock edge that ends a cycle.                 *)
(*                                                                         *)
(* A region is a function from blocks to their class and their inputs, and   *)
(* a set of wires <<output, input>>; a port is <<block, name>>.  The name of *)
(* a block that is inserted says where, so it is a new one.  A token is its  *)
(* number on its input; a value is the set of the tokens it was computed     *)
(* from.                                                                   *)
(***************************************************************************)
EXTENDS Naturals, SequencesExt

CONSTANTS
  Regions,    \* the regions, before they are finalized
  MaxLate,    \* how many outputs are too late for the clock
  MaxTokens   \* bound: how many tokens each input offers after a reset

ASSUME BoundsNat == MaxLate \in Nat /\ MaxTokens \in Nat

Block(class, ins) == [class |-> class, ins |-> ins]

\* Every input has one driver, and the wires go from lower to higher blocks.
IsNetlist(bs, ws) ==
  /\ IsFiniteSet(DOMAIN bs) /\ IsFiniteSet(ws)
  /\ \A b \in DOMAIN bs : bs[b] = Block(bs[b].class, bs[b].ins) /\ IsFiniteSet(bs[b].ins)
  /\ \A w \in ws : /\ w = <<<<w[1][1], w[1][2]>>, <<w[2][1], w[2][2]>>>>
                   /\ {w[1][1], w[2][1]} \subseteq DOMAIN bs /\ w[2][2] \in bs[w[2][1]].ins
  /\ \A b \in DOMAIN bs : \A n \in bs[b].ins : \E w \in ws : w[2] = <<b, n>>
  /\ \A v, w \in ws : v[2] = w[2] => v = w
IsRanked(bs, ws, height) ==
  \E rank \in [DOMAIN bs -> 1..height] : \A w \in ws : rank[w[1][1]] < rank[w[2][1]]

\* What the ports of each class are; a Wait gives on what comes in at its first.
Ports == [Input |-> {{}}, Constant |-> {{}}, Output |-> {{1}}, Fork |-> {{1}}]
IsRegion(r) ==
  /\ IsNetlist(r.blocks, r.wires) /\ IsRanked(r.blocks, r.wires, Cardinality(DOMAIN r.blocks))
  /\ \A b \in DOMAIN r.blocks :
       /\ b = <<b[1]>>
       /\ r.blocks[b].class \in DOMAIN Ports => r.blocks[b].ins \in Ports[r.blocks[b].class]
       /\ r.blocks[b].class = "Wait" => 1 \in r.blocks[b].ins
       /\ r.blocks[b].class # "PipelineRegister"
  /\ \A w \in r.wires : r.blocks[w[1][1]].class # "Output"
  /\ \E b \in DOMAIN r.blocks : r.blocks[b].class = "Output"

ASSUME RegionsOK == \A r \in Regions : IsRegion(r)

VARIABLES
  region,        \* the region before it was finalized
  blocks, wires, \* the region now
  phase,         \* what is done with it
  stats,         \* PipelineDepthVisitor: the depth and the visits of each block
  queue,         \* the wires the search has still to visit
  todo,          \* the blocks that schedule has still to balance
  constants,     \* the blocks that constants alone drive
  clocks,        \* the stages
  valid,         \* the valid bit of each stage controller
  data,          \* the registers
  x_valid,       \* the inputs that have a token in the current cycle
  accepted,      \* history: how many tokens each input took since reset
  delivered      \* history: the values given on the output since reset

netVars == <<blocks, wires>>
scheduleVars == <<stats, queue, todo, constants, clocks>>
circuitVars == <<valid, data, x_valid, accepted, delivered>>
vars == <<region, netVars, phase, scheduleVars, circuitVars>>

-----------------------------------------------------------------------------
(* The netlist                                                             *)

Class(b)   == blocks[b].class
All(class) == {b \in DOMAIN blocks : Class(b) = class}
IsReg(b)   == Class(b) = "PipelineRegister"
Into(b)    == {w \in wires : w[2][1] = b}
Behind(b)  == {w \in wires : w[1][1] = b}
Drivers(b) == {w[1][1] : w \in Into(b)}
Largest(S) == CHOOSE n \in S : \A m \in S : m <= n

Init ==
  /\ region \in Regions
  /\ blocks = region.blocks /\ wires = region.wires
  /\ phase = "finalize"
  /\ stats = <<>> /\ queue = <<>> /\ todo = {} /\ constants = {} /\ clocks = 0
  /\ valid = <<>> /\ data = <<>>
  /\ x_valid = [i \in All("Input") |-> FALSE] /\ accepted = [i \in All("Input") |-> 0] /\ delivered = <<>>

\* A Wait or Fork becomes wires from what drives its first input.
Eliminate(b) ==
  /\ phase = "finalize" /\ b \in All("Wait") \cup All("Fork")
  /\ LET source == (CHOOSE w \in wires : w[2] = <<b, 1>>)[1]
     IN  wires' = {w \in wires : b \notin {w[1][1], w[2][1]}} \cup {<<source, w[2]>> : w \in Behind(b)}
  /\ blocks' = [c \in DOMAIN blocks \ {b} |-> blocks[c]]
  /\ UNCHANGED <<region, phase, scheduleVars, circuitVars>>

\* One Join and one output in the place of several outputs.
unifyOutput ==
  /\ phase = "finalize" /\ All("Wait") \cup All("Fork") = {}
  /\ phase' = "simplify"
  /\ LET outs == All("Output")
         join == <<"unify", "join">>
         out  == <<"unify", "out">>
     IN  IF Cardinality(outs) <= 1 THEN UNCHANGED netVars
         ELSE /\ wires' = {IF w[2][1] \in outs THEN <<w[1], <<join, w[2][1]>>>> ELSE w : w \in wires}
                            \cup {<<<<join, 1>>, <<out, 1>>>>}
              /\ blocks' = [b \in (DOMAIN blocks \ outs) \cup {join, out} |->
                              CASE b = join -> Block("Join", outs)
                                [] b = out  -> Block("Output", {1})
                                [] OTHER    -> blocks[b]]
  /\ UNCHANGED <<region, scheduleVars, circuitVars>>

\* The ports of the region stay and what reaches one; the pass runs until no
\* other block is left.
Simplify ==
  /\ phase = "simplify" /\ phase' = "forks"
  /\ \E used \in SUBSET DOMAIN blocks :
       /\ \A b \in DOMAIN blocks :
            b \in used <=> Class(b) \in {"Input", "Output"} \/ \E w \in Behind(b) : w[2][1] \in used
       /\ wires' = {w \in wires : w[2][1] \in used}
       /\ blocks' = [b \in used |-> blocks[b]]
  /\ UNCHANGED <<region, scheduleVars, circuitVars>>

\* Behind the output of each taken wire a block of its own, which drives what
\* the taken wires drove, each from the output that leg says.
Place(tag, o) == <<tag, o>>
InsertAfter(tag, class, taken, leg) ==
  LET new == {Place(tag, w[1]) : w \in taken}
  IN  /\ wires' = (wires \ taken) \cup {<<w[1], <<Place(tag, w[1]), 1>>>> : w \in taken}
                    \cup {<<<<Place(tag, w[1]), leg[w]>>, w[2]>> : w \in taken}
      /\ blocks' = [b \in DOMAIN blocks \cup new |-> IF b \in new THEN Block(class, {1}) ELSE blocks[b]]
dout == [w \in wires |-> 1]

\* In a region every fork is virtual: it is wires.
SynthesizeForks ==
  /\ phase = "forks" /\ phase' = "frequency"
  /\ InsertAfter("fork", "VirtualFork", {w \in wires : \E v \in wires \ {w} : v[1] = w[1]}, [w \in wires |-> w[2]])
  /\ UNCHANGED <<region, scheduleVars, circuitVars>>

\* What constants alone drive (queries::FindConstants), and what the delays of
\* the inputs reach.
AreConstants(bs) ==
  \A b \in DOMAIN blocks :
    b \in bs <=> Class(b) = "Constant" \/ (blocks[b].ins # {} /\ Drivers(b) \subseteq bs)
AreReached(bs) ==
  \A b \in DOMAIN blocks : b \in bs <=> Class(b) = "Input" \/ Drivers(b) \cap bs # {}

\* Registers behind the outputs too late for the clock; which they are is left open.
PipelineFrequency ==
  /\ phase = "frequency" /\ phase' = "depths"
  /\ constants' \in {bs \in SUBSET DOMAIN blocks : AreConstants(bs)}
  /\ \E reached \in {bs \in SUBSET DOMAIN blocks : AreReached(bs)} :
       \E late \in SUBSET {w[1] : w \in {v \in wires : v[1][1] \in reached}} :
         /\ Cardinality(late) <= MaxLate
         /\ InsertAfter("reg", "PipelineRegister", {w \in wires : w[1] \in late}, dout)
  /\ stats' = [b \in DOMAIN blocks' |-> [depth |-> 0, visits |-> 0]]
  /\ queue' \in SetToSeqs({w \in wires' : blocks'[w[1][1]].ins = {}})
  /\ UNCHANGED <<region, todo, clocks, circuitVars>>

-----------------------------------------------------------------------------
(* Scheduling                                                              *)

\* The depth a wire brings to its sink: the registers before it.
Brings(w) == stats[w[1][1]].depth + (IF IsReg(w[1][1]) THEN 1 ELSE 0)

\* The search goes on behind a block the first time it comes to it.
VisitWire_Early ==
  /\ phase = "depths" /\ queue # <<>>
  /\ LET dst == Head(queue)[2][1]
         st == [depth |-> Largest({Brings(Head(queue)), stats[dst].depth}), visits |-> stats[dst].visits + 1]
     IN  /\ stats' = [stats EXCEPT ![dst] = st]
         /\ queue' = Tail(queue) \o (IF st.visits = 1 THEN SetToSeq(Behind(dst)) ELSE <<>>)
  /\ UNCHANGED <<region, netVars, phase, todo, constants, clocks, circuitVars>>

\* The search goes on behind a block when it has come to all its inputs.
VisitWire ==
  /\ phase = "depths" /\ queue # <<>>
  /\ LET dst == Head(queue)[2][1]
         st == [depth |-> Largest({Brings(Head(queue)), stats[dst].depth}), visits |-> stats[dst].visits + 1]
     IN  /\ stats' = [stats EXCEPT ![dst] = st]
         /\ queue' = Tail(queue) \o (IF st.visits >= Cardinality(blocks[dst].ins) THEN SetToSeq(Behind(dst)) ELSE <<>>)
  /\ UNCHANGED <<region, netVars, phase, todo, constants, clocks, circuitVars>>

StartBalance ==
  /\ phase = "depths" /\ queue = <<>>
  /\ phase' = "balance" /\ todo' = DOMAIN blocks
  /\ UNCHANGED <<region, netVars, stats, queue, constants, clocks, circuitVars>>

Carry(w) == stats[w[2][1]].depth - stats[w[1][1]].depth

\* The wires that need a register more.
TooShort_Any(b) == {w \in Behind(b) : Carry(w) > 1}
TooShort(b) == {w \in Behind(b) : Carry(w) > IF IsReg(b) THEN 1 ELSE 0}

\* One register for all the wires of an output that cross a stage; it is
\* balanced in turn.
Balance(b) ==
  /\ phase = "balance" /\ todo # {} /\ b = (CHOOSE c \in todo : TRUE)
  /\ LET long == IF b \in constants THEN {} ELSE TooShort(b)
         regs == {Place("balance", w[1]) : w \in long}
         depth == stats[b].depth + (IF IsReg(b) THEN 1 ELSE 0)
         agree == b \in constants \/ \A w \in Behind(b) :   \* asserted
                    stats[w[2][1]].depth >= stats[b].depth /\ ~(IsReg(b) /\ Carry(w) = 0)
     IN  IF ~agree THEN phase' = "aborted" /\ UNCHANGED <<netVars, stats, todo>>
         ELSE /\ InsertAfter("balance", "PipelineRegister", long, dout)
              /\ stats' = [c \in DOMAIN stats \cup regs |->
                             IF c \in regs THEN [depth |-> depth, visits |-> 1] ELSE stats[c]]
              /\ todo' = (todo \ {b}) \cup regs
              /\ UNCHANGED phase
  /\ UNCHANGED <<region, queue, constants, clocks, circuitVars>>

\* A stage for every register, and a region with one output to control.
AssignStages ==
  /\ phase = "balance" /\ todo = {}
  /\ LET last == Largest({stats[b].depth : b \in DOMAIN stats})
         fit == /\ \A b \in DOMAIN stats : stats[b].visits = Cardinality(blocks[b].ins)   \* asserted
                /\ \A b \in All("PipelineRegister") : Behind(b) # {} /\ stats[b].depth < last
                /\ last > 0 => All("Input") # {} /\ Cardinality(All("Output")) = 1
     IN  IF fit THEN /\ phase' = "run" /\ clocks' = last
                     /\ valid' = [s \in 1..last |-> FALSE]
                     /\ data' = [b \in All("PipelineRegister") |-> {}]
                ELSE phase' = "aborted" /\ UNCHANGED <<clocks, valid, data>>
  /\ UNCHANGED <<region, netVars, stats, queue, todo, constants, x_valid, accepted, delivered>>

-----------------------------------------------------------------------------
(* The circuit                                                             *)

\* What the outputs of each block show in this cycle, and what comes to a block.
value[b \in DOMAIN blocks] ==
  CASE Class(b) = "Input" -> {<<b, IF x_valid[b] THEN accepted[b] + 1 ELSE 0>>}
    [] IsReg(b)           -> data[b]
    [] OTHER              -> UNION {value[c] : c \in Drivers(b)}
Arriving(b) == UNION {value[c] : c \in Drivers(b)}

cr_valid == \A i \in All("Input") : x_valid[i]
cr_bp(out_bp) == (clocks = 0 /\ ~cr_valid) \/ out_bp

\* A controller's vin is the join of the inputs or the previous controller; its
\* vout goes to the next controller or to the output.
vin_valid(s) == IF s = 1 THEN cr_valid ELSE valid[s - 1]
vin_bp(s)    == valid[s] \/ ~vin_valid(s)
vout_bp(s, out_bp) == IF s = clocks THEN cr_bp(out_bp) ELSE vin_bp(s + 1)
Incoming(s)  == vin_valid(s) /\ ~vin_bp(s)
Outgoing(s, out_bp) == valid[s] /\ ~vout_bp(s, out_bp)

in_bp(out_bp) == IF clocks > 0 THEN vin_bp(1) ELSE cr_bp(out_bp)
out_valid     == IF clocks > 0 THEN valid[clocks] ELSE cr_valid
out           == Arriving(CHOOSE b \in All("Output") : TRUE)

\* A stage that is not filled again is emptied.
StageControllers_Forget(out_bp) == valid' = [s \in 1..clocks |-> Incoming(s)]

\* PipelineStageController: emptying a stage takes precedence over filling it.
StageControllers(out_bp) ==
  valid' = [s \in 1..clocks |-> ~Outgoing(s, out_bp) /\ (Incoming(s) \/ valid[s])]

\* PipelineReg_Slave: a stage's registers load when its controller takes a token.
SlaveRegisters ==
  data' = [r \in DOMAIN data |-> IF Incoming(stats[r].depth + 1) THEN Arriving(r) ELSE data[r]]

Transfer(out_bp) ==
  /\ accepted' = [i \in DOMAIN accepted |-> accepted[i] + (IF x_valid[i] /\ ~in_bp(out_bp) THEN 1 ELSE 0)]
  /\ delivered' = IF out_valid /\ ~out_bp THEN Append(delivered, out) ELSE delivered

\* What the neighbours drive next; each input stops after MaxTokens tokens.
Drive ==
  /\ x_valid' \in [DOMAIN x_valid -> BOOLEAN]
  /\ \A i \in DOMAIN x_valid : x_valid'[i] => accepted'[i] < MaxTokens

Clock(out_bp) ==
  /\ phase = "run"
  /\ StageControllers(out_bp) /\ SlaveRegisters /\ Transfer(out_bp) /\ Drive
  /\ UNCHANGED <<region, netVars, phase, scheduleVars>>

\* The registers lose what they hold.
Reset ==
  /\ phase = "run"
  /\ valid' = [s \in 1..clocks |-> FALSE] /\ data' = [r \in DOMAIN data |-> {}]
  /\ accepted' = [i \in DOMAIN accepted |-> 0] /\ delivered' = <<>>
  /\ Drive
  /\ UNCHANGED <<region, netVars, phase, scheduleVars>>

Build ==
  \/ (\E b \in DOMAIN blocks : Eliminate(b)) \/ unifyOutput \/ Simplify \/ SynthesizeForks \/ PipelineFrequency
  \/ VisitWire \/ StartBalance \/ (\E b \in todo : Balance(b)) \/ AssignStages

Next == Build \/ Reset \/ (\E out_bp \in BOOLEAN : Clock(out_bp))

Spec == Init /\ [][Next]_vars

\* The clock ticks, the consumer is ready again and again, and there is a last
\* reset.
FairSpec ==
  /\ Spec
  /\ WF_vars(Clock(FALSE))
  /\ <>[][~Reset]_vars

-----------------------------------------------------------------------------
(* Properties                                                              *)

\* The compiler meets all its assertions: no wire goes back in depth, every
\* block is reached through all its inputs, every register has a stage, and
\* there is one output to control (schedule, writeCRControl).
ScheduleSound == phase # "aborted"

\* The inputs that the outputs were computed from before the region was
\* finalized; what a Wait waits for gives no value.
needs[b \in DOMAIN region.blocks] ==
  LET r == region
      from == {w[1][1] : w \in {v \in r.wires : v[2][1] = b /\ (r.blocks[b].class = "Wait" => v[2][2] = 1)}}
  IN  IF r.blocks[b].class = "Input" THEN {b} ELSE UNION {needs[c] : c \in from}
Needed == UNION {needs[b] : b \in {c \in DOMAIN region.blocks : region.blocks[c].class = "Output"}}

\* An output is computed from an input: every set of blocks that has the inputs,
\* and what is computed from a block of it, has an output.
Computes(r) ==
  \A S \in SUBSET DOMAIN r.blocks :
    (\A b \in DOMAIN r.blocks :
       \/ r.blocks[b].class = "Input"
       \/ \E w \in r.wires : w[2][1] = b /\ (r.blocks[b].class = "Wait" => w[2][2] = 1) /\ w[1][1] \in S
       => b \in S)
    => \E b \in S : r.blocks[b].class = "Output"

\* The firings that every input has taken its token for, and those delivered; a
\* value that mixes tokens of two firings is none.
Firings == [k \in 1..(CHOOSE n \in Range(accepted) : \A m \in Range(accepted) : n <= m) |-> k]
Results ==
  [k \in DOMAIN delivered |->
     IF \E n \in 1..MaxTokens : delivered[k] = {<<i, n>> : i \in Needed}
     THEN CHOOSE n \in 1..MaxTokens : delivered[k] = {<<i, n>> : i \in Needed} ELSE 0]

Channel == INSTANCE LIChannel
  WITH Token <- 1..MaxTokens, Capacity <- MaxLate, Bypass <- TRUE, accepted <- Firings, delivered <- Results

\* Wherever the registers are and however the neighbours stall, the region is a
\* channel: its n-th result is computed from the n-th token of every input and
\* from no other, and none is lost, repeated or overtaken.
ChannelSpec == Channel!Spec

\* Every firing comes out, unless a reset discards it.
EventuallyDelivered ==
  \A n \in 1..MaxTokens :
    Len(Firings) >= n ~> (Len(delivered) >= n \/ Len(Firings) < n)
=============================================================================
