------------------------------- MODULE Passes -------------------------------
(***************************************************************************)
(* The optimizations of a design that make a netlist printable, in the      *)
(* order design_opts.cpp gives them: PipelineDependentsPass,                *)
(* LatchUntiedOutputs, SynthesizeForksPass, PipelineFrequencyPass,          *)
(* PipelineCyclesPass with the depth-first search of FindCycle, and         *)
(* CheckConnectionsPass.                                                    *)
(*                                                                         *)
(* A netlist is a function from blocks to their class and numbers of ports, *)
(* and a set of wires <<output, input>>; a port is <<block, number>>.  The  *)
(* sets a pass walks through are ordered by address, so any order is a      *)
(* behaviour.                                                               *)
(***************************************************************************)
EXTENDS Naturals, SequencesExt

CONSTANTS
  Netlists,   \* the netlists that may be compiled
  MaxSlow     \* how many outputs are too late for the clock

\* A block of the module has a name of one part: the passes give their new
\* blocks longer ones.  A wire joins an output and an input that exist, an
\* input has one source, and a Split takes apart a record that is not its own.
WellFormed(n) ==
  /\ IsFiniteSet(n.wires)
  /\ \A b \in DOMAIN n.blocks :
       /\ DOMAIN b = {1}
       /\ n.blocks[b].ins \in Nat /\ n.blocks[b].outs \in Nat
       /\ n.blocks[b].class \in {"Input", "Never"} => n.blocks[b].ins = 0
       /\ n.blocks[b].class = "PipelineRegister" => n.blocks[b].ins = 1 /\ n.blocks[b].outs = 1
       /\ n.blocks[b].class = "Split" =>
            /\ n.blocks[b].ins = 1
            /\ \E w \in n.wires : w[2] = <<b, 1>> /\ w[1][1] # b
  /\ \A w \in n.wires :
       /\ w = <<<<w[1][1], w[1][2]>>, <<w[2][1], w[2][2]>>>>
       /\ w[1][1] \in DOMAIN n.blocks /\ w[1][2] \in 1..n.blocks[w[1][1]].outs
       /\ w[2][1] \in DOMAIN n.blocks /\ w[2][2] \in 1..n.blocks[w[2][1]].ins
  /\ \A v, w \in n.wires : v[2] = w[2] => v = w

ASSUME NetlistsOK == /\ \A n \in Netlists : WellFormed(n)
                     /\ MaxSlow \in Nat

VARIABLES
  original,   \* the netlist before the passes
  blocks, wires,
  clocked,    \* a clock frequency was given
  pass,       \* the pass at work
  todo,       \* what it has still to visit
  queue, seen, stack, cycle   \* the search for a cycle, and the cycle found

net == <<blocks, wires>>
search == <<queue, seen, stack, cycle>>
vars == <<original, net, clocked, pass, todo, search>>

-----------------------------------------------------------------------------
(* Netlists                                                                *)

Block(class, ins, outs) == [class |-> class, ins |-> ins, outs |-> outs, field |-> 0]
\* The first field whatever is asked for.
Extract_First(k) == [class |-> "Extract", ins |-> 1, outs |-> 1, field |-> 1]
Extract(k) == [class |-> "Extract", ins |-> 1, outs |-> 1, field |-> k]

Is(b, class)  == blocks[b].class = class
Outputs(b)    == {<<b, n>> : n \in 1..blocks[b].outs}
Inputs(b)     == {<<b, n>> : n \in 1..blocks[b].ins}
AllOutputs    == UNION {Outputs(b) : b \in DOMAIN blocks}
AllInputs     == UNION {Inputs(b) : b \in DOMAIN blocks}
Sinks(o)      == {w[2] : w \in {x \in wires : x[1] = o}}
Drivers(i)    == {w[1] : w \in {x \in wires : x[2] = i}}
IsPipelineReg(b) == Is(b, "PipelineRegister")

\* A Router fires one output; the outputs of a Fork are buffered.
OutputsSeparate(b) == blocks[b].class \in {"Fork", "VirtualFork", "Router"}
OutputsTied(b)     == blocks[b].outs <= 1 \/ ~Is(b, "Router")
\* The outputs that an input may affect.
Deps(i)            == Outputs(i[1])

\* The sinks keep their old driver.
After_KeepsWires(ws, id) ==
  ws \cup {<<<<id[w[1]], 1>>, w[2]>> : w \in {x \in ws : x[1] \in DOMAIN id}}
     \cup {<<o, <<id[o], 1>>>> : o \in DOMAIN id}

\* Each output of id has its block of id between itself and all its sinks.
After(ws, id) ==
  {IF w[1] \in DOMAIN id THEN <<<<id[w[1]], 1>>, w[2]>> ELSE w : w \in ws}
    \cup {<<o, <<id[o], 1>>>> : o \in DOMAIN id}

\* The blocks bs and new ones.
With(bs, new) == [b \in DOMAIN new \cup DOMAIN bs |-> IF b \in DOMAIN new THEN new[b] ELSE bs[b]]

InsertAfter(class, id) ==
  /\ blocks' = With(blocks, [b \in Range(id) |-> Block(class, 1, 1)])
  /\ wires' = After(wires, id)

\* All that can be reached from a set of nodes, where next gives their successors.
Closure(next, from) ==
  LET within[n \in 0..Cardinality(DOMAIN next)] ==
        IF n = 0 THEN from
        ELSE UNION {IF x \in DOMAIN next THEN {x} \cup next[x] ELSE {x} : x \in within[n - 1]}
  IN  within[Cardinality(DOMAIN next)]

\* The blocks that only constants drive.
FindConstants ==
  LET constant[known \in SUBSET DOMAIN blocks] ==
        LET more == {b \in DOMAIN blocks : blocks[b].ins > 0
                       /\ \A i \in Inputs(b) : \E o \in Drivers(i) : o[1] \in known}
        IN  IF more \subseteq known THEN known ELSE constant[known \cup more]
  IN  constant[{b \in DOMAIN blocks : Is(b, "Constant")}]

\* The inputs an output reaches without a pipeline register; FindConsumers
\* keeps those where a path ends.
FindConsumers(o) ==
  LET onward == [i \in {j \in AllInputs : ~IsPipelineReg(j[1])} |-> UNION {Sinks(q) : q \in Deps(i)}]
  IN  {i \in Closure(onward, Sinks(o)) : i \in DOMAIN onward /\ onward[i] = {}}

-----------------------------------------------------------------------------
(* The passes                                                              *)

Order == <<"dependents", "latches", "forks", "recombine", "frequency", "cycles", "connections", "done">>

\* internalDrivers, and the outputs of the blocks that the search ignores.
Starts == {w \in wires : Is(w[1][1], "Input") \/ IsPipelineReg(w[1][1])}

Work(p) ==
  CASE p = "dependents"  -> {b \in DOMAIN blocks : ~OutputsSeparate(b) /\ blocks[b].outs > 1}
    [] p = "latches"     -> UNION {Outputs(b) : b \in {c \in DOMAIN blocks : ~OutputsTied(c)}}
    [] p = "forks"       -> {o \in AllOutputs : Cardinality(Sinks(o)) > 1}
    [] p = "recombine"   -> {f \in {<<"fork", o>> : o \in AllOutputs} \cap DOMAIN blocks : Is(f, "Fork")}
    [] p = "cycles"      -> Starts
    [] p = "connections" -> {i \in AllInputs : Drivers(i) = {}}
    [] OTHER             -> {}

Init ==
  /\ original \in Netlists
  /\ blocks = original.blocks /\ wires = original.wires
  /\ clocked \in BOOLEAN
  /\ pass = "dependents" /\ todo = Work("dependents")
  /\ queue = <<>> /\ seen = {} /\ stack = <<>> /\ cycle = {}

\* The visits of a pass change different wires: one order stands for all.
Visit(p, x) == pass = p /\ todo # {} /\ x = (CHOOSE y \in todo : TRUE) /\ todo' = todo \ {x} /\ UNCHANGED <<original, clocked, pass, search>>

NextPass ==
  /\ pass \notin {"frequency", "done"} /\ todo = {} /\ queue = <<>> /\ cycle = {}
  /\ LET next == Order[(CHOOSE n \in DOMAIN Order : Order[n] = pass) + 1]
     IN  pass' = next /\ todo' = Work(next)
  /\ seen' = {} /\ UNCHANGED <<original, net, clocked, queue, stack, cycle>>

\* A Split becomes one Extract for each field, behind a Fork.
SplitToExtracts(b) ==
  /\ Visit("dependents", b) /\ Is(b, "Split")
  /\ LET fork == <<"depfork", b>>
         n == blocks[b].outs
         extract(k) == <<"extract", b, k>>
         source == CHOOSE o \in Drivers(<<b, 1>>) : TRUE
     IN  /\ blocks' = With(Restrict(blocks, DOMAIN blocks \ {b}),
                            [x \in {fork} \cup {extract(k) : k \in 1..n} |->
                               IF x = fork THEN Block("Fork", 1, n) ELSE Extract(x[3])])
         /\ wires' = {IF w[1][1] = b THEN <<<<extract(w[1][2]), 1>>, w[2]>> ELSE w
                        : w \in {x \in wires : x[2] # <<b, 1>>}}
                       \cup {<<source, <<fork, 1>>>>}
                       \cup {<<<<fork, k>>, <<extract(k), 1>>>> : k \in 1..n}

\* An output with one consumer keeps it.
JoinDependents_Shared(b) ==
  /\ Visit("dependents", b) /\ ~Is(b, "Split")
  /\ LET join == <<"join", b>>
         fork == <<"depfork", b>>
         n == blocks[b].outs
         shared == {k \in 1..n : Cardinality(Sinks(<<b, k>>)) # 1}
         extract(k) == <<"extract", b, k>>
     IN  /\ blocks' = With(blocks, [x \in {join, fork} \cup {extract(k) : k \in 1..n} |->
                                      IF x = join THEN Block("Join", n, 1)
                                      ELSE IF x = fork THEN Block("Fork", 1, n) ELSE Extract(x[3])])
         /\ wires' = {IF w[1][1] = b /\ w[1][2] \in shared THEN <<<<extract(w[1][2]), 1>>, w[2]>> ELSE w : w \in wires}
                       \cup {<<<<b, k>>, <<join, k>>>> : k \in shared}
                       \cup {<<<<join, 1>>, <<fork, 1>>>>}
                       \cup {<<<<fork, k>>, <<extract(k), 1>>>> : k \in 1..n}

\* Dependent outputs are joined, and every consumer takes its field.
JoinDependents(b) ==
  /\ Visit("dependents", b) /\ ~Is(b, "Split")
  /\ LET join == <<"join", b>>
         fork == <<"depfork", b>>
         n == blocks[b].outs
         extract(k) == <<"extract", b, k>>
     IN  /\ blocks' = With(blocks, [x \in {join, fork} \cup {extract(k) : k \in 1..n} |->
                                      IF x = join THEN Block("Join", n, 1)
                                      ELSE IF x = fork THEN Block("Fork", 1, n) ELSE Extract(x[3])])
         /\ wires' = {IF w[1][1] = b THEN <<<<extract(w[1][2]), 1>>, w[2]>> ELSE w : w \in wires}
                       \cup {<<<<b, k>>, <<join, k>>>> : k \in 1..n}
                       \cup {<<<<join, 1>>, <<fork, 1>>>>}
                       \cup {<<<<fork, k>>, <<extract(k), 1>>>> : k \in 1..n}

LatchUntied(o) ==
  /\ Visit("latches", o)
  /\ IF clocked THEN InsertAfter("PipelineRegister", [q \in {o} |-> <<"reg", q>>])
                ELSE InsertAfter("Latch", [q \in {o} |-> <<"latch", q>>])

\* The consumers keep their wires to the forked output.
SynthesizeFork_KeepsOne(o) ==
  /\ Visit("forks", o)
  /\ LET fork == <<"fork", o>>
         sinks == SetToSeq(Sinks(o))
     IN  /\ blocks' = With(blocks, [x \in {fork} |-> Block("Fork", 1, Len(sinks))])
         /\ wires' = {w \in wires : w[1] # o \/ w[2] = sinks[1]}
                       \cup {<<<<fork, k>>, sinks[k]>> : k \in 2..Len(sinks)}
                       \cup {<<o, <<fork, 1>>>>}

\* One output of the fork for each sink, behind a register if there is a clock.
SynthesizeFork(o) ==
  /\ Visit("forks", o)
  /\ LET virt == o[1] \in FindConstants
         fork == <<"fork", o>>
         reg == <<"reg", o>>
         sinks == SetToSeq(Sinks(o))
         registered == clocked /\ ~virt
     IN  /\ blocks' = With(blocks, [x \in {fork} \cup (IF registered THEN {reg} ELSE {}) |->
                                      IF x = fork THEN Block(IF virt THEN "VirtualFork" ELSE "Fork", 1, Len(sinks))
                                      ELSE Block("PipelineRegister", 1, 1)])
         /\ wires' = {w \in wires : w[1] # o}
                       \cup {<<<<fork, k>>, sinks[k]>> : k \in DOMAIN sinks}
                       \cup (IF registered THEN {<<o, <<reg, 1>>>>, <<<<reg, 1>>, <<fork, 1>>>>}
                             ELSE {<<o, <<fork, 1>>>>})

\* Registers for the outputs of a fork that meet again.  The count of common
\* consumers starts from a value nobody set, which may be other than 0.
Recombine(f) ==
  /\ Visit("recombine", f)
  /\ \E unset \in BOOLEAN :
       LET meet == {o \in Outputs(f) : \E q \in Outputs(f) \ {o} :
                      unset \/ FindConsumers(o) \cap FindConsumers(q) # {}}
       IN  InsertAfter("PipelineRegister", [o \in meet |-> <<"reg", o>>])

\* The outputs too late for the clock; how late they are is left open.
PipelineFrequency ==
  /\ pass = "frequency" /\ pass' = "cycles"
  /\ \E late \in {S \in SUBSET {o \in AllOutputs : Sinks(o) # {} /\ ~IsPipelineReg(o[1])} :
                    Cardinality(S) <= IF clocked THEN MaxSlow ELSE 0} :
       InsertAfter("PipelineRegister", [o \in late |-> <<"late", o>>])
  /\ todo' = Starts'
  /\ UNCHANGED <<original, clocked, search>>

-----------------------------------------------------------------------------
(* PipelineCyclesPass                                                      *)

Pop == <<"pop">>
Orderings(S) == {s \in [1..Cardinality(S) -> S] : IsInjective(s)}

StartPath(w) ==
  /\ pass = "cycles" /\ queue = <<>> /\ cycle = {} /\ w \in todo
  /\ todo' = todo \ {w} /\ queue' = <<w>>
  /\ UNCHANGED <<original, net, clocked, pass, seen, stack, cycle>>

\* The search visits a wire: it stops at a register, or finds that the wire
\* leads back into the stack, or goes on to the wires behind it.
VisitWire ==
  /\ queue # <<>> /\ Head(queue) # Pop
  /\ LET path == Append(stack, Head(queue))
         deps == Deps(Head(queue)[2])
         back == {n \in DOMAIN path : path[n][1] \in deps}
         next == {w \in wires : w[1] \in deps} \ seen
     IN  IF IsPipelineReg(Head(queue)[2][1])
           THEN /\ stack' = path /\ queue' = <<Pop>> \o Tail(queue)
                /\ UNCHANGED <<seen, cycle, todo>>
           ELSE IF back # {}
           THEN /\ \E n \in back : cycle' = Range(SubSeq(path, n, Len(path)))
                /\ stack' = <<>> /\ queue' = <<>> /\ seen' = {} /\ todo' = {}
           ELSE /\ \E ws \in Orderings(next) : queue' = ws \o <<Pop>> \o Tail(queue)
                /\ stack' = path /\ seen' = seen \cup next
                /\ UNCHANGED <<cycle, todo>>
  /\ UNCHANGED <<original, net, clocked, pass>>

PopWire ==
  /\ queue # <<>> /\ Head(queue) = Pop
  /\ queue' = Tail(queue) /\ stack' = Front(stack)
  /\ UNCHANGED <<original, net, clocked, pass, todo, seen, cycle>>

\* One cycle is enough.
BreakCycle_Once ==
  /\ \E w \in cycle : InsertAfter("PipelineRegister", [o \in {w[1]} |-> <<"reg", o>>])
  /\ todo' = {} /\ cycle' = {}
  /\ UNCHANGED <<original, clocked, pass, queue, seen, stack>>

\* The register is never wired up.
BreakCycle_Loose ==
  /\ \E w \in cycle : blocks' = With(blocks, [b \in {<<"reg", w[1]>>} |-> Block("PipelineRegister", 1, 1)])
  /\ UNCHANGED wires
  /\ todo' = Starts' /\ cycle' = {}
  /\ UNCHANGED <<original, clocked, pass, queue, seen, stack>>

\* Which wire of the cycle carries most is left open.  The search starts anew.
BreakCycle ==
  /\ \E w \in cycle : InsertAfter("PipelineRegister", [o \in {w[1]} |-> <<"reg", o>>])
  /\ todo' = Starts' /\ cycle' = {}
  /\ UNCHANGED <<original, clocked, pass, queue, seen, stack>>

\* An input without a driver gets one that never has a token.
CheckConnection(i) ==
  /\ Visit("connections", i)
  /\ blocks' = With(blocks, [b \in {<<"never", i>>} |-> Block("Never", 0, 1)])
  /\ wires' = wires \cup {<<<<<<"never", i>>, 1>>, i>>}

Done == pass = "done" /\ UNCHANGED vars

Next ==
  \/ NextPass
  \/ \E x \in todo : \/ SplitToExtracts(x) \/ JoinDependents(x) \/ LatchUntied(x)
                     \/ SynthesizeFork(x) \/ Recombine(x) \/ StartPath(x) \/ CheckConnection(x)
  \/ PipelineFrequency
  \/ VisitWire \/ PopWire \/ BreakCycle
  \/ Done

Spec == Init /\ [][Next]_vars /\ WF_vars(Next)

-----------------------------------------------------------------------------
(* Properties                                                              *)

\* Types of the netlist: a wire joins two ports that exist, an input has one
\* driver, and the search keeps a path.
TypeOK ==
  /\ wires \subseteq AllOutputs \X AllInputs
  /\ \A v, w \in wires : v[2] = w[2] => v = w
  /\ pass \in Range(Order)
  /\ \A n \in 2..Len(stack) : stack[n][1] \in Deps(stack[n - 1][2])

Field(v, k) == IF v[1] = "join" THEN v[k + 1] ELSE <<"field", v, k>>

\* The inputs of a block that only passes tokens on.
Uses(b) ==
  CASE b.class \in {"PipelineRegister", "Latch", "Fork", "VirtualFork", "Extract", "Split"} -> {1}
    [] b.class = "Join" -> 1..b.ins
    [] OTHER -> {}

\* What block b gives at its output o, where its inputs get what from says.
Gives(b, o, from) ==
  CASE b.class \in {"PipelineRegister", "Latch", "Fork", "VirtualFork"} -> from[1]
    [] b.class = "Extract" -> Field(from[1], b.field)
    [] b.class = "Split" -> Field(from[1], o[2])
    [] b.class = "Join" -> <<"join">> \o [k \in 1..b.ins |-> from[k]]
    [] OTHER -> <<"output", o>>

\* What the outputs of a netlist give.
Value(n) ==
  LET value[o \in (DOMAIN n.blocks) \X Nat] ==
        Gives(n.blocks[o[1]], o, [k \in Nat |-> value[(CHOOSE w \in n.wires : w[2] = <<o[1], k>>)[1]]])
  IN  value

\* Every value comes from somewhere: among any blocks there is one that passes
\* on nothing from the others.
Grounded(n) ==
  \A C \in (SUBSET DOMAIN n.blocks) \ {{}} : \E c \in C :
    \A k \in Uses(n.blocks[c]) : \E w \in n.wires : w[2] = <<c, k>> /\ w[1][1] \notin C

\* Each input that had a driver still gets the same value, through registers,
\* forks, joins and extracts (Transformer::insertAfter, refineToExtracts).
DataflowKept ==
  LET before == Value(original)
      now == Value([blocks |-> blocks, wires |-> wires])
  IN  \A w \in original.wires :
        w[2][1] \in DOMAIN blocks => \E o \in Drivers(w[2]) : now[o] = before[w[1]]

\* Once the forks are made, no pass gives an output a second consumer, which
\* the printer refuses (VerilogSynthesizer::findSink).
OneConsumer == pass \in {"recombine", "frequency", "cycles", "connections", "done"} =>
                 \A v, w \in wires : v[1] = w[1] => v = w

\* The blocks fed by b without a register in between.
Successors(b) == {c \in {w[2][1] : w \in {x \in wires : x[1][1] = b}} : ~IsPipelineReg(c)}

\* Blocks that no input and no register feeds, from near or from afar, form no
\* cycle: the search starts at the former, so it would not see one.
FedFromOutside(bs, ws) ==
  \A U \in SUBSET {b \in DOMAIN bs : bs[b].class \notin {"Input", "PipelineRegister"}} :
    (\A w \in ws : w[2][1] \in U => w[1][1] \in U) =>
      \A C \in (SUBSET U) \ {{}} : \E c \in C : \A w \in ws : w[2][1] = c => w[1][1] \notin C

\* In the end every cycle has a pipeline register: no block feeds itself
\* without one (PipelineCyclesPass).
EveryCycleBroken ==
  pass = "done" =>
    LET onward == [b \in {w[1][1] : w \in {x \in wires : ~IsPipelineReg(x[1][1])}} |-> Successors(b)]
    IN  \A b \in DOMAIN onward : b \notin Closure(onward, onward[b])

\* The outputs of a block that cannot give one without the other meet again in
\* one join, so that no consumer holds one back alone (PipelineDependentsPass).
\* CheckOutputsPass asks for more, that each consumer of such an output is a
\* pipeline register: it prints an ERROR about each that goes straight to the join.
DependentOutputsMeet ==
  pass = "done" =>
    LET registers == {w[1][1] : w \in {x \in wires : IsPipelineReg(x[1][1])}}
        fed == [b \in registers |-> {i[1] : i \in UNION {Sinks(o) : o \in Outputs(b)}}]
        Ends(o) == {b \in Closure(fed, {i[1] : i \in Sinks(o)}) : ~IsPipelineReg(b)}
    IN  \A b \in DOMAIN blocks : (~OutputsSeparate(b) /\ blocks[b].outs > 1) =>
          \E j \in DOMAIN blocks : Is(j, "Join") /\ \A o \in Outputs(b) : Ends(o) = {j}

\* Breaking cycles comes to an end.
Terminates == <>(pass = "done")
=============================================================================
