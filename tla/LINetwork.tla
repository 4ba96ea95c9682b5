----------------------------- MODULE LINetwork -----------------------------
(***************************************************************************)
(* What a netlist does once VerilogSynthesizer has printed it              *)
(* (backends/verilog/synthesize.cpp, support/backends/verilog/*.sv):       *)
(* valid and data run forward along the wires, back-pressure runs against  *)
(* them, both combinational, and the registers step at the clock edge.     *)
(*                                                                         *)
(* The environment is made of blocks too.  An Input offers the tokens of   *)
(* its list, at most `lead` of them ahead of what `after` has received; an *)
(* Output takes tokens when it pleases; a Server queues up to `cap`        *)
(* requests and answers them in order, when it pleases.                    *)
(***************************************************************************)
EXTENDS LibraryCircuits

CONSTANT Circuits       \* the netlists under test: a function on their names

ASSUME EveryInputDrivenOnce ==
  \A c \in DOMAIN Circuits : \A i \in InPortsOf(Circuits[c]) :
    Cardinality({w \in Circuits[c].wires : w[2] = i}) = 1

ASSUME NoFanOut ==      \* "Synthesis does not support fan out greater than 1!"
  \A c \in DOMAIN Circuits : \A o \in OutPortsOf(Circuits[c]) :
    Cardinality(SinksOf(Circuits[c], o)) <= 1

VARIABLES
  circuit,   \* which netlist this is
  net,       \* its blocks and wires, and an order in which its signals settle
  st         \* what each of its blocks holds

vars == <<circuit, net, st>>

-----------------------------------------------------------------------------
(* The netlist as functions, and an order in which its signals settle.     *)

\* A function that TLC computes once and keeps.
Table(f) == << >> @@ f

Driver(N) == Table([i \in InPortsOf(N) |-> (CHOOSE w \in N.wires : w[2] = i)[1]])
Sink(N)   == Table([o \in OutPortsOf(N) |-> SinksOf(N, o)])

Separate == {"RTLReg", "BlockRAM"}                    \* port m answers port m
Registered == {"PipelineRegister", "Once", "Constant", "Input", "Server", "Output", "Never"}

\* The ports whose signals are needed to compute those of port p.
Forward(N, o) ==
  LET k == N.kind[o[1]] IN
  IF k.op \in Registered THEN {}
  ELSE {w[1] : w \in {v \in N.wires : v[2] \in {o[1]} \X (IF k.op \in Separate THEN {o[2]} ELSE 1..k.ins)}}
Backward(N, i) ==
  LET k == N.kind[i[1]]
      outs == IF k.op \in Registered \cup {"Latch", "NullSink"} THEN {}
              ELSE IF k.op \in Separate THEN {i[2]} ELSE 1..k.outs
  IN  UNION {SinksOf(N, <<i[1], m>>) : m \in outs}

\* The ports of S, each after those it needs.  The cycles of a circuit all go
\* through a register, or this is not defined.
Settling(S, Needs(_)) ==
  LET order[n \in 0..Cardinality(S)] ==
        IF n = 0 THEN << >>
        ELSE LET before == order[n - 1]
             IN  Append(before, CHOOSE p \in S \ ToSet(before) : Needs(p) \subseteq ToSet(before))
  IN  order[Cardinality(S)]

OutOrder(N) == Settling(OutPortsOf(N), LAMBDA o : Forward(N, o))
InOrder(N)  == Settling(InPortsOf(N), LAMBDA i : Backward(N, i))

-----------------------------------------------------------------------------
(* Signals.  << >> is a port whose valid is low, <<d>> one that offers d.   *)

Low == << >>
IsHigh(x) == x # Low

\* The default printer: a block is valid when all its inputs are, and refuses
\* them all unless it is valid and none of its outputs is refused.
AllValid(x) == \A n \in DOMAIN x : IsHigh(x[n])
Tied_bp(x, y) == ~AllValid(x) \/ \E m \in DOMAIN y : y[m]

\* The data function of the blocks that use the default printer.
Value(k, m, d) ==
  CASE k.op \in {"Identity", "Cast", "Wait"} -> d[1]
    [] k.op = "Join"           -> d
    [] k.op = "Split"          -> d[1][m]
    [] k.op = "Extract"        -> d[1][k.arg]
    [] k.op = "Constant"       -> k.arg
    [] k.op = "IntSubtraction" -> (d[1][1] - d[1][2]) % 2^k.arg
    [] k.op = "ConstShift"     -> d[1] \div 2^k.arg
    [] k.op = "IntTruncate"    -> d[1] % 2^k.arg
    [] k.op = "IntExtend"      -> d[1]

Tied(k, m, x) == IF AllValid(x) THEN <<Value(k, m, [n \in DOMAIN x |-> x[n][1]])>> ELSE Low

\* LLPM_Select_Priority: the last input that is valid wins.
Chosen(x) == {n \in DOMAIN x : IsHigh(x[n]) /\ \A p \in n + 1..Len(x) : ~IsHigh(x[p])}
Select(x) == IF Chosen(x) = {} THEN Low ELSE x[CHOOSE n \in Chosen(x) : TRUE]
\* Mutant: the arbiter lets every input go.
Select_bp_All(x, y, n) == y[1]
Select_bp(x, y, n) == y[1] \/ n \notin Chosen(x)

\* Mutant: the selector counts from one.
Router_FromOne(x, m) == IF IsHigh(x[1]) /\ x[1][1][1] = m THEN <<x[1][1][2]>> ELSE Low

\* Router: output m is valid when the selector says m - 1.
Router(x, m) == IF IsHigh(x[1]) /\ x[1][1][1] = m - 1 THEN <<x[1][1][2]>> ELSE Low
Router_bp(x, y) == \E m \in DOMAIN y : y[m] /\ IsHigh(Router(x, m))

\* LLPM_IdxSelect: the last input says which of the others may pass.
Indexed(x) == IF IsHigh(x[Len(x)]) THEN {x[Len(x)][1] + 1} ELSE {}
IdxSelect(x) == IF Indexed(x) = {} THEN Low ELSE x[CHOOSE n \in Indexed(x) : TRUE]
IdxSelect_bp(x, y, n) ==
  y[1] \/ IF n = Len(x) THEN \A i \in Indexed(x) : ~IsHigh(x[i]) ELSE n \notin Indexed(x)

\* Fork and VirtFork.
accepted(k, s, x, y) ==
  {m \in DOMAIN y : (~y[m] /\ IsHigh(x[1]) /\ m \notin s) \/ m \in s}
\* Mutant: an output that has its token is offered it again.
Fork_Unmasked(s, x, m) == x[1]
Fork(s, x, m) == IF m \in s THEN Low ELSE x[1]
Fork_bp(k, s, x, y) == accepted(k, s, x, y) # DOMAIN y

\* PipelineReg_DoubleWidth, Latch, RTLReg and BlockRAM_2RW.
Waiting(s, x) == IF s # << >> THEN <<s[1]>> ELSE x
Ram(s, x) == IF IsHigh(x) THEN <<s[x[1][3]]>> ELSE Low
RegPort(k, s, x, m) == IF m <= k.arg \/ ~IsHigh(x[m]) THEN x[m] ELSE <<s>>

\* What output m of a block shows.
Emit(k, s, x, m, offers) ==
  CASE k.op = "PipelineRegister" -> Waiting(s, Low)
    [] k.op = "Latch"    -> Waiting(s, x[1])
    [] k.op = "Select"   -> Select(x)
    [] k.op = "IdxSelect" -> IdxSelect(x)
    [] k.op = "Router"   -> Router(x, m)
    [] k.op = "Fork"     -> Fork(s, x, m)
    [] k.op = "RTLReg"   -> RegPort(k, s, x, m)
    [] k.op = "BlockRAM" -> Ram(s, x[m])
    [] k.op = "Once"     -> s
    [] k.op = "Never"    -> Low
    [] k.op = "Input"    -> IF offers THEN <<k.arg.tokens[s.next]>> ELSE Low
    [] k.op = "Server"   -> IF offers THEN <<s.queue[1]>> ELSE Low
    [] OTHER             -> Tied(k, m, x)

\* Whether input n of a block refuses what it is offered.
Refuse(k, s, x, y, n, ready) ==
  CASE k.op = "PipelineRegister" -> Len(s) = 2
    [] k.op = "Latch"    -> Len(s) = 1
    [] k.op = "Select"   -> Select_bp(x, y, n)
    [] k.op = "IdxSelect" -> IdxSelect_bp(x, y, n)
    [] k.op = "Router"   -> Router_bp(x, y)
    [] k.op = "Fork"     -> Fork_bp(k, s, x, y)
    [] k.op \in Separate -> y[n]
    [] k.op = "NullSink" -> FALSE
    [] k.op = "Output"   -> ~ready
    [] k.op = "Server"   -> Len(s.queue) = k.arg.cap
    [] OTHER             -> Tied_bp(x, y)

\* All the valids of a cycle, then all its back-pressure.
Valids(s, offer) ==
  FoldLeft(LAMBDA v, o :
             v @@ (o :> Emit(net.kind[o[1]], s[o[1]],
                             [n \in 1..net.kind[o[1]].ins |->
                                IF net.driver[<<o[1], n>>] \in DOMAIN v
                                THEN v[net.driver[<<o[1], n>>]] ELSE Low],
                             o[2], o[1] \in offer)),
           << >>, net.outs)

InputsOf(v, b) == [n \in 1..net.kind[b].ins |-> v[net.driver[<<b, n>>]]]
OutputsOf(bp, b) ==
  [m \in 1..net.kind[b].outs |-> \E i \in net.sink[<<b, m>>] : i \in DOMAIN bp /\ bp[i]]

Refusals(s, v, ready) ==
  FoldLeft(LAMBDA bp, i :
             bp @@ (i :> Refuse(net.kind[i[1]], s[i[1]], InputsOf(v, i[1]),
                                OutputsOf(bp, i[1]), i[2], i[1] \in ready)),
           << >>, net.ins)

-----------------------------------------------------------------------------
(* The clock edge.                                                         *)

Taken(s, out, y) == IF IsHigh(out) /\ ~y THEN Tail(s) ELSE s
Added(s, in, bp) == IF IsHigh(in) /\ ~bp THEN Append(s, in[1]) ELSE s

LatchAfter(s, x, y, bp) ==
  IF s # << >> THEN Taken(s, s, y[1])
  ELSE IF y[1] THEN Added(s, x[1], bp[1]) ELSE s

ForkAfter(k, s, x, y, bp) ==
  IF k.arg = "virt" \/ (IsHigh(x[1]) /\ ~bp[1]) THEN {} ELSE accepted(k, s, x, y)

\* Mutants: the token is given again and again, or lost when it is refused.
OnceAfter_Kept(s, y) == s
OnceAfter_Lost(s, y) == Low
OnceAfter(s, y) == IF y[1] THEN s ELSE Low

\* The valid write with the highest number, unless its answer is refused.
RegisterAfter(k, s, x, y) ==
  LET writes == {n \in 1..k.arg : IsHigh(x[n]) /\ ~y[n]}
  IN  IF writes = {} THEN s ELSE x[Max(writes)][1]

\* Mutant: only the first port writes.
RamAfter_OnePort(s, x, y) ==
  IF IsHigh(x[1]) /\ ~y[1] /\ x[1][1][1] THEN [s EXCEPT ![x[1][1][3]] = x[1][1][2]] ELSE s

\* A request is {isWrite, data, index}; the second port's write comes last.
RamAfter(s, x, y) ==
  LET write(n, mem) == IF IsHigh(x[n]) /\ ~y[n] /\ x[n][1][1]
                       THEN [mem EXCEPT ![x[n][1][3]] = x[n][1][2]] ELSE mem
  IN  write(2, write(1, s))

\* What a block holds after the edge: x and y are what its inputs showed and
\* whether its outputs were refused, out what it showed itself.
After(k, s, x, y, out, bp, offers) ==
  CASE k.op = "PipelineRegister" -> Added(Taken(s, out[1], y[1]), x[1], bp[1])
    [] k.op = "Latch"    -> LatchAfter(s, x, y, bp)
    [] k.op = "Fork"     -> ForkAfter(k, s, x, y, bp)
    [] k.op = "RTLReg"   -> RegisterAfter(k, s, x, y)
    [] k.op = "BlockRAM" -> RamAfter(s, x, y)
    [] k.op = "Once"     -> OnceAfter(s, y)
    [] k.op = "Input"    -> [next |-> IF offers /\ ~y[1] THEN s.next + 1 ELSE s.next,
                             held |-> offers /\ y[1]]
    [] k.op = "Server"   -> [queue |-> Added(Taken(s.queue, out[1], y[1]), x[1], bp[1]),
                             held |-> offers /\ y[1]]
    [] k.op = "Output"   -> Added(s, x[1], bp[1])
    [] OTHER             -> s

Undefined == 0   \* 'x, which no circuit is given as a token to store

AtReset(k) ==
  CASE k.op \in {"PipelineRegister", "Latch", "Output"} -> << >>
    [] k.op = "Fork"     -> {}
    [] k.op = "RTLReg"   -> Undefined
    [] k.op = "BlockRAM" -> [a \in k.arg |-> Undefined]
    [] k.op = "Once"     -> <<k.arg>>
    [] k.op = "Input"    -> [next |-> 1, held |-> FALSE]
    [] k.op = "Server"   -> [queue |-> << >>, held |-> FALSE]
    [] OTHER             -> "none"

Blocks == DOMAIN net.kind
Class(op) == {b \in Blocks : net.kind[b].op = op}

\* Who may offer a token in this cycle, and who has to: a refused token stays.
MayOffer ==
  {b \in Class("Input") :
     LET a == net.kind[b].arg
     IN  /\ st[b].next <= Len(a.tokens)
         /\ a.after = "" \/ Len(st[a.after]) + a.lead >= st[b].next}
    \cup {b \in Class("Server") : st[b].queue # << >>}
Held == {b \in Class("Input") \cup Class("Server") : st[b].held}

Init ==
  /\ circuit \in DOMAIN Circuits
  /\ net = LET N == Circuits[circuit]
           IN  [kind |-> Table(N.kind), driver |-> Driver(N), sink |-> Sink(N),
                outs |-> OutOrder(N), ins |-> InOrder(N)]
  /\ st = [b \in Blocks |-> AtReset(net.kind[b])]

\* What the blocks hold after a cycle with these offers and these consumers.
NextState(offer, ready) ==
  LET v  == Valids(st, offer)
      bp == Refusals(st, v, ready)
  IN  [b \in Blocks |->
         After(net.kind[b], st[b], InputsOf(v, b), OutputsOf(bp, b),
               [m \in 1..net.kind[b].outs |-> v[<<b, m>>]],
               [n \in 1..net.kind[b].ins |-> bp[<<b, n>>]], b \in offer)]

Cycle(offer, ready) == st' = NextState(offer, ready) /\ UNCHANGED <<circuit, net>>

Edge == \E offer \in SUBSET MayOffer, ready \in SUBSET Class("Output") :
          Held \subseteq offer /\ Cycle(offer, ready)

Next == Edge

Spec == Init /\ [][Next]_vars

\* The neighbours may hold back in any pattern, but again and again there is a
\* cycle in which none of them does.  This is WF_vars(Willing) with its ENABLED
\* written out, which TLC is slow to find.
Willing == Cycle(MayOffer, Class("Output"))
Moves   == NextState(MayOffer, Class("Output")) # st

FairSpec == Spec /\ ([]<>~Moves \/ []<><<Willing>>_vars)
=============================================================================
