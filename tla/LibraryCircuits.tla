--------------------------- MODULE LibraryCircuits ---------------------------
(***************************************************************************)
(* The netlists that the libraries put in place of their high-level blocks *)
(* (Block::refine and the synthesis passes), and the passes that make a    *)
(* netlist fit for the Verilog backend: splits become forks, the outputs   *)
(* of untied blocks are latched, outputs with several sinks are forked.    *)
(*                                                                         *)
(* A netlist is a record: kind maps each block to what it is, and wires    *)
(* are pairs of an output port and an input port.  A port is a pair of a   *)
(* block and a number, counted from 1.                                     *)
(***************************************************************************)
EXTENDS Integers, Sequences, FiniteSets, SequencesExt

\* What a block is: its class, how many inputs and outputs it has, and what
\* else its printer needs.
Kind(op, ins, outs, arg) == [op |-> op, ins |-> ins, outs |-> outs, arg |-> arg]

Net(kind, wires) == [kind |-> kind, wires |-> wires]
Plus(N, M) == Net(N.kind @@ M.kind, N.wires \cup M.wires)

Wire(b, m, c, n) == <<<<b, m>>, <<c, n>>>>

OutPortsOf(N) == UNION {{b} \X (1..N.kind[b].outs) : b \in DOMAIN N.kind}
InPortsOf(N)  == UNION {{b} \X (1..N.kind[b].ins) : b \in DOMAIN N.kind}
SinksOf(N, o) == {w[2] : w \in {v \in N.wires : v[1] = o}}

Const(v)     == Kind("Constant", 0, 1, v)
JoinOf(n)    == Kind("Join", n, 1, n)
ExtractOf(i) == Kind("Extract", 1, 1, i)
WaitOn(n)    == Kind("Wait", 1 + n, 1, n)
SelectOf(n)  == Kind("Select", n, 1, n)
RouterOf(n)  == Kind("Router", 1, n, n)
Reg          == Kind("PipelineRegister", 1, 1, 2)

\* How many bits does it take to store an index into N things?
idxwidth(N) == CHOOSE w \in 0..N : 2^w >= N /\ \A v \in 0..w - 1 : 2^v < N

-----------------------------------------------------------------------------
(* Passes.                                                                 *)

\* PipelineDependentsPass on a Split: an Extract for each of its outputs,
\* behind a Fork of its own when there are several.
ResolveSplits(N) ==
  LET splits == {b \in DOMAIN N.kind : N.kind[b].op = "Split" /\ N.kind[b].outs > 1}
      fork(s) == s \o "_fork"
      extr(s, m) == s \o "_" \o ToString(m)
      parts(s) == 1..N.kind[s].outs
      new == [b \in {fork(s) : s \in splits} |->
                LET s == CHOOSE t \in splits : fork(t) = b
                IN  Kind("Fork", 1, N.kind[s].outs, "real")]
             @@ [b \in UNION {{extr(s, m) : m \in parts(s)} : s \in splits} |->
                LET m == CHOOSE n \in 1..8 : \E s \in splits :
                                                n \in parts(s) /\ extr(s, n) = b
                IN  ExtractOf(m)]
      rewire(w) == <<IF w[1][1] \in splits THEN <<extr(w[1][1], w[1][2]), 1>> ELSE w[1],
                     IF w[2][1] \in splits THEN <<fork(w[2][1]), 1>> ELSE w[2]>>
  IN  Net([b \in DOMAIN N.kind \ splits |-> N.kind[b]] @@ new,
          {rewire(w) : w \in N.wires}
            \cup UNION {{Wire(fork(s), m, extr(s, m), 1) : m \in parts(s)} : s \in splits})

\* The blocks that have several outputs which do not always fire together.
Untied(k) == k.outs > 1 /\ k.op \in {"Router", "RTLReg", "BlockRAM"}

\* Transformer::insertAfter on every output of ports with sinks.
InsertAfter(N, ports, k) ==
  LET name(o) == o[1] \o "_q" \o ToString(o[2])
  IN  Net([b \in {name(o) : o \in ports} |-> k] @@ N.kind,
          {IF w[1] \in ports THEN <<<<name(w[1]), 1>>, w[2]>> ELSE w : w \in N.wires}
            \cup {<<o, <<name(o), 1>>>> : o \in ports})

LatchUntiedOutputs(N, useRegs) ==
  InsertAfter(N, {o \in OutPortsOf(N) : Untied(N.kind[o[1]])},
              IF useRegs THEN Reg ELSE Kind("Latch", 1, 1, 1))

\* FindConstants: the constants and the blocks that constants alone drive.
ConstBlocks(N) ==
  LET driven(b, S) == /\ N.kind[b].ins > 0
                      /\ \A w \in N.wires : w[2][1] = b => w[1][1] \in S
      grow[n \in Nat] == IF n = 0 THEN {b \in DOMAIN N.kind : N.kind[b].op = "Constant"}
                         ELSE LET S == grow[n - 1]
                              IN  S \cup {b \in DOMAIN N.kind : driven(b, S)}
  IN  grow[Cardinality(DOMAIN N.kind)]

\* A fork on every output port with more than one sink, a register before it
\* when asked for; a port driven by a constant needs only a virtual fork.
MakeForks(N, pipeline) ==
  LET forking == {o \in OutPortsOf(N) : Cardinality(SinksOf(N, o)) > 1}
      consts  == ConstBlocks(N)
      virt(o) == o[1] \in consts
      regs    == IF pipeline THEN {o \in forking : ~virt(o)} ELSE {}
      fork(o) == o[1] \o "_f" \o ToString(o[2])
      reg(o)  == o[1] \o "_r" \o ToString(o[2])
      order(o) == SetToSeq(SinksOf(N, o))
      new == [b \in {fork(o) : o \in forking} |->
                LET o == CHOOSE p \in forking : fork(p) = b
                IN  Kind("Fork", 1, Len(order(o)), IF virt(o) THEN "virt" ELSE "real")]
             @@ [b \in {reg(o) : o \in regs} |-> Reg]
  IN  Net(N.kind @@ new,
          {w \in N.wires : w[1] \notin forking}
            \cup UNION {{<<<<fork(o), i>>, order(o)[i]>> : i \in DOMAIN order(o)}
                          : o \in forking}
            \cup {<<IF o \in regs THEN <<reg(o), 1>> ELSE o, <<fork(o), 1>>>> : o \in forking}
            \cup {<<o, <<reg(o), 1>>>> : o \in regs})

\* FindConsumers, ignoring what lies behind a pipeline register: the inputs
\* where the paths from port o end.
Consumers(N, o) ==
  LET behind(i) == IF N.kind[i[1]].op = "PipelineRegister" THEN {}
                   ELSE UNION {SinksOf(N, <<i[1], m>>) : m \in 1..N.kind[i[1]].outs}
      reach[n \in Nat] == IF n = 0 THEN SinksOf(N, o)
                          ELSE LET S == reach[n - 1] IN S \cup UNION {behind(i) : i \in S}
  IN  {i \in reach[Cardinality(DOMAIN N.kind)] :
         N.kind[i[1]].op # "PipelineRegister" /\ behind(i) = {}}

\* Outputs of a fork that meet again get a register each.  The count of common
\* consumers is never initialised: garbage says it did not start at zero.
SeparateRecombining(N, f, garbage) ==
  LET outs == {<<f, m>> : m \in 1..N.kind[f].outs}
      meet(o, p) == garbage \/ Consumers(N, o) \cap Consumers(N, p) # {}
  IN  InsertAfter(N, {o \in outs : \E p \in outs \ {o} : meet(o, p)}, Reg)

SynthesizeForks(N, pipeline, garbage) ==
  LET M == MakeForks(N, pipeline)
      real == {b \in DOMAIN M.kind \ DOMAIN N.kind : M.kind[b].op = "Fork"
                                                     /\ M.kind[b].arg = "real"}
  IN  FoldSet(LAMBDA f, net : SeparateRecombining(net, f, garbage), M, real)

\* What Design::notify does to a netlist when a clock frequency is asked for
\* and when it is not.
Optimized(N, clk, garbage) ==
  SynthesizeForks(LatchUntiedOutputs(ResolveSplits(N), clk), clk, garbage)
-----------------------------------------------------------------------------
(* What the libraries refine to.  req and resp are ports of the blocks that *)
(* the refined block was connected to.                                     *)

\* Semaphore: the token of Once or of a signal lets one waiting token pass.
SemaphoreNet(waiting, passed, signal) ==
  Net("proceedSel" :> SelectOf(2) @@ "once" :> Kind("Once", 0, 1, "void")
        @@ "wait" :> WaitOn(1),
      {Wire("once", 1, "proceedSel", 2), <<signal, <<"proceedSel", 1>>>>,
       Wire("proceedSel", 1, "wait", 2), <<waiting, <<"wait", 1>>>>,
       <<<<"wait", 1>>, passed>>})

\* SynthesizeTagsPass on a Tagger: tags wait for their response in a join.  The
\* server is assumed to answer in order, whatever CouldReorderTokens is asked.
TaggerNet(tagged, toServer, fromServer, response) ==
  Net("split" :> Kind("Split", 1, 2, 2) @@ "tjoin" :> JoinOf(2),
      {<<tagged, <<"split", 1>>>>, Wire("split", 1, "tjoin", 1),
       <<<<"split", 2>>, toServer>>, <<fromServer, <<"tjoin", 2>>>>,
       <<<<"tjoin", 1>>, response>>})

\* InterfaceMultiplexer: one server shared by several clients, whose requests
\* are tagged with their index.  One client needs nothing but identities.
InterfaceMultiplexerNet(clients, answers, server) ==
  LET n == Len(clients)
      join(i) == "join" \o ToString(i)
      cnst(i) == "cnst" \o ToString(i)
  IN
  IF n = 1
  THEN Net("reqI" :> Kind("Identity", 1, 1, 0) @@ "respI" :> Kind("Identity", 1, 1, 0),
           {<<clients[1], <<"reqI", 1>>>>, <<<<"reqI", 1>>, <<server, 1>>>>,
            <<<<server, 1>>, <<"respI", 1>>>>, <<<<"respI", 1>>, answers[1]>>})
  ELSE Plus(TaggerNet(<<"select", 1>>, <<server, 1>>, <<server, 1>>, <<"router", 1>>),
       Net("select" :> SelectOf(n) @@ "router" :> RouterOf(n)
             @@ [b \in {join(i) : i \in 1..n} |-> JoinOf(2)]
             @@ [b \in {cnst(i) : i \in 1..n} |->
                   Const((CHOOSE i \in 1..n : cnst(i) = b) - 1)],
           UNION {{<<<<join(i), 1>>, <<"select", i>>>>, <<<<cnst(i), 1>>, <<join(i), 1>>>>,
                   <<clients[i], <<join(i), 2>>>>, <<<<"router", i>>, answers[i]>>}
                  : i \in 1..n}))

\* SynthesizeMemoryPass on a Register: an RTLReg whose write ports come first.
RegisterNet(writes, acks, reads, values) ==
  LET w == Len(writes)
      r == Len(reads)
  IN  Net("rtlreg" :> Kind("RTLReg", w + r, w + r, w),
          {<<writes[i], <<"rtlreg", i>>>> : i \in 1..w}
            \cup {<<<<"rtlreg", i>>, acks[i]>> : i \in 1..w}
            \cup {<<reads[i], <<"rtlreg", w + i>>>> : i \in 1..r}
            \cup {<<<<"rtlreg", w + i>>, values[i]>> : i \in 1..r})

\* SynthesizeMemoryPass on a FiniteArray: a block RAM, reads on its first port
\* and writes on its second; a request is {isWrite, data, index}.
FiniteArrayNet(write, ack, read, value, null, depth) ==
  Net("bram" :> Kind("BlockRAM", 2, 2, 0..depth - 1)
        @@ "readConst" :> Const(FALSE) @@ "nullConst" :> Const(null) @@ "rdJoin" :> JoinOf(3)
        @@ "writeConst" :> Const(TRUE) @@ "reqSplit" :> Kind("Split", 1, 2, 2)
        @@ "wrJoin" :> JoinOf(3)
        @@ "voidConst" :> Const("void") @@ "writeWait" :> WaitOn(1),
      {Wire("rdJoin", 1, "bram", 1), Wire("readConst", 1, "rdJoin", 1),
       Wire("nullConst", 1, "rdJoin", 2), <<read, <<"rdJoin", 3>>>>, <<<<"bram", 1>>, value>>,
       <<write, <<"reqSplit", 1>>>>, Wire("writeConst", 1, "wrJoin", 1),
       Wire("reqSplit", 1, "wrJoin", 2), Wire("reqSplit", 2, "wrJoin", 3),
       Wire("wrJoin", 1, "bram", 2), Wire("voidConst", 1, "writeWait", 1),
       Wire("bram", 2, "writeWait", 2), <<<<"writeWait", 1>>, ack>>})
=============================================================================
