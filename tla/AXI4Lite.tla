------------------------------ MODULE AXI4Lite ------------------------------
(***************************************************************************)
(* The netlist that AXI4LiteSlaveAdapter::refine builds                    *)
(* (libraries/noc/axi/axi4_lite.cpp): the input channels of a module are   *)
(* words that a bus master writes, its output channels words that it       *)
(* reads.  Channels is the series of connect calls, each a record of a     *)
(* direction and a width in bits.                                          *)
(***************************************************************************)
EXTENDS LibraryCircuits

CONSTANTS
  Channels,     \* sequence of [dir : {"in", "out"}, width : Nat, name : STRING]
  dataWidth,    \* 32 or 64
  addrWidth,
  addrOffset

ASSUME DataWidthOK == dataWidth \in {32, 64}
ASSUME OffsetFits  == addrOffset \in 0..2^addrWidth - 1

Bytes == dataWidth \div 8
CeilDiv(a, b) == (a + b - 1) \div b

\* assignPort: each channel starts at the next multiple of the bus width and
\* takes at least one byte.
ends[i \in 0..Len(Channels)] ==
  IF i = 0 THEN 0
  ELSE CeilDiv(ends[i - 1], Bytes) * Bytes
         + (IF Channels[i].width = 0 THEN 1 ELSE CeilDiv(Channels[i].width, 8))

Begin(i) == CeilDiv(ends[i - 1], Bytes)   \* the first word of channel i
End(i)   == CeilDiv(ends[i], Bytes)       \* the word after its last

Dir(d) == {i \in DOMAIN Channels : Channels[i].dir = d}
NumVirtRegs(d) == CeilDiv(Max({ends[i] : i \in Dir(d)} \cup {0}), Bytes)

Node(x, i) == x \o "_" \o ToString(i)

\* The word that an address selects: the decoder both sides start with.
Decoder(side, address, N) ==
  LET nd(x) == side \o x IN
  Net(nd("reg") :> Reg @@ nd("addr") :> ExtractOf(1) @@ nd("glblOffset") :> Const(addrOffset)
        @@ nd("offJoin") :> JoinOf(2) @@ nd("offset") :> Kind("IntSubtraction", 1, 1, addrWidth + 1)
        @@ nd("regSel") :> Kind("ConstShift", 1, 1, IF dataWidth = 32 THEN 2 ELSE 3)
        @@ nd("regSelTrunc") :> Kind("IntTruncate", 1, 1, idxwidth(N))
        @@ nd("selJoin") :> JoinOf(2) @@ nd("router") :> RouterOf(N),
      {<<address, <<nd("reg"), 1>>>>, Wire(nd("reg"), 1, nd("addr"), 1),
       Wire(nd("addr"), 1, nd("offJoin"), 1), Wire(nd("glblOffset"), 1, nd("offJoin"), 2),
       Wire(nd("offJoin"), 1, nd("offset"), 1), Wire(nd("offset"), 1, nd("regSel"), 1),
       Wire(nd("regSel"), 1, nd("regSelTrunc"), 1), Wire(nd("regSelTrunc"), 1, nd("selJoin"), 1),
       Wire(nd("selJoin"), 1, nd("router"), 1)})

\* An input channel fires when the router has brought all of its words.
WriteChannel(i, sink) ==
  LET n == End(i) - Begin(i)
      w == Channels[i].width
      cut == w % dataWidth # 0
      join == Node("outJoin", i)
      trunc == Node("trunc", i)
      port(j) == <<"w_router", Begin(i) + j>>
  IN  Plus(
        Net(join :> JoinOf(n)
              @@ (IF cut THEN trunc :> Kind("IntTruncate", 1, 1, w % dataWidth) ELSE << >>),
            {<<port(j), <<join, j>>>> : j \in 1..(IF cut THEN n - 1 ELSE n)}
              \cup IF cut THEN {<<port(n), <<trunc, 1>>>>, Wire(trunc, 1, join, n)} ELSE {}),
        IF w > 0
        THEN Net(Node("outCast", i) :> Kind("Cast", 1, 1, 0),
                 {Wire(join, 1, Node("outCast", i), 1), <<<<Node("outCast", i), 1>>, sink>>})
        ELSE Net(Node("outConst", i) :> Const(<< >>) @@ Node("outWait", i) :> WaitOn(1),
                 {Wire(Node("outConst", i), 1, Node("outWait", i), 1),
                  Wire(join, 1, Node("outWait", i), 2), <<<<Node("outWait", i), 1>>, sink>>}))

refineWriteSide(writeAddress, writeData, writeResp) ==
  LET parts == {WriteChannel(i, <<Channels[i].name, 1>>) : i \in Dir("in")}
      base ==
        Net("wdReg" :> Reg @@ "data" :> ExtractOf(1) @@ "wrespConst" :> Const("OKAY")
              @@ "wresp" :> JoinOf(1) @@ "wRespWait" :> WaitOn(1),
            {<<writeData, <<"wdReg", 1>>>>, Wire("wdReg", 1, "data", 1),
             Wire("data", 1, "w_selJoin", 2), Wire("wrespConst", 1, "wresp", 1),
             Wire("wresp", 1, "wRespWait", 1), Wire("w_selJoin", 1, "wRespWait", 2),
             <<<<"wRespWait", 1>>, writeResp>>})
  IN  FoldSet(Plus, Plus(base, Decoder("w_", writeAddress, NumVirtRegs("in"))), parts)

\* The place of a word among the inputs of the select that answers the reads.
SelInput(i, j) ==
  j + MapThenSumSet(LAMBDA k : End(k) - Begin(k), {k \in Dir("out") : k < i})

\* An output channel is cut into words, each of which waits to be selected.
ReadChannel(i, source) ==
  LET n == End(i) - Begin(i)
      w == Channels[i].width
      last == IF w % dataWidth = 0 THEN dataWidth ELSE w % dataWidth
      split == Node("inSplit", i)
      wait(j) == Node(Node("wait", i), j)
      ext == Node("ext", i)
      narrow(j) == j = n /\ last # dataWidth
  IN  Plus(
        Net(split :> Kind("Split", 1, n, n)
              @@ (IF narrow(n) THEN ext :> Kind("IntExtend", 1, 1, dataWidth) ELSE << >>)
              @@ [b \in {wait(j) : j \in 1..n} |-> WaitOn(1)],
            (IF narrow(n) THEN {Wire(split, n, ext, 1)} ELSE {})
              \cup {<<IF narrow(j) THEN <<ext, 1>> ELSE <<split, j>>, <<wait(j), 1>>>> : j \in 1..n}
              \cup {<<<<"r_router", Begin(i) + j>>, <<wait(j), 2>>>> : j \in 1..n}
              \cup {<<<<wait(j), 1>>, <<"outSel", SelInput(i, j)>>>> : j \in 1..n}),
        IF w > 0
        THEN Net(Node("inCast", i) :> Kind("Cast", 1, 1, 0),
                 {<<source, <<Node("inCast", i), 1>>>>, Wire(Node("inCast", i), 1, split, 1)})
        ELSE Net(Node("inConst", i) :> Const(0) @@ Node("inJoin", i) :> JoinOf(1)
                   @@ Node("inWait", i) :> WaitOn(1),
                 {Wire(Node("inConst", i), 1, Node("inJoin", i), 1),
                  Wire(Node("inJoin", i), 1, Node("inWait", i), 1),
                  <<source, <<Node("inWait", i), 2>>>>, Wire(Node("inWait", i), 1, split, 1)}))

refineReadSide(readAddress, readData) ==
  LET parts == {ReadChannel(i, <<Channels[i].name, 1>>) : i \in Dir("out")}
      words == SelInput(Len(Channels) + 1, 0)
      base ==
        Net("dummyConst" :> Const("void") @@ "outSel" :> SelectOf(words)
              @@ "rresp" :> Const("OKAY") @@ "rJoin" :> JoinOf(2),
            {Wire("dummyConst", 1, "r_selJoin", 2), Wire("outSel", 1, "rJoin", 1),
             Wire("rresp", 1, "rJoin", 2), <<<<"rJoin", 1>>, readData>>})
  IN  FoldSet(Plus, Plus(base, Decoder("r_", readAddress, NumVirtRegs("out"))), parts)

AdapterNet ==
  Plus(refineWriteSide(<<"writeAddress", 1>>, <<"writeData", 1>>, <<"writeResp", 1>>),
       refineReadSide(<<"readAddress", 1>>, <<"readData", 1>>))
=============================================================================
