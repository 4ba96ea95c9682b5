----------------------------- MODULE Instructions -----------------------------
(***************************************************************************)
(* LLVM instructions and library functions as blocks: what LLVM says they  *)
(* compute, and the netlist of library blocks each refines to.             *)
(***************************************************************************)
EXTENDS Datapath, TLC

Net(kind, wires) == [kind |-> kind, wires |-> wires]
Wire(b, m, c, n) == <<<<b, m>>, <<c, n>>>>

(* An instruction is a block with one input, the struct of its operands (or *)
(* the operand when it has only one), and one output; arg says what else    *)
(* the instruction carries.  A memory instruction and a call have a second  *)
(* pair: the response they wait for and the request they make.              *)
Operands(ts) == IF Len(ts) = 1 THEN ts[1] ELSE Composite(ts)
Instruction(op, ts, t, arg) == Block(op, <<Operands(ts)>>, <<t>>, arg)
Impure(op, ts, t) == Block(op, <<Operands(ts), t>>, <<t, Operands(ts)>>, 0)

Binary == {"Add", "Sub", "Mul", "UDiv", "SDiv", "URem", "SRem"}
Shifts == {"Shl", "LShr", "AShr"}
Impures == {"Load", "Store", "Call"}
Instructions == Binary \cup Shifts \cup Impures
  \cup {"PHI", "SelectInst", "ICmp", "Trunc", "ZExt", "SExt", "InsertElement", "ExtractElement",
        "And", "Or", "Xor", "Ret", "Br"}
\* What the library refines further: StdLibStops does not stop at these.
Refinable == Instructions \cup {"StructTwiddler", "ReplaceElement", "SparseMultiplexer"}

-----------------------------------------------------------------------------
(* The LLVM language reference, on operands for which it gives a result.   *)

Predicate(p, a, b, sa, sb) ==
  CASE p = "EQ" -> a = b    [] p = "NE" -> a # b
    [] p = "UGT" -> a > b   [] p = "UGE" -> a >= b   [] p = "ULT" -> a < b   [] p = "ULE" -> a <= b
    [] p = "SGT" -> sa > sb [] p = "SGE" -> sa >= sb [] p = "SLT" -> sa < sb [] p = "SLE" -> sa <= sb

BinaryResult(op, a, b, sa, sb) ==
  CASE op = "Add" -> a + b  [] op = "Sub" -> a - b  [] op = "Mul" -> a * b
    [] op = "UDiv" -> Quotient(a, b)   [] op = "SDiv" -> Quotient(sa, sb)
    [] op = "URem" -> Remainder(a, b)  [] op = "SRem" -> Remainder(sa, sb)
    [] op = "Shl" -> a * 2^b  [] op = "LShr" -> a \div 2^b  [] op = "AShr" -> sa \div 2^b
    [] op = "And" -> a & b    [] op = "Or" -> a | b         [] op = "Xor" -> a ^^ b

Replaced(t, v, i, e) == Packed(t, [j \in DOMAIN t.of |-> IF j = i THEN e ELSE Field(t, v, j)])

Result(k, v) ==
  LET t    == k.ins[1]
      f(i) == Field(t, v, i)
      s(i) == Signed(t.of[i], f(i))
      \* the constant index of a vector instruction, or the one that arrives
      index(i) == IF k.arg = 0 THEN 1 + f(i) ELSE k.arg
  IN  CASE k.op \in Binary \cup Shifts \cup {"And", "Or", "Xor"} ->
             Truncated(k.outs[1], BinaryResult(k.op, f(1), f(2), s(1), s(2)))
        [] k.op = "ICmp"   -> IF Predicate(k.arg, f(1), f(2), s(1), s(2)) THEN 1 ELSE 0
        [] k.op = "SelectInst" -> IF f(1) = 1 THEN f(2) ELSE f(3)
        [] k.op \in {"Trunc", "ZExt"} -> Truncated(k.outs[1], v)
        [] k.op = "SExt"   -> Truncated(k.outs[1], Signed(t, v))
        [] k.op = "ExtractElement" -> Field(t.of[1], f(1), index(2))
        [] k.op = "InsertElement"  -> Replaced(t.of[1], f(1), index(3), f(2))
        [] k.op \in {"PHI", "Ret", "Br"} -> v
        [] k.op = "StructTwiddler" ->
             Packed(k.outs[1], [i \in DOMAIN k.arg |-> f(k.arg[i])])
        [] k.op = "ReplaceElement" -> Replaced(t.of[1], f(1), index(3), f(2))
        [] k.op = "SparseMultiplexer" ->
             IF \E i \in DOMAIN k.arg : k.arg[i] = f(1)
             THEN f(2 + CHOOSE i \in DOMAIN k.arg : k.arg[i] = f(1)) ELSE f(2)

-----------------------------------------------------------------------------
(* Refinement.  A refinement is the new blocks and wires, and the ports     *)
(* that take over the refined block's inputs and outputs.                   *)

Into(kind, wires, in, out) == [kind |-> kind, wires |-> wires, in |-> <<in>>, out |-> <<out>>]
One(b, k) == Into(b :> k, {}, <<b, 1>>, <<b, 1>>)

RefineSelect_InOrder(b, t) ==  \* mutant: the operands go to the mux as they come
  LET split == b \o "_split"
      mux   == b \o "_mux"
  IN  Into(split :> Split(t.of) @@ b \o "_join" :> Join(t.of) @@ mux :> Multiplexer(2, t.of[2]),
           {Wire(b \o "_join", 1, mux, 1)} \cup {Wire(split, i, b \o "_join", i) : i \in 1..3},
           <<split, 1>>, <<mux, 1>>)

\* Mux inputs 2 and 3 are swapped: operand 1 of a select is its true result.
RefineSelect(b, t) ==
  LET split == b \o "_split"
      join  == b \o "_join"
      mux   == b \o "_mux"
  IN  Into(split :> Split(t.of) @@ join :> Join(t.of) @@ mux :> Multiplexer(2, t.of[2]),
           {Wire(join, 1, mux, 1), Wire(split, 1, join, 1),
            Wire(split, 2, join, 3), Wire(split, 3, join, 2)},
           <<split, 1>>, <<mux, 1>>)

RefineExtractElement(b, t, idx) ==
  LET vec   == t.of[1]
      n     == Len(vec.of)
      mt    == Multiplexer(n, vec.of[1])
      split == b \o "_split"
      parts == b \o "_parts"
      trunc == b \o "_trunc"
      join  == b \o "_join"
      mux   == b \o "_mux"
      elem  == b \o "_elem"
  IN  IF idx # 0
      THEN Into(split :> Split(t.of) @@ elem :> Extract(vec, <<idx>>),
                {Wire(split, 1, elem, 1)}, <<split, 1>>, <<elem, 1>>)
      ELSE Into(split :> Split(t.of) @@ parts :> Split(vec.of) @@ mux :> mt
                  @@ join :> Join(mt.ins[1].of)
                  @@ trunc :> IntTruncate(t.of[2], IntTy(idxwidth(n))),
                {Wire(split, 2, trunc, 1), Wire(trunc, 1, join, 1), Wire(join, 1, mux, 1),
                 Wire(split, 1, parts, 1)}
                  \cup {Wire(parts, i, join, i + 1) : i \in 1..n},
                <<split, 1>>, <<mux, 1>>)

RefineInsertElement(b, t, idx) ==
  LET re    == ReplaceElement(t.of[1], idx)
      split == b \o "_split"
      join  == b \o "_join"
      repl  == b \o "_repl"
      trunc == b \o "_trunc"
      dynamic == idx = 0
  IN  Into(split :> Split(t.of) @@ join :> Join(re.ins[1].of) @@ repl :> re
             @@ (IF dynamic THEN trunc :> IntTruncate(t.of[3], re.ins[1].of[3]) ELSE <<>>),
           {Wire(split, 1, join, 1), Wire(split, 2, join, 2), Wire(join, 1, repl, 1)}
             \cup (IF dynamic THEN {Wire(split, 3, trunc, 1), Wire(trunc, 1, join, 3)} ELSE {}),
           <<split, 1>>, <<repl, 1>>)

RefineShift_Whole(b, op, t) ==  \* mutant: the whole amount goes to the shift
  LET join == b \o "_join"
      dir  == IF op = "Shl" THEN "Left" ELSE "Right"
  IN  Into(b \o "_split" :> Split(t.of) @@ join :> Join(t.of)
             @@ b \o "_shift" :> Shift(t.of[1], dir, "Logical"),
           {Wire(b \o "_split", 1, join, 1), Wire(b \o "_split", 2, join, 2),
            Wire(join, 1, b \o "_shift", 1)},
           <<b \o "_split", 1>>, <<b \o "_shift", 1>>)

\* The amount is cut to the bits that can shift within the width.
RefineShift(b, op, t) ==
  LET split == b \o "_split"
      trunc == b \o "_trunc"
      join  == b \o "_join"
      shift == b \o "_shift"
      st    == ShiftType(t.of[1])
  IN  Into(split :> Split(t.of) @@ trunc :> IntTruncate(t.of[2], st.of[2]) @@ join :> Join(st.of)
             @@ shift :> Shift(t.of[1], IF op = "Shl" THEN "Left" ELSE "Right",
                               IF op = "AShr" THEN "Arithmetic" ELSE "Logical"),
           {Wire(split, 2, trunc, 1), Wire(split, 1, join, 1), Wire(trunc, 1, join, 2),
            Wire(join, 1, shift, 1)},
           <<split, 1>>, <<shift, 1>>)

\* Less is greater with the operands swapped.
RefineICmp(b, p, t) ==
  LET op == CASE p = "EQ" -> "==" [] p = "NE" -> "!="
              [] p \in {"UGT", "ULT", "SGT", "SLT"} -> ">"
              [] p \in {"UGE", "ULE", "SGE", "SLE"} -> ">="
      signed == p \in {"SGT", "SGE", "SLT", "SLE"}
      swap   == p \in {"ULT", "ULE", "SLT", "SLE"}
      split  == b \o "_split"
      join   == b \o "_join"
      cmp    == b \o "_cmp"
  IN  IF ~swap THEN One(b \o "_cmp", IntCompare(t.of[1], t.of[2], op, signed))
      ELSE Into(split :> Split(t.of) @@ join :> Join(<<t.of[2], t.of[1]>>)
                  @@ cmp :> IntCompare(t.of[2], t.of[1], op, signed),
                {Wire(split, 2, join, 1), Wire(split, 1, join, 2), Wire(join, 1, cmp, 1)},
                <<split, 1>>, <<cmp, 1>>)

\* The wide result of the library's operation is cut to the instruction's type.
RefineBinary(b, op, t, u) ==
  LET wide == CASE op = "Add" -> IntAddition(t.of) [] op = "Sub" -> IntSubtraction(t.of)
                [] op = "Mul" -> IntMultiply(t.of)
                [] op \in {"UDiv", "SDiv"} -> IntDivide(t.of[1], t.of[2], op = "SDiv")
                [] op \in {"URem", "SRem"} -> IntRemainder(t.of[1], t.of[2], op = "SRem")
  IN  Into(b \o "_op" :> wide @@ b \o "_trunc" :> IntTruncate(wide.outs[1], u),
           {Wire(b \o "_op", 1, b \o "_trunc", 1)}, <<b \o "_op", 1>>, <<b \o "_trunc", 1>>)

\* A request leaves through one identity, its response comes in by another.
RefineImpure(b, k) ==
  [kind |-> b \o "_req" :> Identity(k.ins[1]) @@ b \o "_resp" :> Identity(k.outs[1]), wires |-> {},
   in |-> <<<<b \o "_req", 1>>, <<b \o "_resp", 1>>>>,
   out |-> <<<<b \o "_resp", 1>>, <<b \o "_req", 1>>>>]

RefineStructTwiddler(b, t, u, mapping) ==
  IF mapping = <<>>
  THEN [kind |-> b \o "_empty" :> Constant(u, Null) @@ b \o "_wait" :> Wait(u, <<t>>),
        wires |-> {Wire(b \o "_empty", 1, b \o "_wait", 1)},
        in |-> <<<<b \o "_wait", 2>>>>, out |-> <<<<b \o "_wait", 1>>>>]
  ELSE Into(b \o "_split" :> Split(t.of) @@ b \o "_join" :> Join(u.of),
            {Wire(b \o "_split", mapping[i], b \o "_join", i) : i \in DOMAIN mapping},
            <<b \o "_split", 1>>, <<b \o "_join", 1>>)

\* With an index that arrives: compare it with every position, choose for each
\* element between the old one and the new one.
RefineReplaceElement(b, t, idx) ==
  LET arr   == t.of[1]
      args  == b \o "_args"
      split == b \o "_arr"
      join  == b \o "_out"
      at(s, i) == b \o s \o ToString(i)
      N     == DOMAIN arr.of
      parts == {"_i", "_cj", "_cmp", "_mj", "_mux"}
      part(s, i) == CASE s = "_i"   -> Constant(t.of[3], i - 1)
                      [] s = "_cj"  -> Join(<<t.of[3], t.of[3]>>)
                      [] s = "_cmp" -> IntCompare(t.of[3], t.of[3], "==", FALSE)
                      [] s = "_mj"  -> Join(<<IntTy(1), arr.of[i], arr.of[i]>>)
                      [] s = "_mux" -> Multiplexer(2, arr.of[i])
      named == [s \in parts \X N |-> at(s[1], s[2])]
      which(c) == CHOOSE s \in parts \X N : named[s] = c
      outer == args :> Split(t.of) @@ split :> Split(arr.of) @@ join :> Join(arr.of)
  IN  IF idx # 0
      THEN Into(outer, {Wire(args, 1, split, 1)} \cup {IF i = idx THEN Wire(args, 2, join, i)
                                                       ELSE Wire(split, i, join, i) : i \in N},
                <<args, 1>>, <<join, 1>>)
      ELSE Into(outer @@ [c \in {named[s] : s \in parts \X N} |-> part(which(c)[1], which(c)[2])],
                {Wire(args, 1, split, 1)} \cup UNION {
                  {Wire(args, 3, at("_cj", i), 1), Wire(at("_i", i), 1, at("_cj", i), 2),
                   Wire(at("_cj", i), 1, at("_cmp", i), 1), Wire(at("_cmp", i), 1, at("_mj", i), 1),
                   Wire(split, i, at("_mj", i), 2), Wire(args, 2, at("_mj", i), 3),
                   Wire(at("_mj", i), 1, at("_mux", i), 1), Wire(at("_mux", i), 1, join, i)}
                    : i \in N},
                <<args, 1>>, <<join, 1>>)

\* A multiplexer with an input for every value of the selector; those that are
\* not listed take the default.
RefineSparseMultiplexer(b, t, inputs) ==
  LET n  == 2^t.of[1].bits
      mt == Multiplexer(n, t.of[2])
      source(v) == IF \E i \in DOMAIN inputs : inputs[i] = v
                   THEN 2 + CHOOSE i \in DOMAIN inputs : inputs[i] = v ELSE 2
  IN  Into(b \o "_split" :> Split(t.of) @@ b \o "_join" :> Join(mt.ins[1].of) @@ b \o "_mux" :> mt,
           {Wire(b \o "_join", 1, b \o "_mux", 1), Wire(b \o "_split", 1, b \o "_join", 1)}
             \cup {Wire(b \o "_split", source(v), b \o "_join", v + 2) : v \in 0..n - 1},
           <<b \o "_split", 1>>, <<b \o "_mux", 1>>)

Refinement(b, k) ==
  LET t == k.ins[1]
      u == k.outs[1]
  IN  CASE k.op \in Binary -> RefineBinary(b, k.op, t, u)
        [] k.op \in Shifts -> RefineShift(b, k.op, t)
        [] k.op \in {"And", "Or", "Xor"} ->
             One(b \o "_bits", Logic(2, u, CASE k.op = "And" -> "and" [] k.op = "Or" -> "or"
                                             [] k.op = "Xor" -> "xor"))
        [] k.op \in {"PHI", "Ret", "Br"} -> One(b \o "_id", Identity(u))
        [] k.op = "Trunc" -> One(b \o "_trunc", IntTruncate(t, u))
        [] k.op \in {"ZExt", "SExt"} -> One(b \o "_ext", IntExtend(u.bits - t.bits, k.op = "SExt", t))
        [] k.op = "ICmp" -> RefineICmp(b, k.arg, t)
        [] k.op = "SelectInst" -> RefineSelect(b, t)
        [] k.op = "ExtractElement" -> RefineExtractElement(b, t, k.arg)
        [] k.op = "InsertElement" -> RefineInsertElement(b, t, k.arg)
        [] k.op \in Impures -> RefineImpure(b, k)
        [] k.op = "StructTwiddler" -> RefineStructTwiddler(b, t, u, k.arg)
        [] k.op = "ReplaceElement" -> RefineReplaceElement(b, t, k.arg)
        [] k.op = "SparseMultiplexer" -> RefineSparseMultiplexer(b, t, k.arg)

-----------------------------------------------------------------------------
(* What a netlist means: for every output of the module the value it gets   *)
(* and the inputs of the module whose tokens it waits for, or nothing.      *)

None == [ok |-> FALSE, v |-> 0, waits |-> {}]
Token(v, waits) == [ok |-> TRUE, v |-> v, waits |-> waits]

\* The tokens block b puts out for the tokens it got on its inputs.
Fire(b, k, got, sample) ==
  LET waits  == UNION {got[n].waits : n \in DOMAIN got}
      all    == \A n \in DOMAIN got : got[n].ok
      tok(v) == IF all THEN Token(v, waits) ELSE None
      v      == got[1].v
      t      == k.ins[1]
  IN  CASE k.op = "Input"    -> <<Token(sample[b], {b})>>
        [] k.op = "Constant" -> <<Token(IF k.arg = Null THEN 0 ELSE k.arg, {})>>
        [] k.op = "Never"    -> <<None>>
        [] k.op \in {"Output", "NullSink"} -> <<>>
        [] k.op = "Select"   -> <<IF \E n \in DOMAIN got : got[n].ok
                                  THEN got[CHOOSE n \in DOMAIN got : got[n].ok] ELSE None>>
        [] k.op = "Router"   -> [m \in DOMAIN k.outs |->
                                   IF all /\ Field(t, v, 1) = m - 1 THEN tok(Field(t, v, 2)) ELSE None]
        [] k.op = "Join"     -> <<tok(Packed(k.outs[1], [n \in DOMAIN got |-> got[n].v]))>>
        [] k.op = "Split"    -> [m \in DOMAIN k.outs |-> tok(Field(t, v, m))]
        [] k.op = "Wait"     -> <<tok(v)>>
        [] k.op \in Impures  -> <<got[2], got[1]>>
        [] k.op \in Refinable -> <<tok(Result(k, v))>>
        [] OTHER             -> <<tok(Printed(k, v))>>

Driver(N, i) == {w[1] : w \in {x \in N.wires : x[2] = i}}
SinksOf(N, o) == {w[2] : w \in {x \in N.wires : x[1] = o}}

\* Evaluate block after block, drivers first.  An input nothing drives gets nothing.
Denotation(N, sample) ==
  LET drivers == [b \in DOMAIN N.kind |-> [n \in DOMAIN N.kind[b].ins |-> Driver(N, <<b, n>>)]]
      needs(b) == UNION {{o[1] : o \in drivers[b][n]} : n \in DOMAIN drivers[b]}
      got(b, fired, n) == IF drivers[b][n] = {} THEN None
                          ELSE LET o == CHOOSE p \in drivers[b][n] : TRUE IN fired[o[1]][o[2]]
      fire[n \in Nat] ==
        IF n = 0 THEN <<>>
        ELSE LET fired == fire[n - 1]
                 ready == {b \in DOMAIN N.kind \ DOMAIN fired : needs(b) \subseteq DOMAIN fired}
             IN  fired @@ [b \in ready |-> Fire(b, N.kind[b],
                             [m \in DOMAIN drivers[b] |-> got(b, fired, m)], sample)]
      fired == fire[Cardinality(DOMAIN N.kind)]
      outputs == {b \in DOMAIN N.kind : N.kind[b].op = "Output"}
  IN  [b \in outputs |-> got(b, fired, 1)]
=============================================================================
