------------------------------- MODULE Datapath -------------------------------
(***************************************************************************)
(* The blocks that carry data: their types, what the Verilog printed for a *)
(* library block computes, what LLVM says its instructions compute, and    *)
(* the netlists that instructions and library functions refine to.         *)
(*                                                                         *)
(* A type is a record of its width and of the types it contains.  A value  *)
(* is the number its bits spell, element 0 of a composite in the low bits. *)
(* A netlist is as in LibraryCircuits, with the types of the ports; ports  *)
(* and elements count from 1.                                              *)
(***************************************************************************)
EXTENDS Integers, Sequences, FiniteSets, SequencesExt, FiniteSetsExt, Bitwise

IntTy(n)   == [bits |-> n, of |-> <<>>]
Composite(ts) == [bits |-> FoldLeft(LAMBDA n, t : n + t.bits, 0, ts), of |-> ts]
Vector(n, t)  == Composite([i \in 1..n |-> t])
Void       == IntTy(0)

bitoffset(t, i) == FoldLeft(LAMBDA n, u : n + u.bits, 0, SubSeq(t.of, 1, i - 1))
Slice(v, offset, width) == (v \div 2^offset) % 2^width
Field(t, v, i)  == Slice(v, bitoffset(t, i), t.of[i].bits)
Packed(t, vs)   == MapThenSumSet(LAMBDA i : vs[i] * 2^bitoffset(t, i), DOMAIN t.of)
Signed(t, v)    == IF t.bits > 0 /\ v >= 2^(t.bits - 1) THEN v - 2^t.bits ELSE v

\* The type and the value an extraction path leads to.
TypeAt(t, path) == FoldLeft(LAMBDA u, i : u.of[i], t, path)
ValueAt(t, v, path) ==
  FoldLeft(LAMBDA s, i : [t |-> s.t.of[i], v |-> Field(s.t, s.v, i)], [t |-> t, v |-> v], path).v

\* How many bits does it take to store an index into N things?
idxwidth(N) == CHOOSE w \in 0..N : 2^w >= N /\ \A u \in 0..w - 1 : 2^u < N

Block(op, ins, outs, arg) == [op |-> op, ins |-> ins, outs |-> outs, arg |-> arg]
Fun(op, t, u, arg) == Block(op, <<t>>, <<u>>, arg)
Null == -1

Join(ts)      == Block("Join", ts, <<Composite(ts)>>, 0)
Split(ts)     == Block("Split", <<Composite(ts)>>, ts, 0)
Wait(t, cs)   == Block("Wait", <<t>> \o cs, <<t>>, 0)
Select(n, t)  == Block("Select", [i \in 1..n |-> t], <<t>>, 0)
Router(n, t)  == Block("Router", <<Composite(<<IntTy(idxwidth(n)), t>>)>>, [i \in 1..n |-> t], 0)
Never(t)      == Block("Never", <<>>, <<t>>, 0)
NullSink(t)   == Block("NullSink", <<t>>, <<>>, 0)
Constant(t, v) == Block("Constant", <<>>, <<t>>, v)
Identity(t)   == Fun("Identity", t, t, 0)
Extract(t, path) == Fun("Extract", t, TypeAt(t, path), path)
Multiplexer(n, t) == Fun("Multiplexer", Composite(<<IntTy(idxwidth(n))>> \o [i \in 1..n |-> t]), t, 0)

\* An addition is one bit wider than its widest operand for each operand but one.
SumType(ts) == LET sorted == SortSeq(ts, LAMBDA t, u : t.bits < u.bits)
               IN  IntTy(FoldLeft(LAMBDA n, t : IF n = 0 THEN t.bits
                                              ELSE IF t.bits > n THEN t.bits + 1 ELSE n + 1,
                                0, sorted))
ProductType(ts) == IntTy(Composite(ts).bits)
IntAddition(ts)    == Fun("IntAddition", Composite(ts), SumType(ts), 0)
IntSubtraction(ts) == Fun("IntSubtraction", Composite(ts), SumType(ts), 0)
IntMultiply(ts)    == Fun("IntMultiply", Composite(ts), ProductType(ts), 0)
IntDivide(t, u, signed)    == Fun("IntDivide", Composite(<<t, u>>), t, signed)
IntRemainder(t, u, signed) == Fun("IntRemainder", Composite(<<t, u>>), u, signed)
Logic(n, t, op)    == Fun("Bitwise", Vector(n, t), t, op)
IntCompare(t, u, op, signed) ==
  Fun("IntCompare", Composite(<<t, u>>), IntTy(1), [op |-> op, signed |-> signed])
ShiftType(t)       == Composite(<<t, IntTy(idxwidth(t.bits))>>)
Shift(t, dir, style) == Fun("Shift", ShiftType(t), t, [dir |-> dir, style |-> style])
IntTruncate(t, u)  == Fun("IntTruncate", t, u, 0)
IntExtend(n, signExtend, t) == Fun("IntExtend", t, IntTy(t.bits + n), signExtend)
StructTwiddler(t, mapping) ==
  Fun("StructTwiddler", t, Composite([i \in DOMAIN mapping |-> t.of[mapping[i]]]), mapping)
\* Index 0 stands for an index that arrives with the data.
ReplaceElement(t, idx) ==
  Fun("ReplaceElement",
      Composite(<<t, t.of[1]>> \o (IF idx = 0 THEN <<IntTy(idxwidth(Len(t.of)))>> ELSE <<>>)),
      t, idx)
SparseMultiplexer(sel, t, inputs) ==
  Fun("SparseMultiplexer", Composite(<<sel, t>> \o [i \in 1..Len(inputs) |-> t]), t, inputs)

-----------------------------------------------------------------------------
(* What the printed Verilog of a block assigns to its output.              *)

Truncated(t, n) == n % 2^t.bits
\* Division in Verilog and in LLVM rounds towards zero.
Quotient(a, b) == IF b = 0 THEN 0
                  ELSE LET q == (IF a < 0 THEN -a ELSE a) \div (IF b < 0 THEN -b ELSE b)
                       IN  IF (a < 0) = (b < 0) THEN q ELSE -q
Remainder(a, b) == IF b = 0 THEN 0 ELSE a - b * Quotient(a, b)
Bits(op, a, b) == CASE op = "and" -> a & b [] op = "or" -> a | b [] op = "xor" -> a ^^ b
Holds(op, a, b) == CASE op = "==" -> a = b [] op = "!=" -> a # b
                     [] op = ">" -> a > b  [] op = ">=" -> a >= b

\* A part select of Verilog is unsigned unless it is wrapped in $signed.
Operand(k, v, i, signed) ==
  LET f == Field(k.ins[1], v, i) IN IF signed THEN Signed(k.ins[1].of[i], f) ELSE f

Arithmetic(k, v) ==
  LET f(i) == Operand(k, v, i, FALSE)
      s(i) == Operand(k, v, i, k.arg)
      n    == Len(k.ins[1].of)
  IN  CASE k.op = "IntAddition"    -> FoldFunction(LAMBDA a, b : a + b, 0, [i \in 1..n |-> f(i)])
        [] k.op = "IntSubtraction" -> f(1) - f(2)
        [] k.op = "IntMultiply"    -> FoldFunction(LAMBDA a, b : a * b, 1, [i \in 1..n |-> f(i)])
        [] k.op = "IntDivide"      -> Quotient(s(1), s(2))
        [] k.op = "IntRemainder"   -> Remainder(s(1), s(2))

\* The operand of a shift is printed without $signed, whatever its style: >>>
\* of an unsigned operand fills with zeros.
Shifted(k, v) ==
  LET a == Operand(k, v, 1, FALSE)
      n == Operand(k, v, 2, FALSE)
  IN  IF k.arg.dir = "Left" THEN Truncated(k.outs[1], a * 2^n) ELSE a \div 2^n

Extended(k, v) == LET t == k.ins[1]
                      u == k.outs[1]
                  IN  IF k.arg THEN Truncated(u, Signed(t, v)) ELSE v

Logical(k, v) == LET f == [i \in DOMAIN k.ins[1].of |-> Operand(k, v, i, FALSE)]
                 IN  FoldLeft(LAMBDA a, b : Bits(k.arg, a, b), f[1], Tail(f))

Compared(k, v) == IF Holds(k.arg.op, Operand(k, v, 1, k.arg.signed), Operand(k, v, 2, k.arg.signed))
                  THEN 1 ELSE 0

\* An index out of range makes the multiplexer's output undefined: 0 here.
Multiplexed(k, v) == LET i == 2 + Field(k.ins[1], v, 1)
                     IN  IF i \in DOMAIN k.ins[1].of THEN Field(k.ins[1], v, i) ELSE 0

Printed(k, v) ==
  CASE k.op \in {"IntAddition", "IntSubtraction", "IntMultiply", "IntDivide", "IntRemainder"}
         -> Truncated(k.outs[1], Arithmetic(k, v))
    [] k.op \in {"Identity", "Cast"} -> v
    [] k.op = "Bitwise"     -> Logical(k, v)
    [] k.op = "IntCompare"  -> Compared(k, v)
    [] k.op = "Shift"       -> Shifted(k, v)
    [] k.op = "IntTruncate" -> Truncated(k.outs[1], v)
    [] k.op = "IntExtend"   -> Extended(k, v)
    [] k.op = "Extract"     -> ValueAt(k.ins[1], v, k.arg)
    [] k.op = "Multiplexer" -> Multiplexed(k, v)
=============================================================================
