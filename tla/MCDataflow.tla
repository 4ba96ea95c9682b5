------------------------------ MODULE MCDataflow ------------------------------
(***************************************************************************)
(* Small basic blocks for Simplify: every kind of instruction that refines, *)
(* joined to its operands the way the frontend joins them, and netlists     *)
(* with the redundancies the pass looks for.                                *)
(***************************************************************************)
EXTENDS Simplify

i1 == IntTy(1)
i2 == IntTy(2)
i4 == IntTy(4)
pair == Composite(<<i1, i2>>)
vec  == Vector(2, i1)

In(t)  == Block("Input", <<>>, <<t>>, 0)
Out(t) == Block("Output", <<t>>, <<>>, 0)
W(b, c) == Wire(b, 1, c, 1)

\* The values of the inputs, named in order.
Samples(names, sets) ==
  {[b \in {names[n] : n \in DOMAIN names} |-> f[CHOOSE n \in DOMAIN names : names[n] = b]]
     : f \in {g \in [DOMAIN sets -> 0..15] : \A n \in DOMAIN sets : g[n] \in sets[n]}}
OfXA(X, A) == {[x |-> v, a |-> u] : v \in X, u \in A}
OfXY(X, Y) == {[x |-> a, y |-> c] : a \in X, c \in Y}

Program(kind, wires, samples) == [net |-> Net(kind, wires), samples |-> samples]

\* Two instructions on the operands x and y.
TwoOf(op1, u1, op2, u2, arg1, arg2, samples) ==
  Program("x" :> In(i2) @@ "y" :> In(i2) @@ "j" :> Join(<<i2, i2>>)
            @@ "a" :> Instruction(op1, <<i2, i2>>, u1, arg1) @@ "o" :> Out(u1)
            @@ "b" :> Instruction(op2, <<i2, i2>>, u2, arg2) @@ "p" :> Out(u2),
          {W("x", "j"), Wire("y", 1, "j", 2), W("j", "a"), W("j", "b"), W("a", "o"), W("b", "p")},
          samples)

select ==
  Program("x" :> In(pair) @@ "y" :> In(i2) @@ "e" :> Extract(pair, <<1>>)
            @@ "f" :> Extract(pair, <<2>>) @@ "j" :> Join(<<i1, i2, i2>>)
            @@ "a" :> Instruction("SelectInst", <<i1, i2, i2>>, i2, 0) @@ "o" :> Out(i2),
          {W("x", "e"), W("x", "f"), W("e", "j"), Wire("f", 1, "j", 2), Wire("y", 1, "j", 3),
           W("j", "a"), W("a", "o")},
          OfXY(0..7, 0..3))

addsub == 
  Program("x" :> In(i2) @@ "y" :> In(i2) @@ "three" :> Constant(i2, 3) @@ "j" :> Join(<<i2, i2>>)
            @@ "a" :> Instruction("Add", <<i2, i2>>, i2, 0) @@ "k" :> Join(<<i2, i2>>)
            @@ "b" :> Instruction("Sub", <<i2, i2>>, i2, 0) @@ "c" :> Instruction("Ret", <<i2>>, i2, 0)
            @@ "o" :> Out(i2),
          {W("x", "j"), Wire("three", 1, "j", 2), W("j", "a"), W("a", "k"), Wire("y", 1, "k", 2),
           W("k", "b"), W("b", "c"), W("c", "o")},
          OfXY(0..3, 0..3))

casts ==
  Program("x" :> In(i2) @@ "a" :> Instruction("SExt", <<i2>>, i4, 0)
            @@ "b" :> Instruction("ZExt", <<i2>>, i4, 0) @@ "j" :> Join(<<i4, i4>>)
            @@ "c" :> Instruction("Mul", <<i4, i4>>, i4, 0) @@ "d" :> Instruction("Trunc", <<i4>>, i1, 0)
            @@ "o" :> Out(i4) @@ "p" :> Out(i1),
          {W("x", "a"), W("x", "b"), W("a", "j"), Wire("b", 1, "j", 2), W("j", "c"), W("c", "o"),
           W("c", "d"), W("d", "p")},
          {[x |-> v] : v \in 0..3})

insert ==
  Program("x" :> In(vec) @@ "y" :> In(i1) @@ "z" :> In(i2) @@ "j" :> Join(<<vec, i1, i2>>)
            @@ "a" :> Instruction("InsertElement", <<vec, i1, i2>>, vec, 0) @@ "o" :> Out(vec),
          {W("x", "j"), Wire("y", 1, "j", 2), Wire("z", 1, "j", 3), W("j", "a"), W("a", "o")},
          {[x |-> a, y |-> e, z |-> i] : a \in 0..3, e \in 0..1, i \in 0..1})

extract ==
  Program("x" :> In(vec) @@ "y" :> In(i2) @@ "j" :> Join(<<vec, i2>>)
            @@ "a" :> Instruction("ExtractElement", <<vec, i2>>, i1, 0) @@ "o" :> Out(i1)
            @@ "b" :> Instruction("ExtractElement", <<vec, i2>>, i1, 2) @@ "p" :> Out(i1),
          {W("x", "j"), Wire("y", 1, "j", 2), W("j", "a"), W("a", "o"), W("j", "b"), W("b", "p")},
          OfXY(0..3, 0..1))

\* An element replaced at a constant index, and a sparse multiplexer.
library ==
  Program("x" :> In(vec) @@ "y" :> In(i1) @@ "j" :> Join(<<vec, i1, i2>>) @@ "one" :> Constant(i2, 1)
            @@ "a" :> Instruction("InsertElement", <<vec, i1, i2>>, vec, 2) @@ "o" :> Out(vec)
            @@ "k" :> Join(<<i1, vec, vec>>) @@ "s" :> SparseMultiplexer(i1, vec, <<1>>)
            @@ "p" :> Out(vec),
          {W("x", "j"), Wire("y", 1, "j", 2), Wire("one", 1, "j", 3), W("j", "a"), W("a", "o"),
           W("y", "k"), Wire("x", 1, "k", 2), Wire("a", 1, "k", 3), W("k", "s"), W("s", "p")},
          OfXY(0..3, 0..1))

twiddle ==
  Program("x" :> In(pair) @@ "a" :> StructTwiddler(pair, <<2, 1>>)
            @@ "b" :> StructTwiddler(pair, <<>>) @@ "o" :> Out(Composite(<<i2, i1>>))
            @@ "p" :> Out(Composite(<<>>)),
          {W("x", "a"), W("x", "b"), W("a", "o"), W("b", "p")}, {[x |-> v] : v \in 0..7})

\* A branch on a constant, whose targets were merged again.
branch ==
  Program("one" :> Constant(i1, 1) @@ "y" :> In(i2) @@ "c" :> Instruction("Br", <<i1>>, i1, 0)
            @@ "j" :> Join(<<i1, i2>>) @@ "r" :> Router(2, i2) @@ "s" :> Select(2, i2)
            @@ "t" :> Select(1, i2) @@ "o" :> Out(i2) @@ "p" :> Out(i2),
          {W("one", "c"), W("c", "j"), Wire("y", 1, "j", 2), W("j", "r"), W("r", "s"),
           Wire("r", 2, "s", 2), W("s", "o"), W("r", "t"), W("t", "p")},
          {[y |-> v] : v \in 0..3})

constants ==
  Program("c" :> Constant(pair, 5) @@ "a" :> StructTwiddler(pair, <<2, 1>>) @@ "x" :> In(i1)
            @@ "e" :> Extract(Composite(<<i2, i1>>), <<1>>) @@ "j" :> Join(<<i1, i2>>)
            @@ "o" :> Out(pair) @@ "p" :> Out(Composite(<<i2, i1>>)),
          {W("c", "a"), W("a", "e"), W("x", "j"), Wire("e", 1, "j", 2), W("j", "o"), W("a", "p")},
          {[x |-> v] : v \in 0..1})

sinks ==
  Program("x" :> In(i2) @@ "y" :> In(i2) @@ "j" :> Join(<<i2, i2>>)
            @@ "a" :> Instruction("Xor", <<i2, i2>>, i2, 0) @@ "n" :> NullSink(i2)
            @@ "b" :> Instruction("And", <<i2, i2>>, i2, 0) @@ "k" :> Join(<<i2, i2>>)
            @@ "m" :> NullSink(i2) @@ "o" :> Out(i2),
          {W("x", "j"), Wire("y", 1, "j", 2), W("j", "a"), W("a", "n"), W("x", "k"), W("a", "m"),
           Wire("y", 1, "k", 2), W("k", "b"), W("b", "o")},
          OfXY(0..3, 0..3))

\* A load feeds a call: both talk to the outside.
memory ==
  Program("x" :> In(i2) @@ "a" :> Impure("Load", <<i2>>, i2) @@ "r" :> In(i2) @@ "q" :> Out(i2)
            @@ "j" :> Join(<<i2, i2>>) @@ "b" :> Impure("Call", <<i2, i2>>, i1) @@ "s" :> In(i1)
            @@ "t" :> Out(Composite(<<i2, i2>>)) @@ "o" :> Out(i1),
          {W("x", "a"), Wire("r", 1, "a", 2), Wire("a", 2, "q", 1), W("a", "j"),
           Wire("x", 1, "j", 2), W("j", "b"), Wire("s", 1, "b", 2), Wire("b", 2, "t", 1), W("b", "o")},
          {[x |-> a, r |-> c, s |-> 1] : a \in 0..3, c \in 0..3})

\* An element of a vector of one, at an index that arrives.
single ==
  Program("x" :> In(Vector(1, i2)) @@ "y" :> In(i2) @@ "j" :> Join(<<Vector(1, i2), i2>>)
            @@ "a" :> Instruction("ExtractElement", <<Vector(1, i2), i2>>, i2, 0) @@ "o" :> Out(i2),
          {W("x", "j"), Wire("y", 1, "j", 2), W("j", "a"), W("a", "o")},
          {[x |-> a, y |-> 0] : a \in 0..3})

\* The write side of an AXI adapter with one register: the router has one output.
Written(kind, wires) ==
  Program("a" :> In(i2) @@ "x" :> In(i2) @@ "t" :> IntTruncate(i2, IntTy(idxwidth(1)))
            @@ "j" :> Join(<<IntTy(idxwidth(1)), i2>>) @@ "r" :> Router(1, i2)
            @@ "u" :> Join(<<i2>>) @@ "w" :> Wait(i2, <<Composite(<<IntTy(idxwidth(1)), i2>>)>>)
            @@ "c" :> Constant(i2, 0) @@ "p" :> Out(i2) @@ kind,
          {W("a", "t"), W("t", "j"), Wire("x", 1, "j", 2), W("j", "r"), W("r", "u"), W("c", "w"),
           Wire("j", 1, "w", 2), W("w", "p")} \cup wires,
          OfXA(0..3, 0..1))
adapter == Written("o" :> Out(Composite(<<i2>>)), {W("u", "o")})
\* Nothing reads the register.
unread == Written(<<>>, {})

\* LLVM gives no result for a shift by the width or more, a division by zero,
\* and the least number divided by -1.
MCPrograms ==
  [select |-> select, addsub |-> addsub, casts |-> casts, insert |-> insert, extract |-> extract,
   library |-> library, twiddle |-> twiddle, branch |-> branch, constants |-> constants,
   sinks |-> sinks, memory |-> memory, single |-> single, adapter |-> adapter, unread |-> unread,
   shift  |-> TwoOf("Shl", i2, "LShr", i2, 0, 0, OfXY(0..3, 0..1)),
   logic  |-> TwoOf("Or", i2, "ICmp", i1, 0, "SLT", OfXY(0..3, 0..3)),
   compare |-> TwoOf("ICmp", i1, "ICmp", i1, "UGE", "ULE", OfXY(0..3, 0..3)),
   divide |-> TwoOf("SDiv", i2, "URem", i2, 0, 0, OfXY(0..3, 1..3) \ {[x |-> 2, y |-> 3]}),
   remainder |-> TwoOf("UDiv", i2, "SRem", i2, 0, 0, OfXY(0..3, 1..3) \ {[x |-> 2, y |-> 3]})]

AShrProgram == [ashr |-> TwoOf("AShr", i2, "Shl", i2, 0, 0, OfXY(0..3, 0..1))]

Meaning(N, samples) == [s \in samples |-> Denotation(N, s)]
\* What each program is to compute: what LLVM says of its instructions.
Specified == [p \in DOMAIN Programs |-> Meaning(Programs[p].net, Programs[p].samples)]
Specification == "meaning" :> Specified

-----------------------------------------------------------------------------

\* A wire joins ports of one type, whatever refined and simplified blocks it is
\* moved between.
TypeOK == /\ phase \in {"refine", "noops", "sinks", "push", "extracts", "constants", "done", "failed"}
          /\ \A w \in net.wires : net.kind[w[1][1]].outs[w[1][2]] = net.kind[w[2][1]].ins[w[2][2]]

\* Refinement and simplification leave the program what LLVM says it is: on every
\* sample each output of the module gets the value it should get, after the
\* inputs it should wait for and no others, whatever the order of the visits.
MeaningKept == Meaning(net, Programs[program].samples) = Specification.meaning[program]

\* What the pass has no way through: a multiplexer with one data input, which
\* Transformer::replace refuses to replace, and a router with one output, whose
\* driver and sinks differ in type.  What nothing reads may go before it is met.
Refused == {"single", "adapter"}

\* simplify.cpp says the pass is applied iteratively until convergence: it comes
\* to a netlist it does not change any more, and no order of the visits makes a
\* visit throw.  The programs of Refused end in the exception, in every order.
Converges == <>(IF phase = "failed" THEN program \in Refused \cup {"unread"}
                ELSE phase = "done" /\ program \notin Refused)

\* What is left then is simplified: every block drives something or swallows
\* tokens, nothing is an identity or a select, router or multiplexer of one, no structure is taken
\* apart right behind the join that made it, and what constants alone compute
\* by moving bits is a constant.
Simplified ==
  phase = "done" =>
    \A b \in Blocks(net) :
      LET k == net.kind[b]
      IN  /\ k.op = "NullSink" \/ Drives(net, b) # {}
          /\ ~IsWire(k) /\ ~IsSingle(k) /\ (k.op = "Select" => k.ins # <<>>)
          /\ k.op \in {"Split", "Extract"} => ~JoinDriven(net, b)
          /\ k.op = "Router" => Route(net, b) = {}
          /\ k.op = "NullSink" => Cardinality(SinksOf(net, DriverOf(net, <<b, 1>>))) = 1
          /\ \A i \in SinksOf(net, <<b, 1>>) :
               (net.kind[i[1]].op = "Output" /\ b \in ConstantBlocks(net)
                  /\ Equivalent(net, <<b, 1>>) # Null) => k.op = "Constant"

\* Nothing is lost on the way: an input of a block that had a driver has one as
\* long as the block is used.
InputsDriven ==
  \A b \in Blocks(net) : \A n \in DOMAIN net.kind[b].ins : HasDriver(net, <<b, n>>)
=============================================================================
