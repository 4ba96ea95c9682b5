-------------------------- MODULE MCRegionPipeline --------------------------
(***************************************************************************)
(* Regions for RegionPipeline: paths of different lengths that meet, a Wait *)
(* for something that gives no value, two outputs with a constant between.  *)
(***************************************************************************)
EXTENDS RegionPipeline

In == Block("Input", {})
Out == Block("Output", {1})
Op(n) == Block("Op", 1..n)
W(a, b, n) == <<<<<<a>>, 1>>, <<<<b>>, n>>>>
Region(bs, ws) == [blocks |-> bs, wires |-> ws]

\* x meets what was made of it and of y; something made of y is not used.
diamond == Region(
  <<"x">> :> In @@ <<"y">> :> In @@ <<"a">> :> Op(1) @@ <<"b">> :> Op(2) @@ <<"c">> :> Op(2) @@ <<"d">> :> Op(1)
    @@ <<"o">> :> Out,
  {W("x", "a", 1), W("a", "b", 1), W("y", "b", 2), W("b", "c", 1), W("x", "c", 2), W("y", "d", 1), W("c", "o", 1)})

\* A forked x waits for y and for what was made of both.
waiting == Region(
  <<"x">> :> In @@ <<"y">> :> In @@ <<"a">> :> Op(1) @@ <<"p">> :> Op(2) @@ <<"w">> :> Block("Wait", 1..2)
    @@ <<"f">> :> Block("Fork", {1}) @@ <<"o">> :> Out,
  {W("x", "f", 1), W("f", "a", 1), <<<<<<"f">>, 2>>, <<<<"p">>, 1>>>>,
   W("y", "p", 2), W("a", "w", 1), W("p", "w", 2), W("w", "o", 1)})

\* One output is an operation later than the other; a constant is added to both.
twoOutputs == Region(
  <<"x">> :> In @@ <<"k">> :> Block("Constant", {}) @@ <<"u">> :> Op(1) @@ <<"m">> :> Op(2) @@ <<"n">> :> Op(2)
    @@ <<"o">> :> Out @@ <<"q">> :> Out,
  {W("x", "m", 1), W("k", "u", 1), W("u", "m", 2), W("m", "n", 1), W("k", "n", 2), W("m", "o", 1), W("n", "q", 1)})

MCRegions == {diamond, waiting, twoOutputs}

ASSUME RegionsCompute == \A r \in Regions : Computes(r)
=============================================================================
