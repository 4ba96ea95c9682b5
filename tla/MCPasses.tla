------------------------------ MODULE MCPasses ------------------------------
(***************************************************************************)
(* Designs for the passes.  Fed: every loop can be reached from an input.   *)
(* Unfed: the only loop has its first token from inside the module.         *)
(***************************************************************************)
EXTENDS Passes

In  == Block("Input", 0, 1)
Out == Block("Output", 1, 0)
Op(n) == Block("Op", n, 1)
W(a, m, b, n) == <<<<<<a>>, m>>, <<<<b>>, n>>>>
Design(bs, ws) == [blocks |-> bs, wires |-> ws]

\* A loop that a Router leaves, with a body that uses a value twice.
loop == Design(
  <<"x">> :> In @@ <<"s">> :> Op(2) @@ <<"j">> :> Op(2) @@ <<"r">> :> Block("Router", 1, 2) @@ <<"o">> :> Out,
  {W("x", 1, "s", 1), W("s", 1, "j", 1), W("s", 1, "j", 2), W("j", 1, "r", 1), W("r", 1, "s", 2), W("r", 2, "o", 1)})

\* Two loops through one block, one inside the other.
loops == Design(
  <<"x">> :> In @@ <<"s">> :> Op(2) @@ <<"t">> :> Op(2) @@ <<"o">> :> Out,
  {W("x", 1, "s", 1), W("s", 1, "t", 1), W("t", 1, "t", 2), W("t", 1, "s", 2), W("t", 1, "o", 1)})

\* A region with two outputs: one goes back, the other is used twice.
region == Design(
  <<"x">> :> In @@ <<"g">> :> Block("Region", 2, 2) @@ <<"a">> :> Op(2) @@ <<"o">> :> Out @@ <<"p">> :> Out,
  {W("x", 1, "g", 1), W("g", 1, "g", 2), W("g", 2, "a", 1), W("g", 2, "o", 1), W("a", 1, "p", 1)})

\* A record taken apart, beside a constant used twice.
record == Design(
  <<"x">> :> In @@ <<"q">> :> Block("Split", 1, 2) @@ <<"c">> :> Block("Constant", 0, 1)
    @@ <<"a">> :> Op(2) @@ <<"b">> :> Op(2) @@ <<"o">> :> Out @@ <<"p">> :> Out,
  {W("x", 1, "q", 1), W("q", 1, "a", 1), W("q", 2, "b", 1), W("c", 1, "a", 2), W("c", 1, "b", 2),
   W("a", 1, "o", 1), W("b", 1, "p", 1)})

\* A countdown: the loop has its first token from a Once, and ends in a Router.
countdown == Design(
  <<"c">> :> Block("Once", 0, 1) @@ <<"s">> :> Op(2) @@ <<"r">> :> Block("Router", 1, 2) @@ <<"o">> :> Out,
  {W("c", 1, "s", 1), W("s", 1, "r", 1), W("r", 1, "s", 2), W("r", 2, "o", 1)})

Fed == {loop, loops, region, record}
Unfed == {countdown}

ASSUME AllGrounded == \A n \in Fed \cup Unfed : Grounded(n)

ASSUME FedOrNot == /\ \A n \in Fed : FedFromOutside(n.blocks, n.wires)
                   /\ \A n \in Unfed : ~FedFromOutside(n.blocks, n.wires)
=============================================================================
