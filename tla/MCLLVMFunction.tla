---------------------------- MODULE MCLLVMFunction ----------------------------
(***************************************************************************)
(* Functions for LLVMFunction: a branch with a PHI of constants and a value  *)
(* that passes by, a loop whose PHIs swap, a nested loop, a loop of one      *)
(* block, several returns; a branch with the same successor twice, a loop    *)
(* without an end, and a block that nothing leads to.                       *)
(***************************************************************************)
EXTENDS LLVMFunction

Constants == ("0" :> 0) @@ ("1" :> 1) @@ ("2" :> 2)
Function(args, code, succs) ==
  [args |-> args, consts |-> Constants, entry |-> "entry", code |-> code, succs |-> succs]
Op(id, op, args) == Ins(id, op, args, <<>>)
Br               == Op("br", "br", <<>>)
If(id, v)        == Op(id, "cond", <<v>>)
Ret(id, v)       == Op(id, "ret", <<v>>)
PHI(id, pairs)   == Ins(id, "phi", [n \in DOMAIN pairs |-> pairs[n][2]], [n \in DOMAIN pairs |-> pairs[n][1]])

diamond ==
  Function(<<"a", "b">>,
    "entry" :> <<Op("c", "lt", <<"a", "b">>), If("t0", "c")>>
      @@ "then" :> <<Op("s", "store", <<"b">>), Br>>
      @@ "join" :> <<PHI("x", << <<"entry", "2">>, <<"then", "b">> >>),
                     Op("y", "add", <<"x", "a">>), Ret("r", "y")>>,
    "entry" :> <<"then", "join">> @@ "then" :> <<"join">> @@ "join" :> <<>>)

\* while (i < a) swap x and y; the loop keeps b for later and carries y and x.
swap ==
  Function(<<"a", "b">>,
    "entry" :> <<Br>>
      @@ "head" :> <<PHI("x", << <<"entry", "0">>, <<"body", "y">> >>),
                     PHI("y", << <<"entry", "a">>, <<"body", "x">> >>),
                     PHI("i", << <<"entry", "0">>, <<"body", "j">> >>),
                     Op("c", "lt", <<"i", "b">>), If("t1", "c")>>
      @@ "body" :> <<Op("j", "add", <<"i", "1">>), Br>>
      @@ "exit" :> <<Op("z", "add", <<"x", "b">>), Ret("r", "z")>>,
    "entry" :> <<"head">> @@ "head" :> <<"body", "exit">> @@ "body" :> <<"head">> @@ "exit" :> <<>>)

\* A loop of one block that takes b from itself, and whose PHI takes a, which
\* it needs for itself as well.
selfLoop ==
  Function(<<"a", "b">>,
    "entry" :> <<Br>>
      @@ "loop" :> <<PHI("i", << <<"entry", "a">>, <<"loop", "j">> >>),
                     Op("k", "add", <<"a", "i">>), Op("j", "add", <<"i", "1">>),
                     Op("c", "lt", <<"j", "2">>), If("t2", "c")>>
      @@ "exit" :> <<Op("z", "add", <<"b", "k">>), Ret("r", "z")>>,
    "entry" :> <<"loop">> @@ "loop" :> <<"loop", "exit">> @@ "exit" :> <<>>)

\* The inner loop carries what only the outer one uses.
nested ==
  Function(<<"a">>,
    "entry" :> <<Br>>
      @@ "outer" :> <<PHI("i", << <<"entry", "0">>, <<"inner", "i2">> >>), 
                      Op("i2", "add", <<"i", "1">>), Op("c", "lt", <<"i", "a">>), If("t", "c")>>
      @@ "inner" :> <<PHI("j", << <<"outer", "1">>, <<"inner", "k">> >>),
                      Op("k", "add", <<"j", "1">>), Op("d", "lt", <<"k", "i2">>), If("u", "d")>>
      @@ "exit" :> <<Ret("r", "i2")>>,
    "entry" :> <<"outer">> @@ "outer" :> <<"inner", "exit">> @@ "inner" :> <<"inner", "outer">>
      @@ "exit" :> <<>>)

returns ==
  Function(<<"a", "b">>,
    "entry" :> <<Op("c", "lt", <<"a", "b">>), If("t0", "c")>>
      @@ "low" :> <<Ret("r", "a")>> @@ "high" :> <<Ret("q", "2")>>,
    "entry" :> <<"low", "high">> @@ "low" :> <<>> @@ "high" :> <<>>)

twice ==
  Function(<<"a">>,
    "entry" :> <<If("t0", "a")>> @@ "next" :> <<Ret("r", "a")>>,
    "entry" :> <<"next", "next">> @@ "next" :> <<>>)

\* Never returns.
endless ==
  Function(<<"a">>,
    "entry" :> <<Br>> @@ "loop" :> <<Op("j", "add", <<"a", "1">>), Br>>,
    "entry" :> <<"loop">> @@ "loop" :> <<"loop">>)

\* A block that nothing leads to takes an argument.
orphan ==
  Function(<<"a">>,
    "entry" :> <<Ret("r", "a")>> @@ "dead" :> <<Ret("q", "a")>>,
    "entry" :> <<>> @@ "dead" :> <<>>)

AllFunctions == {diamond, swap, selfLoop, nested, returns, twice, endless, orphan}
Arguments == {<<0, 2>>, <<2, 1>>}
=============================================================================
