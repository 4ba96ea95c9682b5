-------------------------- MODULE MCControlRegion ---------------------------
(***************************************************************************)
(* ControlRegion on every module of N ops: `src' only drives, `rest' both  *)
(* drives and is driven and stands for the module's outputs and for every  *)
(* block a region may not take.                                            *)
(***************************************************************************)
EXTENDS ControlRegion

CONSTANT N, src, rest

MCOps    == 1..N
MCOthers == {src, rest}
MCStart  == {rest}

Forward == {p \in MCOps \X MCOps : p[1] < p[2]}

\* Two ops that follow each other and are not connected could swap names: of
\* the two modules that differ in nothing else, one is enough.
Rank(E, b) == Cardinality(E \cap {<<src, b>>})
                + 2 * Cardinality(E \cap {<<b, rest>>})
                + 4 * Cardinality(E \cap {<<rest, b>>})
Canonical(E) ==
  \A b \in 1..(N - 1) : <<b, b + 1>> \in E \/ Rank(E, b) <= Rank(E, b + 1)

\* An op without drivers is a constant; every op drives something.
MCGraphs ==
  {E \in SUBSET (Forward \cup ({src, rest} \X MCOps) \cup (MCOps \X {rest})) :
     Canonical(E) /\ \A b \in MCOps : \E e \in E : e[1] = b}
=============================================================================
