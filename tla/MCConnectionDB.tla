--------------------------- MODULE MCConnectionDB ---------------------------
(***************************************************************************)
(* ConnectionDB for TLC: every block has one input and one output, except  *)
(* that the blocks of Wide have a second input.  The output of a Converter  *)
(* has another type than its input, and only second inputs take it.         *)
(***************************************************************************)
EXTENDS ConnectionDB

CONSTANTS Wide, Converters

MCOutPorts == {<<"out", b>> : b \in Blocks}
MCInPorts  == {<<"in", b>> : b \in Blocks} \cup {<<"in2", b>> : b \in Wide}
MCOwner    == [p \in MCOutPorts \cup MCInPorts |-> p[2]]
MCType     == [p \in DOMAIN MCOwner |->
                 IF p[1] = "in2" \/ (p[1] = "out" /\ p[2] \in Converters) THEN "word" ELSE "bit"]
=============================================================================
