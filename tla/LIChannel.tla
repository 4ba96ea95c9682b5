----------------------------- MODULE LIChannel -----------------------------
(***************************************************************************)
(* What every latency-insensitive element of the generated hardware        *)
(* promises, whatever registers and valid/back-pressure logic it is made   *)
(* of: the tokens it delivers are the tokens it accepted, in the order it  *)
(* accepted them, none lost and none repeated, and it never holds more     *)
(* than Capacity of them.  The hardware modules are shown to implement     *)
(* this specification.                                                     *)
(***************************************************************************)
EXTENDS Naturals, Sequences

CONSTANTS
  Token,      \* what a token may carry
  Capacity,   \* how many tokens the element can hold at a clock edge
  Bypass      \* may a token be delivered in the cycle that accepts it?

VARIABLES
  accepted,   \* the tokens taken from the upstream port since reset
  delivered   \* the tokens handed to the downstream port since reset

chanVars == <<accepted, delivered>>

TypeOK ==
  /\ accepted  \in Seq(Token)
  /\ delivered \in Seq(Token)

Init ==
  /\ accepted  = << >>
  /\ delivered = << >>

Held == Len(accepted) - Len(delivered)

Accept ==
  \/ UNCHANGED accepted
  \/ \E t \in Token : accepted' = Append(accepted, t)

\* The next undelivered token, among those accepted before this cycle, or up
\* to and including this cycle when the element has a combinational path.
Deliver ==
  \/ UNCHANGED delivered
  \/ LET n    == Len(delivered) + 1
         from == IF Bypass THEN accepted' ELSE accepted
     IN  /\ n <= Len(from)
         /\ delivered' = Append(delivered, from[n])

Cycle ==
  /\ Accept
  /\ Deliver
  /\ Len(accepted') <= Len(delivered') + Capacity

Reset ==
  /\ accepted'  = << >>
  /\ delivered' = << >>

Next == Cycle \/ Reset

Spec == Init /\ [][Next]_chanVars
=============================================================================
