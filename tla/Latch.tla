------------------------------- MODULE Latch -------------------------------
(***************************************************************************)
(* The Latch of support/backends/verilog/pipeline.sv: transparent while    *)
(* empty, it keeps the token that downstream refuses so that upstream does *)
(* not feel the back-pressure in the same cycle.  LatchUntiedOutputsPass   *)
(* puts one on each output of a block whose outputs are not independent.   *)
(*                                                                         *)
(* The path from d to q is combinational, so the ports of the current      *)
(* cycle are part of the state: d and d_valid are what upstream drives now *)
(* and a step is the clock edge that ends the cycle.  Upstream may change  *)
(* its mind in any cycle.                                                  *)
(***************************************************************************)
EXTENDS Naturals, Sequences

CONSTANTS
  Data,        \* the values a token may carry
  MaxTokens    \* bound: how many tokens upstream offers after a reset

VARIABLES
  data, valid,   \* the latch
  d, d_valid,    \* what upstream drives in the current cycle
  accepted,      \* history: tokens taken on port d since reset
  delivered      \* history: tokens given on port q since reset

vars == <<data, valid, d, d_valid, accepted, delivered>>

Token == Data

TypeOK ==
  /\ data \in Data /\ valid \in BOOLEAN
  /\ d \in Data /\ d_valid \in BOOLEAN
  /\ accepted  \in Seq(Data)
  /\ delivered \in Seq(Data)

-----------------------------------------------------------------------------

q       == IF valid THEN data ELSE d
q_valid == valid \/ d_valid
d_bp    == valid

Incoming       == d_valid /\ ~d_bp
Outgoing(q_bp) == valid /\ ~q_bp

\* What upstream drives in the cycle that follows; it stops offering tokens
\* when MaxTokens have been taken.
Drive ==
  /\ d' \in Data
  /\ d_valid' \in BOOLEAN
  /\ d_valid' => Len(accepted') < MaxTokens

Init ==
  /\ valid = FALSE
  /\ data \in Data
  /\ d \in Data
  /\ d_valid \in {v \in BOOLEAN : v => MaxTokens > 0}
  /\ accepted = << >> /\ delivered = << >>

Reset ==
  /\ valid' = FALSE
  /\ UNCHANGED data
  /\ accepted' = << >> /\ delivered' = << >>
  /\ Drive

\* What the neighbours see of the cycle: a port transfers when its valid is
\* high and its back-pressure low.
Transfer(q_bp) ==
  /\ accepted'  = IF d_valid /\ ~d_bp THEN Append(accepted, d) ELSE accepted
  /\ delivered' = IF q_valid /\ ~q_bp THEN Append(delivered, q) ELSE delivered

\* The latched token leaves.
Release(q_bp) ==
  /\ Outgoing(q_bp)
  /\ valid' = FALSE
  /\ UNCHANGED data

\* Downstream refuses the token that is arriving: it is kept.
Capture(q_bp) ==
  /\ ~Outgoing(q_bp)
  /\ Incoming /\ q_bp
  /\ valid' = TRUE
  /\ data' = d

\* The token passes straight through, or nothing moves.
Pass(q_bp) ==
  /\ ~Outgoing(q_bp)
  /\ ~(Incoming /\ q_bp)
  /\ UNCHANGED <<data, valid>>

Clock(q_bp) ==
  /\ Release(q_bp) \/ Capture(q_bp) \/ Pass(q_bp)
  /\ Transfer(q_bp)
  /\ Drive

Next == Reset \/ (\E q_bp \in BOOLEAN : Clock(q_bp))

Spec == Init /\ [][Next]_vars

-----------------------------------------------------------------------------

Channel == INSTANCE LIChannel WITH Capacity <- 1, Bypass <- TRUE

\* The latch is a one-place channel with a combinational path: the token that
\* passes through and the one that is kept are never both delivered, and never
\* both lost.
ChannelSpec == Channel!Spec

\* "Isolates previous stuff from backpressure" (pipeline.sv:338-340): whether
\* upstream is refused in a cycle was settled at the last clock edge, and only
\* because a token is still waiting.
RefusesOnlyWhenHolding == d_bp <=> Channel!Held = 1

=============================================================================
