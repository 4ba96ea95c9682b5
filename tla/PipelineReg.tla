---------------------------- MODULE PipelineReg ----------------------------
(***************************************************************************)
(* PipelineReg_DoubleWidth, the two-slot register the Verilog backend      *)
(* instantiates for every PipelineRegister that no control region clocks   *)
(* (support/backends/verilog/pipeline.sv).  One step is one rising clock   *)
(* edge; the ports d, d_valid and q_bp are driven by the neighbours and    *)
(* may take any value in any cycle, so nothing is assumed of upstream.     *)
(***************************************************************************)
EXTENDS Naturals, Sequences

CONSTANTS
  Data,        \* the values a token may carry
  MaxTokens    \* bound: how many tokens upstream offers after a reset

ASSUME DataNonEmpty == Data # {}
ASSUME MaxTokensNat == MaxTokens \in Nat

VARIABLES
  data1, valid1,   \* slot one, always the output
  data2, valid2,   \* slot two, filled while slot one is occupied
  accepted,        \* history: tokens taken on port d since reset
  delivered        \* history: tokens given on port q since reset

vars == <<data1, valid1, data2, valid2, accepted, delivered>>

Token == Data

TypeOK ==
  /\ data1 \in Data /\ valid1 \in BOOLEAN
  /\ data2 \in Data /\ valid2 \in BOOLEAN
  /\ accepted  \in Seq(Data)
  /\ delivered \in Seq(Data)

-----------------------------------------------------------------------------
(* The output ports: functions of the registers alone.                     *)

q       == data1
q_valid == valid1
\* Mutant: refuses although slot two is free.
d_bp_OneSlot == valid1
d_bp    == valid1 /\ valid2

(* The two wires of the handshake.                                         *)
Incoming(d_valid) == d_valid /\ ~d_bp
Outgoing(q_bp)    == q_valid /\ ~q_bp

\* Reset clears the valid bits only: the data registers power up with, and
\* keep, whatever they hold.
Init ==
  /\ valid1 = FALSE /\ valid2 = FALSE
  /\ data1 \in Data /\ data2 \in Data
  /\ accepted = << >> /\ delivered = << >>

\* resetn is low at the clock edge.
Reset ==
  /\ valid1' = FALSE /\ valid2' = FALSE
  /\ UNCHANGED <<data1, data2>>
  /\ accepted' = << >> /\ delivered' = << >>

\* Mutant: slot two does not move up.
Drain_NoShift(d_valid, q_bp) ==
  /\ Outgoing(q_bp) /\ ~Incoming(d_valid)
  /\ valid1' = FALSE
  /\ UNCHANGED <<data1, data2, valid2>>
  /\ delivered' = Append(delivered, q)
  /\ UNCHANGED accepted

\* Mutant: both slots are emptied.
Drain_Both(d_valid, q_bp) ==
  /\ Outgoing(q_bp) /\ ~Incoming(d_valid)
  /\ valid1' = FALSE /\ valid2' = FALSE
  /\ UNCHANGED <<data1, data2>>
  /\ delivered' = Append(delivered, q)
  /\ UNCHANGED accepted

\* A token leaves and none arrives: slot two moves into slot one.
Drain(d_valid, q_bp) ==
  /\ Outgoing(q_bp) /\ ~Incoming(d_valid)
  /\ valid1' = valid2 /\ data1' = data2
  /\ valid2' = FALSE /\ UNCHANGED data2
  /\ delivered' = Append(delivered, q)
  /\ UNCHANGED accepted

\* Mutant: slot one is overwritten.
Fill_SlotOne(d_valid, d, q_bp) ==
  /\ Incoming(d_valid) /\ ~Outgoing(q_bp)
  /\ valid1' = TRUE /\ data1' = d /\ UNCHANGED <<valid2, data2>>
  /\ accepted' = Append(accepted, d)
  /\ UNCHANGED delivered

\* A token arrives and none leaves: it takes the first free slot.
Fill(d_valid, d, q_bp) ==
  /\ Incoming(d_valid) /\ ~Outgoing(q_bp)
  /\ IF valid1
     THEN valid2' = TRUE /\ data2' = d /\ UNCHANGED <<valid1, data1>>
     ELSE valid1' = TRUE /\ data1' = d /\ UNCHANGED <<valid2, data2>>
  /\ accepted' = Append(accepted, d)
  /\ UNCHANGED delivered

\* One in, one out.  The branch for an occupied slot two is the one the
\* source marks "should not occur".
Stream(d_valid, d, q_bp) ==
  /\ Incoming(d_valid) /\ Outgoing(q_bp)
  /\ valid1' = TRUE
  /\ IF valid2
     THEN data1' = data2 /\ data2' = d
     ELSE data1' = d /\ UNCHANGED data2
  /\ UNCHANGED valid2
  /\ accepted'  = Append(accepted, d)
  /\ delivered' = Append(delivered, q)

\* Neither port transfers: the registers keep their values.
Hold(d_valid, q_bp) ==
  /\ ~Incoming(d_valid) /\ ~Outgoing(q_bp)
  /\ UNCHANGED vars

\* A rising edge with resetn high, for given values of the input ports.
Edge(d_valid, d, q_bp) ==
  \/ Drain(d_valid, q_bp)
  \/ Fill(d_valid, d, q_bp)
  \/ Stream(d_valid, d, q_bp)
  \/ Hold(d_valid, q_bp)

\* Upstream drives port d; MaxTokens bounds the tokens it offers.
Offer(d_valid) == d_valid => Len(accepted) < MaxTokens

Clock(q_bp) ==
  \E d_valid \in BOOLEAN, d \in Data : Offer(d_valid) /\ Edge(d_valid, d, q_bp)

Next == Reset \/ (\E q_bp \in BOOLEAN : Clock(q_bp))

Spec == Init /\ [][Next]_vars

\* Downstream is not stuck: it lowers q_bp again and again.  The register
\* itself is clocked hardware, so nothing else is assumed.
FairSpec == Spec /\ WF_vars(Clock(FALSE))

-----------------------------------------------------------------------------
(* Properties                                                              *)

Channel == INSTANCE LIChannel WITH Capacity <- 2, Bypass <- FALSE

\* The register is a two-place channel: no token is lost, duplicated or
\* reordered by any interleaving of arrivals, departures and resets.
ChannelSpec == Channel!Spec

\* "This condition should not occur!" (pipeline.sv:79): no token is taken
\* while slot two is full, so the branch that would need a third slot is dead.
SlotTwoNeverOverrun == \A d_valid \in BOOLEAN : Incoming(d_valid) => ~valid2

\* "It can operate at full throughput" (pipeline.sv:8-9): upstream is refused
\* exactly while two undelivered tokens are held, and downstream sees a token
\* exactly while there is one to deliver.
FullThroughput ==
  /\ d_bp    <=> Channel!Held = 2
  /\ q_valid <=> Channel!Held > 0

\* Every accepted token is delivered, unless a reset discards it.
EventuallyDelivered ==
  \A n \in 1..MaxTokens :
    Len(accepted) >= n ~> (Len(delivered) >= n \/ Len(accepted) < n)
=============================================================================
