------------------------- MODULE PipelineReg_proofs -------------------------
(***************************************************************************)
(* Proofs about PipelineReg, for every set of data values and every number *)
(* of tokens.  The argument rests on one inductive invariant: the history  *)
(* of accepted tokens is the history of delivered ones followed by the     *)
(* contents of the occupied slots, and slot two is never occupied alone.   *)
(***************************************************************************)
EXTENDS PipelineReg, TLAPS

\* How many slots are occupied.
Occupancy == (IF valid1 THEN 1 ELSE 0) + (IF valid2 THEN 1 ELSE 0)

\* Slot two is filled only behind slot one.
SlotsInOrder == valid2 => valid1

\* The accepted tokens are the delivered ones, then slot one, then slot two.
Conserved ==
  /\ Len(accepted) = Len(delivered) + Occupancy
  /\ \A i \in 1..Len(delivered) : delivered[i] = accepted[i]
  /\ valid1 => accepted[Len(delivered) + 1] = data1
  /\ valid2 => accepted[Len(delivered) + 2] = data2

IInv == TypeOK /\ SlotsInOrder /\ Conserved

-----------------------------------------------------------------------------

\* The histories a reset leaves behind.
LEMMA EmptyHistory == << >> \in Seq(Data) /\ Len(<< >>) = 0
  OBVIOUS

\* Init establishes the invariant.
LEMMA InitIInv == Init => IInv
<1> SUFFICES ASSUME Init PROVE IInv
  OBVIOUS
<1>1. TypeOK
  BY EmptyHistory DEF Init, TypeOK
<1>2. SlotsInOrder
  BY DEF Init, SlotsInOrder
<1>3. Conserved
  BY EmptyHistory DEF Init, Conserved, Occupancy
<1>4. QED
  BY <1>1, <1>2, <1>3 DEF IInv

\* Every clock edge, and a reset at any time, preserves it.
LEMMA NextIInv == IInv /\ [Next]_vars => IInv'
<1> SUFFICES ASSUME IInv, [Next]_vars PROVE IInv'
  OBVIOUS
<1> USE DEF IInv, TypeOK, SlotsInOrder, Conserved, Occupancy
<1>1. CASE Reset
  <2>1. TypeOK'
    BY <1>1, EmptyHistory DEF Reset
  <2>2. SlotsInOrder' /\ Conserved'
    BY <1>1, EmptyHistory DEF Reset
  <2>3. QED
    BY <2>1, <2>2
<1>2. ASSUME NEW q_bp \in BOOLEAN, NEW d_valid \in BOOLEAN, NEW d \in Data,
             Edge(d_valid, d, q_bp)
      PROVE  IInv'
  <2> USE DEF Incoming, Outgoing, q, q_valid, d_bp
  <2>1. CASE Drain(d_valid, q_bp)
    <3>1. TypeOK'
      <4>1. accepted' \in Seq(Data) /\ delivered' \in Seq(Data)
        BY <2>1 DEF Drain
      <4>2. /\ valid1' \in BOOLEAN /\ data1' \in Data
            /\ valid2' \in BOOLEAN /\ data2' \in Data
        BY <2>1, Zenon DEF Drain
      <4>3. QED
        BY <4>1, <4>2
    <3>2. ~valid2'
      BY <2>1 DEF Drain
    <3>3. Conserved'
      <4>1. CASE valid2
        <5>1. valid1' = TRUE
          BY <2>1, <4>1, Zenon DEF Drain
        <5>2. QED
          BY <2>1, <3>2, <4>1, <5>1 DEF Drain
      <4>2. CASE ~valid2
        <5>1. valid1' = FALSE
          BY <2>1, <4>2, Zenon DEF Drain
        <5>2. QED
          BY <2>1, <3>2, <4>2, <5>1 DEF Drain
      <4>3. QED
        BY <4>1, <4>2
    <3>4. QED
      BY <3>1, <3>2, <3>3
  <2>2. CASE Fill(d_valid, d, q_bp)
    <3>1. TypeOK' /\ SlotsInOrder'
      <4>1. SlotsInOrder'
        BY <2>2 DEF Fill
      <4>2. accepted' \in Seq(Data) /\ delivered' \in Seq(Data)
        BY <2>2 DEF Fill
      <4>3. /\ valid1' \in BOOLEAN /\ data1' \in Data
            /\ valid2' \in BOOLEAN /\ data2' \in Data
        BY <2>2, Zenon DEF Fill
      <4>4. QED
        BY <4>1, <4>2, <4>3
    <3>2. Conserved'
      <4>1. CASE valid1
        BY <2>2, <4>1 DEF Fill
      <4>2. CASE ~valid1
        BY <2>2, <4>2 DEF Fill
      <4>3. QED
        BY <4>1, <4>2
    <3>3. QED
      BY <3>1, <3>2
  <2>3. CASE Stream(d_valid, d, q_bp)
    <3>1. ~valid2
      BY <2>3 DEF Stream
    <3>2. QED
      BY <2>3, <3>1 DEF Stream
  <2>4. CASE Hold(d_valid, q_bp)
    BY <2>4 DEF Hold, vars
  <2>5. QED
    BY <1>2, <2>1, <2>2, <2>3, <2>4 DEF Edge
<1>3. CASE UNCHANGED vars
  BY <1>3 DEF vars
<1>4. QED
  BY <1>1, <1>2, <1>3 DEF Next, Clock

\* The registers and the histories always have their types, and the
\* conservation invariant always holds.
THEOREM Conservation == Spec => []IInv
  BY InitIInv, NextIInv, PTL DEF Spec

\* The registers and the histories always have their types.
THEOREM TypeCorrect == Spec => []TypeOK
<1>1. IInv => TypeOK
  BY DEF IInv
<1>2. QED
  BY <1>1, Conservation, PTL

\* The branch the source marks "should not occur" is never taken.
THEOREM NoOverrun == Spec => []SlotTwoNeverOverrun
<1>1. IInv => SlotTwoNeverOverrun
  BY DEF IInv, SlotsInOrder, SlotTwoNeverOverrun, Incoming, d_bp
<1>2. QED
  BY <1>1, Conservation, PTL

\* Upstream is refused exactly while both slots hold undelivered tokens, and
\* downstream is offered a token exactly while one is held.
THEOREM Throughput == Spec => []FullThroughput
<1>1. IInv => FullThroughput
  BY DEF IInv, TypeOK, SlotsInOrder, Conserved, Occupancy, FullThroughput,
         d_bp, q_valid, Channel!Held
<1>2. QED
  BY <1>1, Conservation, PTL

-----------------------------------------------------------------------------

\* A step of the register is a step of the two-place channel or a stutter.
LEMMA StepRefines ==
  IInv /\ IInv' /\ [Next]_vars => [Channel!Next]_(Channel!chanVars)
<1> SUFFICES ASSUME IInv, IInv', [Next]_vars
             PROVE  [Channel!Next]_(Channel!chanVars)
  OBVIOUS
<1> USE DEF Channel!Next, Channel!chanVars
<1>1. CASE Reset
  BY <1>1 DEF Reset, Channel!Reset
<1>2. ASSUME NEW q_bp \in BOOLEAN, NEW d_valid \in BOOLEAN, NEW d \in Data,
             Edge(d_valid, d, q_bp)
      PROVE  Channel!Cycle
  <2>1. Channel!Accept
    BY <1>2 DEF Edge, Drain, Fill, Stream, Hold, vars, Channel!Accept, Token
  <2>2. Channel!Deliver
    <3>1. CASE UNCHANGED delivered
      BY <3>1 DEF Channel!Deliver
    <3>2. CASE Outgoing(q_bp) /\ delivered' = Append(delivered, q)
      BY <3>2 DEF Channel!Deliver, IInv, TypeOK, Conserved, Occupancy,
                  Outgoing, q, q_valid
    <3>3. QED
      BY <1>2, <3>1, <3>2 DEF Edge, Drain, Fill, Stream, Hold, vars
  <2>3. Len(accepted') <= Len(delivered') + 2
    BY DEF IInv, TypeOK, Conserved, Occupancy
  <2>4. QED
    BY <2>1, <2>2, <2>3 DEF Channel!Cycle
<1>3. CASE UNCHANGED vars
  BY <1>3 DEF vars
<1>4. QED
  BY <1>1, <1>2, <1>3 DEF Next, Clock

\* The register implements a two-place channel: tokens are delivered in the
\* order they were accepted, none is lost or repeated, and at most two are held.
THEOREM ImplementsChannel == Spec => ChannelSpec
<1>1. Init => Channel!Init
  BY DEF Init, Channel!Init
<1>2. QED
  BY <1>1, StepRefines, Conservation, PTL DEF Spec, ChannelSpec, Channel!Spec
=============================================================================
