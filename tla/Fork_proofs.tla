---------------------------- MODULE Fork_proofs ----------------------------
(***************************************************************************)
(* Proofs about Fork, for any set of outputs, of data values and any       *)
(* number of tokens.  The invariant says what the accepted bits remember:  *)
(* an output's bit is set exactly when the output is one token ahead of    *)
(* the input port, and a bit is only set while that token is still there.  *)
(***************************************************************************)
EXTENDS Fork, TLAPS

\* A bit is set only while the token it is about is on the input port.
HeldWhilePartial == (\E o \in Outputs : previouslyAccepted[o]) => din_valid

IInv == TypeOK /\ EveryOutputEveryToken /\ NeverAllAccepted /\ HeldWhilePartial

\* The history a reset leaves behind.
LEMMA EmptyHistory == << >> \in Seq(Data)
  OBVIOUS

\* Init establishes the invariant.
LEMMA InitIInv == Init => IInv
<1> SUFFICES ASSUME Init PROVE IInv
  OBVIOUS
<1> USE EmptyHistory DEF Init
<1>1. TypeOK
  BY DEF TypeOK
<1>2. EveryOutputEveryToken
  BY DEF EveryOutputEveryToken, Expected
<1>3. NeverAllAccepted /\ HeldWhilePartial
  BY OutputsNonEmpty DEF NeverAllAccepted, HeldWhilePartial
<1>4. QED
  BY <1>1, <1>2, <1>3 DEF IInv

\* A cycle in which the token on the input port leaves, or there is none.
LEMMA AdvanceIInv ==
  ASSUME IInv, NEW dout_bp \in [Outputs -> BOOLEAN], Advance(dout_bp)
  PROVE  IInv'
<1> USE DEF IInv, TypeOK, Advance
<1>1. CASE din_valid
  <2>1. \A o \in Outputs : Accepted(dout_bp)[o]
    BY <1>1 DEF din_bp
  <2>2. previouslyAccepted' = [o \in Outputs |-> FALSE]
    BY <1>1 DEF Clock
  <2>3. taken' = Append(taken, din)
    BY <1>1 DEF Clock
  <2>4. ASSUME NEW o \in Outputs
        PROVE  received'[o] = taken'
    <3>1. CASE previouslyAccepted[o]
      <4>1. ~dout_valid[o]
        BY <3>1 DEF dout_valid
      <4>2. received'[o] = received[o]
        BY <4>1 DEF Clock
      <4>3. QED
        BY <3>1, <4>2, <2>3 DEF EveryOutputEveryToken, Expected
    <3>2. CASE ~previouslyAccepted[o]
      <4>1. dout_valid[o] /\ ~dout_bp[o]
        BY <3>2, <2>1 DEF Accepted
      <4>2. received'[o] = Append(received[o], din)
        BY <4>1 DEF Clock
      <4>3. QED
        BY <3>2, <4>2, <2>3 DEF EveryOutputEveryToken, Expected
    <3>3. QED
      BY <3>1, <3>2
  <2>5. EveryOutputEveryToken'
    BY <2>2, <2>4 DEF EveryOutputEveryToken, Expected
  <2>6. TypeOK'
    <3>1. taken' \in Seq(Data)
      BY <2>3
    <3>2. received' \in [Outputs -> Seq(Data)]
      BY <2>4, <3>1 DEF Clock
    <3>3. QED
      BY <2>2, <3>1, <3>2 DEF Drive
  <2>7. NeverAllAccepted' /\ HeldWhilePartial'
    BY <2>2, OutputsNonEmpty DEF NeverAllAccepted, HeldWhilePartial
  <2>8. QED
    BY <2>5, <2>6, <2>7
<1>2. CASE ~din_valid
  <2>1. \A o \in Outputs : ~previouslyAccepted[o] /\ ~dout_valid[o]
    BY <1>2 DEF HeldWhilePartial, dout_valid
  <2>2. previouslyAccepted' = Accepted(dout_bp) /\ taken' = taken
    BY <1>2 DEF Clock
  <2>3. \A o \in Outputs : previouslyAccepted'[o] = FALSE
    BY <2>1, <2>2 DEF Accepted
  <2>4. \A o \in Outputs : received'[o] = received[o]
    BY <2>1 DEF Clock
  <2>5. EveryOutputEveryToken'
    BY <2>1, <2>2, <2>3, <2>4 DEF EveryOutputEveryToken, Expected
  <2>6. TypeOK'
    BY <2>2, <2>4 DEF Drive, Clock, Accepted, dout_valid
  <2>7. NeverAllAccepted' /\ HeldWhilePartial'
    BY <2>3, OutputsNonEmpty DEF NeverAllAccepted, HeldWhilePartial
  <2>8. QED
    BY <2>5, <2>6, <2>7
<1>3. QED
  BY <1>1, <1>2

\* A cycle in which some output still lacks the token.
LEMMA StallIInv ==
  ASSUME IInv, NEW dout_bp \in [Outputs -> BOOLEAN], Stall(dout_bp)
  PROVE  IInv'
<1> USE DEF IInv, TypeOK, Stall
<1>1. previouslyAccepted' = Accepted(dout_bp) /\ taken' = taken
  BY DEF Clock
<1>2. EveryOutputEveryToken'
  <2>1. SUFFICES ASSUME NEW o \in Outputs
                 PROVE  received'[o] = Expected(o)'
    BY DEF EveryOutputEveryToken
  <2>2. CASE previouslyAccepted[o]
    <3>1. previouslyAccepted'[o] /\ ~dout_valid[o]
      BY <1>1, <2>2 DEF Accepted, dout_valid
    <3>2. received'[o] = received[o]
      BY <3>1 DEF Clock
    <3>3. QED
      BY <1>1, <2>2, <3>1, <3>2 DEF EveryOutputEveryToken, Expected
  <2>3. CASE ~previouslyAccepted[o] /\ ~dout_bp[o]
    <3>1. previouslyAccepted'[o] /\ dout_valid[o]
      BY <1>1, <2>3 DEF Accepted, dout_valid
    <3>2. received'[o] = Append(received[o], din)
      BY <2>3, <3>1 DEF Clock
    <3>3. QED
      BY <1>1, <2>3, <3>1, <3>2 DEF EveryOutputEveryToken, Expected
  <2>4. CASE ~previouslyAccepted[o] /\ dout_bp[o]
    <3>1. ~previouslyAccepted'[o]
      BY <1>1, <2>4 DEF Accepted
    <3>2. received'[o] = received[o]
      BY <2>4 DEF Clock
    <3>3. QED
      BY <1>1, <2>4, <3>1, <3>2 DEF EveryOutputEveryToken, Expected
  <2>5. QED
    BY <2>2, <2>3, <2>4
<1>3. TypeOK'
  <2>1. received' \in [Outputs -> Seq(Data)]
    BY DEF Clock
  <2>2. previouslyAccepted' \in [Outputs -> BOOLEAN]
    BY <1>1 DEF Accepted, dout_valid
  <2>3. QED
    BY <1>1, <2>1, <2>2
<1>4. NeverAllAccepted'
  BY <1>1 DEF din_bp, NeverAllAccepted
<1>5. HeldWhilePartial'
  BY DEF HeldWhilePartial
<1>6. QED
  BY <1>2, <1>3, <1>4, <1>5

\* Every step preserves the invariant.
LEMMA NextIInv == IInv /\ [Next]_vars => IInv'
<1> SUFFICES ASSUME IInv, [Next]_vars PROVE IInv'
  OBVIOUS
<1>1. CASE Reset
  <2> USE <1>1, EmptyHistory DEF Reset, ClearRegisters
  <2>1. TypeOK'
    BY DEF TypeOK, Drive
  <2>2. EveryOutputEveryToken'
    BY DEF EveryOutputEveryToken, Expected
  <2>3. NeverAllAccepted' /\ HeldWhilePartial'
    BY OutputsNonEmpty DEF NeverAllAccepted, HeldWhilePartial
  <2>4. QED
    BY <2>1, <2>2, <2>3 DEF IInv
<1>2. ASSUME NEW dout_bp \in [Outputs -> BOOLEAN], Edge(dout_bp) PROVE IInv'
  BY <1>2, AdvanceIInv, StallIInv DEF Edge
<1>3. CASE UNCHANGED vars
  BY <1>3 DEF vars, IInv, TypeOK, EveryOutputEveryToken, Expected,
              NeverAllAccepted, HeldWhilePartial
<1>4. QED
  BY <1>1, <1>2, <1>3 DEF Next

\* The strengthened invariant always holds.
LEMMA ForkInvariant == Spec => []IInv
  BY InitIInv, NextIInv, PTL DEF Spec

\* The bits, the ports and the histories always have their types.
THEOREM TypeCorrect == Spec => []TypeOK
<1>1. IInv => TypeOK
  BY DEF IInv
<1>2. QED
  BY <1>1, ForkInvariant, PTL

\* For any number of outputs and any pattern of refusals, every output
\* delivers every token exactly once and in order.
THEOREM MulticastCorrect == Spec => []EveryOutputEveryToken
<1>1. IInv => EveryOutputEveryToken
  BY DEF IInv
<1>2. QED
  BY <1>1, ForkInvariant, PTL

\* The bits are never all set: no token is left on the port with nobody to take it.
THEOREM NoOrphanToken == Spec => []NeverAllAccepted
<1>1. IInv => NeverAllAccepted
  BY DEF IInv
<1>2. QED
  BY <1>1, ForkInvariant, PTL
=============================================================================
