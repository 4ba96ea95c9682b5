---------------------------- MODULE Latch_proofs ----------------------------
(***************************************************************************)
(* Proofs about Latch, for every set of data values and every number of    *)
(* tokens: it is a one-place channel with a combinational path.            *)
(***************************************************************************)
EXTENDS Latch, TLAPS

\* The accepted tokens are the delivered ones, then the latched one.
Conserved ==
  /\ Len(accepted) = Len(delivered) + (IF valid THEN 1 ELSE 0)
  /\ \A i \in 1..Len(delivered) : delivered[i] = accepted[i]
  /\ valid => accepted[Len(delivered) + 1] = data

IInv == TypeOK /\ Conserved

\* The history a reset leaves behind.
LEMMA EmptyHistory == << >> \in Seq(Data) /\ Len(<< >>) = 0
  OBVIOUS

\* Init establishes the invariant.
LEMMA InitIInv == Init => IInv
<1> SUFFICES ASSUME Init PROVE IInv
  OBVIOUS
<1>1. TypeOK
  BY EmptyHistory DEF Init, TypeOK
<1>2. Conserved
  BY EmptyHistory DEF Init, Conserved
<1>3. QED
  BY <1>1, <1>2 DEF IInv

\* A clock edge keeps the types: only tokens of Data move.
LEMMA ClockTypeOK ==
  ASSUME TypeOK, NEW q_bp \in BOOLEAN, Clock(q_bp)
  PROVE  TypeOK'
<1> USE DEF TypeOK, Clock
<1>1. valid' \in BOOLEAN /\ data' \in Data
  BY DEF Release, Capture, Pass
<1>2. accepted' \in Seq(Data)
  BY DEF Transfer
<1>3. delivered' \in Seq(Data)
  BY DEF Transfer, q
<1>4. QED
  BY <1>1, <1>2, <1>3 DEF Drive

\* A clock edge preserves the invariant: the token on the input port, the
\* latched one and the delivered one are accounted for in each case.
LEMMA ClockIInv ==
  ASSUME IInv, NEW q_bp \in BOOLEAN, Clock(q_bp)
  PROVE  IInv'
<1> USE DEF IInv, TypeOK, Conserved, Clock
<1>1. TypeOK'
  BY ClockTypeOK
<1>2. CASE valid /\ ~q_bp
  <2>1. valid' = FALSE
    BY <1>2 DEF Release, Capture, Pass, Outgoing
  <2>2. accepted' = accepted /\ delivered' = Append(delivered, data)
    BY <1>2 DEF Transfer, q, q_valid, d_bp
  <2>3. QED
    BY <1>1, <1>2, <2>1, <2>2
<1>3. CASE valid /\ q_bp
  <2>1. valid' = valid /\ data' = data
    BY <1>3 DEF Release, Capture, Pass, Outgoing, Incoming, d_bp
  <2>2. accepted' = accepted /\ delivered' = delivered
    BY <1>3 DEF Transfer, q_valid, d_bp
  <2>3. QED
    BY <1>1, <1>3, <2>1, <2>2
<1>4. CASE ~valid /\ d_valid /\ q_bp
  <2>1. valid' = TRUE /\ data' = d
    BY <1>4 DEF Release, Capture, Pass, Outgoing, Incoming, d_bp
  <2>2. accepted' = Append(accepted, d) /\ delivered' = delivered
    BY <1>4 DEF Transfer, q_valid, d_bp
  <2>3. QED
    BY <1>1, <1>4, <2>1, <2>2
<1>5. CASE ~valid /\ d_valid /\ ~q_bp
  <2>1. valid' = FALSE
    BY <1>5 DEF Release, Capture, Pass, Outgoing, Incoming, d_bp
  <2>2. accepted' = Append(accepted, d) /\ delivered' = Append(delivered, d)
    BY <1>5 DEF Transfer, q, q_valid, d_bp
  <2>3. QED
    BY <1>1, <1>5, <2>1, <2>2
<1>6. CASE ~valid /\ ~d_valid
  <2>1. valid' = FALSE
    BY <1>6 DEF Release, Capture, Pass, Outgoing, Incoming, d_bp
  <2>2. accepted' = accepted /\ delivered' = delivered
    BY <1>6 DEF Transfer, q_valid, d_bp
  <2>3. QED
    BY <1>1, <1>6, <2>1, <2>2
<1>7. QED
  BY <1>2, <1>3, <1>4, <1>5, <1>6

\* Every step preserves the invariant.
LEMMA NextIInv == IInv /\ [Next]_vars => IInv'
<1> SUFFICES ASSUME IInv, [Next]_vars PROVE IInv'
  OBVIOUS
<1>1. CASE Reset
  <2>1. TypeOK'
    BY <1>1, EmptyHistory DEF Reset, Drive, IInv, TypeOK
  <2>2. Conserved'
    BY <1>1, EmptyHistory DEF Reset, Conserved
  <2>3. QED
    BY <2>1, <2>2 DEF IInv
<1>2. ASSUME NEW q_bp \in BOOLEAN, Clock(q_bp) PROVE IInv'
  BY <1>2, ClockIInv
<1>3. CASE UNCHANGED vars
  BY <1>3 DEF vars, IInv, TypeOK, Conserved
<1>4. QED
  BY <1>1, <1>2, <1>3 DEF Next

\* The strengthened invariant always holds.
LEMMA LatchInvariant == Spec => []IInv
  BY InitIInv, NextIInv, PTL DEF Spec

\* The latch, the ports and the histories always have their types.
THEOREM TypeCorrect == Spec => []TypeOK
<1>1. IInv => TypeOK
  BY DEF IInv
<1>2. QED
  BY <1>1, LatchInvariant, PTL

\* Upstream is refused only while a token waits in the latch.
THEOREM RefusalBounded == Spec => []RefusesOnlyWhenHolding
<1>1. IInv => RefusesOnlyWhenHolding
  BY DEF IInv, TypeOK, Conserved, RefusesOnlyWhenHolding, d_bp, Channel!Held
<1>2. QED
  BY <1>1, LatchInvariant, PTL

-----------------------------------------------------------------------------

\* A step of the latch is a step of the channel or a stutter.
LEMMA StepRefines ==
  IInv /\ IInv' /\ [Next]_vars => [Channel!Next]_(Channel!chanVars)
<1> SUFFICES ASSUME IInv, IInv', [Next]_vars
             PROVE  [Channel!Next]_(Channel!chanVars)
  OBVIOUS
<1> USE DEF Channel!Next, Channel!chanVars
<1>1. CASE Reset
  BY <1>1 DEF Reset, Channel!Reset
<1>2. ASSUME NEW q_bp \in BOOLEAN, Clock(q_bp)
      PROVE  Channel!Cycle
  <2>1. Channel!Accept
    BY <1>2 DEF Clock, Transfer, Channel!Accept, IInv, TypeOK, Token
  <2>2. Channel!Deliver
    <3>1. CASE UNCHANGED delivered
      BY <3>1 DEF Channel!Deliver
    <3>2. CASE q_valid /\ ~q_bp
      <4>1. delivered' = Append(delivered, q)
        BY <1>2, <3>2 DEF Clock, Transfer
      <4>2. Len(delivered') = Len(delivered) + 1 /\ delivered'[Len(delivered) + 1] = q
        BY <4>1 DEF IInv, TypeOK
      <4>3. Len(delivered) + 1 <= Len(accepted')
        BY <4>2 DEF IInv, TypeOK, Conserved
      <4>4. accepted'[Len(delivered) + 1] = q
        BY <4>2 DEF IInv, TypeOK, Conserved
      <4>5. QED
        BY <4>1, <4>3, <4>4 DEF Channel!Deliver
    <3>3. QED
      BY <1>2, <3>1, <3>2 DEF Clock, Transfer
  <2>3. Len(accepted') <= Len(delivered') + 1
    BY DEF IInv, TypeOK, Conserved
  <2>4. QED
    BY <2>1, <2>2, <2>3 DEF Channel!Cycle
<1>3. CASE UNCHANGED vars
  BY <1>3 DEF vars
<1>4. QED
  BY <1>1, <1>2, <1>3 DEF Next

\* The latch is a one-place channel with a combinational path: no token is
\* lost, repeated or reordered, whether it passes through or is kept.
THEOREM ImplementsChannel == Spec => ChannelSpec
<1>1. Init => Channel!Init
  BY DEF Init, Channel!Init
<1>2. QED
  BY <1>1, StepRefines, LatchInvariant, PTL DEF Spec, ChannelSpec, Channel!Spec
=============================================================================
