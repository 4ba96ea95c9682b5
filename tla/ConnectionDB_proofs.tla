------------------------- MODULE ConnectionDB_proofs ------------------------
(***************************************************************************)
(* Indexes, counts and modules stay consistent, no operation aborts and    *)
(* each is one step of the netlist: for any blocks, ports, types, owners,  *)
(* any number of sinks and every order of the passes over sets of ports,   *)
(* in every state between the calls an operation makes.                    *)
(*                                                                         *)
(* Indexes, counts and modules are written only by connect and disconnect, *)
(* so IInv has two steps to look at.  That a call may be made follows from *)
(* the calls made before it: CallsLegal says so of the whole series.       *)
(***************************************************************************)
EXTENDS ConnectionDB, TLAPS, FiniteSetTheorems, SequenceTheorems

\* Connections join ports of one type.
Typed(conns) == \A c \in conns : Type[c[1]] = Type[c[2]]
TypesAgree == \A o \in OutPorts, i \in InPorts : Exists(o, i) => Type[o] = Type[i]

IInv == TypeOK /\ IndexesAgree /\ OwnedWhileUsed /\ TypesAgree

-----------------------------------------------------------------------------

\* A connection counts a block once, twice or not at all.
LEMMA EndsAtType ==
  ASSUME NEW b \in Blocks, NEW o \in OutPorts, NEW i \in InPorts
  PROVE  /\ EndsAt(b, o, i) \in {0, 1, 2}
         /\ EndsAt(b, o, i) > 0 <=> b \in {Owner[o], Owner[i]}
  BY DEF EndsAt

\* An operation that begins and a cleared newBlocks leave indexes, counts and
\* modules alone.
LEMMA OtherOperations ==
  ASSUME Operation
  PROVE  /\ UNCHANGED <<indexVars, useCount, module, known>>
         /\ newBlocks' \in {newBlocks, {}}
         /\ \/ UNCHANGED changeCounter
            \/ \E n \in {0, 1} : bump(n)
  <1> DEFINE Quiet(n) == /\ UNCHANGED <<indexVars, useCount, module, known>>
                         /\ newBlocks' = newBlocks
                         /\ bump(n)
  <1>1. /\ \A todo : Begin(todo, 0) => Quiet(0)
        /\ \A todo : Begin(todo, 1) => Quiet(1)
    BY DEF Begin, indexVars, blockVars
  <1> HIDE DEF Quiet
  <1>2. ASSUME NEW o \in OutPorts, NEW i \in InPorts, Connect(o, i) \/ Disconnect(o, i)
        PROVE  Quiet(0)
    BY <1>1, <1>2 DEF Connect, Disconnect
  <1>3. ASSUME NEW i \in InPorts, NEW S \in SUBSET InPorts, RemapIn(i, S)
        PROVE  Quiet(1)
    BY <1>1, <1>3 DEF RemapIn
  <1>4. ASSUME NEW o \in OutPorts, NEW n \in OutPorts \cup {None}, RemapOut(o, n)
        PROVE  Quiet(1)
    BY <1>1, <1>4 DEF RemapOut
  <1>5. ASSUME NEW b \in Blocks, NEW ip \in InPorts, NEW op \in OutPorts,
               TransformerRemove(b, ip, op)
        PROVE  Quiet(0)
    BY <1>1, <1>5 DEF TransformerRemove
  <1>6. ASSUME NEW i \in InPorts, NEW o \in OutPorts, NEW nip, NEW nop,
               InsertBetween(o, i, nip, nop) \/ InsertAfter(o, nip, nop)
        PROVE  Quiet(0)
    BY <1>1, <1>6 DEF InsertBetween, InsertAfter
  <1>7. ASSUME NEW b \in Blocks, Trash(b) \/ RemoveBlock(b)
        PROVE  Quiet(0)
    BY <1>1, <1>7 DEF Trash, RemoveBlock
  <1>8. ClearNewBlocks \/ Quiet(0) \/ Quiet(1)
    BY <1>2, <1>3, <1>4, <1>5, <1>6, <1>7 DEF Operation
  <1> QED
    BY <1>8 DEF ClearNewBlocks, indexVars, Quiet

\* So does a removeBlock that lists its calls.
LEMMA OtherSteps ==
  ASSUME TypeOK, Next
  PROVE  \/ \E o \in OutPorts, i \in InPorts : connect(o, i) \/ disconnect(o, i)
         \/ /\ UNCHANGED <<indexVars, useCount, module, known>>
            /\ newBlocks' \in {newBlocks, {}}
            /\ \/ UNCHANGED changeCounter
               \/ \E n \in {0, 1} : bump(n)
  <1>1. CASE Step
    BY <1>1 DEF Step, RemoveBlockStep, indexVars, blockVars
  <1> QED
    BY <1>1, OtherOperations DEF Next

\* The change counter stays in its width.
LEMMA BumpType ==
  ASSUME NEW n \in 0..3, changeCounter \in 0..Wrap - 1, bump(n)
  PROVE  changeCounter' \in 0..Wrap - 1
  BY WrapWide DEF bump

-----------------------------------------------------------------------------
(* The two calls.                                                          *)

\* connect keeps the indexes, the counts and the modules consistent.
LEMMA ConnectKeeps ==
  ASSUME IInv, NEW o \in OutPorts, NEW i \in InPorts, connect(o, i)
  PROVE  IInv'
  <1> USE DEF IInv
  <1>0. /\ Owner[o] \in Blocks /\ Owner[i] \in Blocks
        /\ o # None
    BY PortsOwned, NoneIsNot
  <1>1. changeCounter' \in 0..Wrap - 1
    BY BumpType DEF TypeOK, connect
  <1>2. sinkIdx' \in [OutPorts -> SUBSET InPorts]
    BY DEF TypeOK, connect
  <1>3. sourceIdx' \in [InPorts -> OutPorts \cup {None}]
    BY DEF TypeOK, connect
  <1>4. useCount' \in [Blocks -> Nat]
    BY EndsAtType DEF TypeOK, connect, Register
  <1>5. /\ known' \subseteq Blocks /\ newBlocks' \subseteq Blocks
        /\ module' \in [Blocks -> {None, Self}]
    BY <1>0 DEF TypeOK, connect, Register
  <1>6. IndexesAgree'
    <2> SUFFICES ASSUME NEW p \in OutPorts, NEW j \in InPorts
                 PROVE  j \in sinkIdx'[p] <=> sourceIdx'[j] = p
      BY DEF IndexesAgree, Exists
    <2>1. sinkIdx'[p] = IF p = o THEN sinkIdx[p] \cup {i} ELSE sinkIdx[p]
      BY DEF TypeOK, connect
    <2>2. sourceIdx'[j] = IF j = i THEN o ELSE sourceIdx[j]
      BY DEF TypeOK, connect
    <2>3. /\ j \in sinkIdx[p] <=> sourceIdx[j] = p
          /\ sourceIdx[i] = None /\ p # None
      BY NoneIsNot DEF IndexesAgree, Exists, connect, MayConnect
    <2> QED
      BY <2>1, <2>2, <2>3
  <1>7. OwnedWhileUsed'
    BY EndsAtType DEF TypeOK, OwnedWhileUsed, connect, Register
  <1>8. TypesAgree'
    BY DEF TypeOK, TypesAgree, Exists, connect, MayConnect
  <1> QED
    BY <1>1, <1>2, <1>3, <1>4, <1>5, <1>6, <1>7, <1>8 DEF TypeOK

\* So does disconnect.
LEMMA DisconnectKeeps ==
  ASSUME IInv, NEW o \in OutPorts, NEW i \in InPorts, disconnect(o, i)
  PROVE  IInv'
  <1> USE DEF IInv
  <1>1. changeCounter' \in 0..Wrap - 1
    BY BumpType DEF TypeOK, disconnect
  <1>2. sinkIdx' \in [OutPorts -> SUBSET InPorts]
    BY DEF TypeOK, disconnect
  <1>3. sourceIdx' \in [InPorts -> OutPorts \cup {None}]
    BY DEF TypeOK, disconnect
  <1>4. useCount' \in [Blocks -> Nat]
    BY EndsAtType DEF TypeOK, disconnect, MayDisconnect, Deregister
  <1>5. /\ known' \subseteq Blocks /\ newBlocks' \subseteq Blocks
        /\ module' \in [Blocks -> {None, Self}]
    BY DEF TypeOK, disconnect, Deregister
  <1>6. IndexesAgree'
    BY NoneIsNot DEF TypeOK, IndexesAgree, Exists, disconnect, MayDisconnect
  <1>7. OwnedWhileUsed'
    <2> SUFFICES ASSUME NEW b \in Blocks
                 PROVE  module'[b] = Self <=> useCount'[b] > 0
      BY DEF OwnedWhileUsed
    <2>1. useCount'[b] = useCount[b] - EndsAt(b, o, i)
      BY DEF disconnect, Deregister
    <2>2. module'[b] = IF EndsAt(b, o, i) > 0 /\ useCount'[b] = 0
                       THEN None ELSE module[b]
      BY DEF disconnect, Deregister
    <2>3. useCount[b] >= EndsAt(b, o, i) /\ useCount[b] \in Nat
      BY DEF disconnect, MayDisconnect, TypeOK
    <2> QED
      BY <2>1, <2>2, <2>3, EndsAtType, NoneIsNot DEF OwnedWhileUsed
  <1>8. TypesAgree'
    BY NoneIsNot DEF TypeOK, TypesAgree, Exists, disconnect
  <1> QED
    BY <1>1, <1>2, <1>3, <1>4, <1>5, <1>6, <1>7, <1>8 DEF TypeOK

-----------------------------------------------------------------------------
(* The series of calls of an operation.                                   *)

ConCalls == {Con(o, i) : o \in OutPorts, i \in InPorts}
DisCalls == {Dis(o, i) : o \in OutPorts, i \in InPorts}
WireCalls == ConCalls \cup DisCalls

\* The calls ws can be made one after the other: an input is cut at most once,
\* from the output that drives it now, and then connected at most once, which
\* needs that it is undriven now or was cut before.
Legal(ws) ==
  /\ ws \in Seq(WireCalls)
  /\ \A o \in OutPorts, i \in InPorts, n \in DOMAIN ws :
       /\ ws[n] = Dis(o, i) =>
            /\ Exists(o, i)
            /\ \A p \in OutPorts, m \in 1..n - 1 : ws[m] \notin {Con(p, i), Dis(p, i)}
       /\ ws[n] = Con(o, i) =>
            /\ Undriven(i) \/ \E p \in OutPorts, m \in 1..n - 1 : ws[m] = Dis(p, i)
            /\ \A p \in OutPorts, m \in 1..n - 1 : ws[m] # Con(p, i)

\* What the calls ws cut and make, and the inputs they are about.
Cuts(ws)  == {c \in OutPorts \X InPorts : Dis(c[1], c[2]) \in Range(ws)}
Makes(ws) == {c \in OutPorts \X InPorts : Con(c[1], c[2]) \in Range(ws)}
Ports(ws) == {i \in InPorts : \E o \in OutPorts : <<o, i>> \in Cuts(ws) \cup Makes(ws)}

\* removeBlock lists its calls when the others have been made.
CallsLegal ==
  \E ws \in Seq(WireCalls) :
    /\ Legal(ws) /\ Typed(Makes(ws))
    /\ calls = ws \/ \E b \in Blocks : calls = Append(ws, Rem(b))

\* Different calls are different values.
LEMMA CallsDiffer ==
  /\ \A o, i, p, j : Con(o, i) = Con(p, j) <=> o = p /\ i = j
  /\ \A o, i, p, j : Dis(o, i) = Dis(p, j) <=> o = p /\ i = j
  /\ \A b, c : Rem(b) = Rem(c) <=> b = c
  /\ \A o, i, p, j : Con(o, i) # Dis(p, j)
  /\ \A o, i, b : Con(o, i) # Rem(b) /\ Dis(o, i) # Rem(b)
  BY DEF Con, Dis, Rem

\* An order of a finite set lists each of its elements once.
LEMMA OrderLists ==
  ASSUME NEW S, IsFiniteSet(S), NEW order \in Orders(S)
  PROVE  /\ order \in Seq(S)
         /\ \A x \in S : \E n \in 1..Len(order) : order[n] = x
         /\ \A m, n \in 1..Len(order) : order[m] = order[n] => m = n
  <1> DEFINE D == 1..Cardinality(S)
  <1>1. Cardinality(S) \in Nat
    BY FS_CardinalityType
  <1>2. order \in [D -> S] /\ order \in Injection(D, S)
    BY DEF Orders, SetToSeqs, Injection, IsInjective
  <1>3. order \in Seq(S) /\ Len(order) = Cardinality(S)
    BY <1>1, <1>2
  <1>4. Cardinality(D) = Cardinality(S)
    BY <1>1, FS_Interval
  <1>5. order \in Surjection(D, S)
    BY <1>2, <1>4, FS_Injection
  <1> QED
    BY <1>2, <1>3, <1>5 DEF Injection, IsInjective, Surjection

\* Calls about other inputs can follow.
LEMMA LegalConcat ==
  ASSUME NEW u, NEW v, Legal(u), Legal(v),
         Ports(u) \cap Ports(v) = {}
  PROVE  Legal(u \o v)
  <1> DEFINE w == u \o v
  <1>1. /\ u \in Seq(WireCalls) /\ v \in Seq(WireCalls)
        /\ w \in Seq(WireCalls) /\ Len(w) = Len(u) + Len(v)
        /\ \A n \in 1..Len(u) : w[n] = u[n]
        /\ \A n \in 1..Len(v) : w[Len(u) + n] = v[n]
        /\ Len(u) \in Nat /\ Len(v) \in Nat
        /\ DOMAIN u = 1..Len(u) /\ DOMAIN v = 1..Len(v) /\ DOMAIN w = 1..Len(w)
    BY ConcatProperties DEF Legal
  <1>2. ASSUME NEW o \in OutPorts, NEW p \in OutPorts, NEW i \in InPorts,
               NEW m \in 1..Len(u), NEW n \in 1..Len(v),
               u[m] \in {Con(p, i), Dis(p, i)}, v[n] \in {Con(o, i), Dis(o, i)}
        PROVE  FALSE
    <2>1. u[m] \in Range(u) /\ v[n] \in Range(v)
      BY <1>1 DEF Range
    <2>2. i \in Ports(u) /\ i \in Ports(v)
      BY <1>2, <2>1 DEF Ports, Cuts, Makes
    <2> QED
      BY <2>2
  <1> HIDE DEF w
  <1>3. ASSUME NEW o \in OutPorts, NEW i \in InPorts, NEW n \in DOMAIN w
        PROVE  /\ w[n] = Dis(o, i) =>
                    /\ Exists(o, i)
                    /\ \A p \in OutPorts, m \in 1..n - 1 : w[m] \notin {Con(p, i), Dis(p, i)}
               /\ w[n] = Con(o, i) =>
                    /\ Undriven(i) \/ \E p \in OutPorts, m \in 1..n - 1 : w[m] = Dis(p, i)
                    /\ \A p \in OutPorts, m \in 1..n - 1 : w[m] # Con(p, i)
    <2>1. CASE n \in 1..Len(u)
      BY <1>1, <2>1 DEF Legal
    <2>2. CASE n \notin 1..Len(u)
      <3>1. PICK k \in 1..Len(v) : n = Len(u) + k
        <4>1. n - Len(u) \in 1..Len(v) /\ n = Len(u) + (n - Len(u))
          BY <1>1, <2>2
        <4> QED
          BY <4>1
      <3>2. w[n] = v[k]
        BY <1>1, <3>1
      <3>3. ASSUME NEW m \in 1..n - 1
            PROVE  \/ m \in 1..Len(u) /\ w[m] = u[m]
                   \/ \E l \in 1..k - 1 : m = Len(u) + l /\ w[m] = v[l]
        <4>1. CASE m > Len(u)
          <5>1. m - Len(u) \in 1..k - 1 /\ m = Len(u) + (m - Len(u)) /\ m - Len(u) \in 1..Len(v)
            BY <1>1, <3>1, <4>1
          <5> QED
            BY <1>1, <5>1
        <4> QED
          BY <1>1, <4>1
      <3>4. ASSUME NEW l \in 1..k - 1
            PROVE  Len(u) + l \in 1..n - 1 /\ w[Len(u) + l] = v[l]
        BY <1>1, <3>1
      <3>5. ASSUME NEW p \in OutPorts, NEW m \in 1..n - 1,
                   w[m] \in {Con(p, i), Dis(p, i)}, w[n] \in {Con(o, i), Dis(o, i)}
            PROVE  \E l \in 1..k - 1 : v[l] = w[m]
        BY <1>1, <1>2, <3>2, <3>3, <3>5
      <3>6. ASSUME w[n] = Dis(o, i)
            PROVE  /\ Exists(o, i)
                   /\ \A p \in OutPorts, m \in 1..n - 1 : w[m] \notin {Con(p, i), Dis(p, i)}
        <4>0. v[k] = Dis(o, i) /\ k \in DOMAIN v
          BY <1>1, <3>2, <3>6
        <4>1. /\ Exists(o, i)
              /\ \A p \in OutPorts, l \in 1..k - 1 : v[l] \notin {Con(p, i), Dis(p, i)}
          BY <4>0 DEF Legal
        <4> QED
          BY <3>5, <3>6, <4>1
      <3>7. ASSUME w[n] = Con(o, i)
            PROVE  /\ Undriven(i) \/ \E p \in OutPorts, m \in 1..n - 1 : w[m] = Dis(p, i)
                   /\ \A p \in OutPorts, m \in 1..n - 1 : w[m] # Con(p, i)
        <4>0. v[k] = Con(o, i) /\ k \in DOMAIN v
          BY <1>1, <3>2, <3>7
        <4>1. Undriven(i) \/ \E p \in OutPorts, l \in 1..k - 1 : v[l] = Dis(p, i)
          BY <4>0 DEF Legal
        <4>2. \A p \in OutPorts, l \in 1..k - 1 : v[l] # Con(p, i)
          BY <4>0 DEF Legal
        <4>3. Undriven(i) \/ \E p \in OutPorts, m \in 1..n - 1 : w[m] = Dis(p, i)
          BY <3>4, <4>1
        <4> QED
          BY <3>5, <3>7, <4>2, <4>3
      <3> QED
        BY <3>6, <3>7
    <2> QED
      BY <2>1, <2>2
  <1> QED
    BY <1>1, <1>3 DEF w, Legal

\* What a concatenation cuts and makes.
LEMMA ContentsConcat ==
  ASSUME NEW u \in Seq(WireCalls), NEW v \in Seq(WireCalls)
  PROVE  /\ Cuts(u \o v) = Cuts(u) \cup Cuts(v)
         /\ Makes(u \o v) = Makes(u) \cup Makes(v)
  <1>1. Range(u \o v) = Range(u) \cup Range(v)
    BY RangeConcatenation
  <1> QED
    BY <1>1 DEF Cuts, Makes

\* An input has one driver, so there are finitely many connections.
LEMMA ConnectionsFinite ==
  ASSUME TypeOK, NEW S \in SUBSET Connections
  PROVE  IsFiniteSet(S)
  <1> DEFINE f == [c \in S |-> c[2]]
  <1>1. f \in Injection(S, InPorts)
    BY DEF Injection, IsInjective, Connections, Exists
  <1> QED
    BY <1>1, PortsFinite, FS_Injection

\* One call, that its caller may make now.
LEMMA SingleLegal ==
  ASSUME NEW o \in OutPorts, NEW i \in InPorts
  PROVE  /\ Undriven(i) => Legal(<<Con(o, i)>>)
         /\ Exists(o, i) => Legal(<<Dis(o, i)>>)
         /\ Cuts(<<Con(o, i)>>) = {} /\ Makes(<<Con(o, i)>>) = {<<o, i>>}
         /\ Cuts(<<Dis(o, i)>>) = {<<o, i>>} /\ Makes(<<Dis(o, i)>>) = {}
  <1>1. Con(o, i) \in WireCalls /\ Dis(o, i) \in WireCalls
    BY DEF WireCalls, ConCalls, DisCalls
  <1>2. \A x : Range(<<x>>) = {x} /\ Len(<<x>>) = 1 /\ DOMAIN <<x>> = {1} /\ <<x>>[1] = x
    BY DEF Range
  <1>3. Undriven(i) => Legal(<<Con(o, i)>>)
    BY <1>1, <1>2, CallsDiffer DEF Legal
  <1>4. Exists(o, i) => Legal(<<Dis(o, i)>>)
    BY <1>1, <1>2, CallsDiffer DEF Legal
  <1> QED
    BY <1>2, <1>3, <1>4, CallsDiffer DEF Cuts, Makes

\* No call at all is legal.
LEMMA EmptyLegal == Legal(<< >>) /\ Cuts(<< >>) = {} /\ Makes(<< >>) = {}
  BY DEF Legal, Cuts, Makes, Range

\* A series that disconnects a set of present connections.
LEMMA DisAllLegal ==
  ASSUME TypeOK, NEW S \in SUBSET Connections, NEW conns \in Orders(S)
  PROVE  Legal(DisAll(conns)) /\ Cuts(DisAll(conns)) = S /\ Makes(DisAll(conns)) = {}
  <1> DEFINE ws == DisAll(conns)
  <1>1. /\ conns \in Seq(S) /\ Len(conns) \in Nat /\ DOMAIN conns = 1..Len(conns)
        /\ \A n \in 1..Len(conns) : conns[n] \in S
        /\ \A x \in S : \E n \in 1..Len(conns) : conns[n] = x
        /\ \A m, n \in 1..Len(conns) : conns[m] = conns[n] => m = n
    BY ConnectionsFinite, OrderLists
  <1>2. /\ DOMAIN ws = 1..Len(conns)
        /\ \A n \in 1..Len(conns) : ws[n] = Dis(conns[n][1], conns[n][2])
    BY <1>1 DEF DisAll
  <1>3. \A c \in S : /\ c \in OutPorts \X InPorts /\ c = <<c[1], c[2]>>
                    /\ Exists(c[1], c[2])
    BY DEF Connections
  <1>4. \A n \in 1..Len(conns) : ws[n] \in WireCalls
    BY <1>1, <1>2, <1>3 DEF WireCalls, DisCalls
  <1>5. ws \in Seq(WireCalls)
    <2>1. ws \in [1..Len(conns) -> WireCalls]
      BY <1>1, <1>4 DEF DisAll
    <2> QED
      BY <1>1, <2>1
  <1> HIDE DEF ws
  <1>6. ASSUME NEW o \in OutPorts, NEW i \in InPorts, NEW n \in 1..Len(conns), ws[n] = Dis(o, i)
        PROVE  conns[n] = <<o, i>> /\ <<o, i>> \in S /\ Exists(o, i)
    <2>1. conns[n][1] = o /\ conns[n][2] = i
      BY <1>2, <1>6, CallsDiffer
    <2>2. conns[n] \in S
      BY <1>1
    <2>3. conns[n] = <<o, i>>
      BY <1>3, <2>1, <2>2
    <2> QED
      BY <1>3, <2>1, <2>2, <2>3
  <1>7. ASSUME NEW o \in OutPorts, NEW i \in InPorts, NEW n \in 1..Len(conns), ws[n] = Con(o, i)
        PROVE  FALSE
    BY <1>2, <1>7, CallsDiffer
  <1>8. ASSUME NEW o \in OutPorts, NEW p \in OutPorts, NEW i \in InPorts,
               NEW n \in 1..Len(conns), NEW m \in 1..n - 1, ws[n] = Dis(o, i), ws[m] = Dis(p, i)
        PROVE  FALSE
    <2>1. m \in 1..Len(conns) /\ m # n
      BY <1>1
    <2>2. conns[n] = <<o, i>> /\ Exists(o, i)
      BY <1>6, <1>8
    <2>3. conns[m] = <<p, i>> /\ Exists(p, i)
      BY <1>6, <1>8, <2>1
    <2>4. o = p
      BY <2>2, <2>3 DEF Exists
    <2> QED
      BY <1>1, <2>1, <2>2, <2>3, <2>4
  <1>9. \A n \in 1..Len(conns) : \A m \in 1..n - 1 : m \in 1..Len(conns)
    BY <1>1
  <1>10. Legal(ws)
    <2> SUFFICES ASSUME NEW o \in OutPorts, NEW i \in InPorts, NEW n \in 1..Len(conns)
                 PROVE  /\ ws[n] = Dis(o, i) =>
                             /\ Exists(o, i)
                             /\ \A p \in OutPorts, m \in 1..n - 1 : ws[m] \notin {Con(p, i), Dis(p, i)}
                        /\ ws[n] # Con(o, i)
      BY <1>2, <1>5 DEF Legal
    <2>1. ws[n] # Con(o, i)
      BY <1>7
    <2>2. ASSUME ws[n] = Dis(o, i), NEW p \in OutPorts, NEW m \in 1..n - 1
          PROVE  ws[m] \notin {Con(p, i), Dis(p, i)}
      BY <1>7, <1>8, <1>9, <2>2
    <2>3. ws[n] = Dis(o, i) => Exists(o, i)
      BY <1>6
    <2> QED
      BY <2>1, <2>2, <2>3
  <1>11. Makes(ws) = {}
    BY <1>2, <1>7 DEF Makes, Range
  <1>12. Cuts(ws) = S
    <2>1. ASSUME NEW c \in Cuts(ws) PROVE c \in S
      <3>1. PICK n \in 1..Len(conns) : ws[n] = Dis(c[1], c[2])
        BY <1>2 DEF Cuts, Range
      <3>2. c[1] \in OutPorts /\ c[2] \in InPorts /\ c = <<c[1], c[2]>>
        BY DEF Cuts
      <3> QED
        BY <1>6, <3>1, <3>2
    <2>2. ASSUME NEW c \in S PROVE c \in Cuts(ws)
      BY <1>1, <1>2, <1>3 DEF Cuts, Range
    <2> QED
      BY <2>1, <2>2
  <1> QED
    BY <1>10, <1>11, <1>12 DEF ws

\* The places of a series of pairs.
LEMMA Pairs ==
  ASSUME NEW L \in Nat
  PROVE  /\ \A n \in 1..2 * L : \E k \in 1..L :
              \/ n = 2 * k - 1 /\ n % 2 = 1 /\ (n + 1) \div 2 = k
              \/ n = 2 * k /\ n % 2 = 0 /\ n \div 2 = k
         /\ \A k \in 1..L : /\ 2 * k - 1 \in 1..2 * L /\ 2 * k \in 1..2 * L
                            /\ (2 * k - 1) % 2 = 1 /\ ((2 * k - 1) + 1) \div 2 = k
                            /\ (2 * k) % 2 = 0 /\ (2 * k) \div 2 = k
  <1>1. ASSUME NEW n \in 1..2 * L, n % 2 = 0
        PROVE  n \div 2 \in 1..L /\ n = 2 * (n \div 2)
    BY <1>1
  <1>2. ASSUME NEW n \in 1..2 * L, n % 2 # 0
        PROVE  /\ (n + 1) \div 2 \in 1..L /\ n = 2 * ((n + 1) \div 2) - 1 /\ n % 2 = 1
    BY <1>2
  <1>3. \A n \in 1..2 * L : \E k \in 1..L :
              \/ n = 2 * k - 1 /\ n % 2 = 1 /\ (n + 1) \div 2 = k
              \/ n = 2 * k /\ n % 2 = 0 /\ n \div 2 = k
    BY <1>1, <1>2
  <1> QED
    BY <1>3

\* Each sink is cut and then connected to the new driver.
LEMMA MoveLegal ==
  ASSUME TypeOK, IndexesAgree, NEW o \in OutPorts, NEW new \in OutPorts \cup {None},
         NEW S \in SUBSET sinkIdx[o], NEW ins \in Orders(S)
  PROVE  /\ Legal(Move(o, new, ins))
         /\ Cuts(Move(o, new, ins)) = {o} \X S
         /\ Makes(Move(o, new, ins)) = IF new = None THEN {} ELSE {new} \X S
  <1> DEFINE ws == Move(o, new, ins)
             L == Len(ins)
  <1>1. S \subseteq InPorts /\ \A i \in S : Exists(o, i)
    BY DEF TypeOK, IndexesAgree
  <1>2. IsFiniteSet(S)
    BY <1>1, PortsFinite, FS_Subset
  <1>3. /\ L \in Nat /\ DOMAIN ins = 1..L
        /\ \A k \in 1..L : ins[k] \in S
        /\ \A i \in S : \E k \in 1..L : ins[k] = i
        /\ \A j, k \in 1..L : ins[j] = ins[k] => j = k
    BY <1>2, OrderLists
  <1> HIDE DEF L
  <1>4. \A i \in S, n \in OutPorts : Dis(o, i) \in WireCalls /\ Con(n, i) \in WireCalls
    BY <1>1 DEF WireCalls, ConCalls, DisCalls
  <1>5. CASE new = None
    <2>1. ws = [k \in 1..L |-> Dis(o, ins[k])]
      BY <1>3, <1>5 DEF Move
    <2>2. ws \in Seq(WireCalls) /\ DOMAIN ws = 1..L /\ \A k \in 1..L : ws[k] = Dis(o, ins[k])
      <3>1. ws \in [1..L -> WireCalls]
        BY <1>3, <1>4, <2>1
      <3> QED
        BY <1>3, <2>1, <3>1
    <2> HIDE DEF ws
    <2>3. ASSUME NEW p \in OutPorts, NEW i \in InPorts, NEW n \in 1..L
          PROVE  /\ ws[n] # Con(p, i)
                 /\ ws[n] = Dis(p, i) => p = o /\ ins[n] = i /\ Exists(p, i)
      BY <1>1, <1>3, <2>2, CallsDiffer
    <2>4. Legal(ws)
      <3> SUFFICES ASSUME NEW p \in OutPorts, NEW i \in InPorts, NEW n \in 1..L, ws[n] = Dis(p, i),
                          NEW q \in OutPorts, NEW m \in 1..n - 1, ws[m] \in {Con(q, i), Dis(q, i)}
                   PROVE  FALSE
        BY <2>2, <2>3 DEF Legal
      <3>1. m \in 1..L /\ m # n
        BY <1>3
      <3>2. ins[n] = i /\ ins[m] = i
        BY <2>3, <3>1
      <3> QED
        BY <1>3, <3>1, <3>2
    <2>5. Makes(ws) = {}
      BY <2>2, <2>3 DEF Makes, Range
    <2>6. Cuts(ws) = {o} \X S
      <3>1. ASSUME NEW p \in OutPorts, NEW i \in InPorts
            PROVE  Dis(p, i) \in Range(ws) <=> p = o /\ i \in S
        BY <1>3, <2>2, <2>3 DEF Range
      <3> QED
        BY <1>1, <3>1 DEF Cuts
    <2> QED
      BY <1>5, <2>4, <2>5, <2>6 DEF ws
  <1>6. CASE new # None
    <2>1. ws = [n \in 1..2 * L |-> IF n % 2 = 1 THEN Dis(o, ins[(n + 1) \div 2])
                                               ELSE Con(new, ins[n \div 2])]
      BY <1>6 DEF Move, L
    <2>2. /\ DOMAIN ws = 1..2 * L
          /\ \A k \in 1..L : ws[2 * k - 1] = Dis(o, ins[k]) /\ ws[2 * k] = Con(new, ins[k])
      <3>1. ASSUME NEW k \in 1..L
            PROVE  ws[2 * k - 1] = Dis(o, ins[k]) /\ ws[2 * k] = Con(new, ins[k])
        <4>1. /\ 2 * k - 1 \in 1..2 * L /\ 2 * k \in 1..2 * L
              /\ (2 * k - 1) % 2 = 1 /\ ((2 * k - 1) + 1) \div 2 = k
              /\ (2 * k) % 2 = 0 /\ (2 * k) \div 2 = k
          BY <1>3, Pairs
        <4> QED
          BY <2>1, <4>1
      <3> QED
        BY <2>1, <3>1
    <2>3. \A n \in 1..2 * L : \E k \in 1..L : n = 2 * k - 1 \/ n = 2 * k
      <3>1. \A n \in 1..2 * L : \E k \in 1..L :
              \/ n = 2 * k - 1 /\ n % 2 = 1 /\ (n + 1) \div 2 = k
              \/ n = 2 * k /\ n % 2 = 0 /\ n \div 2 = k
        BY <1>3, Pairs
      <3> QED
        BY <3>1
    <2>4. ws \in Seq(WireCalls)
      <3>1. ASSUME NEW n \in 1..2 * L
            PROVE  ws[n] \in WireCalls
        <4>1. PICK k \in 1..L : n = 2 * k - 1 \/ n = 2 * k
          BY <2>3
        <4>2. ws[n] \in {Dis(o, ins[k]), Con(new, ins[k])}
          BY <2>2, <4>1
        <4> QED
          BY <1>3, <1>4, <1>6, <4>2
      <3>2. ws \in [1..2 * L -> WireCalls]
        BY <2>1, <3>1
      <3> QED
        BY <1>3, <3>2
    <2> HIDE DEF ws
    <2>5. ASSUME NEW p \in OutPorts, NEW i \in InPorts, NEW n \in 1..2 * L
          PROVE  /\ ws[n] = Dis(p, i) => p = o /\ \E k \in 1..L : n = 2 * k - 1 /\ ins[k] = i
                 /\ ws[n] = Con(p, i) => p = new /\ \E k \in 1..L : n = 2 * k /\ ins[k] = i
      <3>1. PICK k \in 1..L : \/ n = 2 * k - 1 /\ ws[n] = Dis(o, ins[k])
                              \/ n = 2 * k /\ ws[n] = Con(new, ins[k])
        BY <2>2, <2>3
      <3> QED
        BY <3>1, CallsDiffer
    <2>6. ASSUME NEW n \in 1..2 * L, NEW m \in 1..n - 1 PROVE m \in 1..2 * L /\ m < n
      BY <1>3
    <2>7. ASSUME NEW p \in OutPorts, NEW i \in InPorts, NEW n \in 1..2 * L, ws[n] = Dis(p, i)
          PROVE  /\ Exists(p, i)
                 /\ \A q \in OutPorts, m \in 1..n - 1 : ws[m] \notin {Con(q, i), Dis(q, i)}
      <3>1. PICK k \in 1..L : n = 2 * k - 1 /\ ins[k] = i /\ p = o
        BY <2>5, <2>7
      <3>2. ASSUME NEW q \in OutPorts, NEW m \in 1..n - 1, ws[m] \in {Con(q, i), Dis(q, i)}
            PROVE  FALSE
        <4>1. m \in 1..2 * L
          BY <2>6
        <4>2. PICK l \in 1..L : ins[l] = i /\ m \in {2 * l - 1, 2 * l}
          BY <2>5, <3>2, <4>1
        <4>3. l = k
          BY <1>3, <3>1, <4>2
        <4> QED
          BY <1>3, <2>6, <3>1, <4>2, <4>3
      <3> QED
        BY <1>1, <1>3, <3>1, <3>2
    <2>8. ASSUME NEW p \in OutPorts, NEW i \in InPorts, NEW n \in 1..2 * L, ws[n] = Con(p, i)
          PROVE  /\ \E q \in OutPorts, m \in 1..n - 1 : ws[m] = Dis(q, i)
                 /\ \A q \in OutPorts, m \in 1..n - 1 : ws[m] # Con(q, i)
      <3>1. PICK k \in 1..L : n = 2 * k /\ ins[k] = i /\ p = new
        BY <2>5, <2>8
      <3>2. 2 * k - 1 \in 1..n - 1 /\ ws[2 * k - 1] = Dis(o, i)
        BY <1>3, <2>2, <3>1
      <3>3. ASSUME NEW q \in OutPorts, NEW m \in 1..n - 1, ws[m] = Con(q, i)
            PROVE  FALSE
        <4>1. m \in 1..2 * L
          BY <2>6
        <4>2. PICK l \in 1..L : ins[l] = i /\ m = 2 * l
          BY <2>5, <3>3, <4>1
        <4>3. l = k
          BY <1>3, <3>1, <4>2
        <4> QED
          BY <1>3, <2>6, <3>1, <4>2, <4>3
      <3> QED
        BY <3>2, <3>3
    <2>9. Legal(ws)
      BY <2>2, <2>4, <2>7, <2>8 DEF Legal
    <2>10. ASSUME NEW p \in OutPorts, NEW i \in InPorts
           PROVE  /\ Dis(p, i) \in Range(ws) <=> p = o /\ i \in S
                  /\ Con(p, i) \in Range(ws) <=> p = new /\ i \in S
      <3>1. \A x : x \in Range(ws) <=> \E n \in 1..2 * L : ws[n] = x
        BY <2>2 DEF Range
      <3>2. \A k \in 1..L : 2 * k - 1 \in 1..2 * L /\ 2 * k \in 1..2 * L
        BY <1>3
      <3>3. Dis(p, i) \in Range(ws) => p = o /\ i \in S
        BY <1>3, <2>5, <3>1
      <3>4. Con(p, i) \in Range(ws) => p = new /\ i \in S
        BY <1>3, <2>5, <3>1
      <3>5. ASSUME i \in S
            PROVE  Dis(o, i) \in Range(ws) /\ Con(new, i) \in Range(ws)
        BY <1>3, <2>2, <3>1, <3>2, <3>5
      <3> QED
        BY <3>3, <3>4, <3>5
    <2>11. Cuts(ws) = {o} \X S /\ Makes(ws) = {new} \X S
      BY <1>1, <1>6, <2>10 DEF Cuts, Makes
    <2> QED
      BY <1>6, <2>9, <2>11 DEF ws
  <1> QED
    BY <1>5, <1>6

\* The driver of i drives the inputs of S, which are free or i itself.
LEMMA RemapInLegal ==
  ASSUME TypeOK, NEW o \in OutPorts, NEW i \in InPorts, Exists(o, i),
         NEW S \in SUBSET InPorts, \A n \in S : Undriven(n) \/ n = i,
         NEW order \in Orders(S)
  PROVE  LET ws == <<Dis(o, i)>> \o ConAll(o, order)
         IN  Legal(ws) /\ Cuts(ws) = {<<o, i>>} /\ Makes(ws) = {o} \X S
  <1> DEFINE con == ConAll(o, order)
             ws == <<Dis(o, i)>> \o con
             L == Len(order)
  <1>1. IsFiniteSet(S)
    BY PortsFinite, FS_Subset
  <1>2. /\ L \in Nat /\ DOMAIN order = 1..L
        /\ \A k \in 1..L : order[k] \in S
        /\ \A j \in S : \E k \in 1..L : order[k] = j
        /\ \A j, k \in 1..L : order[j] = order[k] => j = k
    BY <1>1, OrderLists
  <1>3. /\ con \in Seq(WireCalls) /\ Len(con) = L
        /\ \A k \in 1..L : con[k] = Con(o, order[k])
    <2>1. con = [k \in 1..L |-> Con(o, order[k])]
      BY <1>2 DEF ConAll
    <2>2. \A k \in 1..L : Con(o, order[k]) \in WireCalls
      BY <1>2 DEF WireCalls, ConCalls
    <2>3. con \in [1..L -> WireCalls]
      BY <2>1, <2>2
    <2> QED
      BY <1>2, <2>1, <2>3
  <1>4. <<Dis(o, i)>> \in Seq(WireCalls) /\ Len(<<Dis(o, i)>>) = 1 /\ <<Dis(o, i)>>[1] = Dis(o, i)
    BY DEF WireCalls, DisCalls
  <1> HIDE DEF con
  <1>5. /\ ws \in Seq(WireCalls) /\ Len(ws) = L + 1 /\ ws[1] = Dis(o, i)
        /\ \A k \in 1..L : ws[k + 1] = Con(o, order[k])
    <2>1. /\ ws \in Seq(WireCalls) /\ Len(ws) = 1 + L
          /\ \A n \in 1..1 + L : ws[n] = IF n <= 1 THEN <<Dis(o, i)>>[n] ELSE con[n - 1]
      BY <1>3, <1>4, ConcatProperties
    <2> QED
      BY <1>2, <1>3, <1>4, <2>1
  <1> HIDE DEF ws
  <1>6. DOMAIN ws = 1..L + 1 /\ \A n \in 1..L + 1 : n = 1 \/ \E k \in 1..L : n = k + 1
    <2>1. \A n \in 1..L + 1 : n = 1 \/ (n - 1 \in 1..L /\ n = (n - 1) + 1)
      BY <1>2
    <2> QED
      BY <1>2, <1>5, <2>1, LenProperties
  <1>7. ASSUME NEW p \in OutPorts, NEW j \in InPorts, NEW n \in 1..L + 1
        PROVE  /\ ws[n] = Dis(p, j) => n = 1 /\ p = o /\ j = i
               /\ ws[n] = Con(p, j) => p = o /\ \E k \in 1..L : n = k + 1 /\ order[k] = j
    BY <1>5, <1>6, CallsDiffer
  <1>8. Legal(ws)
    <2>1. ASSUME NEW p \in OutPorts, NEW j \in InPorts, NEW n \in 1..L + 1, ws[n] = Con(p, j)
          PROVE  /\ Undriven(j) \/ \E q \in OutPorts, m \in 1..n - 1 : ws[m] = Dis(q, j)
                 /\ \A q \in OutPorts, m \in 1..n - 1 : ws[m] # Con(q, j)
      <3>1. PICK k \in 1..L : n = k + 1 /\ order[k] = j
        BY <1>7, <2>1
      <3>2. Undriven(j) \/ \E q \in OutPorts, m \in 1..n - 1 : ws[m] = Dis(q, j)
        <4>1. 1 \in 1..n - 1
          BY <1>2, <3>1
        <4> QED
          BY <1>2, <1>5, <3>1, <4>1
      <3>3. ASSUME NEW q \in OutPorts, NEW m \in 1..n - 1, ws[m] = Con(q, j)
            PROVE  FALSE
        <4>1. m \in 1..L + 1 /\ m # n
          BY <1>2
        <4>2. PICK l \in 1..L : m = l + 1 /\ order[l] = j
          BY <1>7, <3>3, <4>1
        <4>3. l = k
          BY <1>2, <3>1, <4>2
        <4> QED
          BY <3>1, <4>1, <4>2, <4>3
      <3> QED
        BY <3>2, <3>3
    <2>2. ASSUME NEW p \in OutPorts, NEW j \in InPorts, NEW n \in 1..L + 1, ws[n] = Dis(p, j)
          PROVE  /\ Exists(p, j)
                 /\ \A q \in OutPorts, m \in 1..n - 1 : ws[m] \notin {Con(q, j), Dis(q, j)}
      BY <1>7, <2>2
    <2> QED
      BY <1>5, <1>6, <2>1, <2>2 DEF Legal
  <1>9. ASSUME NEW p \in OutPorts, NEW j \in InPorts
        PROVE  /\ Dis(p, j) \in Range(ws) <=> p = o /\ j = i
               /\ Con(p, j) \in Range(ws) <=> p = o /\ j \in S
    <2>1. \A x : x \in Range(ws) <=> \E n \in 1..L + 1 : ws[n] = x
      BY <1>6 DEF Range
    <2>2. 1 \in 1..L + 1 /\ \A k \in 1..L : k + 1 \in 1..L + 1
      BY <1>2
    <2>3. /\ Dis(p, j) \in Range(ws) => p = o /\ j = i
          /\ Con(p, j) \in Range(ws) => p = o /\ j \in S
      BY <1>2, <1>7, <2>1
    <2>4. Dis(o, i) \in Range(ws)
      BY <1>5, <2>1, <2>2
    <2>5. ASSUME j \in S
          PROVE  Con(o, j) \in Range(ws)
      BY <1>2, <1>5, <2>1, <2>2, <2>5
    <2> QED
      BY <2>3, <2>4, <2>5
  <1>10. Cuts(ws) = {<<o, i>>} /\ Makes(ws) = {o} \X S
    BY <1>9 DEF Cuts, Makes
  <1> QED
    BY <1>8, <1>10 DEF ws, con

\* Connections that do not touch block b.
Without(conns, b) == {c \in conns : b \notin {Owner[c[1]], Owner[c[2]]}}

\* Where a legal series leads, and with a removeBlock behind it.
LEMMA OutcomeOf ==
  ASSUME NEW conns \in SUBSET (OutPorts \X InPorts), NEW ws \in Seq(WireCalls)
  PROVE  /\ Outcome(conns, ws) = (conns \ Cuts(ws)) \cup Makes(ws)
         /\ \A b \in Blocks : Outcome(conns, Append(ws, Rem(b))) =
              Without((conns \ Cuts(ws)) \cup Makes(ws), b)
  <1>1. \A b : Rem(b) \notin Range(ws)
    <2>1. \A b : Rem(b) \notin WireCalls
      BY CallsDiffer DEF WireCalls, ConCalls, DisCalls
    <2> QED
      BY <2>1, RangeOfSeq
  <1>2. \A b : Range(Append(ws, Rem(b))) = Range(ws) \cup {Rem(b)}
    <2> TAKE b
    <2>1. /\ Len(Append(ws, Rem(b))) = Len(ws) + 1 /\ Len(ws) \in Nat
          /\ DOMAIN Append(ws, Rem(b)) = 1..Len(ws) + 1 /\ DOMAIN ws = 1..Len(ws)
          /\ \A n \in 1..Len(ws) : Append(ws, Rem(b))[n] = ws[n]
          /\ Append(ws, Rem(b))[Len(ws) + 1] = Rem(b)
      <3>1. ws \in Seq(WireCalls \cup {Rem(b)})
        BY SeqMonotonic
      <3> QED
        BY <3>1, AppendProperties, LenProperties
    <2> QED
      BY <2>1 DEF Range
  <1>3. Outcome(conns, ws) = (conns \ Cuts(ws)) \cup Makes(ws)
    BY <1>1 DEF Outcome, Cuts, Makes
  <1>4. ASSUME NEW b \in Blocks
        PROVE  Outcome(conns, Append(ws, Rem(b))) =
                 Without((conns \ Cuts(ws)) \cup Makes(ws), b)
    <2>1. \A o \in OutPorts, i \in InPorts :
            /\ Con(o, i) \in Range(Append(ws, Rem(b))) <=> Con(o, i) \in Range(ws)
            /\ Dis(o, i) \in Range(Append(ws, Rem(b))) <=> Dis(o, i) \in Range(ws)
      BY <1>2, CallsDiffer
    <2>2. \A c \in Blocks : Rem(c) \in Range(Append(ws, Rem(b))) <=> c = b
      BY <1>1, <1>2, CallsDiffer
    <2>3. \A p \in OutPorts \cup InPorts : Owner[p] \in Blocks
      BY PortsOwned
    <2> QED
      BY <2>1, <2>2, <2>3 DEF Outcome, Cuts, Makes, Without
  <1> QED
    BY <1>3, <1>4

-----------------------------------------------------------------------------
(* Calls that are made.                                                    *)

\* When the first call was made the others are still legal.
LEMMA TailLegal ==
  ASSUME TypeOK, NEW ws, Legal(ws), ws # << >>, NEW o \in OutPorts, NEW i \in InPorts,
         \/ Head(ws) = Con(o, i) /\ sourceIdx' = [sourceIdx EXCEPT ![i] = o]
         \/ Head(ws) = Dis(o, i) /\ sourceIdx' = [sourceIdx EXCEPT ![i] = None]
  PROVE  Legal(Tail(ws))'
  <1> DEFINE t == Tail(ws)
  <1>1. /\ ws \in Seq(WireCalls) /\ t \in Seq(WireCalls) /\ Len(ws) \in Nat \ {0}
        /\ Len(t) = Len(ws) - 1 /\ DOMAIN ws = 1..Len(ws) /\ DOMAIN t = 1..Len(t)
        /\ \A n \in 1..Len(t) : n + 1 \in 1..Len(ws) /\ t[n] = ws[n + 1]
        /\ ws[1] = Head(ws)
    BY HeadTailProperties DEF Legal
  <1> HIDE DEF t
  <1>2. ASSUME NEW p \in OutPorts, NEW j \in InPorts, NEW n \in DOMAIN t, t[n] = Dis(p, j)
        PROVE  /\ sourceIdx'[j] = p
               /\ \A q \in OutPorts, m \in 1..n - 1 : t[m] \notin {Con(q, j), Dis(q, j)}
    <2>1. n + 1 \in DOMAIN ws /\ ws[n + 1] = Dis(p, j)
      BY <1>1, <1>2
    <2>2. /\ Exists(p, j)
          /\ \A q \in OutPorts, m \in 1..(n + 1) - 1 : ws[m] \notin {Con(q, j), Dis(q, j)}
      BY <2>1 DEF Legal
    <2>3. 1 \in 1..(n + 1) - 1 /\ \A m \in 1..n - 1 : m + 1 \in 1..(n + 1) - 1 /\ m \in 1..Len(t)
      BY <1>1
    <2>4. j # i
      BY <1>1, <2>2, <2>3
    <2> QED
      BY <1>1, <2>2, <2>3, <2>4 DEF Exists, TypeOK
  <1>3. ASSUME NEW p \in OutPorts, NEW j \in InPorts, NEW n \in DOMAIN t, t[n] = Con(p, j)
        PROVE  /\ sourceIdx'[j] = None \/ \E q \in OutPorts, m \in 1..n - 1 : t[m] = Dis(q, j)
               /\ \A q \in OutPorts, m \in 1..n - 1 : t[m] # Con(q, j)
    <2>1. n + 1 \in DOMAIN ws /\ ws[n + 1] = Con(p, j)
      BY <1>1, <1>3
    <2>2. /\ Undriven(j) \/ \E q \in OutPorts, m \in 1..(n + 1) - 1 : ws[m] = Dis(q, j)
          /\ \A q \in OutPorts, m \in 1..(n + 1) - 1 : ws[m] # Con(q, j)
      BY <2>1 DEF Legal
    <2>3. 1 \in 1..(n + 1) - 1 /\ \A m \in 1..n - 1 : m + 1 \in 1..(n + 1) - 1 /\ m \in 1..Len(t)
      BY <1>1
    <2>4. \A q \in OutPorts, m \in 1..n - 1 : t[m] # Con(q, j)
      BY <1>1, <2>2, <2>3
    <2>5. CASE Undriven(j)
      <3>1. sourceIdx'[j] = None
        <4>1. CASE j = i
          <5>1. Head(ws) # Con(o, i)
            BY <1>1, <2>2, <2>3, <4>1
          <5> QED
            BY <4>1, <5>1 DEF TypeOK
        <4> QED
          BY <2>5, <4>1 DEF TypeOK, Undriven
      <3> QED
        BY <2>4, <3>1
    <2>6. ASSUME NEW q \in OutPorts, NEW m \in 1..(n + 1) - 1, ws[m] = Dis(q, j)
          PROVE  sourceIdx'[j] = None \/ \E r \in OutPorts, k \in 1..n - 1 : t[k] = Dis(r, j)
      <3>1. CASE m = 1
        BY <1>1, <2>6, <3>1, CallsDiffer DEF TypeOK
      <3>2. CASE m # 1
        <4>1. m - 1 \in 1..n - 1 /\ m - 1 \in 1..Len(t) /\ (m - 1) + 1 = m
          BY <1>1, <3>2
        <4> QED
          BY <1>1, <2>6, <4>1
      <3> QED
        BY <3>1, <3>2
    <2> QED
      BY <2>2, <2>4, <2>5, <2>6
  <1> QED
    BY <1>1, <1>2, <1>3 DEF t, Legal, Exists, Undriven

\* What a call has done and what is left to do add up to what was to be done.
LEMMA OutcomeKept ==
  ASSUME TypeOK, NEW ws, Legal(ws), ws # << >>, NEW o \in OutPorts, NEW i \in InPorts,
         \/ /\ Head(ws) = Con(o, i) /\ Undriven(i)
            /\ sourceIdx' = [sourceIdx EXCEPT ![i] = o]
         \/ /\ Head(ws) = Dis(o, i) /\ Exists(o, i)
            /\ sourceIdx' = [sourceIdx EXCEPT ![i] = None]
  PROVE  (Connections' \ Cuts(Tail(ws))) \cup Makes(Tail(ws)) = (Connections \ Cuts(ws)) \cup Makes(ws)
  <1> DEFINE t == Tail(ws)
  <1>1. /\ ws \in Seq(WireCalls) /\ t \in Seq(WireCalls) /\ Len(ws) \in Nat \ {0}
        /\ Len(t) = Len(ws) - 1 /\ DOMAIN ws = 1..Len(ws) /\ DOMAIN t = 1..Len(t)
        /\ \A n \in 1..Len(t) : n + 1 \in 1..Len(ws) /\ t[n] = ws[n + 1]
        /\ ws[1] = Head(ws)
    BY HeadTailProperties DEF Legal
  <1> HIDE DEF t
  <1>2. \A x : x \in Range(ws) <=> x = Head(ws) \/ x \in Range(t)
    <2>1. \A n \in 1..Len(ws) : n = 1 \/ (n - 1 \in 1..Len(t) /\ ws[n] = t[n - 1])
      BY <1>1
    <2>2. 1 \in 1..Len(ws)
      BY <1>1
    <2>3. /\ \A x : x \in Range(ws) <=> \E n \in 1..Len(ws) : ws[n] = x
          /\ \A x : x \in Range(t) <=> \E n \in 1..Len(t) : t[n] = x
      BY <1>1 DEF Range
    <2> QED
      BY <1>1, <2>1, <2>2, <2>3
  <1>3. ASSUME NEW p \in OutPorts
        PROVE  /\ Dis(p, i) \notin Range(t)
               /\ Head(ws) = Con(o, i) => Con(p, i) \notin Range(t)
    <2>1. ASSUME NEW n \in 1..Len(t)
          PROVE  n + 1 \in DOMAIN ws /\ ws[n + 1] = t[n] /\ 1 \in 1..(n + 1) - 1
      BY <1>1
    <2>2. ASSUME NEW n \in 1..Len(t), t[n] = Dis(p, i) PROVE FALSE
      <3>1. \A q \in OutPorts, m \in 1..(n + 1) - 1 : ws[m] \notin {Con(q, i), Dis(q, i)}
        BY <2>1, <2>2 DEF Legal
      <3> QED
        BY <1>1, <2>1, <3>1
    <2>3. ASSUME NEW n \in 1..Len(t), Head(ws) = Con(o, i), t[n] = Con(p, i) PROVE FALSE
      <3>1. \A q \in OutPorts, m \in 1..(n + 1) - 1 : ws[m] # Con(q, i)
        BY <2>1, <2>3 DEF Legal
      <3> QED
        BY <1>1, <2>1, <2>3, <3>1
    <2> QED
      BY <1>1, <2>2, <2>3 DEF Range
  <1>4. o # None /\ None \notin OutPorts
    BY NoneIsNot
  <1>5. ASSUME NEW p \in OutPorts, NEW j \in InPorts
        PROVE  \/ Con(p, j) \in Range(t)
               \/ sourceIdx'[j] = p /\ Dis(p, j) \notin Range(t)
               <=> \/ Con(p, j) \in Range(ws)
                   \/ sourceIdx[j] = p /\ Dis(p, j) \notin Range(ws)
    <2>1. CASE j = i /\ Head(ws) = Con(o, i)
      <3>1. Con(p, i) \in Range(ws) <=> p = o
        BY <1>2, <1>3, <2>1, CallsDiffer
      <3>2. sourceIdx'[i] = o /\ sourceIdx[i] = None
        BY <2>1, CallsDiffer DEF TypeOK, Undriven
      <3> QED
        BY <1>3, <1>4, <2>1, <3>1, <3>2
    <2>2. CASE j = i /\ Head(ws) = Dis(o, i)
      <3>1. Con(p, i) \in Range(ws) <=> Con(p, i) \in Range(t)
        BY <1>2, <2>2, CallsDiffer
      <3>2. sourceIdx'[i] = None /\ sourceIdx[i] = o /\ Dis(o, i) \in Range(ws)
        BY <1>2, <2>2, CallsDiffer DEF TypeOK, Exists
      <3> QED
        BY <1>4, <2>2, <3>1, <3>2
    <2>3. CASE j # i
      <3>1. sourceIdx'[j] = sourceIdx[j]
        BY <2>3 DEF TypeOK
      <3>2. /\ Con(p, j) \in Range(ws) <=> Con(p, j) \in Range(t)
            /\ Dis(p, j) \in Range(ws) <=> Dis(p, j) \in Range(t)
        BY <1>2, <2>3, CallsDiffer
      <3> QED
        BY <3>1, <3>2
    <2> QED
      BY <2>1, <2>2, <2>3
  <1>6. \A c \in OutPorts \X InPorts : c[1] \in OutPorts /\ c[2] \in InPorts
    OBVIOUS
  <1> QED
    BY <1>5, <1>6 DEF Cuts, Makes, Connections, Exists, t

-----------------------------------------------------------------------------
(* What each operation begins with, and the step of the netlist it is.     *)

\* Whether a series is legal depends on the source index only.
LEMMA StillLegal ==
  ASSUME NEW ws, Legal(ws), UNCHANGED sourceIdx
  PROVE  Legal(ws)'
  BY DEF Legal, Exists, Undriven

\* Between operations the goal is the connections that are there.
LEMMA AtRest ==
  ASSUME calls = << >>
  PROVE  goal = Connections
  <1>1. << >> \in Seq(WireCalls) /\ Connections \in SUBSET (OutPorts \X InPorts)
    BY DEF Connections
  <1>2. Outcome(Connections, << >>) = (Connections \ Cuts(<< >>)) \cup Makes(<< >>)
    BY <1>1, OutcomeOf
  <1> QED
    BY <1>2, EmptyLegal DEF goal

\* A removeBlock behind a series of wire calls.
LEMMA WithRemove ==
  ASSUME NEW ws \in Seq(WireCalls), NEW b
  PROVE  ws \o <<Rem(b)>> = Append(ws, Rem(b))
  <1>1. ws \in Seq(WireCalls \cup {Rem(b)})
    BY SeqMonotonic
  <1> QED
    BY <1>1, AppendIsConcat

\* An operation whose calls may be made, and what it aims at.
LEMMA Begins ==
  ASSUME NEW ws, Legal(ws), Typed(Makes(ws)), NEW n,
         \/ Begin(ws, n)
         \/ \E b \in Blocks : Begin(ws \o <<Rem(b)>>, n)
  PROVE  /\ CallsLegal'
         /\ goal = Connections
         /\ Begin(ws, n) => goal' = (goal \ Cuts(ws)) \cup Makes(ws)
         /\ \A b \in Blocks : Begin(ws \o <<Rem(b)>>, n) =>
              goal' = Without((goal \ Cuts(ws)) \cup Makes(ws), b)
  <1>1. UNCHANGED sourceIdx /\ calls = << >> /\ Connections' = Connections
    BY DEF Begin, indexVars, Connections, Exists
  <1>2. ws \in Seq(WireCalls) /\ Legal(ws)'
    BY <1>1, StillLegal DEF Legal
  <1>3. goal = Connections /\ Connections \in SUBSET (OutPorts \X InPorts)
    BY <1>1, AtRest DEF Connections
  <1>4. CallsLegal'
    <2>1. calls' = ws \/ \E b \in Blocks : calls' = Append(ws, Rem(b))
      BY <1>2, WithRemove DEF Begin
    <2>2. Typed(Makes(ws))'
      BY DEF Typed, Makes
    <2> QED
      BY <1>2, <2>1, <2>2 DEF CallsLegal
  <1>5. Begin(ws, n) => goal' = (goal \ Cuts(ws)) \cup Makes(ws)
    BY <1>1, <1>2, <1>3, OutcomeOf DEF Begin, goal
  <1>6. ASSUME NEW b \in Blocks, Begin(ws \o <<Rem(b)>>, n)
        PROVE  goal' = Without((goal \ Cuts(ws)) \cup Makes(ws), b)
    <2>1. calls' = Append(ws, Rem(b))
      BY <1>2, <1>6, WithRemove DEF Begin
    <2>2. goal' = Outcome(Connections, Append(ws, Rem(b)))
      BY <1>1, <2>1 DEF goal
    <2>3. Outcome(Connections, Append(ws, Rem(b))) =
            Without((Connections \ Cuts(ws)) \cup Makes(ws), b)
      BY <1>2, <1>3, OutcomeOf
    <2> QED
      BY <1>3, <2>2, <2>3
  <1> QED
    BY <1>3, <1>4, <1>5, <1>6

\* All an operation needs of the state it begins in.
Steady == TypeOK /\ IndexesAgree /\ TypesAgree

\* connect() is the netlist's Connect.
LEMMA ConnectStep ==
  ASSUME Steady, NEW o \in OutPorts, NEW i \in InPorts, Connect(o, i)
  PROVE  CallsLegal' /\ Net!Connect(o, i)
  <1>1. Legal(<<Con(o, i)>>) /\ Cuts(<<Con(o, i)>>) = {} /\ Makes(<<Con(o, i)>>) = {<<o, i>>}
    BY SingleLegal DEF Connect
  <1>0. Typed(Makes(<<Con(o, i)>>))
    BY <1>1 DEF Connect, Fits, Typed
  <1>2. CallsLegal' /\ goal = Connections /\ goal' = goal \cup {<<o, i>>}
    BY <1>0, <1>1, Begins DEF Connect
  <1>3. ~Net!Driven(i)
    BY <1>2, NoneIsNot DEF Connect, Undriven, Net!Driven, Connections, Exists
  <1> QED
    BY <1>2, <1>3 DEF Net!Connect

\* disconnect() is the netlist's Disconnect.
LEMMA DisconnectStep ==
  ASSUME Steady, NEW o \in OutPorts, NEW i \in InPorts, Disconnect(o, i)
  PROVE  CallsLegal' /\ Net!Disconnect(o, i)
  <1>1. Legal(<<Dis(o, i)>>) /\ Cuts(<<Dis(o, i)>>) = {<<o, i>>} /\ Makes(<<Dis(o, i)>>) = {}
    BY SingleLegal DEF Disconnect
  <1>2. CallsLegal' /\ goal = Connections /\ goal' = goal \ {<<o, i>>}
    BY <1>1, Begins DEF Disconnect, Typed
  <1> QED
    BY <1>2 DEF Disconnect, Net!Disconnect, Connections

\* remap of an input is the netlist's RemapIn, or nothing when it is undriven.
LEMMA RemapInStep ==
  ASSUME Steady, NEW i \in InPorts, NEW S \in SUBSET InPorts, RemapIn(i, S)
  PROVE  CallsLegal' /\ (goal' = goal \/ \E o \in OutPorts : Net!RemapIn(o, i, S))
  <1>1. CASE Undriven(i)
    BY <1>1, EmptyLegal, Begins DEF RemapIn, Typed
  <1>2. CASE ~Undriven(i)
    <2> DEFINE o == sourceIdx[i]
    <2>1. o \in OutPorts /\ Exists(o, i)
      BY <1>2 DEF Steady, TypeOK, Undriven, Exists
    <2>2. PICK order \in Orders(S) : Begin(<<Dis(o, i)>> \o ConAll(o, order), 1)
      BY <1>2 DEF RemapIn
    <2> DEFINE ws == <<Dis(o, i)>> \o ConAll(o, order)
    <2> HIDE DEF o
    <2>3. Legal(ws) /\ Cuts(ws) = {<<o, i>>} /\ Makes(ws) = {o} \X S
      BY <2>1, RemapInLegal DEF RemapIn, Steady
    <2>6. Typed(Makes(ws))
      BY <2>1, <2>3 DEF RemapIn, Fits, Steady, TypesAgree, Typed
    <2>4. /\ CallsLegal' /\ goal = Connections
          /\ goal' = (goal \ {<<o, i>>}) \cup ({o} \X S)
      BY <2>2, <2>3, <2>6, Begins
    <2>5. <<o, i>> \in goal
      BY <2>1, <2>4 DEF Connections
    <2> QED
      BY <2>1, <2>4, <2>5 DEF Net!RemapIn
  <1> QED
    BY <1>1, <1>2

\* Sinks of the netlist are the sink index.
LEMMA SinksIndexed ==
  ASSUME Steady, goal = Connections, NEW o \in OutPorts
  PROVE  /\ Net!Sinks(o) = sinkIdx[o] /\ sinkIdx[o] \in SUBSET InPorts
         /\ Net!From(o) = {o} \X sinkIdx[o]
  <1>1. Net!Sinks(o) = sinkIdx[o] /\ sinkIdx[o] \in SUBSET InPorts
    BY DEF Steady, TypeOK, IndexesAgree, Net!Sinks, Connections
  <1> QED
    BY <1>1 DEF Net!From

\* They have the type of the output.
LEMMA SinksTyped ==
  ASSUME Steady, NEW o \in OutPorts, NEW i \in sinkIdx[o]
  PROVE  Type[i] = Type[o]
  BY DEF Steady, TypeOK, IndexesAgree, TypesAgree

\* remap of an output is the netlist's RemapOut.
LEMMA RemapOutStep ==
  ASSUME Steady, NEW o \in OutPorts, NEW new \in OutPorts \cup {None}, RemapOut(o, new)
  PROVE  CallsLegal' /\ Net!RemapOut(o, new)
  <1>1. PICK order \in Orders(sinkIdx[o]) : Begin(Move(o, new, order), 1)
    BY DEF RemapOut
  <1> DEFINE ws == Move(o, new, order)
             S == sinkIdx[o]
  <1>2. /\ Legal(ws) /\ Cuts(ws) = {o} \X S
        /\ Makes(ws) = IF new = None THEN {} ELSE {new} \X S
    BY <1>1, MoveLegal DEF Steady
  <1>4. Typed(Makes(ws))
    <2>1. new # None => \A i \in S : Type[new] = Type[i]
      BY SinksTyped DEF RemapOut, Fits
    <2> QED
      BY <1>2, <2>1 DEF Typed
  <1>3. /\ CallsLegal' /\ goal = Connections
        /\ goal' = (goal \ ({o} \X S)) \cup (IF new = None THEN {} ELSE {new} \X S)
    BY <1>1, <1>2, <1>4, Begins
  <1> QED
    BY <1>3, SinksIndexed DEF Net!RemapOut

\* Transformer::insertBetween is the netlist's InsertBetween.
LEMMA InsertBetweenStep ==
  ASSUME Steady, NEW o \in OutPorts, NEW i \in InPorts, NEW nip \in InPorts,
         NEW nop \in OutPorts, InsertBetween(o, i, nip, nop)
  PROVE  CallsLegal' /\ Net!InsertBetween(o, i, nip, nop)
  <1> DEFINE ws == <<Dis(o, i), Con(o, nip), Con(nop, i)>>
  <1>1. Exists(o, i) /\ Undriven(nip) /\ nip # i
    BY NoneIsNot DEF InsertBetween, Exists, Undriven
  <1>2. ws \in Seq(WireCalls) /\ Range(ws) = {Dis(o, i), Con(o, nip), Con(nop, i)}
    BY DEF WireCalls, ConCalls, DisCalls, Range
  <1>3. /\ DOMAIN ws = 1..3 /\ ws[1] = Dis(o, i) /\ ws[2] = Con(o, nip) /\ ws[3] = Con(nop, i)
        /\ \A n \in 1..3 : n = 1 \/ n = 2 \/ n = 3
    OBVIOUS
  <1> HIDE DEF ws
  <1>4. Legal(ws)
    <2> SUFFICES ASSUME NEW p \in OutPorts, NEW j \in InPorts, NEW n \in 1..3
                 PROVE  /\ ws[n] = Dis(p, j) =>
                             /\ Exists(p, j)
                             /\ \A q \in OutPorts, m \in 1..n - 1 : ws[m] \notin {Con(q, j), Dis(q, j)}
                        /\ ws[n] = Con(p, j) =>
                             /\ Undriven(j) \/ \E q \in OutPorts, m \in 1..n - 1 : ws[m] = Dis(q, j)
                             /\ \A q \in OutPorts, m \in 1..n - 1 : ws[m] # Con(q, j)
      BY <1>2, <1>3 DEF Legal
    <2>1. CASE n = 1
      BY <1>1, <1>3, <2>1, CallsDiffer
    <2>2. CASE n = 2
      <3>1. \A m \in 1..n - 1 : m = 1
        BY <2>2
      <3> QED
        BY <1>1, <1>3, <2>2, <3>1, CallsDiffer
    <2>3. CASE n = 3
      <3>1. 1 \in 1..n - 1 /\ \A m \in 1..n - 1 : m = 1 \/ m = 2
        BY <2>3
      <3> QED
        BY <1>1, <1>3, <2>3, <3>1, CallsDiffer
    <2> QED
      BY <1>3, <2>1, <2>2, <2>3
  <1>5. Cuts(ws) = {<<o, i>>} /\ Makes(ws) = {<<o, nip>>, <<nop, i>>}
    <2>1. ASSUME NEW p \in OutPorts, NEW j \in InPorts
          PROVE  /\ Dis(p, j) \in Range(ws) <=> p = o /\ j = i
                 /\ Con(p, j) \in Range(ws) <=> (p = o /\ j = nip) \/ (p = nop /\ j = i)
      BY <1>2, CallsDiffer
    <2> QED
      BY <2>1 DEF Cuts, Makes
  <1>6. /\ CallsLegal' /\ goal = Connections
        /\ goal' = (goal \ {<<o, i>>}) \cup {<<o, nip>>, <<nop, i>>}
    <2>1. Typed(Makes(ws))
      BY <1>5 DEF InsertBetween, Fits, Typed
    <2> QED
      BY <1>4, <1>5, <2>1, Begins DEF InsertBetween, ws
  <1>7. <<o, i>> \in goal
    BY <1>1, <1>6 DEF Connections
  <1> QED
    BY <1>6, <1>7 DEF Net!InsertBetween

\* Transformer::insertAfter is the netlist's InsertAfter: the new input is
\* undriven, so it is not among the sinks that are moved.
LEMMA InsertAfterStep ==
  ASSUME Steady, NEW o \in OutPorts, NEW nip \in InPorts, NEW nop \in OutPorts,
         InsertAfter(o, nip, nop)
  PROVE  CallsLegal' /\ Net!InsertAfter(o, nip, nop)
  <1>1. PICK order \in Orders(sinkIdx[o]) :
          Begin(Move(o, nop, order) \o <<Con(o, nip)>>, 0)
    BY DEF InsertAfter
  <1> DEFINE u == Move(o, nop, order)
             v == <<Con(o, nip)>>
             S == sinkIdx[o]
  <1>2. S \in SUBSET InPorts /\ nip \notin S /\ Undriven(nip)
    BY NoneIsNot DEF Steady, TypeOK, IndexesAgree, InsertAfter, Undriven, Exists
  <1>3. Legal(u) /\ Cuts(u) = {o} \X S /\ Makes(u) = {nop} \X S
    BY <1>1, NoneIsNot, MoveLegal DEF Steady
  <1>4. Legal(v) /\ Cuts(v) = {} /\ Makes(v) = {<<o, nip>>}
    BY <1>2, SingleLegal
  <1> HIDE DEF u, v, S
  <1>5. Ports(u) \cap Ports(v) = {}
    BY <1>2, <1>3, <1>4 DEF Ports
  <1>6. /\ Legal(u \o v)
        /\ Cuts(u \o v) = {o} \X S /\ Makes(u \o v) = ({nop} \X S) \cup {<<o, nip>>}
    <2>1. u \in Seq(WireCalls) /\ v \in Seq(WireCalls)
      BY <1>3, <1>4 DEF Legal
    <2> QED
      BY <1>3, <1>4, <1>5, <2>1, LegalConcat, ContentsConcat
  <1>7. Begin(u \o v, 0)
    BY <1>1 DEF u, v
  <1>8. /\ CallsLegal' /\ goal = Connections
        /\ goal' = (goal \ ({o} \X S)) \cup (({nop} \X S) \cup {<<o, nip>>})
    <2>1. \A i \in S : Type[nop] = Type[i]
      BY SinksTyped DEF InsertAfter, Fits, S
    <2>2. Typed(Makes(u \o v))
      BY <1>6, <2>1 DEF InsertAfter, Fits, Typed
    <2> QED
      BY <1>6, <1>7, <2>2, Begins
  <1>9. Net!Sinks(o) = S /\ Net!From(o) = {o} \X S
    BY <1>8, SinksIndexed DEF S
  <1> QED
    BY <1>8, <1>9 DEF Net!InsertAfter

\* Transformer::remove is the netlist's Bypass, also when the block drives
\* itself.
LEMMA TransformerRemoveStep ==
  ASSUME Steady, NEW b \in Blocks, NEW ip \in InPorts, NEW op \in OutPorts,
         TransformerRemove(b, ip, op)
  PROVE  CallsLegal' /\ Net!Bypass(ip, op)
  <1> DEFINE driver == sourceIdx[ip]
             S == sinkIdx[op] \ {ip}
             u == IF driver = None THEN << >> ELSE <<Dis(driver, ip)>>
  <1>1. PICK order \in Orders(S) : Begin(u \o Move(op, driver, order) \o <<Rem(b)>>, 0)
    BY DEF TransformerRemove
  <1> DEFINE v == Move(op, driver, order)
  <1>2. /\ driver \in OutPorts \cup {None} /\ S \in SUBSET sinkIdx[op] /\ S \in SUBSET InPorts
        /\ driver # None => Exists(driver, ip) /\ driver \in OutPorts
        /\ Inputs(b) = {ip} /\ Outputs(b) = {op}
    BY DEF Steady, TypeOK, Exists, TransformerRemove
  <1>3. /\ Legal(v) /\ Cuts(v) = {op} \X S
        /\ Makes(v) = IF driver = None THEN {} ELSE {driver} \X S
    <2> HIDE DEF driver, S
    <2>1. TypeOK /\ IndexesAgree
      BY DEF Steady
    <2> QED
      BY <1>1, <1>2, <2>1, MoveLegal
  <1>4. /\ Legal(u) /\ Makes(u) = {}
        /\ Cuts(u) = IF driver = None THEN {} ELSE {<<driver, ip>>}
    BY <1>2, EmptyLegal, SingleLegal
  <1> HIDE DEF u, v, S, driver
  <1>5. Ports(u) \cap Ports(v) = {}
    <2>1. ip \notin S
      BY DEF S
    <2> QED
      BY <1>3, <1>4, <2>1 DEF Ports
  <1>6. /\ Legal(u \o v)
        /\ Cuts(u \o v) = Cuts(u) \cup ({op} \X S) /\ Makes(u \o v) = Makes(v)
    <2>1. u \in Seq(WireCalls) /\ v \in Seq(WireCalls)
      BY <1>3, <1>4 DEF Legal
    <2> QED
      BY <1>3, <1>4, <1>5, <2>1, LegalConcat, ContentsConcat
  <1>7. Begin((u \o v) \o <<Rem(b)>>, 0)
    BY <1>1 DEF u, v, S, driver
  <1>8. /\ CallsLegal' /\ goal = Connections
        /\ goal' = Without((goal \ (Cuts(u) \cup ({op} \X S))) \cup Makes(v), b)
    <2>1. driver # None => Type[driver] = Type[op]
      BY <1>2 DEF TransformerRemove, Fits, Steady, TypesAgree
    <2>2. \A i \in S : Type[i] = Type[op]
      BY <1>2, SinksTyped
    <2>3. Typed(Makes(u \o v))
      BY <1>3, <1>6, <2>1, <2>2 DEF Typed
    <2> QED
      BY <1>6, <1>7, <2>3, Begins
  <1>9. \A i \in InPorts : Owner[i] = b <=> i = ip
    BY <1>2 DEF Inputs
  <1>10. \A o \in OutPorts : Owner[o] = b <=> o = op
    BY <1>2 DEF Outputs
  <1>11. /\ \A o \in OutPorts : <<o, ip>> \in goal <=> driver = o
         /\ \A i \in InPorts : <<op, i>> \in goal <=> i \in S \/ (i = ip /\ driver = op)
         /\ goal \in SUBSET (OutPorts \X InPorts)
    BY <1>8 DEF Connections, Exists, Steady, IndexesAgree, S, driver
  <1>12. ASSUME NEW o \in OutPorts, NEW i \in InPorts
         PROVE  <<o, i>> \in goal' <=>
                  \/ <<o, i>> \in goal /\ o # op /\ i # ip
                  \/ driver = o /\ o # op /\ i \in S
    <2>1. <<o, i>> \in goal' <=>
             /\ \/ <<o, i>> \in goal /\ <<o, i>> \notin Cuts(u) /\ <<o, i>> \notin {op} \X S
                \/ <<o, i>> \in Makes(v)
             /\ o # op /\ i # ip
      BY <1>8, <1>9, <1>10 DEF Without
    <2>2. ip \notin S
      BY DEF S
    <2> QED
      BY <1>2, <1>3, <1>4, <2>1, <2>2, NoneIsNot
  <1>13. goal' \in SUBSET (OutPorts \X InPorts)
    BY DEF goal, Outcome
  <1>14. goal' = (goal \ Net!Touching(Owner[ip]))
                   \cup {c \in OutPorts \X InPorts :
                           /\ <<c[1], ip>> \in goal /\ Owner[c[1]] # Owner[ip]
                           /\ <<op, c[2]>> \in goal}
    <2>1. Owner[ip] = b
      BY <1>9
    <2>2. ASSUME NEW o \in OutPorts, NEW i \in InPorts
          PROVE  /\ <<o, i>> \in Net!Touching(b) <=> <<o, i>> \in goal /\ (o = op \/ i = ip)
                 /\ (<<o, ip>> \in goal /\ Owner[o] # b /\ <<op, i>> \in goal) <=>
                      driver = o /\ o # op /\ i \in S
      <3>1. <<o, i>> \in Net!Touching(b) <=> <<o, i>> \in goal /\ (o = op \/ i = ip)
        BY <1>9, <1>10 DEF Net!Touching
      <3> QED
        BY <1>10, <1>11, <3>1
    <2> QED
      BY <1>11, <1>12, <1>13, <2>1, <2>2
  <1> QED
    BY <1>8, <1>14 DEF Net!Bypass

\* To keep what does not touch b is the netlist's Detach.
LEMMA Detaches ==
  ASSUME NEW b \in Blocks, goal' = Without(goal, b), goal = Connections
  PROVE  goal' = goal \/ \E p \in OutPorts \cup InPorts : Net!Detach(Owner[p])
  <1>1. Without(goal, b) = goal \ Net!Touching(b)
    BY DEF Without, Net!Touching
  <1>2. CASE \E p \in OutPorts \cup InPorts : Owner[p] = b
    BY <1>1, <1>2 DEF Net!Detach
  <1>3. CASE \A p \in OutPorts \cup InPorts : Owner[p] # b
    BY <1>3 DEF Without, Connections
  <1> QED
    BY <1>2, <1>3

\* Transformer::trash and removeBlock are the netlist's Detach.
LEMMA TrashStep ==
  ASSUME Steady, NEW b \in Blocks, Trash(b) \/ RemoveBlock(b)
  PROVE  CallsLegal' /\ (goal' = goal \/ \E p \in OutPorts \cup InPorts : Net!Detach(Owner[p]))
  <1>1. CASE RemoveBlock(b)
    <2>1. Begin(<< >> \o <<Rem(b)>>, 0)
      BY <1>1 DEF RemoveBlock
    <2>2. CallsLegal' /\ goal = Connections /\ goal' = Without((goal \ {}) \cup {}, b)
      BY <2>1, EmptyLegal, Begins DEF Typed
    <2>3. (goal \ {}) \cup {} = goal
      OBVIOUS
    <2> QED
      BY <2>2, <2>3, Detaches
  <1>2. CASE Trash(b)
    <2> DEFINE In  == {c \in Connections : Owner[c[2]] = b}
               Out == {c \in Connections : Owner[c[1]] = b /\ Owner[c[2]] # b}
    <2>1. PICK ins \in Orders(In), outs \in Orders(Out) :
            Begin(DisAll(ins) \o DisAll(outs) \o <<Rem(b)>>, 0)
      BY <1>2 DEF Trash
    <2> DEFINE u == DisAll(ins)
               v == DisAll(outs)
    <2>2. /\ Legal(u) /\ Cuts(u) = In /\ Makes(u) = {}
          /\ Legal(v) /\ Cuts(v) = Out /\ Makes(v) = {}
      BY <2>1, DisAllLegal DEF Steady
    <2>3. In \cap Out = {}
      OBVIOUS
    <2> HIDE DEF u, v
    <2>4. Ports(u) \cap Ports(v) = {}
      BY <2>2 DEF Ports
    <2>5. Legal(u \o v) /\ Cuts(u \o v) = In \cup Out /\ Makes(u \o v) = {}
      <3>1. u \in Seq(WireCalls) /\ v \in Seq(WireCalls)
        BY <2>2 DEF Legal
      <3> QED
        BY <2>2, <2>4, <3>1, LegalConcat, ContentsConcat
    <2>6. Begin((u \o v) \o <<Rem(b)>>, 0)
      BY <2>1 DEF u, v
    <2>7. /\ CallsLegal' /\ goal = Connections
          /\ goal' = Without((goal \ (In \cup Out)) \cup {}, b)
      BY <2>5, <2>6, Begins DEF Typed
    <2>8. Without((goal \ (In \cup Out)) \cup {}, b) = Without(goal, b)
      BY <2>7 DEF Without
    <2> QED
      BY <2>7, <2>8, Detaches
  <1> QED
    BY <1>1, <1>2

-----------------------------------------------------------------------------
(* Steps                                                                   *)

\* The call at the head.
LEMMA HeadCall ==
  ASSUME CallsLegal, calls # << >>
  PROVE  \/ \E ws \in Seq(WireCalls) :
              /\ Legal(ws) /\ Typed(Makes(ws)) /\ ws # << >> /\ Head(calls) = Head(ws)
              /\ \/ calls = ws /\ Tail(calls) = Tail(ws)
                 \/ \E b \in Blocks : calls = Append(ws, Rem(b)) /\ Tail(calls) = Append(Tail(ws), Rem(b))
         \/ \E b \in Blocks : calls = Append(<< >>, Rem(b)) /\ Head(calls) = Rem(b) /\ Tail(calls) = << >>
  <1>1. PICK ws \in Seq(WireCalls) :
          /\ Legal(ws) /\ Typed(Makes(ws))
          /\ calls = ws \/ \E b \in Blocks : calls = Append(ws, Rem(b))
    BY DEF CallsLegal
  <1>2. CASE calls = ws
    BY <1>1, <1>2
  <1>3. ASSUME NEW b \in Blocks, calls = Append(ws, Rem(b))
        PROVE  /\ Head(calls) = IF ws = << >> THEN Rem(b) ELSE Head(ws)
               /\ Tail(calls) = IF ws = << >> THEN << >> ELSE Append(Tail(ws), Rem(b))
    BY <1>3, HeadTailAppend
  <1> QED
    BY <1>1, <1>2, <1>3

\* A wire call is made.
LEMMA CallStep ==
  ASSUME Steady, CallsLegal, calls # << >>, NEW o \in OutPorts, NEW i \in InPorts,
         \/ Head(calls) = Con(o, i) /\ connect(o, i)
         \/ Head(calls) = Dis(o, i) /\ disconnect(o, i),
         calls' = Tail(calls)
  PROVE  CallsLegal' /\ goal' = goal /\ (Head(calls) = Dis(o, i) => Exists(o, i))
  <1>1. PICK ws \in Seq(WireCalls) :
              /\ Legal(ws) /\ Typed(Makes(ws)) /\ ws # << >> /\ Head(calls) = Head(ws)
              /\ \/ calls = ws /\ Tail(calls) = Tail(ws)
                 \/ \E b \in Blocks : calls = Append(ws, Rem(b)) /\ Tail(calls) = Append(Tail(ws), Rem(b))
    BY HeadCall, CallsDiffer
  <1>2. ws # << >> => 1 \in DOMAIN ws /\ ws[1] = Head(ws)
    BY LenProperties, EmptySeq
  <1>3. Head(ws) = Dis(o, i) => Exists(o, i)
    BY <1>1, <1>2 DEF Legal
  <1>4. \/ /\ Head(ws) = Con(o, i) /\ Undriven(i)
           /\ sourceIdx' = [sourceIdx EXCEPT ![i] = o]
        \/ /\ Head(ws) = Dis(o, i) /\ Exists(o, i)
           /\ sourceIdx' = [sourceIdx EXCEPT ![i] = None]
    BY <1>1, <1>3 DEF connect, MayConnect, Undriven, disconnect
  <1>5. Legal(Tail(ws))' /\ Tail(ws) \in Seq(WireCalls)
    BY <1>1, <1>4, TailLegal, HeadTailProperties DEF Steady
  <1>6. CallsLegal'
    <2>1. Range(Tail(ws)) \subseteq Range(ws)
      <3>1. /\ Len(ws) \in Nat \ {0} /\ Len(Tail(ws)) = Len(ws) - 1
            /\ DOMAIN ws = 1..Len(ws) /\ DOMAIN Tail(ws) = 1..Len(Tail(ws))
            /\ \A n \in 1..Len(Tail(ws)) : n + 1 \in 1..Len(ws) /\ Tail(ws)[n] = ws[n + 1]
        BY <1>1, HeadTailProperties
      <3> QED
        BY <3>1 DEF Range
    <2>2. Makes(Tail(ws)) \subseteq Makes(ws)
      BY <2>1 DEF Makes
    <2>3. Typed(Makes(Tail(ws)))'
      BY <1>1, <2>2 DEF Typed, Makes
    <2> QED
      BY <1>1, <1>5, <2>3 DEF CallsLegal
  <1>7. (Connections' \ Cuts(Tail(ws))) \cup Makes(Tail(ws)) = (Connections \ Cuts(ws)) \cup Makes(ws)
    BY <1>1, <1>4, OutcomeKept DEF Steady
  <1>8. /\ Connections \in SUBSET (OutPorts \X InPorts)
        /\ Connections' \in SUBSET (OutPorts \X InPorts)
    BY DEF Connections
  <1>9. ASSUME calls = ws, Tail(calls) = Tail(ws)
        PROVE  goal' = goal
    <2>1. goal = (Connections \ Cuts(ws)) \cup Makes(ws)
      BY <1>8, <1>9, OutcomeOf DEF goal
    <2>2. goal' = (Connections' \ Cuts(Tail(ws))) \cup Makes(Tail(ws))
      BY <1>5, <1>8, <1>9, OutcomeOf DEF goal
    <2> QED
      BY <1>7, <2>1, <2>2
  <1>10. ASSUME NEW b \in Blocks, calls = Append(ws, Rem(b)), Tail(calls) = Append(Tail(ws), Rem(b))
         PROVE  goal' = goal
    <2>1. goal = Without((Connections \ Cuts(ws)) \cup Makes(ws), b)
      BY <1>8, <1>10, OutcomeOf DEF goal
    <2>2. goal' = Outcome(Connections', Append(Tail(ws), Rem(b)))
      BY <1>10 DEF goal
    <2>3. Outcome(Connections', Append(Tail(ws), Rem(b))) =
            Without((Connections' \ Cuts(Tail(ws))) \cup Makes(Tail(ws)), b)
      BY <1>5, <1>8, OutcomeOf
    <2> QED
      BY <1>7, <2>1, <2>2, <2>3
  <1>11. Head(calls) = Dis(o, i) => Exists(o, i)
    BY <1>1, <1>3
  <1> QED
    BY <1>1, <1>6, <1>9, <1>10, <1>11

\* removeBlock lists its calls.
LEMMA ListStep ==
  ASSUME Steady, CallsLegal, calls # << >>, NEW b \in Blocks,
         Head(calls) = Rem(b), RemoveBlockStep(b)
  PROVE  CallsLegal' /\ goal' = goal
  <1>1. calls = Append(<< >>, Rem(b)) /\ Tail(calls) = << >>
    <2>1. \A ws \in Seq(WireCalls) : ws # << >> => Head(ws) \in WireCalls
      BY HeadTailProperties
    <2>2. Rem(b) \notin WireCalls
      BY CallsDiffer DEF WireCalls, ConCalls, DisCalls
    <2> QED
      BY <2>1, <2>2, HeadCall, CallsDiffer
  <1> DEFINE Out == {c \in Connections : Owner[c[1]] = b}
             In  == {c \in Connections : Owner[c[2]] = b /\ Owner[c[1]] # b}
  <1>2. PICK outs \in Orders(Out), ins \in Orders(In) :
          calls' = DisAll(outs) \o DisAll(ins) \o Tail(calls)
    BY DEF RemoveBlockStep
  <1> DEFINE u == DisAll(outs)
             v == DisAll(ins)
  <1>3. /\ Legal(u) /\ Cuts(u) = Out /\ Makes(u) = {}
        /\ Legal(v) /\ Cuts(v) = In /\ Makes(v) = {}
    BY <1>2, DisAllLegal DEF Steady
  <1>4. In \cap Out = {}
    OBVIOUS
  <1>5. u \in Seq(WireCalls) /\ v \in Seq(WireCalls) /\ u \o v \in Seq(WireCalls)
    BY <1>3, ConcatProperties DEF Legal
  <1>6. calls' = u \o v
    <2>1. calls' = u \o v \o << >>
      BY <1>1, <1>2
    <2> HIDE DEF u, v
    <2>2. (u \o v) \o << >> = u \o v
      BY <1>5, ConcatEmptySeq
    <2> QED
      BY <2>1, <2>2
  <1> HIDE DEF u, v
  <1>7. \A c \in Connections : <<c[1], c[2]>> = c /\ c[1] \in OutPorts /\ c[2] \in InPorts /\ sourceIdx[c[2]] = c[1]
    BY DEF Connections, Exists
  <1>8. Ports(u) \cap Ports(v) = {}
    <2>1. ASSUME NEW i \in Ports(u), i \in Ports(v) PROVE FALSE
      <3>1. PICK o \in OutPorts : <<o, i>> \in Out
        BY <1>3 DEF Ports
      <3>2. PICK p \in OutPorts : <<p, i>> \in In
        BY <1>3, <2>1 DEF Ports
      <3>3. o = p
        BY <1>7, <3>1, <3>2
      <3> QED
        BY <1>4, <3>1, <3>2, <3>3
    <2> QED
      BY <2>1
  <1>9. Legal(u \o v) /\ Cuts(u \o v) = In \cup Out /\ Makes(u \o v) = {}
    BY <1>3, <1>5, <1>8, LegalConcat, ContentsConcat
  <1>10. UNCHANGED sourceIdx /\ Connections' = Connections
    BY DEF RemoveBlockStep, indexVars, Connections, Exists
  <1>11. CallsLegal'
    <2>1. Legal(u \o v)'
      BY <1>9, <1>10, StillLegal
    <2>2. Typed(Makes(u \o v))'
      BY <1>9 DEF Typed, Makes
    <2> QED
      BY <1>5, <1>6, <2>1, <2>2 DEF CallsLegal
  <1>12. Connections \in SUBSET (OutPorts \X InPorts) /\ << >> \in Seq(WireCalls)
    BY DEF Connections
  <1>13. goal' = (Connections \ (In \cup Out)) \cup {}
    <2>1. goal' = Outcome(Connections, u \o v)
      BY <1>6, <1>10 DEF goal
    <2>2. Outcome(Connections, u \o v) = (Connections \ Cuts(u \o v)) \cup Makes(u \o v)
      BY <1>5, <1>12, OutcomeOf
    <2> QED
      BY <1>9, <2>1, <2>2
  <1>14. goal = Without((Connections \ {}) \cup {}, b)
    <2>1. goal = Outcome(Connections, Append(<< >>, Rem(b)))
      BY <1>1 DEF goal
    <2>2. Outcome(Connections, Append(<< >>, Rem(b)))
            = Without((Connections \ Cuts(<< >>)) \cup Makes(<< >>), b)
      BY <1>12, OutcomeOf
    <2> QED
      BY <2>1, <2>2, EmptyLegal
  <1>15. Without((Connections \ {}) \cup {}, b) = (Connections \ (In \cup Out)) \cup {}
    BY DEF Without
  <1> QED
    BY <1>11, <1>13, <1>14, <1>15

-----------------------------------------------------------------------------
(* Use counts                                                              *)

\* Both ends of a block are finite sets.
LEMMA EndsFinite ==
  ASSUME NEW b \in Blocks
  PROVE  /\ IsFiniteSet(Drives(b)) /\ IsFiniteSet(Fed(b))
         /\ Cardinality(Drives(b)) \in Nat /\ Cardinality(Fed(b)) \in Nat
  <1>1. IsFiniteSet(Drives(b)) /\ IsFiniteSet(Fed(b))
    BY PortsFinite, FS_Subset DEF Drives, Fed
  <1> QED
    BY <1>1, FS_CardinalityType

\* connect counts the ends it adds.
LEMMA ConnectCounts ==
  ASSUME TypeOK, UsesCounted, NEW o \in OutPorts, NEW i \in InPorts, connect(o, i)
  PROVE  UsesCounted'
  <1> SUFFICES ASSUME NEW b \in Blocks PROVE useCount'[b] = Ends(b)'
    BY DEF UsesCounted
  <1>1. sourceIdx[i] = None /\ sourceIdx' = [sourceIdx EXCEPT ![i] = o] /\ o # None
    BY NoneIsNot DEF connect, MayConnect
  <1>2. Drives(b)' = IF Owner[o] = b THEN Drives(b) \cup {i} ELSE Drives(b)
    BY <1>1 DEF Drives, TypeOK
  <1>3. Fed(b)' = IF Owner[i] = b THEN Fed(b) \cup {i} ELSE Fed(b)
    BY <1>1 DEF Fed, TypeOK
  <1>4. i \notin Drives(b) /\ i \notin Fed(b)
    BY <1>1 DEF Drives, Fed
  <1>5. /\ Cardinality(Drives(b) \cup {i}) = Cardinality(Drives(b)) + 1
        /\ Cardinality(Fed(b) \cup {i}) = Cardinality(Fed(b)) + 1
    BY <1>4, EndsFinite, FS_AddElement
  <1>6. useCount'[b] = useCount[b] + EndsAt(b, o, i) /\ useCount[b] = Ends(b)
    BY DEF connect, Register, UsesCounted
  <1>7. Ends(b)' = Cardinality(Drives(b)') + Cardinality(Fed(b)')
    BY DEF Ends
  <1> QED
    BY <1>2, <1>3, <1>5, <1>6, <1>7, EndsFinite DEF Ends, EndsAt

\* disconnect counts the ends it takes away, of a connection that exists.
LEMMA DisconnectCounts ==
  ASSUME TypeOK, UsesCounted, NEW o \in OutPorts, NEW i \in InPorts, disconnect(o, i), Exists(o, i)
  PROVE  UsesCounted'
  <1> SUFFICES ASSUME NEW b \in Blocks PROVE useCount'[b] = Ends(b)'
    BY DEF UsesCounted
  <1>1. sourceIdx[i] = o /\ sourceIdx' = [sourceIdx EXCEPT ![i] = None] /\ o # None
    BY NoneIsNot DEF disconnect, Exists
  <1>2. Drives(b)' = IF Owner[o] = b THEN Drives(b) \ {i} ELSE Drives(b)
    BY <1>1 DEF Drives, TypeOK
  <1>3. Fed(b)' = IF Owner[i] = b THEN Fed(b) \ {i} ELSE Fed(b)
    BY <1>1 DEF Fed, TypeOK
  <1>4. (i \in Drives(b) <=> Owner[o] = b) /\ (i \in Fed(b) <=> Owner[i] = b)
    BY <1>1 DEF Drives, Fed
  <1>5. /\ Owner[o] = b => Cardinality(Drives(b) \ {i}) = Cardinality(Drives(b)) - 1
        /\ Owner[i] = b => Cardinality(Fed(b) \ {i}) = Cardinality(Fed(b)) - 1
    BY <1>4, EndsFinite, FS_RemoveElement
  <1>6. useCount'[b] = useCount[b] - EndsAt(b, o, i) /\ useCount[b] = Ends(b)
    BY DEF disconnect, Deregister, UsesCounted
  <1>7. Ends(b)' = Cardinality(Drives(b)') + Cardinality(Fed(b)')
    BY DEF Ends
  <1> QED
    BY <1>2, <1>3, <1>5, <1>6, <1>7, EndsFinite DEF Ends, EndsAt

\* Counts and ends change together or not at all.
LEMMA SameCounts ==
  ASSUME UsesCounted, UNCHANGED <<sourceIdx, useCount>>
  PROVE  UsesCounted'
  BY DEF UsesCounted, Ends, Drives, Fed

\* A connection that is there is counted at both its ends.
LEMMA EndsCounted ==
  ASSUME UsesCounted, NEW o \in OutPorts, NEW i \in InPorts, Exists(o, i), NEW b \in Blocks
  PROVE  useCount[b] >= EndsAt(b, o, i)
  <1>1. /\ Owner[o] = b => i \in Drives(b)
        /\ Owner[i] = b => i \in Fed(b)
    BY NoneIsNot DEF Drives, Fed, Exists
  <1>2. \A S : IsFiniteSet(S) /\ i \in S => Cardinality(S) # 0
    BY FS_EmptySet
  <1>3. /\ Owner[o] = b => Cardinality(Drives(b)) # 0
        /\ Owner[i] = b => Cardinality(Fed(b)) # 0
    BY <1>1, <1>2, EndsFinite
  <1>4. useCount[b] = Cardinality(Drives(b)) + Cardinality(Fed(b))
    BY DEF UsesCounted, Ends
  <1> QED
    BY <1>3, <1>4, EndsFinite DEF EndsAt

-----------------------------------------------------------------------------
(* The invariant and the refinement                                        *)

\* IInv alone does not say that a call is made on a connection that exists: it
\* takes what the running operation has still to do.
FullInv == IInv /\ UsesCounted /\ CallsLegal

\* A call of a running operation leaves the goal alone.
LEMMA StepKeeps ==
  ASSUME FullInv, Step
  PROVE  UsesCounted' /\ CallsLegal' /\ goal' = goal
  <1>1. Steady /\ TypeOK /\ UsesCounted /\ CallsLegal /\ calls # << >>
    BY DEF FullInv, IInv, Steady, Step
  <1>2. ASSUME NEW o \in OutPorts, NEW i \in InPorts,
               Head(calls) = Con(o, i), connect(o, i), calls' = Tail(calls)
        PROVE  UsesCounted' /\ CallsLegal' /\ goal' = goal
    BY <1>1, <1>2, CallStep, ConnectCounts
  <1>3. ASSUME NEW o \in OutPorts, NEW i \in InPorts,
               Head(calls) = Dis(o, i), disconnect(o, i), calls' = Tail(calls)
        PROVE  UsesCounted' /\ CallsLegal' /\ goal' = goal
    BY <1>1, <1>3, CallStep, DisconnectCounts
  <1>4. ASSUME NEW b \in Blocks, Head(calls) = Rem(b), RemoveBlockStep(b)
        PROVE  UsesCounted' /\ CallsLegal' /\ goal' = goal
    <2>1. UsesCounted'
      BY <1>1, <1>4, SameCounts DEF RemoveBlockStep, indexVars, blockVars
    <2> QED
      BY <1>1, <1>4, <2>1, ListStep
  <1> QED
    BY <1>2, <1>3, <1>4 DEF Step

\* An operation that begins is a step of the netlist, or none.
LEMMA OperationKeeps ==
  ASSUME FullInv, Operation
  PROVE  UsesCounted' /\ CallsLegal' /\ [Net!Next]_goal
  <1>1. Steady /\ UsesCounted /\ CallsLegal
    BY DEF FullInv, IInv, Steady
  <1>2. UNCHANGED <<sourceIdx, useCount>>
    BY OtherOperations DEF indexVars
  <1>3. UsesCounted'
    BY <1>1, <1>2, SameCounts
  <1>4. ASSUME NEW o \in OutPorts, NEW i \in InPorts, Connect(o, i) \/ Disconnect(o, i)
        PROVE  CallsLegal' /\ [Net!Next]_goal
    BY <1>1, <1>4, ConnectStep, DisconnectStep DEF Net!Next
  <1>5. ASSUME NEW i \in InPorts, NEW S \in SUBSET InPorts, RemapIn(i, S)
        PROVE  CallsLegal' /\ [Net!Next]_goal
    BY <1>1, <1>5, RemapInStep DEF Net!Next
  <1>6. ASSUME NEW o \in OutPorts, NEW n \in OutPorts \cup {None}, RemapOut(o, n)
        PROVE  CallsLegal' /\ [Net!Next]_goal
    BY <1>1, <1>6, RemapOutStep DEF Net!Next
  <1>7. ASSUME NEW b \in Blocks, NEW ip \in InPorts, NEW op \in OutPorts,
               TransformerRemove(b, ip, op)
        PROVE  CallsLegal' /\ [Net!Next]_goal
    BY <1>1, <1>7, TransformerRemoveStep DEF Net!Next
  <1>8. ASSUME NEW i \in InPorts, NEW o \in OutPorts, NEW b \in Blocks,
               NEW nip \in Inputs(b), NEW nop \in Outputs(b),
               InsertBetween(o, i, nip, nop) \/ InsertAfter(o, nip, nop)
        PROVE  CallsLegal' /\ [Net!Next]_goal
    <2>1. nip \in InPorts /\ nop \in OutPorts
      BY DEF Inputs, Outputs
    <2> QED
      BY <1>1, <1>8, <2>1, InsertBetweenStep, InsertAfterStep DEF Net!Next
  <1>9. ASSUME NEW b \in Blocks, Trash(b) \/ RemoveBlock(b)
        PROVE  CallsLegal' /\ [Net!Next]_goal
    BY <1>1, <1>9, TrashStep DEF Net!Next
  <1>10. ASSUME ClearNewBlocks PROVE CallsLegal' /\ [Net!Next]_goal
    <2>1. UNCHANGED <<sourceIdx, calls>>
      BY <1>10 DEF ClearNewBlocks, indexVars
    <2>2. CallsLegal'
      BY <1>1, <2>1, StillLegal DEF CallsLegal, Typed, Makes
    <2>3. goal' = goal
      BY <2>1 DEF goal, Connections, Exists
    <2> QED
      BY <2>2, <2>3
  <1> QED
    BY <1>3, <1>4, <1>5, <1>6, <1>7, <1>8, <1>9, <1>10 DEF Operation

\* The two together.
LEMMA FullInvStep ==
  ASSUME FullInv, [Next]_vars
  PROVE  UsesCounted' /\ CallsLegal' /\ [Net!Next]_goal
  <1>1. CASE Step
    BY <1>1, StepKeeps
  <1>2. CASE Operation
    BY <1>2, OperationKeeps
  <1>3. CASE UNCHANGED vars
    <2>1. UNCHANGED <<sourceIdx, useCount, calls>>
      BY <1>3 DEF vars, indexVars, blockVars
    <2>2. UsesCounted'
      BY <2>1, SameCounts DEF FullInv
    <2>3. CallsLegal'
      BY <2>1, StillLegal DEF CallsLegal, Typed, Makes, FullInv
    <2>4. goal' = goal
      BY <2>1 DEF goal, Connections, Exists
    <2> QED
      BY <2>2, <2>3, <2>4
  <1> QED
    BY <1>1, <1>2, <1>3 DEF Next

\* The empty database.
LEMMA InitFull ==
  ASSUME Init
  PROVE  UsesCounted /\ CallsLegal /\ goal = {}
  <1>1. UsesCounted
    <2> SUFFICES ASSUME NEW b \in Blocks PROVE useCount[b] = Ends(b)
      BY DEF UsesCounted
    <2>1. Drives(b) = {} /\ Fed(b) = {}
      BY DEF Init, Drives, Fed
    <2> QED
      BY <2>1, FS_EmptySet DEF Init, Ends
  <1>2. CallsLegal
    <2>1. << >> \in Seq(WireCalls) /\ calls = << >>
      BY DEF Init
    <2> QED
      BY <2>1, EmptyLegal DEF CallsLegal, Typed
  <1>3. Connections = {}
    BY NoneIsNot DEF Init, Connections, Exists
  <1> QED
    BY <1>1, <1>2, <1>3, AtRest DEF Init

-----------------------------------------------------------------------------

\* What the theorems below share: the strengthening is an invariant.
THEOREM Consistency == Spec => []IInv
  <1>1. Init => IInv
    BY WrapWide, NoneIsNot
      DEF Init, IInv, TypeOK, IndexesAgree, Exists, OwnedWhileUsed, TypesAgree
  <1>2. IInv /\ [Next]_vars => IInv'
    <2> SUFFICES ASSUME IInv, [Next]_vars PROVE IInv'
      OBVIOUS
    <2>1. CASE Next
      <3>1. CASE \E o \in OutPorts, i \in InPorts : connect(o, i) \/ disconnect(o, i)
        BY <3>1, ConnectKeeps, DisconnectKeeps
      <3>2. CASE /\ UNCHANGED <<indexVars, useCount, module, known>>
                 /\ newBlocks' \in {newBlocks, {}}
                 /\ \/ UNCHANGED changeCounter
                    \/ \E n \in {0, 1} : bump(n)
        <4>1. changeCounter' \in 0..Wrap - 1
          BY <3>2, BumpType DEF IInv, TypeOK
        <4> QED
          BY <3>2, <4>1
            DEF IInv, TypeOK, IndexesAgree, Exists, OwnedWhileUsed, TypesAgree, indexVars
      <3> QED
        BY <2>1, <3>1, <3>2, OtherSteps DEF IInv
    <2>2. CASE UNCHANGED vars
      BY <2>2 DEF IInv, TypeOK, IndexesAgree, Exists, OwnedWhileUsed, TypesAgree, vars,
        indexVars, blockVars
    <2> QED
      BY <2>1, <2>2
  <1> QED
    BY <1>1, <1>2, PTL DEF Spec

\* Every variable keeps its type: no use count goes below zero.
THEOREM TypeCorrect == Spec => []TypeOK
  <1>1. IInv => TypeOK
    BY DEF IInv
  <1> QED
    BY <1>1, Consistency, PTL

\* _sinkIdx and _sourceIdx are each other's inverse in every state.
THEOREM IndexesConsistent == Spec => []IndexesAgree
  <1>1. IInv => IndexesAgree
    BY DEF IInv
  <1> QED
    BY <1>1, Consistency, PTL

\* registerBlock and deregisterBlock together give a block its module exactly
\* while its use count is positive.
THEOREM Ownership == Spec => []OwnedWhileUsed
  <1>1. IInv => OwnedWhileUsed
    BY DEF IInv
  <1> QED
    BY <1>1, Consistency, PTL

\* A change of the indexes or of a use count changes the change counter.
THEOREM Versioned == Spec => ChangesSeen
  <1>1. ASSUME NEW n \in {1, 3}, TypeOK, bump(n)
        PROVE  changeCounter' # changeCounter
    BY <1>1, WrapWide DEF bump, TypeOK
  <1>2. TypeOK /\ [Next]_vars =>
          [(indexVars' # indexVars \/ useCount' # useCount)
             => changeCounter' # changeCounter]_vars
    <2> SUFFICES ASSUME TypeOK, Next,
                        indexVars' # indexVars \/ useCount' # useCount
                 PROVE  changeCounter' # changeCounter
      OBVIOUS
    <2>1. \E o \in OutPorts, i \in InPorts : connect(o, i) \/ disconnect(o, i)
      BY OtherSteps
    <2> QED
      BY <1>1, <2>1 DEF connect, disconnect
  <1> QED
    BY <1>2, TypeCorrect, PTL DEF Spec, ChangesSeen

\* The counts are right and the calls still to be made are legal, in every state.
THEOREM Full == Spec => []FullInv
  <1>1. Init /\ IInv => FullInv
    BY InitFull DEF FullInv
  <1>2. FullInv /\ IInv' /\ [Next]_vars => FullInv'
    BY FullInvStep DEF FullInv
  <1> QED
    BY <1>1, <1>2, Consistency, PTL DEF Spec

\* A block's use count is the number of connection ends at its ports, also
\* between the calls of an operation: registerBlock and deregisterBlock balance.
THEOREM Counted == Spec => []UsesCounted
  <1>1. FullInv => UsesCounted
    BY DEF FullInv
  <1> QED
    BY <1>1, Full, PTL

\* No call of an operation meets a failing assertion or an exception of connect
\* and disconnect, whatever the order of its passes over sets of ports.
THEOREM NoAbort == Spec => []NeverAborts
  <1>1. FullInv => NeverAborts
    <2> SUFFICES ASSUME FullInv, NEW o \in OutPorts, NEW i \in InPorts, calls # << >>
                 PROVE  /\ Head(calls) = Con(o, i) => MayConnect(o, i)
                        /\ Head(calls) = Dis(o, i) => MayDisconnect(o, i) /\ Exists(o, i)
      BY DEF NeverAborts
    <2>0. TypeOK /\ UsesCounted /\ CallsLegal
      BY DEF FullInv, IInv
    <2>1. ASSUME Head(calls) \in {Con(o, i), Dis(o, i)}
          PROVE  \E ws \in Seq(WireCalls) :
                   Legal(ws) /\ Typed(Makes(ws)) /\ 1 \in DOMAIN ws /\ ws[1] = Head(calls)
      <3>1. PICK ws \in Seq(WireCalls) :
              Legal(ws) /\ Typed(Makes(ws)) /\ ws # << >> /\ Head(calls) = Head(ws)
        BY <2>0, <2>1, HeadCall, CallsDiffer
      <3> QED
        BY <3>1, LenProperties, EmptySeq
    <2>2. ASSUME Head(calls) = Con(o, i) PROVE MayConnect(o, i)
      <3>1. PICK ws \in Seq(WireCalls) :
              Legal(ws) /\ Typed(Makes(ws)) /\ 1 \in DOMAIN ws /\ ws[1] = Con(o, i)
        BY <2>1, <2>2
      <3>4. Type[o] = Type[i]
        <4>1. <<o, i>> \in Makes(ws)
          BY <3>1 DEF Makes, Range
        <4> QED
          BY <3>1, <4>1 DEF Typed
      <3>2. Undriven(i) \/ \E p \in OutPorts, m \in 1..1 - 1 : ws[m] = Dis(p, i)
        BY <3>1 DEF Legal
      <3>3. Owner[o] \in Blocks /\ Owner[i] \in Blocks
        BY PortsOwned
      <3> QED
        BY <2>0, <3>2, <3>3, <3>4 DEF MayConnect, Undriven, TypeOK
    <2>3. ASSUME Head(calls) = Dis(o, i) PROVE MayDisconnect(o, i) /\ Exists(o, i)
      <3>1. PICK ws \in Seq(WireCalls) : Legal(ws) /\ 1 \in DOMAIN ws /\ ws[1] = Dis(o, i)
        BY <2>1, <2>3
      <3>2. Exists(o, i)
        BY <3>1 DEF Legal
      <3> QED
        BY <2>0, <3>2, EndsCounted DEF MayDisconnect, Exists
    <2> QED
      BY <2>2, <2>3
  <1> QED
    BY <1>1, Full, PTL

\* Every operation, of any length, implements one step of the netlist.
THEOREM Refines == Spec => NetlistSpec
  <1>1. Init => Net!Init
    BY InitFull DEF Net!Init
  <1>2. FullInv /\ [Next]_vars => [Net!Next]_goal
    BY FullInvStep
  <1> QED
    BY <1>1, <1>2, Full, PTL DEF Spec, NetlistSpec, Net!Spec
=============================================================================
