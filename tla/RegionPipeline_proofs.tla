------------------------ MODULE RegionPipeline_proofs ------------------------
(***************************************************************************)
(* For every region, whichever of its outputs are late and in whichever      *)
(* order its blocks are balanced:                                           *)
(*                                                                         *)
(*   - ScheduleIsSound: the compiler meets its assertions.  The invariant    *)
(*     says of each phase what the netlist is, what the search has still to  *)
(*     visit, and that a depth is the number of registers before a block.    *)
(*   - ImplementsChannel: the circuit is a latency-insensitive channel.  The *)
(*     netlist is computed from the same inputs after each pass (Feeds), and *)
(*     a full stage holds the tokens of the last firing that went into it,   *)
(*     and those only (Passing), because all paths to a block of a stage     *)
(*     cross the same registers.                                           *)
(***************************************************************************)
EXTENDS Integers, RegionPipeline, TLAPS, FiniteSetTheorems, SequenceTheorems, WellFoundedInduction

-----------------------------------------------------------------------------
(* Numbers and sets                                                        *)

\* Induction up to a bound.
LEMMA Induction ==
  ASSUME NEW L \in Nat, NEW T, 0 \in T, \A n \in 1..L : n - 1 \in T => n \in T
  PROVE  0..L \subseteq T
  <1> DEFINE Below(n) == {k \in 0..L : k < n}
             R == StrictSubsetOrdering(0..L)
             U == {Below(n) : n \in (0..L) \ T}
  <1> SUFFICES ASSUME NEW z \in (0..L) \ T
               PROVE  FALSE
    OBVIOUS
  <1>1. IsFiniteSet(0..L)
    BY FS_Interval
  <1>2. FiniteSubsetsOf(0..L) = SUBSET (0..L)
    BY <1>1, FS_FiniteSubsetsOfFinite
  <1>3. IsWellFoundedOn(R, SUBSET (0..L))
    BY <1>2, FS_StrictSubsetOrderingWellFounded
  <1>4. U # {} /\ U \subseteq SUBSET (0..L)
    OBVIOUS
  <1>5. \E S \in U : \A V \in U : <<V, S>> \notin R
    <2> HIDE DEF R, U
    <2> QED BY <1>3, <1>4, WFMin
  <1>6. PICK n \in (0..L) \ T : \A m \in (0..L) \ T : <<Below(m), Below(n)>> \notin R
    BY <1>5
  <1>7. n \in 1..L /\ n - 1 \in (0..L) \ T
    BY <1>6
  <1>8. <<Below(n - 1), Below(n)>> \in R
    <2>1. n - 1 \in Below(n) /\ n - 1 \notin Below(n - 1)
      BY <1>7
    <2>2. Below(n - 1) \subseteq Below(n)
      BY <1>7
    <2> HIDE DEF Below
    <2>3. Below(n - 1) # Below(n)
      BY <2>1
    <2>4. Below(n - 1) \in SUBSET (0..L) /\ Below(n) \in SUBSET (0..L)
      BY DEF Below
    <2> QED
      BY <2>2, <2>3, <2>4 DEF StrictSubsetOrdering
  <1> QED
    BY <1>6, <1>7, <1>8

\* A function has finitely many values on a finite set.
LEMMA FiniteImage ==
  ASSUME NEW S, IsFiniteSet(S), NEW f
  PROVE  IsFiniteSet({f[x] : x \in S})
  <1> DEFINE T == {f[x] : x \in S}
             g == [x \in S |-> f[x]]
  <1>1. g \in Surjection(S, T)
    BY DEF Surjection
  <1> HIDE DEF g
  <1> QED
    BY <1>1, FS_Surjection

\* A set of ranked things has a lowest.
LEMMA Lowest ==
  ASSUME NEW D, NEW height \in Nat, NEW rank \in [D -> 1..height], NEW C \in SUBSET D, C # {}
  PROVE  \E b \in C : \A c \in C : rank[b] <= rank[c]
  <1> SUFFICES ASSUME \A b \in C : \E c \in C : rank[c] < rank[b]
               PROVE  FALSE
    OBVIOUS
  <1> DEFINE T == {n \in 0..height : \A c \in C : rank[c] > n}
  <1>1. 0 \in T
    OBVIOUS
  <1>2. ASSUME NEW n \in 1..height, n - 1 \in T
        PROVE  n \in T
    BY <1>2
  <1> HIDE DEF T
  <1>3. height \in T
    <2>1. \A n \in 1..height : n - 1 \in T => n \in T
      BY <1>2
    <2>2. 0..height \subseteq T
      BY <1>1, <2>1, Induction
    <2> QED
      BY <2>2
  <1> QED
    BY <1>3 DEF T

\* And a highest.
LEMMA Highest ==
  ASSUME NEW D, NEW height \in Nat, NEW rank \in [D -> 1..height], NEW C \in SUBSET D, C # {}
  PROVE  \E b \in C : \A c \in C : rank[c] <= rank[b]
  <1> DEFINE from == [b \in D |-> height + 1 - rank[b]]
  <1>1. from \in [D -> 1..height]
    OBVIOUS
  <1>2. \E b \in C : \A c \in C : from[b] <= from[c]
    <2> HIDE DEF from
    <2> QED
      BY <1>1, Lowest
  <1>3. PICK b \in C : \A c \in C : from[b] <= from[c]
    BY <1>2
  <1>4. \A c \in C : rank[c] \in Nat /\ rank[b] \in Nat /\ from[c] = height + 1 - rank[c] /\ from[b] = height + 1 - rank[b]
    OBVIOUS
  <1> HIDE DEF from
  <1>5. \A c \in C : rank[c] <= rank[b]
    BY <1>3, <1>4
  <1> QED
    BY <1>5

\* A finite set of numbers has a largest.
LEMMA LargestIs ==
  ASSUME NEW S \in SUBSET Nat, IsFiniteSet(S), S # {}
  PROVE  Largest(S) \in S /\ \A m \in S : m <= Largest(S)
  <1> DEFINE Above(n) == {m \in S : m > n}
             rank == [n \in S |-> Cardinality(Above(n)) + 1]
             height == Cardinality(S) + 1
  <1>1. height \in Nat
    BY FS_CardinalityType
  <1>2. ASSUME NEW n \in S
        PROVE  /\ IsFiniteSet(Above(n)) /\ Cardinality(Above(n)) \in Nat
               /\ Cardinality(Above(n)) <= Cardinality(S)
    <2>1. IsFiniteSet(Above(n)) /\ Cardinality(Above(n)) <= Cardinality(S)
      BY FS_Subset
    <2> HIDE DEF Above
    <2> QED
      BY <2>1, FS_CardinalityType
  <1>3. rank \in [S -> 1..height]
    <2>1. Cardinality(S) \in Nat
      BY FS_CardinalityType
    <2>2. ASSUME NEW n \in S
          PROVE  Cardinality(Above(n)) + 1 \in 1..height
      <3> HIDE DEF Above
      <3> QED
        BY <1>2, <2>1
    <2> HIDE DEF Above, height
    <2> QED
      BY <2>2
  <1>4. \E n \in S : \A m \in S : m <= n
    <2>1. PICK n \in S : \A m \in S : rank[n] <= rank[m]
      <3> HIDE DEF rank, height
      <3> QED
        BY <1>1, <1>3, Lowest
    <2>2. ASSUME NEW m \in S, ~(m <= n)
          PROVE  FALSE
      <3>1. Above(m) \in SUBSET Above(n) /\ m \in Above(n) /\ m \notin Above(m)
        <4>1. n \in Nat /\ m \in Nat /\ m > n /\ \A k \in S : k \in Nat
          BY <2>2
        <4>2. \A k \in S : k > m => k > n
          BY <4>1
        <4>3. ~(m > m)
          BY <4>1
        <4> QED
          BY <4>1, <4>2, <4>3
      <3>2. rank[n] = Cardinality(Above(n)) + 1 /\ rank[m] = Cardinality(Above(m)) + 1
        OBVIOUS
      <3> HIDE DEF Above, rank
      <3>3. Cardinality(Above(m)) <= Cardinality(Above(n)) /\ Cardinality(Above(n)) # Cardinality(Above(m))
        BY <1>2, <3>1, FS_Subset
      <3> QED
        BY <1>2, <2>1, <3>2, <3>3
    <2> QED
      BY <2>2
  <1>5. PICK k \in S : k = Largest(S) /\ \A m \in S : m <= k
    <2>1. \E n : n \in S /\ \A m \in S : m <= n
      BY <1>4
    <2>2. Largest(S) \in S /\ \A m \in S : m <= Largest(S)
      BY <2>1, Zenon DEF Largest
    <2> QED
      BY <2>2
  <1> QED
    BY <1>5

\* The larger of two numbers.
LEMMA LargerIs ==
  ASSUME NEW m \in Nat, NEW n \in Nat
  PROVE  Largest({m, n}) = IF m <= n THEN n ELSE m
  <1> DEFINE k == IF m <= n THEN n ELSE m
  <1>1. k \in {m, n} /\ \A j \in {m, n} : j <= k
    OBVIOUS
  <1>2. \A i \in {m, n} : (\A j \in {m, n} : j <= i) => i = k
    OBVIOUS
  <1> HIDE DEF k
  <1>3. Largest({m, n}) = k
    BY <1>1, <1>2 DEF Largest
  <1> QED
    BY <1>3 DEF k

-----------------------------------------------------------------------------
(* Netlists                                                                *)

\* A sink is deeper than its driver in some numbering of the blocks.
Acyclic(bs, ws) == \E height \in Nat : IsRanked(bs, ws, height)

\* What the ports of each class are.
HasRoles(bs, ws) ==
  /\ \A b \in DOMAIN bs : /\ bs[b].class \in {"Input", "Constant"} => bs[b].ins = {}
                          /\ bs[b].class \in {"Output", "Fork", "PipelineRegister"} => bs[b].ins = {1}
                          /\ bs[b].class = "Wait" => 1 \in bs[b].ins
  /\ \A w \in ws : bs[w[1][1]].class # "Output"
  /\ \E b \in DOMAIN bs : bs[b].class = "Output"

NetOK(bs, ws) == IsNetlist(bs, ws) /\ Acyclic(bs, ws) /\ HasRoles(bs, ws)

\* One wire: from an output to an input.
IsWire(w) == w = <<<<w[1][1], w[1][2]>>, <<w[2][1], w[2][2]>>>>

\* The ends of wires.
LEMMA WireEnds ==
  ASSUME NEW a, NEW m, NEW b, NEW n, NEW w, w = <<<<a, m>>, <<b, n>>>>
  PROVE  /\ IsWire(w) /\ w[1] = <<a, m>> /\ w[2] = <<b, n>>
         /\ w[1][1] = a /\ w[1][2] = m /\ w[2][1] = b /\ w[2][2] = n
  BY DEF IsWire

\* The new netlist when blocks are inserted behind the taken wires.
Inserts(bs, ws, bs2, ws2, tag, class, taken, leg) ==
  LET new == {Place(tag, w[1]) : w \in taken}
  IN  /\ ws2 = (ws \ taken) \cup {<<w[1], <<Place(tag, w[1]), 1>>>> : w \in taken}
                 \cup {<<<<Place(tag, w[1]), leg[w]>>, w[2]>> : w \in taken}
      /\ bs2 = [b \in DOMAIN bs \cup new |-> IF b \in new THEN Block(class, {1}) ELSE bs[b]]

\* The blocks are inserted under names of their own.
CanInsert(bs, ws, tag, class, taken) ==
  /\ taken \subseteq ws
  /\ class \in {"VirtualFork", "PipelineRegister"}
  /\ \A w \in taken : Place(tag, w[1]) \notin DOMAIN bs

\* The wires before and behind an inserted block.
ToNew(tag, w) == <<w[1], <<Place(tag, w[1]), 1>>>>
FromNew(tag, leg, w) == <<<<Place(tag, w[1]), leg[w]>>, w[2]>>

\* What an insertion leaves, adds and takes.
Insertion(bs, ws, bs2, ws2, tag, class, taken, leg) ==
  /\ \A w \in ws2 : \/ w \in ws \ taken
                    \/ \E v \in taken : w = ToNew(tag, v) \/ w = FromNew(tag, leg, v)
  /\ \A w \in ws \ taken : w \in ws2
  /\ \A w \in taken : ToNew(tag, w) \in ws2 /\ FromNew(tag, leg, w) \in ws2
  /\ \A w \in ws : /\ IsWire(w) /\ w[1] = <<w[1][1], w[1][2]>> /\ w[2] = <<w[2][1], w[2][2]>>
                   /\ w[1][1] \in DOMAIN bs /\ w[2][1] \in DOMAIN bs
  /\ \A w \in taken :
       /\ IsWire(ToNew(tag, w)) /\ IsWire(FromNew(tag, leg, w))
       /\ ToNew(tag, w)[1] = w[1] /\ ToNew(tag, w)[2] = <<Place(tag, w[1]), 1>>
       /\ ToNew(tag, w)[2][1] = Place(tag, w[1]) /\ ToNew(tag, w)[2][2] = 1
       /\ FromNew(tag, leg, w)[1][1] = Place(tag, w[1]) /\ FromNew(tag, leg, w)[2] = w[2]
       /\ w \in ws
  /\ DOMAIN bs2 = DOMAIN bs \cup {Place(tag, w[1]) : w \in taken}
  /\ \A b \in DOMAIN bs : bs2[b] = bs[b]
  /\ \A w \in taken : bs2[Place(tag, w[1])] = Block(class, {1}) /\ Place(tag, w[1]) \notin DOMAIN bs

\* An insertion is that.
LEMMA InsertedWires ==
  ASSUME NEW bs, NEW ws, NEW bs2, NEW ws2, NEW tag, NEW class, NEW taken, NEW leg,
         IsNetlist(bs, ws), CanInsert(bs, ws, tag, class, taken),
         Inserts(bs, ws, bs2, ws2, tag, class, taken, leg)
  PROVE  Insertion(bs, ws, bs2, ws2, tag, class, taken, leg)
  <1>1. \A w \in ws2 : \/ w \in ws \ taken
                       \/ \E v \in taken : w = ToNew(tag, v) \/ w = FromNew(tag, leg, v)
    BY DEF Inserts, ToNew, FromNew
  <1>2. /\ \A w \in ws \ taken : w \in ws2
        /\ \A w \in taken : ToNew(tag, w) \in ws2 /\ FromNew(tag, leg, w) \in ws2
    BY DEF Inserts, ToNew, FromNew
  <1>3. \A w \in ws : /\ IsWire(w) /\ w[1] = <<w[1][1], w[1][2]>> /\ w[2] = <<w[2][1], w[2][2]>>
                      /\ w[1][1] \in DOMAIN bs /\ w[2][1] \in DOMAIN bs
    <2> TAKE w \in ws
    <2>1. IsWire(w) /\ w[1][1] \in DOMAIN bs /\ w[2][1] \in DOMAIN bs
      BY DEF IsNetlist, IsWire
    <2>2. w = <<<<w[1][1], w[1][2]>>, <<w[2][1], w[2][2]>>>>
      BY <2>1 DEF IsWire
    <2> QED
      BY <2>1, <2>2, WireEnds
  <1>4. ASSUME NEW w \in taken
        PROVE  /\ IsWire(ToNew(tag, w)) /\ IsWire(FromNew(tag, leg, w))
               /\ ToNew(tag, w)[1] = w[1] /\ ToNew(tag, w)[2] = <<Place(tag, w[1]), 1>>
               /\ ToNew(tag, w)[2][1] = Place(tag, w[1]) /\ ToNew(tag, w)[2][2] = 1
               /\ FromNew(tag, leg, w)[1][1] = Place(tag, w[1]) /\ FromNew(tag, leg, w)[2] = w[2]
               /\ w \in ws
    <2>1. w \in ws
      BY DEF CanInsert
    <2>2. w[1] = <<w[1][1], w[1][2]>> /\ w[2] = <<w[2][1], w[2][2]>>
      BY <1>3, <2>1
    <2>3. ToNew(tag, w) = <<<<w[1][1], w[1][2]>>, <<Place(tag, w[1]), 1>>>>
      BY <2>2 DEF ToNew
    <2>4. FromNew(tag, leg, w) = <<<<Place(tag, w[1]), leg[w]>>, <<w[2][1], w[2][2]>>>>
      BY <2>2 DEF FromNew
    <2> QED
      BY <2>1, <2>2, <2>3, <2>4, WireEnds
  <1>5. /\ DOMAIN bs2 = DOMAIN bs \cup {Place(tag, w[1]) : w \in taken}
        /\ \A b \in DOMAIN bs : bs2[b] = bs[b]
        /\ \A w \in taken : bs2[Place(tag, w[1])] = Block(class, {1}) /\ Place(tag, w[1]) \notin DOMAIN bs
    BY DEF Inserts, CanInsert
  <1> QED
    BY <1>1, <1>2, <1>3, <1>4, <1>5 DEF Insertion

\* An insertion keeps the netlist well formed.
LEMMA InsertKeepsNetlist ==
  ASSUME NEW bs, NEW ws, NEW bs2, NEW ws2, NEW tag, NEW class, NEW taken, NEW leg,
         IsNetlist(bs, ws), CanInsert(bs, ws, tag, class, taken),
         Inserts(bs, ws, bs2, ws2, tag, class, taken, leg)
  PROVE  IsNetlist(bs2, ws2)
  <1> DEFINE P(w) == Place(tag, w[1])
             to == [w \in taken |-> ToNew(tag, w)]
             from == [w \in taken |-> FromNew(tag, leg, w)]
             new == [w \in taken |-> P(w)]
  <1>0. Insertion(bs, ws, bs2, ws2, tag, class, taken, leg)
    BY InsertedWires
  <1>1. IsFiniteSet(DOMAIN bs) /\ IsFiniteSet(ws) /\ IsFiniteSet(taken)
    BY FS_Subset DEF IsNetlist, CanInsert
  <1>2. IsFiniteSet(DOMAIN bs2)
    <2>1. IsFiniteSet({new[w] : w \in taken})
      BY <1>1, FiniteImage
    <2>2. DOMAIN bs2 = DOMAIN bs \cup {new[w] : w \in taken}
      BY <1>0 DEF Insertion
    <2> HIDE DEF new
    <2> QED
      BY <1>1, <2>1, <2>2, FS_Union
  <1>3. IsFiniteSet(ws2)
    <2>1. IsFiniteSet({to[w] : w \in taken}) /\ IsFiniteSet({from[w] : w \in taken})
      BY <1>1, FiniteImage
    <2>2. IsFiniteSet(ws \ taken)
      BY <1>1, FS_Subset
    <2>3. ws2 = (ws \ taken) \cup {to[w] : w \in taken} \cup {from[w] : w \in taken}
      BY DEF Inserts, ToNew, FromNew
    <2> HIDE DEF to, from
    <2> QED
      BY <2>1, <2>2, <2>3, FS_Union
  <1>4. ASSUME NEW b \in DOMAIN bs2
        PROVE  /\ bs2[b] = Block(bs2[b].class, bs2[b].ins) /\ IsFiniteSet(bs2[b].ins)
               /\ \A n \in bs2[b].ins : \E w \in ws2 : w[2] = <<b, n>>
    <2>1. CASE b \in DOMAIN bs
      <3>1. bs2[b] = bs[b]
        BY <2>1, <1>0 DEF Insertion
      <3>2. bs[b] = Block(bs[b].class, bs[b].ins) /\ IsFiniteSet(bs[b].ins)
        BY <2>1 DEF IsNetlist
      <3>3. ASSUME NEW n \in bs[b].ins
            PROVE  \E w \in ws2 : w[2] = <<b, n>>
        <4>1. PICK w \in ws : w[2] = <<b, n>>
          BY <2>1 DEF IsNetlist
        <4>2. CASE w \in taken
          <5>1. FromNew(tag, leg, w) \in ws2 /\ FromNew(tag, leg, w)[2] = w[2]
            BY <4>2, <1>0 DEF Insertion
          <5> QED
            BY <4>1, <5>1
        <4>3. CASE w \notin taken
          BY <4>1, <4>3, <1>0 DEF Insertion
        <4> QED
          BY <4>2, <4>3
      <3> QED
        BY <3>1, <3>2, <3>3
    <2>2. CASE b \notin DOMAIN bs
      <3>1. PICK w \in taken : b = P(w)
        BY <2>2, <1>0 DEF Insertion
      <3>2. bs2[b] = Block(class, {1}) /\ ToNew(tag, w) \in ws2 /\ ToNew(tag, w)[2] = <<b, 1>>
        BY <3>1, <1>0 DEF Insertion
      <3>3. bs2[b] = Block(bs2[b].class, bs2[b].ins) /\ bs2[b].ins = {1}
        BY <3>2 DEF Block
      <3> QED
        BY <3>2, <3>3, FS_Singleton
    <2> QED
      BY <2>1, <2>2
  <1>5. ASSUME NEW w \in ws2
        PROVE  /\ w = <<<<w[1][1], w[1][2]>>, <<w[2][1], w[2][2]>>>>
               /\ {w[1][1], w[2][1]} \subseteq DOMAIN bs2 /\ w[2][2] \in bs2[w[2][1]].ins
    <2>1. CASE w \in ws \ taken
      <3>1. /\ w = <<<<w[1][1], w[1][2]>>, <<w[2][1], w[2][2]>>>>
            /\ {w[1][1], w[2][1]} \subseteq DOMAIN bs /\ w[2][2] \in bs[w[2][1]].ins
        BY <2>1 DEF IsNetlist
      <3>2. bs2[w[2][1]] = bs[w[2][1]] /\ {w[1][1], w[2][1]} \subseteq DOMAIN bs2
        BY <3>1, <1>0 DEF Insertion
      <3> QED
        BY <3>1, <3>2
    <2>2. ASSUME NEW v \in taken, w = ToNew(tag, v)
          PROVE  /\ IsWire(w) /\ w[1][1] \in DOMAIN bs2 /\ w[2][1] \in DOMAIN bs2
                 /\ w[2][2] \in bs2[w[2][1]].ins
      <3>1. IsWire(w) /\ w[1][1] = v[1][1] /\ w[2][1] = P(v) /\ w[2][2] = 1 /\ v \in ws
        BY <2>2, <1>0 DEF Insertion
      <3>2. v[1][1] \in DOMAIN bs2 /\ P(v) \in DOMAIN bs2 /\ bs2[P(v)] = Block(class, {1})
        BY <3>1, <1>0 DEF Insertion
      <3>3. bs2[P(v)].ins = {1}
        BY <3>2 DEF Block
      <3> QED
        BY <3>1, <3>2, <3>3
    <2>3. ASSUME NEW v \in taken, w = FromNew(tag, leg, v)
          PROVE  /\ IsWire(w) /\ w[1][1] \in DOMAIN bs2 /\ w[2][1] \in DOMAIN bs2
                 /\ w[2][2] \in bs2[w[2][1]].ins
      <3>1. IsWire(w) /\ w[1][1] = P(v) /\ w[2] = v[2] /\ v \in ws
        BY <2>3, <1>0 DEF Insertion
      <3>2. v[2][1] \in DOMAIN bs /\ v[2][2] \in bs[v[2][1]].ins
        BY <3>1 DEF IsNetlist
      <3>3. P(v) \in DOMAIN bs2 /\ v[2][1] \in DOMAIN bs2 /\ bs2[v[2][1]] = bs[v[2][1]]
        BY <3>1, <3>2, <1>0 DEF Insertion
      <3> QED
        BY <3>1, <3>2, <3>3
    <2> QED
      BY <2>1, <2>2, <2>3, <1>0 DEF Insertion, IsWire
  <1>6. ASSUME NEW v \in ws2, NEW w \in ws2, v[2] = w[2]
        PROVE  v = w
    <2>1. ASSUME NEW x \in ws2
          PROVE  \/ x \in ws \ taken /\ x[2][1] \in DOMAIN bs
                 \/ \E u \in taken : x = FromNew(tag, leg, u) /\ x[2] = u[2] /\ u \in ws /\ u[2][1] \in DOMAIN bs
                 \/ \E u \in taken : x = ToNew(tag, u) /\ x[2][1] = Place(tag, u[1]) /\ x[2][1] \notin DOMAIN bs
                                       /\ u \in ws
      <3>1. CASE x \in ws \ taken
        BY <1>0, <3>1 DEF Insertion
      <3>2. ASSUME NEW u \in taken, x = FromNew(tag, leg, u)
            PROVE  x[2] = u[2] /\ u \in ws /\ u[2][1] \in DOMAIN bs
        BY <1>0, <3>2 DEF Insertion
      <3>3. ASSUME NEW u \in taken, x = ToNew(tag, u)
            PROVE  x[2][1] = Place(tag, u[1]) /\ x[2][1] \notin DOMAIN bs /\ u \in ws
        BY <1>0, <3>3 DEF Insertion
      <3>4. x \in ws \ taken \/ \E u \in taken : x = ToNew(tag, u) \/ x = FromNew(tag, leg, u)
        BY <1>0 DEF Insertion
      <3> QED
        BY <3>1, <3>2, <3>3, <3>4
    <2>2. \A x, y \in ws : x[2] = y[2] => x = y
      BY DEF IsNetlist
    <2>3. CASE v[2][1] \in DOMAIN bs
      <3>1. PICK x \in ws : /\ x[2] = v[2]
                            /\ v = IF x \in taken THEN FromNew(tag, leg, x) ELSE x
        BY <2>1, <2>3
      <3>2. PICK y \in ws : /\ y[2] = w[2]
                            /\ w = IF y \in taken THEN FromNew(tag, leg, y) ELSE y
        BY <1>6, <2>1, <2>3
      <3> QED
        BY <1>6, <2>2, <3>1, <3>2
    <2>4. CASE v[2][1] \notin DOMAIN bs
      <3>1. PICK x \in taken : v = ToNew(tag, x) /\ v[2][1] = Place(tag, x[1])
        BY <2>1, <2>4
      <3>2. PICK y \in taken : w = ToNew(tag, y) /\ w[2][1] = Place(tag, y[1])
        BY <1>6, <2>1, <2>4
      <3>3. x[1] = y[1]
        BY <1>6, <3>1, <3>2 DEF Place
      <3> QED
        BY <3>1, <3>2, <3>3 DEF ToNew
    <2> QED
      BY <2>3, <2>4
  <1> QED
    BY <1>2, <1>3, <1>4, <1>5, <1>6 DEF IsNetlist

\* An insertion closes no cycle.
LEMMA InsertKeepsAcyclic ==
  ASSUME NEW bs, NEW ws, NEW bs2, NEW ws2, NEW tag, NEW class, NEW taken, NEW leg,
         IsNetlist(bs, ws), CanInsert(bs, ws, tag, class, taken),
         Inserts(bs, ws, bs2, ws2, tag, class, taken, leg), Acyclic(bs, ws)
  PROVE  Acyclic(bs2, ws2)
  <1>0. Insertion(bs, ws, bs2, ws2, tag, class, taken, leg)
    BY InsertedWires
  <1>1. PICK height \in Nat : IsRanked(bs, ws, height)
    BY DEF Acyclic
  <1>2. PICK rank \in [DOMAIN bs -> 1..height] : \A w \in ws : rank[w[1][1]] < rank[w[2][1]]
    BY <1>1 DEF IsRanked
  <1> DEFINE source(b) == (b[2])[1]
             rank2 == [b \in DOMAIN bs2 |-> IF b \in DOMAIN bs THEN 2 * rank[b] ELSE 2 * rank[source(b)] + 1]
  <1>3. \A b \in DOMAIN bs : rank[b] \in Nat /\ 1 <= rank[b] /\ rank[b] <= height
    BY <1>1, <1>2
  <1>4. ASSUME NEW w \in taken
        PROVE  /\ Place(tag, w[1]) \in DOMAIN bs2 \ DOMAIN bs /\ w[1][1] \in DOMAIN bs /\ w \in ws
               /\ source(Place(tag, w[1])) = w[1][1]
    <2>1. Place(tag, w[1]) \in DOMAIN bs2 \ DOMAIN bs /\ w[1][1] \in DOMAIN bs /\ w \in ws
      BY <1>0 DEF Insertion
    <2> QED
      BY <2>1 DEF Place
  <1>5. /\ \A b \in DOMAIN bs : b \in DOMAIN bs2 /\ rank2[b] = 2 * rank[b]
        /\ \A w \in taken : rank2[Place(tag, w[1])] = 2 * rank[w[1][1]] + 1
    BY <1>4, <1>0 DEF Insertion
  <1>6. rank2 \in [DOMAIN bs2 -> 1..(2 * height + 1)]
    <2>1. ASSUME NEW b \in DOMAIN bs2
          PROVE  rank2[b] \in 1..(2 * height + 1)
      <3>1. CASE b \in DOMAIN bs
        <4>1. rank2[b] = 2 * rank[b]
          BY <1>5, <3>1
        <4> HIDE DEF rank2
        <4> QED
          BY <1>1, <1>3, <3>1, <4>1
      <3>2. CASE b \notin DOMAIN bs
        <4>1. PICK w \in taken : b = Place(tag, w[1])
          BY <3>2, <1>0 DEF Insertion
        <4>2. rank2[b] = 2 * rank[w[1][1]] + 1 /\ w[1][1] \in DOMAIN bs
          BY <1>4, <1>5, <4>1
        <4> HIDE DEF rank2
        <4> QED
          BY <1>1, <1>3, <4>2
      <3> QED
        BY <3>1, <3>2
    <2>2. rank2 = [b \in DOMAIN bs2 |-> rank2[b]]
      OBVIOUS
    <2> HIDE DEF rank2
    <2> QED
      BY <2>1, <2>2
  <1>7. ASSUME NEW w \in ws2
        PROVE  rank2[w[1][1]] < rank2[w[2][1]]
    <2>1. \A v \in ws : /\ rank[v[1][1]] < rank[v[2][1]] /\ v[1][1] \in DOMAIN bs /\ v[2][1] \in DOMAIN bs
                        /\ rank[v[1][1]] \in Nat /\ rank[v[2][1]] \in Nat
      BY <1>2, <1>3, <1>0 DEF Insertion
    <2>2. CASE w \in ws \ taken
      <3>1. rank2[w[1][1]] = 2 * rank[w[1][1]] /\ rank2[w[2][1]] = 2 * rank[w[2][1]]
        BY <1>5, <2>1, <2>2
      <3> HIDE DEF rank2
      <3> QED
        BY <2>1, <2>2, <3>1
    <2>3. ASSUME NEW v \in taken, w = ToNew(tag, v)
          PROVE  rank2[w[1][1]] < rank2[w[2][1]]
      <3>1. w[1][1] = v[1][1] /\ w[2][1] = Place(tag, v[1]) /\ v \in ws
        BY <2>3, <1>0 DEF Insertion
      <3>2. rank2[w[1][1]] = 2 * rank[v[1][1]] /\ rank2[w[2][1]] = 2 * rank[v[1][1]] + 1
        BY <1>5, <2>1, <3>1
      <3> HIDE DEF rank2
      <3> QED
        BY <2>1, <3>1, <3>2
    <2>4. ASSUME NEW v \in taken, w = FromNew(tag, leg, v)
          PROVE  rank2[w[1][1]] < rank2[w[2][1]]
      <3>1. w[1][1] = Place(tag, v[1]) /\ w[2][1] = v[2][1] /\ v \in ws
        BY <2>4, <1>0 DEF Insertion
      <3>2. rank2[w[1][1]] = 2 * rank[v[1][1]] + 1 /\ rank2[w[2][1]] = 2 * rank[v[2][1]]
        BY <1>5, <2>1, <3>1
      <3> HIDE DEF rank2
      <3> QED
        BY <2>1, <3>1, <3>2
    <2> QED
      BY <2>2, <2>3, <2>4, <1>0 DEF Insertion
  <1>8. 2 * height + 1 \in Nat
    BY <1>1
  <1>9. IsRanked(bs2, ws2, 2 * height + 1)
    <2> HIDE DEF rank2
    <2> QED
      BY <1>6, <1>7 DEF IsRanked
  <1> QED
    BY <1>8, <1>9 DEF Acyclic

\* Something is behind every block that is not at the region's border.
Fed(bs, ws) == \A b \in DOMAIN bs : bs[b].class \in {"Input", "Output"} \/ \E w \in ws : w[1][1] = b
OneOutput(bs) == \A b, c \in DOMAIN bs : bs[b].class = "Output" /\ bs[c].class = "Output" => b = c
Without(bs, classes) == \A b \in DOMAIN bs : bs[b].class \notin classes

\* An insertion keeps the netlist.
LEMMA InsertKeeps ==
  ASSUME NEW bs, NEW ws, NEW bs2, NEW ws2, NEW tag, NEW class, NEW taken, NEW leg,
         NetOK(bs, ws), CanInsert(bs, ws, tag, class, taken),
         Inserts(bs, ws, bs2, ws2, tag, class, taken, leg)
  PROVE  /\ NetOK(bs2, ws2)
         /\ Fed(bs, ws) => Fed(bs2, ws2)
         /\ OneOutput(bs) => OneOutput(bs2)
  <1>0. IsNetlist(bs, ws) /\ Acyclic(bs, ws) /\ HasRoles(bs, ws)
    BY DEF NetOK
  <1>1. Insertion(bs, ws, bs2, ws2, tag, class, taken, leg)
    BY <1>0, InsertedWires
  <1>2. ASSUME NEW b \in DOMAIN bs2, b \notin DOMAIN bs
        PROVE  bs2[b].ins = {1} /\ bs2[b].class \in {"VirtualFork", "PipelineRegister"} /\ \E w \in ws2 : w[1][1] = b
    <2>1. PICK w \in taken : b = Place(tag, w[1])
      BY <1>1, <1>2 DEF Insertion
    <2>2. bs2[b] = Block(class, {1}) /\ FromNew(tag, leg, w) \in ws2 /\ FromNew(tag, leg, w)[1][1] = b
      BY <1>1, <2>1 DEF Insertion
    <2>3. bs2[b].ins = {1} /\ bs2[b].class = class
      BY <2>2 DEF Block
    <2> QED
      BY <2>2, <2>3 DEF CanInsert
  <1>3. \A b \in DOMAIN bs : b \in DOMAIN bs2 /\ bs2[b] = bs[b]
    BY <1>1 DEF Insertion
  <1>4. ASSUME NEW w \in ws2
        PROVE  bs2[w[1][1]].class # "Output"
    <2>1. CASE w \in ws \ taken
      BY <1>0, <1>1, <1>3, <2>1 DEF Insertion, HasRoles
    <2>2. ASSUME NEW v \in taken, w = ToNew(tag, v)
          PROVE  bs2[w[1][1]].class # "Output"
      <3>1. w[1][1] = v[1][1] /\ v \in ws /\ v[1][1] \in DOMAIN bs
        BY <1>1, <2>2 DEF Insertion
      <3> QED
        BY <1>0, <1>3, <3>1 DEF HasRoles
    <2>3. ASSUME NEW v \in taken, w = FromNew(tag, leg, v)
          PROVE  bs2[w[1][1]].class # "Output"
      <3>1. w[1][1] = Place(tag, v[1]) /\ Place(tag, v[1]) \in DOMAIN bs2 \ DOMAIN bs
        BY <1>1, <2>3 DEF Insertion
      <3> QED
        BY <1>2, <3>1
    <2> QED
      BY <1>1, <2>1, <2>2, <2>3 DEF Insertion
  <1>5. HasRoles(bs2, ws2)
    <2>1. ASSUME NEW b \in DOMAIN bs2
          PROVE  /\ bs2[b].class \in {"Input", "Constant"} => bs2[b].ins = {}
                 /\ bs2[b].class \in {"Output", "Fork", "PipelineRegister"} => bs2[b].ins = {1}
                 /\ bs2[b].class = "Wait" => 1 \in bs2[b].ins
      <3>1. CASE b \in DOMAIN bs
        BY <1>0, <1>3, <3>1 DEF HasRoles
      <3>2. CASE b \notin DOMAIN bs
        BY <1>2, <3>2
      <3> QED
        BY <3>1, <3>2
    <2>2. \E b \in DOMAIN bs2 : bs2[b].class = "Output"
      BY <1>0, <1>3 DEF HasRoles
    <2> QED
      BY <1>4, <2>1, <2>2 DEF HasRoles
  <1>6. ASSUME Fed(bs, ws)
        PROVE  Fed(bs2, ws2)
    <2>1. ASSUME NEW b \in DOMAIN bs, bs[b].class \notin {"Input", "Output"}
          PROVE  \E w \in ws2 : w[1][1] = b
      <3>1. PICK w \in ws : w[1][1] = b
        BY <1>6, <2>1 DEF Fed
      <3>2. CASE w \in taken
        <4>1. ToNew(tag, w) \in ws2 /\ ToNew(tag, w)[1] = w[1]
          BY <1>1, <3>2 DEF Insertion
        <4> QED
          BY <3>1, <4>1
      <3>3. CASE w \notin taken
        BY <1>1, <3>1, <3>3 DEF Insertion
      <3> QED
        BY <3>2, <3>3
    <2> QED
      BY <1>2, <1>3, <2>1 DEF Fed
  <1>7. ASSUME OneOutput(bs)
        PROVE  OneOutput(bs2)
    BY <1>2, <1>3, <1>7 DEF OneOutput
  <1> QED
    BY <1>0, <1>5, <1>6, <1>7, InsertKeepsNetlist, InsertKeepsAcyclic DEF NetOK

-----------------------------------------------------------------------------
(* Finalizing                                                              *)

\* The new netlist when b is taken out.
Eliminates(bs, ws, bs2, ws2, b) ==
  /\ LET source == (CHOOSE w \in ws : w[2] = <<b, 1>>)[1]
     IN  ws2 = {w \in ws : b \notin {w[1][1], w[2][1]}} \cup {<<source, w[2]>> : w \in {w \in ws : w[1][1] = b}}
  /\ bs2 = [c \in DOMAIN bs \ {b} |-> bs[c]]

\* What a Wait or Fork gives on comes from what drives its first input.
Elimination(bs, ws, bs2, ws2, b) ==
  /\ DOMAIN bs2 = DOMAIN bs \ {b} /\ \A c \in DOMAIN bs2 : bs2[c] = bs[c]
  /\ \A v \in ws : ~(v[1][1] = b /\ v[2][1] = b)
  /\ \E d \in ws : /\ d[2] = <<b, 1>> /\ d[2][1] = b /\ d[1][1] # b
                   /\ ws2 = {w \in ws : b \notin {w[1][1], w[2][1]}}
                              \cup {<<d[1], w[2]>> : w \in {w \in ws : w[1][1] = b}}

\* Taking out a Wait or Fork does that.
LEMMA EliminationIs ==
  ASSUME NEW bs, NEW ws, NEW bs2, NEW ws2, NEW b \in DOMAIN bs, bs[b].class \in {"Wait", "Fork"},
         IsNetlist(bs, ws), Acyclic(bs, ws), HasRoles(bs, ws), Eliminates(bs, ws, bs2, ws2, b)
  PROVE  Elimination(bs, ws, bs2, ws2, b)
  <1>1. 1 \in bs[b].ins
    BY DEF HasRoles
  <1>2. \E w \in ws : w[2] = <<b, 1>>
    BY <1>1 DEF IsNetlist
  <1>3. PICK d : d \in ws /\ d[2] = <<b, 1>> /\ d = CHOOSE w \in ws : w[2] = <<b, 1>>
    BY <1>2
  <1>4. \A v \in ws : v[1][1] # v[2][1]
    <2>1. PICK height \in Nat : IsRanked(bs, ws, height)
      BY DEF Acyclic
    <2>2. PICK rank \in [DOMAIN bs -> 1..height] : \A w \in ws : rank[w[1][1]] < rank[w[2][1]]
      BY <2>1 DEF IsRanked
    <2>3. \A w \in ws : w[1][1] \in DOMAIN bs
      BY DEF IsNetlist
    <2> QED
      BY <2>1, <2>2, <2>3
  <1>5. d[2][1] = b
    BY <1>3
  <1>6. ws2 = {w \in ws : b \notin {w[1][1], w[2][1]}} \cup {<<d[1], w[2]>> : w \in {w \in ws : w[1][1] = b}}
    BY <1>3 DEF Eliminates
  <1>7. DOMAIN bs2 = DOMAIN bs \ {b} /\ \A c \in DOMAIN bs2 : bs2[c] = bs[c]
    BY DEF Eliminates
  <1> QED
    BY <1>3, <1>4, <1>5, <1>6, <1>7 DEF Elimination

\* Taking out a Wait or Fork keeps the netlist.
LEMMA EliminateKeeps ==
  ASSUME NEW bs, NEW ws, NEW bs2, NEW ws2, NEW b \in DOMAIN bs, bs[b].class \in {"Wait", "Fork"},
         NetOK(bs, ws), Eliminates(bs, ws, bs2, ws2, b)
  PROVE  NetOK(bs2, ws2)
  <1>0. IsNetlist(bs, ws) /\ Acyclic(bs, ws) /\ HasRoles(bs, ws)
    BY DEF NetOK
  <1>a. Elimination(bs, ws, bs2, ws2, b)
    BY <1>0, EliminationIs
  <1>1. PICK d \in ws : /\ d[2] = <<b, 1>> /\ d[2][1] = b /\ d[1][1] # b
                        /\ ws2 = {w \in ws : b \notin {w[1][1], w[2][1]}}
                                   \cup {<<d[1], w[2]>> : w \in {w \in ws : w[1][1] = b}}
    BY <1>a DEF Elimination
  <1>2. DOMAIN bs2 = DOMAIN bs \ {b} /\ \A c \in DOMAIN bs2 : bs2[c] = bs[c]
    BY <1>a DEF Elimination
  <1>3. \A v \in ws : ~(v[1][1] = b /\ v[2][1] = b)
    BY <1>a DEF Elimination
  <1> DEFINE over(w) == <<d[1], w[2]>>
             crossed == {w \in ws : w[1][1] = b}
  <1>4. \A w \in ws : /\ IsWire(w) /\ w[1] = <<w[1][1], w[1][2]>> /\ w[2] = <<w[2][1], w[2][2]>>
                      /\ w[1][1] \in DOMAIN bs /\ w[2][1] \in DOMAIN bs /\ w[2][2] \in bs[w[2][1]].ins
    <2> TAKE w \in ws
    <2>1. /\ w = <<<<w[1][1], w[1][2]>>, <<w[2][1], w[2][2]>>>>
          /\ w[1][1] \in DOMAIN bs /\ w[2][1] \in DOMAIN bs /\ w[2][2] \in bs[w[2][1]].ins
      BY <1>0 DEF IsNetlist
    <2> QED
      BY <2>1, WireEnds
  <1>5. ASSUME NEW w \in crossed
        PROVE  /\ over(w) \in ws2 /\ over(w)[1] = d[1] /\ over(w)[2] = w[2] /\ IsWire(over(w))
               /\ w \in ws /\ w[1][1] = b /\ w[2][1] # b
    <2>1. over(w) = <<<<d[1][1], d[1][2]>>, <<w[2][1], w[2][2]>>>>
      BY <1>4
    <2>2. IsWire(over(w))
      BY <2>1, WireEnds
    <2> QED
      BY <1>1, <1>3, <2>2
  <1>6. \A w \in ws2 : \/ w \in ws /\ w[1][1] # b /\ w[2][1] # b
                       \/ \E v \in crossed : w = over(v)
    BY <1>1
  <1>7. \A w \in ws : w[1][1] # b /\ w[2][1] # b => w \in ws2
    BY <1>1
  <1> HIDE DEF over
  <1>8. ASSUME NEW w \in ws2
        PROVE  \E v \in ws : /\ IsWire(w) /\ w[2] = v[2] /\ v[2][1] # b /\ w[1][1] \in DOMAIN bs \ {b}
                             /\ w[1][1] = IF v[1][1] = b THEN d[1][1] ELSE v[1][1]
                             /\ w = IF v[1][1] = b THEN over(v) ELSE v
    BY <1>1, <1>4, <1>5, <1>6
  <1>9. IsFiniteSet(DOMAIN bs2) /\ IsFiniteSet(ws2)
    <2> DEFINE to == [w \in crossed |-> <<d[1], w[2]>>]
    <2>1. IsFiniteSet(DOMAIN bs) /\ IsFiniteSet(ws)
      BY <1>0 DEF IsNetlist
    <2>2. IsFiniteSet({w \in ws : b \notin {w[1][1], w[2][1]}}) /\ IsFiniteSet(crossed) /\ IsFiniteSet(DOMAIN bs2)
      BY <1>2, <2>1, FS_Subset
    <2>3. IsFiniteSet({to[w] : w \in crossed})
      <3> HIDE DEF to, crossed
      <3> QED
        BY <2>2, FiniteImage
    <2>4. ws2 = {w \in ws : b \notin {w[1][1], w[2][1]}} \cup {to[w] : w \in crossed}
      BY <1>1
    <2> HIDE DEF to
    <2> QED
      BY <2>2, <2>3, <2>4, FS_Union
  <1>10. IsNetlist(bs2, ws2)
    <2>1. ASSUME NEW c \in DOMAIN bs2
          PROVE  /\ bs2[c] = Block(bs2[c].class, bs2[c].ins) /\ IsFiniteSet(bs2[c].ins)
                 /\ \A n \in bs2[c].ins : \E w \in ws2 : w[2] = <<c, n>>
      <3>1. c \in DOMAIN bs /\ c # b /\ bs2[c] = bs[c]
        BY <1>2
      <3>2. bs2[c] = Block(bs2[c].class, bs2[c].ins) /\ IsFiniteSet(bs2[c].ins)
        BY <1>0, <3>1 DEF IsNetlist
      <3>3. ASSUME NEW n \in bs2[c].ins
            PROVE  \E w \in ws2 : w[2] = <<c, n>>
        <4>1. PICK w \in ws : w[2] = <<c, n>>
          BY <1>0, <3>1 DEF IsNetlist
        <4>2. CASE w[1][1] = b
          <5>1. w \in crossed
            BY <4>2
          <5> QED
            BY <1>5, <4>1, <5>1
        <4>3. CASE w[1][1] # b
          <5>1. w[2][1] = c
            BY <4>1
          <5> QED
            BY <1>7, <3>1, <4>1, <4>3, <5>1
        <4> QED
          BY <4>2, <4>3
      <3> QED
        BY <3>2, <3>3
    <2>2. ASSUME NEW w \in ws2
          PROVE  /\ w = <<<<w[1][1], w[1][2]>>, <<w[2][1], w[2][2]>>>>
                 /\ {w[1][1], w[2][1]} \subseteq DOMAIN bs2 /\ w[2][2] \in bs2[w[2][1]].ins
      <3>1. PICK v \in ws : IsWire(w) /\ w[2] = v[2] /\ v[2][1] # b /\ w[1][1] \in DOMAIN bs \ {b}
        BY <1>8
      <3>2. w[2][1] \in DOMAIN bs2 /\ w[1][1] \in DOMAIN bs2 /\ w[2][2] \in bs2[w[2][1]].ins
        BY <1>2, <1>4, <3>1
      <3> QED
        BY <3>1, <3>2 DEF IsWire
    <2>3. ASSUME NEW v \in ws2, NEW w \in ws2, v[2] = w[2]
          PROVE  v = w
      <3>1. PICK x \in ws : v[2] = x[2] /\ v = IF x[1][1] = b THEN over(x) ELSE x
        BY <1>8
      <3>2. PICK y \in ws : w[2] = y[2] /\ w = IF y[1][1] = b THEN over(y) ELSE y
        BY <1>8
      <3>3. x = y
        BY <1>0, <2>3, <3>1, <3>2 DEF IsNetlist
      <3> QED
        BY <3>1, <3>2, <3>3
    <2> QED
      BY <1>9, <2>1, <2>2, <2>3 DEF IsNetlist
  <1>11. Acyclic(bs2, ws2)
    <2>1. PICK height \in Nat : IsRanked(bs, ws, height)
      BY <1>0 DEF Acyclic
    <2>2. PICK rank \in [DOMAIN bs -> 1..height] : \A w \in ws : rank[w[1][1]] < rank[w[2][1]]
      BY <2>1 DEF IsRanked
    <2>3. PICK rank2 : rank2 = [c \in DOMAIN bs2 |-> rank[c]]
      OBVIOUS
    <2>4. rank2 \in [DOMAIN bs2 -> 1..height]
      BY <1>2, <2>3
    <2>5. ASSUME NEW w \in ws2
          PROVE  rank2[w[1][1]] < rank2[w[2][1]]
      <3>1. PICK v \in ws : /\ w[2] = v[2] /\ v[2][1] # b /\ w[1][1] \in DOMAIN bs \ {b}
                            /\ w[1][1] = IF v[1][1] = b THEN d[1][1] ELSE v[1][1]
        BY <1>8
      <3>2. rank2[w[1][1]] = rank[w[1][1]] /\ rank2[w[2][1]] = rank[v[2][1]]
        BY <1>2, <1>4, <2>3, <3>1
      <3>3. rank[v[1][1]] < rank[v[2][1]] /\ rank[d[1][1]] < rank[b]
        BY <1>1, <2>2
      <3>4. rank[v[1][1]] \in Nat /\ rank[v[2][1]] \in Nat /\ rank[d[1][1]] \in Nat /\ rank[b] \in Nat
        BY <1>4, <2>2
      <3> QED
        BY <3>1, <3>2, <3>3, <3>4
    <2> QED
      BY <2>1, <2>4, <2>5 DEF Acyclic, IsRanked
  <1>12. HasRoles(bs2, ws2)
    <2>1. \A w \in ws2 : bs2[w[1][1]].class # "Output"
      <3> TAKE w \in ws2
      <3>1. PICK v \in ws : w[1][1] \in DOMAIN bs \ {b} /\ w[1][1] = IF v[1][1] = b THEN d[1][1] ELSE v[1][1]
        BY <1>8
      <3> QED
        BY <1>0, <1>1, <1>2, <3>1 DEF HasRoles
    <2>2. \E c \in DOMAIN bs2 : bs2[c].class = "Output"
      BY <1>0, <1>2 DEF HasRoles
    <2> QED
      BY <1>0, <1>2, <2>1, <2>2 DEF HasRoles
  <1> QED
    BY <1>10, <1>11, <1>12 DEF NetOK

\* The new netlist when the outputs are joined.
Joined == <<"unify", "join">>
JoinedOut == <<"unify", "out">>
OutputsOf(bs) == {b \in DOMAIN bs : bs[b].class = "Output"}
ToJoin(bs, w) == IF w[2][1] \in OutputsOf(bs) THEN <<w[1], <<Joined, w[2][1]>>>> ELSE w
Unifies(bs, ws, bs2, ws2) ==
  /\ ws2 = {ToJoin(bs, w) : w \in ws} \cup {<<<<Joined, 1>>, <<JoinedOut, 1>>>>}
  /\ bs2 = [b \in (DOMAIN bs \ OutputsOf(bs)) \cup {Joined, JoinedOut} |->
              CASE b = Joined    -> Block("Join", OutputsOf(bs))
                [] b = JoinedOut -> Block("Output", {1})
                [] OTHER         -> bs[b]]

\* One Join and one output keep the netlist.
LEMMA UnifyKeeps ==
  ASSUME NEW bs, NEW ws, NEW bs2, NEW ws2, NetOK(bs, ws), Unifies(bs, ws, bs2, ws2),
         Joined \notin DOMAIN bs, JoinedOut \notin DOMAIN bs
  PROVE  NetOK(bs2, ws2) /\ OneOutput(bs2)
  <1>0. IsNetlist(bs, ws) /\ Acyclic(bs, ws) /\ HasRoles(bs, ws)
    BY DEF NetOK
  <1> DEFINE outs == OutputsOf(bs)
             last == <<<<Joined, 1>>, <<JoinedOut, 1>>>>
  <1>1. Joined # JoinedOut
    BY DEF Joined, JoinedOut
  <1>2. /\ DOMAIN bs2 = (DOMAIN bs \ outs) \cup {Joined, JoinedOut}
        /\ \A b \in DOMAIN bs \ outs : bs2[b] = bs[b]
        /\ bs2[Joined] = Block("Join", outs) /\ bs2[JoinedOut] = Block("Output", {1})
    BY <1>1 DEF Unifies
  <1>3. /\ bs2[Joined].class = "Join" /\ bs2[Joined].ins = outs
        /\ bs2[JoinedOut].class = "Output" /\ bs2[JoinedOut].ins = {1}
    BY <1>2 DEF Block
  <1>4. \A w \in ws : /\ IsWire(w) /\ w[1] = <<w[1][1], w[1][2]>> /\ w[2] = <<w[2][1], w[2][2]>>
                      /\ w[1][1] \in DOMAIN bs \ outs /\ w[2][1] \in DOMAIN bs /\ w[2][2] \in bs[w[2][1]].ins
    <2> TAKE w \in ws
    <2>1. /\ w = <<<<w[1][1], w[1][2]>>, <<w[2][1], w[2][2]>>>>
          /\ w[1][1] \in DOMAIN bs /\ w[2][1] \in DOMAIN bs /\ w[2][2] \in bs[w[2][1]].ins
      BY <1>0 DEF IsNetlist
    <2>2. w[1][1] \notin outs
      BY <1>0 DEF HasRoles, OutputsOf
    <2> QED
      BY <2>1, <2>2, WireEnds
  <1>5. /\ IsWire(last) /\ last[1][1] = Joined /\ last[2] = <<JoinedOut, 1>> /\ last[2][1] = JoinedOut /\ last[2][2] = 1
        /\ last \in ws2
    BY WireEnds DEF Unifies
  <1>6. ASSUME NEW w \in ws
        PROVE  /\ IsWire(ToJoin(bs, w)) /\ ToJoin(bs, w)[1] = w[1] /\ ToJoin(bs, w) \in ws2
               /\ w[2][1] \in outs => ToJoin(bs, w)[2] = <<Joined, w[2][1]>> /\ w[2] = <<w[2][1], 1>>
               /\ w[2][1] \notin outs => ToJoin(bs, w)[2] = w[2]
    <2>1. w[2][1] \in outs => ToJoin(bs, w) = <<<<w[1][1], w[1][2]>>, <<Joined, w[2][1]>>>>
      BY <1>4 DEF ToJoin
    <2>2. w[2][1] \in outs => w[2][2] = 1
      BY <1>0, <1>4 DEF OutputsOf, HasRoles
    <2>3. ToJoin(bs, w) \in ws2
      BY DEF Unifies
    <2>4. w[2][1] \notin outs => ToJoin(bs, w) = w
      BY DEF ToJoin
    <2>5. CASE w[2][1] \in outs
      BY <1>4, <2>1, <2>2, <2>3, <2>5, WireEnds
    <2> QED
      BY <1>4, <2>3, <2>4, <2>5
  <1>7. \A w \in ws2 : w = last \/ \E v \in ws : w = ToJoin(bs, v)
    BY DEF Unifies
  <1> HIDE DEF last
  <1>8. IsFiniteSet(outs) /\ IsFiniteSet(DOMAIN bs2) /\ IsFiniteSet(ws2)
    <2> DEFINE to == [w \in ws |-> ToJoin(bs, w)]
    <2>1. IsFiniteSet(DOMAIN bs) /\ IsFiniteSet(ws)
      BY <1>0 DEF IsNetlist
    <2>2. IsFiniteSet(outs) /\ IsFiniteSet(DOMAIN bs \ outs)
      BY <2>1, FS_Subset DEF OutputsOf
    <2>3. IsFiniteSet({to[w] : w \in ws})
      BY <2>1, FiniteImage
    <2>4. ws2 = {to[w] : w \in ws} \cup {last}
      BY DEF Unifies, last
    <2>5. IsFiniteSet(ws2)
      <3> HIDE DEF to
      <3> QED
        BY <2>3, <2>4, FS_AddElement
    <2>6. IsFiniteSet((DOMAIN bs \ outs) \cup {Joined}) /\ DOMAIN bs2 = ((DOMAIN bs \ outs) \cup {Joined}) \cup {JoinedOut}
      BY <1>2, <2>2, FS_AddElement
    <2>7. IsFiniteSet(DOMAIN bs2)
      BY <2>6, FS_AddElement
    <2> QED
      BY <2>2, <2>5, <2>7
  <1>9. IsNetlist(bs2, ws2)
    <2>1. ASSUME NEW b \in DOMAIN bs2
          PROVE  /\ bs2[b] = Block(bs2[b].class, bs2[b].ins) /\ IsFiniteSet(bs2[b].ins)
                 /\ \A n \in bs2[b].ins : \E w \in ws2 : w[2] = <<b, n>>
      <3>1. CASE b = Joined
        <4>1. ASSUME NEW n \in outs
              PROVE  \E w \in ws2 : w[2] = <<b, n>>
          <5>1. n \in DOMAIN bs /\ 1 \in bs[n].ins
            BY <1>0 DEF OutputsOf, HasRoles
          <5>2. PICK w \in ws : w[2] = <<n, 1>>
            BY <1>0, <5>1 DEF IsNetlist
          <5>3. w[2][1] = n
            BY <5>2
          <5> QED
            BY <1>6, <3>1, <5>2, <5>3
        <4> QED
          BY <1>2, <1>3, <1>8, <3>1, <4>1
      <3>2. CASE b = JoinedOut
        <4>1. bs2[b] = Block(bs2[b].class, bs2[b].ins) /\ bs2[b].ins = {1}
          BY <1>2, <1>3, <3>2
        <4>2. IsFiniteSet({1})
          BY FS_Singleton
        <4>3. \E w \in ws2 : w[2] = <<b, 1>>
          BY <1>5, <3>2
        <4> QED
          BY <4>1, <4>2, <4>3
      <3>3. CASE b \in DOMAIN bs \ outs
        <4>1. bs2[b] = bs[b] /\ bs[b] = Block(bs[b].class, bs[b].ins) /\ IsFiniteSet(bs[b].ins)
          BY <1>0, <1>2, <3>3 DEF IsNetlist
        <4>2. ASSUME NEW n \in bs[b].ins
              PROVE  \E w \in ws2 : w[2] = <<b, n>>
          <5>1. PICK w \in ws : w[2] = <<b, n>>
            BY <1>0, <3>3 DEF IsNetlist
          <5>2. w[2][1] = b
            BY <5>1
          <5> QED
            BY <1>6, <3>3, <5>1, <5>2
        <4> QED
          BY <4>1, <4>2
      <3> QED
        BY <1>2, <3>1, <3>2, <3>3
    <2>2. ASSUME NEW w \in ws2
          PROVE  /\ w = <<<<w[1][1], w[1][2]>>, <<w[2][1], w[2][2]>>>>
                 /\ {w[1][1], w[2][1]} \subseteq DOMAIN bs2 /\ w[2][2] \in bs2[w[2][1]].ins
      <3>1. CASE w = last
        BY <1>2, <1>3, <1>5, <3>1 DEF IsWire
      <3>2. ASSUME NEW v \in ws, w = ToJoin(bs, v)
            PROVE  /\ IsWire(w) /\ w[1][1] \in DOMAIN bs2 /\ w[2][1] \in DOMAIN bs2
                   /\ w[2][2] \in bs2[w[2][1]].ins
        <4>1. IsWire(w) /\ w[1] = v[1] /\ w[1][1] \in DOMAIN bs2
          BY <1>2, <1>4, <1>6, <3>2
        <4>2. CASE v[2][1] \in outs
          <5>1. w[2][1] = Joined /\ w[2][2] = v[2][1]
            BY <1>6, <3>2, <4>2
          <5> QED
            BY <1>2, <1>3, <4>1, <4>2, <5>1
        <4>3. CASE v[2][1] \notin outs
          <5>1. w[2] = v[2]
            BY <1>6, <3>2, <4>3
          <5> QED
            BY <1>2, <1>4, <4>1, <4>3, <5>1
        <4> QED
          BY <4>2, <4>3
      <3> QED
        BY <1>7, <3>1, <3>2 DEF IsWire
    <2>3. ASSUME NEW v \in ws2, NEW w \in ws2, v[2] = w[2]
          PROVE  v = w
      <3>1. ASSUME NEW x \in ws
            PROVE  ToJoin(bs, x)[2][1] # JoinedOut
        BY <1>1, <1>4, <1>6
      <3>2. CASE v = last \/ w = last
        BY <1>5, <1>7, <2>3, <3>1, <3>2
      <3>3. ASSUME NEW x \in ws, NEW y \in ws, v = ToJoin(bs, x), w = ToJoin(bs, y)
            PROVE  x = y
        <4>1. CASE x[2][1] \in outs
          <5>1. y[2][1] \in outs
            <6>1. w[2][1] = Joined
              BY <1>6, <2>3, <3>3, <4>1
            <6> QED
              BY <1>4, <1>6, <3>3, <6>1
          <5>2. v[2][2] = x[2][1] /\ w[2][2] = y[2][1]
            BY <1>6, <3>3, <4>1, <5>1
          <5>3. x[2] = y[2]
            BY <1>6, <2>3, <4>1, <5>1, <5>2
          <5> QED
            BY <1>0, <5>3 DEF IsNetlist
        <4>2. CASE x[2][1] \notin outs
          <5>1. y[2][1] \notin outs
            <6>1. w[2][1] # Joined
              BY <1>4, <1>6, <2>3, <3>3, <4>2
            <6> QED
              BY <1>6, <3>3, <6>1
          <5>2. x[2] = y[2]
            BY <1>6, <2>3, <3>3, <4>2, <5>1
          <5> QED
            BY <1>0, <5>2 DEF IsNetlist
        <4> QED
          BY <4>1, <4>2
      <3> QED
        BY <1>7, <3>2, <3>3
    <2> QED
      BY <1>8, <2>1, <2>2, <2>3 DEF IsNetlist
  <1>10. Acyclic(bs2, ws2)
    <2>1. PICK height \in Nat : IsRanked(bs, ws, height)
      BY <1>0 DEF Acyclic
    <2>2. PICK rank \in [DOMAIN bs -> 1..height] : \A w \in ws : rank[w[1][1]] < rank[w[2][1]]
      BY <2>1 DEF IsRanked
    <2>3. PICK rank2 : rank2 = [b \in DOMAIN bs2 |-> IF b = Joined THEN height + 1
                                                     ELSE IF b = JoinedOut THEN height + 2 ELSE rank[b]]
      OBVIOUS
    <2>4. /\ rank2[Joined] = height + 1 /\ rank2[JoinedOut] = height + 2
          /\ \A b \in DOMAIN bs \ outs : rank2[b] = rank[b] /\ rank[b] \in 1..height
      BY <1>1, <1>2, <2>2, <2>3
    <2>5. rank2 \in [DOMAIN bs2 -> 1..(height + 2)]
      <3>1. \A b \in DOMAIN bs2 : rank2[b] \in 1..(height + 2)
        BY <1>2, <2>1, <2>4
      <3> QED
        BY <2>3, <3>1
    <2>6. ASSUME NEW w \in ws2
          PROVE  rank2[w[1][1]] < rank2[w[2][1]]
      <3>1. CASE w = last
        BY <1>5, <2>1, <2>4, <3>1
      <3>2. ASSUME NEW v \in ws, w = ToJoin(bs, v)
            PROVE  rank2[w[1][1]] < rank2[w[2][1]]
        <4>1. w[1][1] = v[1][1] /\ v[1][1] \in DOMAIN bs \ outs
          BY <1>4, <1>6, <3>2
        <4>2. CASE v[2][1] \in outs
          <5>1. w[2][1] = Joined
            BY <1>6, <3>2, <4>2
          <5> QED
            BY <2>1, <2>4, <4>1, <5>1
        <4>3. CASE v[2][1] \notin outs
          <5>1. w[2][1] = v[2][1] /\ v[2][1] \in DOMAIN bs \ outs
            BY <1>4, <1>6, <3>2, <4>3
          <5> QED
            BY <2>2, <2>4, <4>1, <5>1
        <4> QED
          BY <4>2, <4>3
      <3> QED
        BY <1>7, <3>1, <3>2
    <2>7. height + 2 \in Nat
      BY <2>1
    <2> QED
      BY <2>5, <2>6, <2>7 DEF Acyclic, IsRanked
  <1>11. HasRoles(bs2, ws2)
    <2>1. \A w \in ws2 : bs2[w[1][1]].class # "Output"
      <3> TAKE w \in ws2
      <3>1. CASE w = last
        BY <1>3, <1>5, <3>1
      <3>2. ASSUME NEW v \in ws, w = ToJoin(bs, v)
            PROVE  bs2[w[1][1]].class # "Output"
        <4>1. w[1][1] \in DOMAIN bs \ outs
          BY <1>4, <1>6, <3>2
        <4> QED
          BY <1>2, <4>1 DEF OutputsOf
      <3> QED
        BY <1>7, <3>1, <3>2
    <2>2. \A b \in DOMAIN bs2 : /\ bs2[b].class \in {"Input", "Constant"} => bs2[b].ins = {}
                                /\ bs2[b].class \in {"Output", "Fork", "PipelineRegister"} => bs2[b].ins = {1}
                                /\ bs2[b].class = "Wait" => 1 \in bs2[b].ins
      <3> TAKE b \in DOMAIN bs2
      <3>1. CASE b \in {Joined, JoinedOut}
        BY <1>3, <3>1
      <3>2. CASE b \in DOMAIN bs \ outs
        BY <1>0, <1>2, <3>2 DEF HasRoles
      <3> QED
        BY <1>2, <3>1, <3>2
    <2>3. \E b \in DOMAIN bs2 : bs2[b].class = "Output"
      BY <1>2, <1>3
    <2> QED
      BY <2>1, <2>2, <2>3 DEF HasRoles
  <1>12. OneOutput(bs2)
    <2>1. \A b \in DOMAIN bs2 : bs2[b].class = "Output" => b = JoinedOut
      BY <1>2, <1>3 DEF OutputsOf
    <2> QED
      BY <2>1 DEF OneOutput
  <1> QED
    BY <1>9, <1>10, <1>11, <1>12 DEF NetOK

\* The netlist of the used blocks.
Restricts(bs, ws, bs2, ws2, used) ==
  /\ used \subseteq DOMAIN bs
  /\ \A b \in DOMAIN bs :
       b \in used <=> bs[b].class \in {"Input", "Output"} \/ \E w \in ws : w[1][1] = b /\ w[2][1] \in used
  /\ ws2 = {w \in ws : w[2][1] \in used}
  /\ bs2 = [b \in used |-> bs[b]]

\* The used blocks are a netlist in which nothing is unused.
LEMMA RestrictKeeps ==
  ASSUME NEW bs, NEW ws, NEW bs2, NEW ws2, NEW used, NetOK(bs, ws), Restricts(bs, ws, bs2, ws2, used)
  PROVE  /\ NetOK(bs2, ws2) /\ Fed(bs2, ws2)
         /\ OneOutput(bs) => OneOutput(bs2)
  <1>0. IsNetlist(bs, ws) /\ Acyclic(bs, ws) /\ HasRoles(bs, ws)
    BY DEF NetOK
  <1>1. DOMAIN bs2 = used /\ used \subseteq DOMAIN bs /\ \A b \in used : bs2[b] = bs[b]
    BY DEF Restricts
  <1>2. \A w \in ws2 : /\ w \in ws /\ w[1][1] \in used /\ w[2][1] \in used
                       /\ w[1][1] \in DOMAIN bs /\ w[2][1] \in DOMAIN bs
    <2> TAKE w \in ws2
    <2>1. w \in ws /\ w[2][1] \in used
      BY DEF Restricts
    <2>2. w[1][1] \in DOMAIN bs /\ w[2][1] \in DOMAIN bs
      BY <1>0, <2>1 DEF IsNetlist
    <2> QED
      BY <2>1, <2>2 DEF Restricts
  <1>3. \A w \in ws : w[2][1] \in used => w \in ws2
    BY DEF Restricts
  <1>4. IsNetlist(bs2, ws2)
    <2>1. IsFiniteSet(DOMAIN bs2) /\ IsFiniteSet(ws2)
      <3>1. IsFiniteSet(DOMAIN bs) /\ IsFiniteSet(ws) /\ ws2 \subseteq ws
        BY <1>0, <1>2 DEF IsNetlist
      <3> QED
        BY <1>1, <3>1, FS_Subset
    <2>2. ASSUME NEW b \in DOMAIN bs2
          PROVE  /\ bs2[b] = Block(bs2[b].class, bs2[b].ins) /\ IsFiniteSet(bs2[b].ins)
                 /\ \A n \in bs2[b].ins : \E w \in ws2 : w[2] = <<b, n>>
      <3>1. b \in DOMAIN bs /\ b \in used /\ bs2[b] = bs[b]
        BY <1>1
      <3>2. ASSUME NEW n \in bs[b].ins
            PROVE  \E w \in ws2 : w[2] = <<b, n>>
        <4>1. PICK w \in ws : w[2] = <<b, n>>
          BY <1>0, <3>1 DEF IsNetlist
        <4>2. w[2][1] = b
          BY <4>1
        <4> QED
          BY <1>3, <3>1, <4>1, <4>2
      <3> QED
        BY <1>0, <3>1, <3>2 DEF IsNetlist
    <2>3. \A w \in ws2 : /\ w = <<<<w[1][1], w[1][2]>>, <<w[2][1], w[2][2]>>>>
                         /\ {w[1][1], w[2][1]} \subseteq DOMAIN bs2 /\ w[2][2] \in bs2[w[2][1]].ins
      BY <1>0, <1>1, <1>2 DEF IsNetlist
    <2>4. \A v, w \in ws2 : v[2] = w[2] => v = w
      BY <1>0, <1>2 DEF IsNetlist
    <2> QED
      BY <2>1, <2>2, <2>3, <2>4 DEF IsNetlist
  <1>5. Acyclic(bs2, ws2)
    <2>1. PICK height \in Nat : IsRanked(bs, ws, height)
      BY <1>0 DEF Acyclic
    <2>2. PICK rank \in [DOMAIN bs -> 1..height] : \A w \in ws : rank[w[1][1]] < rank[w[2][1]]
      BY <2>1 DEF IsRanked
    <2>3. PICK rank2 : rank2 = [b \in DOMAIN bs2 |-> rank[b]]
      OBVIOUS
    <2>4. rank2 \in [DOMAIN bs2 -> 1..height]
      BY <1>1, <2>3
    <2>5. \A w \in ws2 : rank2[w[1][1]] < rank2[w[2][1]]
      BY <1>1, <1>2, <2>2, <2>3
    <2> QED
      BY <2>1, <2>4, <2>5 DEF Acyclic, IsRanked
  <1>6. HasRoles(bs2, ws2)
    <2>1. \E b \in DOMAIN bs2 : bs2[b].class = "Output"
      <3>1. PICK b \in DOMAIN bs : bs[b].class = "Output"
        BY <1>0 DEF HasRoles
      <3>2. b \in used
        BY <3>1 DEF Restricts
      <3> QED
        BY <1>1, <3>1, <3>2
    <2> QED
      BY <1>0, <1>1, <1>2, <2>1 DEF HasRoles
  <1>7. Fed(bs2, ws2)
    <2> SUFFICES ASSUME NEW b \in DOMAIN bs2, bs2[b].class \notin {"Input", "Output"}
                 PROVE  \E w \in ws2 : w[1][1] = b
      BY DEF Fed
    <2>1. b \in used /\ b \in DOMAIN bs /\ bs[b].class \notin {"Input", "Output"}
      BY <1>1
    <2>2. PICK w \in ws : w[1][1] = b /\ w[2][1] \in used
      BY <2>1 DEF Restricts
    <2> QED
      BY <1>3, <2>2
  <1> QED
    BY <1>1, <1>4, <1>5, <1>6, <1>7 DEF NetOK, OneOutput

-----------------------------------------------------------------------------
(* The netlist in each phase                                               *)

\* All phases but the one that no region comes to.
Phases == {"finalize", "simplify", "forks", "frequency", "depths", "balance", "run"}

\* What was inserted so far, which the names of the new blocks say.
TagsAt(ph) == CASE ph = "finalize"              -> {}
                [] ph \in {"simplify", "forks"} -> {"unify"}
                [] ph = "frequency"             -> {"unify", "fork"}
                [] ph = "depths"                -> {"unify", "fork", "reg"}
                [] OTHER                        -> {"unify", "fork", "reg", "balance"}
Named(bs, tags) == \A b \in DOMAIN bs : b = <<b[1]>> \/ \E tag \in tags : \E o : b = Place(tag, o)

\* The registers that the clock needs.
IsLate(b) == \E o : b = Place("reg", o)
Late(bs) == {b \in DOMAIN bs : IsLate(b)}
LateOK(bs) ==
  /\ Cardinality(Late(bs)) <= MaxLate
  /\ Late(bs) # {} => \E b \in DOMAIN bs : bs[b].class = "Input"

\* What the netlist is in each phase.
NetInv ==
  /\ phase \in Phases
  /\ NetOK(blocks, wires)
  /\ Named(blocks, TagsAt(phase))
  /\ phase \in {"finalize", "simplify", "forks", "frequency"} => Without(blocks, {"PipelineRegister"})
  /\ phase # "finalize" => Without(blocks, {"Wait", "Fork"}) /\ OneOutput(blocks)
  /\ phase \notin {"finalize", "simplify"} => Fed(blocks, wires)
  /\ phase \in {"depths", "balance", "run"} => LateOK(blocks)
  /\ phase = "depths" => \A b \in All("PipelineRegister") : IsLate(b)

\* A name that says something new is a new one.
LEMMA Fresh ==
  ASSUME NEW bs, NEW tags, Named(bs, tags), NEW tag, tag \notin tags, NEW o
  PROVE  Place(tag, o) \notin DOMAIN bs
  <1>1. ASSUME NEW x
        PROVE  Place(tag, o) # <<x>>
    BY DEF Place
  <1>2. ASSUME NEW other \in tags, NEW x
        PROVE  Place(tag, o) # Place(other, x)
    BY DEF Place
  <1> QED
    BY <1>1, <1>2 DEF Named

-----------------------------------------------------------------------------
(* Sequences without repetition                                            *)

\* Each element once.
Once(s) == \A j, k \in DOMAIN s : s[j] = s[k] => j = k

\* One sequence behind another.
LEMMA Concatenated ==
  ASSUME NEW S, NEW s \in Seq(S), NEW t \in Seq(S), Once(s), Once(t), Range(s) \cap Range(t) = {}
  PROVE  s \o t \in Seq(S) /\ Once(s \o t) /\ Range(s \o t) = Range(s) \cup Range(t)
  <1>1. /\ Len(s) \in Nat /\ Len(t) \in Nat /\ DOMAIN s = 1..Len(s) /\ DOMAIN t = 1..Len(t)
    OBVIOUS
  <1>2. /\ s \o t \in Seq(S) /\ Len(s \o t) = Len(s) + Len(t)
        /\ \A n \in 1..Len(s) + Len(t) : (s \o t)[n] = IF n <= Len(s) THEN s[n] ELSE t[n - Len(s)]
    BY ConcatProperties
  <1>3. DOMAIN (s \o t) = 1..(Len(s) + Len(t))
    BY <1>2
  <1> DEFINE m == Len(s)
             u == s \o t
  <1>4. m \in Nat /\ Len(t) \in Nat /\ DOMAIN u = 1..(m + Len(t)) /\ DOMAIN s = 1..m /\ DOMAIN t = 1..Len(t)
    BY <1>1, <1>3
  <1>5. \A n \in DOMAIN u : u[n] = IF n <= m THEN s[n] ELSE t[n - m]
    BY <1>2, <1>3
  <1>6. \A n \in DOMAIN s : n \in DOMAIN u /\ u[n] = s[n]
    <2> HIDE DEF m, u
    <2> QED
      BY <1>4, <1>5
  <1>7. \A n \in DOMAIN t : n + m \in DOMAIN u /\ u[n + m] = t[n]
    <2> HIDE DEF m, u
    <2> QED
      BY <1>4, <1>5
  <1>8. \A n \in DOMAIN u : \/ n \in DOMAIN s /\ u[n] = s[n]
                            \/ n \notin DOMAIN s /\ n - m \in DOMAIN t /\ u[n] = t[n - m]
    <2> HIDE DEF m, u
    <2> QED
      BY <1>4, <1>5
  <1>9. Range(u) = Range(s) \cup Range(t)
    <2> HIDE DEF m, u
    <2> QED
      BY <1>6, <1>7, <1>8 DEF Range
  <1>10. Once(u)
    <2> HIDE DEF m, u
    <2> SUFFICES ASSUME NEW j \in DOMAIN u, NEW k \in DOMAIN u, u[j] = u[k]
                 PROVE  j = k
      BY DEF Once
    <2>1. \A n \in DOMAIN s : s[n] \in Range(s)
      BY DEF Range
    <2>2. \A n \in DOMAIN t : t[n] \in Range(t)
      BY DEF Range
    <2>3. CASE j \in DOMAIN s /\ k \in DOMAIN s
      BY <1>6, <2>3 DEF Once
    <2>4. CASE j \notin DOMAIN s /\ k \notin DOMAIN s
      <3>1. j - m = k - m
        BY <1>8, <2>4 DEF Once
      <3> QED
        BY <1>4, <3>1
    <2> QED
      BY <1>8, <2>1, <2>2, <2>3, <2>4
  <1> QED
    BY <1>2, <1>9, <1>10

\* A head and a tail without it.
LEMMA Taken ==
  ASSUME NEW S, NEW s \in Seq(S), s # <<>>, Once(s)
  PROVE  /\ Head(s) \in S /\ Tail(s) \in Seq(S) /\ Once(Tail(s))
         /\ Range(s) = {Head(s)} \cup Range(Tail(s)) /\ Head(s) \notin Range(Tail(s))
  <1>1. /\ Head(s) \in S /\ Tail(s) \in Seq(S) /\ Len(Tail(s)) = Len(s) - 1 /\ Len(s) \in Nat \ {0}
        /\ \A n \in 1..Len(Tail(s)) : Tail(s)[n] = s[n + 1]
        /\ Head(s) = s[1] /\ DOMAIN s = 1..Len(s) /\ DOMAIN Tail(s) = 1..Len(Tail(s))
    BY HeadTailProperties
  <1> DEFINE t == Tail(s)
  <1>2. \A n \in DOMAIN t : n + 1 \in DOMAIN s /\ t[n] = s[n + 1] /\ n + 1 # 1 /\ n \in Nat
    BY <1>1
  <1>3. 1 \in DOMAIN s /\ Head(s) = s[1] /\ \A n \in DOMAIN s : n = 1 \/ (n - 1 \in DOMAIN t /\ t[n - 1] = s[n])
    BY <1>1
  <1> HIDE DEF t
  <1>4. Once(t)
    <2> SUFFICES ASSUME NEW j \in DOMAIN t, NEW k \in DOMAIN t, t[j] = t[k]
                 PROVE  j = k
      BY DEF Once
    <2>1. j + 1 = k + 1
      BY <1>2 DEF Once
    <2> QED
      BY <1>2, <2>1
  <1>5. Head(s) \notin Range(t)
    BY <1>2, <1>3 DEF Range, Once
  <1>6. Range(s) = {Head(s)} \cup Range(t)
    BY <1>2, <1>3 DEF Range
  <1> QED
    BY <1>1, <1>4, <1>5, <1>6 DEF t

\* A finite set as a sequence.
LEMMA Listed ==
  ASSUME NEW S, IsFiniteSet(S)
  PROVE  /\ SetToSeq(S) \in Seq(S) /\ Range(SetToSeq(S)) = S /\ Once(SetToSeq(S))
         /\ \A q \in SetToSeqs(S) : q \in Seq(S) /\ Range(q) = S /\ Once(q)
  <1> DEFINE D == 1..Cardinality(S)
  <1>1. Cardinality(S) \in Nat /\ ExistsBijection(D, S)
    BY FS_CardinalityType
  <1>2. IsFiniteSet(D) /\ Cardinality(D) = Cardinality(S)
    BY <1>1, FS_Interval
  <1>3. ASSUME NEW q \in [D -> S], \A j, k \in D : q[j] = q[k] => j = k
        PROVE  q \in Seq(S) /\ Range(q) = S /\ Once(q)
    <2>1. q \in Injection(D, S)
      BY <1>3 DEF Injection, IsInjective
    <2>2. q \in Surjection(D, S)
      BY <1>2, <2>1, FS_Injection
    <2>3. q \in Seq(S)
      BY <1>1, <1>3
    <2> QED
      BY <1>3, <2>2, <2>3 DEF Surjection, Range, Once
  <1>4. \E q \in [D -> S] : IsInjective(q)
    BY <1>1 DEF ExistsBijection, Bijection, Injection, IsInjective
  <1>5. SetToSeq(S) \in [D -> S] /\ IsInjective(SetToSeq(S))
    BY <1>4 DEF SetToSeq
  <1>6. \A q \in SetToSeqs(S) : q \in [D -> S] /\ \A j, k \in D : q[j] = q[k] => j = k
    BY DEF SetToSeqs
  <1> HIDE DEF D
  <1> QED
    BY <1>3, <1>5, <1>6 DEF IsInjective

-----------------------------------------------------------------------------
(* The search for the depths                                               *)

\* The wires into and behind a block.
WiresInto(ws, b) == {w \in ws : w[2][1] = b}
WiresBehind(ws, b) == {w \in ws : w[1][1] = b}

StatsOK(bs, st) == st \in [DOMAIN bs -> [depth : Nat, visits : Nat]]
Extra(bs, b) == IF bs[b].class = "PipelineRegister" THEN 1 ELSE 0
BringsOf(bs, st, w) == st[w[1][1]].depth + Extra(bs, w[1][1])
Ready(bs, st, b) == st[b].visits >= Cardinality(bs[b].ins)

\* For each stage before a block there is a register that the clock needs, to
\* which the search has come through all its inputs.
Backed(bs, st) ==
  \A b \in DOMAIN bs : \A k \in Nat :
    k < st[b].depth => \E r \in Late(bs) : Ready(bs, st, r) /\ st[r].depth = k

\* The search has visited the wires in seen.
SearchOK(bs, ws, st, q, seen) ==
  /\ StatsOK(bs, st)
  /\ seen \subseteq ws /\ q \in Seq(ws) /\ Once(q) /\ Range(q) \cap seen = {}
  /\ \A w \in ws : w \in seen \cup Range(q) <=> Ready(bs, st, w[1][1])
  /\ \A b \in DOMAIN bs : st[b].visits = Cardinality(WiresInto(seen, b))
  /\ \A w \in seen : BringsOf(bs, st, w) <= st[w[2][1]].depth
  /\ Backed(bs, st)

\* A block has as many wires in as it has inputs.
LEMMA WiresInCount ==
  ASSUME NEW bs, NEW ws, IsNetlist(bs, ws), NEW b \in DOMAIN bs
  PROVE  /\ IsFiniteSet(WiresInto(ws, b)) /\ Cardinality(WiresInto(ws, b)) = Cardinality(bs[b].ins)
         /\ Cardinality(bs[b].ins) \in Nat
  <1> DEFINE into == WiresInto(ws, b)
             port == [w \in into |-> w[2][2]]
  <1>1. IsFiniteSet(into)
    <2>1. IsFiniteSet(ws) /\ into \in SUBSET ws
      BY DEF IsNetlist, WiresInto
    <2> QED
      BY <2>1, FS_Subset
  <1>2. \A w \in into : w \in ws /\ w[2] = <<b, w[2][2]>> /\ w[2][2] \in bs[b].ins
    <2> TAKE w \in into
    <2>1. w \in ws /\ w[2][1] = b
      BY DEF WiresInto
    <2>2. w = <<<<w[1][1], w[1][2]>>, <<w[2][1], w[2][2]>>>> /\ w[2][2] \in bs[w[2][1]].ins
      BY <2>1 DEF IsNetlist
    <2> QED
      BY <2>1, <2>2, WireEnds
  <1>3. \A n \in bs[b].ins : \E w \in into : w[2][2] = n
    <2> TAKE n \in bs[b].ins
    <2>1. PICK w \in ws : w[2] = <<b, n>>
      BY DEF IsNetlist
    <2> QED
      BY <2>1 DEF WiresInto
  <1>4. \A v, w \in into : v[2][2] = w[2][2] => v = w
    BY <1>2 DEF IsNetlist
  <1>5. port \in Bijection(into, bs[b].ins)
    <2> HIDE DEF into
    <2>1. port \in [into -> bs[b].ins]
      BY <1>2
    <2> QED
      BY <1>3, <1>4, <2>1 DEF Bijection, Injection, Surjection, IsInjective
  <1>6. IsFiniteSet(bs[b].ins)
    BY DEF IsNetlist
  <1>7. ExistsBijection(into, bs[b].ins)
    BY <1>5 DEF ExistsBijection
  <1> HIDE DEF into
  <1>8. Cardinality(into) = Cardinality(bs[b].ins)
    BY <1>1, <1>6, <1>7, FS_Bijection
  <1> QED
    BY <1>1, <1>6, <1>8, FS_CardinalityType DEF into

\* The search visits the wire at the head of the queue.
Visits(bs, ws, st, q, st2, q2) ==
  LET dst == Head(q)[2][1]
      new == [depth |-> Largest({BringsOf(bs, st, Head(q)), st[dst].depth}), visits |-> st[dst].visits + 1]
  IN  /\ st2 = [st EXCEPT ![dst] = new]
      /\ q2 = Tail(q) \o (IF new.visits >= Cardinality(bs[dst].ins) THEN SetToSeq(WiresBehind(ws, dst)) ELSE <<>>)

\* What a visit changes.
Visit(bs, ws, st, q, seen, st2, q2, w, dst) ==
  /\ w \in ws /\ w = Head(q) /\ dst = w[2][1] /\ dst \in DOMAIN bs /\ w[1][1] \in DOMAIN bs /\ w \notin seen
  /\ Ready(bs, st, w[1][1]) /\ ~Ready(bs, st, dst)
  /\ StatsOK(bs, st2)
  /\ \A b \in DOMAIN bs : b # dst => st2[b] = st[b]
  /\ st2[dst].visits = st[dst].visits + 1
  /\ st2[dst].depth = IF BringsOf(bs, st, w) <= st[dst].depth THEN st[dst].depth ELSE BringsOf(bs, st, w)
  /\ q2 \in Seq(ws) /\ Once(q2) /\ Range(q2) \cap (seen \cup {w}) = {}
  /\ \A x \in ws : x \in (seen \cup {w}) \cup Range(q2) <=> Ready(bs, st2, x[1][1])

\* A visit, as the search sees it.
LEMMA VisitIs ==
  ASSUME NEW bs, NEW ws, NEW st, NEW q, NEW st2, NEW q2, NEW seen, IsNetlist(bs, ws),
         SearchOK(bs, ws, st, q, seen), q # <<>>, Visits(bs, ws, st, q, st2, q2)
  PROVE  Visit(bs, ws, st, q, seen, st2, q2, Head(q), Head(q)[2][1])
  <1>0. PICK w : w = Head(q)
    OBVIOUS
  <1>1. PICK dst : dst = w[2][1]
    OBVIOUS
  <1>2. /\ q \in Seq(ws) /\ Once(q)
        /\ w \in ws /\ Tail(q) \in Seq(ws) /\ Once(Tail(q))
        /\ Range(q) = {w} \cup Range(Tail(q)) /\ w \notin Range(Tail(q))
    BY <1>0, Taken DEF SearchOK
  <1>3. w[1][1] \in DOMAIN bs /\ dst \in DOMAIN bs
    BY <1>1, <1>2 DEF IsNetlist
  <1>4. w \notin seen /\ seen \subseteq ws /\ Range(Tail(q)) \cap (seen \cup {w}) = {} /\ Ready(bs, st, w[1][1])
    BY <1>2 DEF SearchOK
  <1>5. /\ st[dst].visits \in Nat /\ st[dst].depth \in Nat /\ st[w[1][1]].depth \in Nat
        /\ BringsOf(bs, st, w) \in Nat
    BY <1>3 DEF SearchOK, StatsOK, BringsOf, Extra
  <1>6. /\ IsFiniteSet(WiresInto(ws, dst)) /\ Cardinality(WiresInto(ws, dst)) = Cardinality(bs[dst].ins)
        /\ Cardinality(bs[dst].ins) \in Nat
    BY <1>3, WiresInCount
  <1>7. ~Ready(bs, st, dst)
    <2>1. WiresInto(seen, dst) \in SUBSET WiresInto(ws, dst)
      BY <1>4 DEF WiresInto
    <2>2. w \in WiresInto(ws, dst) /\ w \notin WiresInto(seen, dst)
      BY <1>1, <1>2, <1>4 DEF WiresInto
    <2>3. /\ Cardinality(WiresInto(seen, dst)) <= Cardinality(WiresInto(ws, dst))
          /\ Cardinality(WiresInto(ws, dst)) # Cardinality(WiresInto(seen, dst))
      BY <1>6, <2>1, <2>2, FS_Subset
    <2>4. st[dst].visits = Cardinality(WiresInto(seen, dst))
      BY <1>3 DEF SearchOK
    <2> QED
      BY <1>5, <1>6, <2>3, <2>4 DEF Ready
  <1> DEFINE new == [depth |-> Largest({BringsOf(bs, st, w), st[dst].depth}), visits |-> st[dst].visits + 1]
             more == IF st[dst].visits + 1 >= Cardinality(bs[dst].ins) THEN WiresBehind(ws, dst) ELSE {}
  <1>8. st2 = [st EXCEPT ![dst] = new] /\ st \in [DOMAIN bs -> [depth : Nat, visits : Nat]]
    BY <1>0, <1>1 DEF Visits, SearchOK, StatsOK
  <1>9. new.depth = (IF BringsOf(bs, st, w) <= st[dst].depth THEN st[dst].depth ELSE BringsOf(bs, st, w))
    BY <1>5, LargerIs
  <1>10. new \in [depth : Nat, visits : Nat] /\ new.visits = st[dst].visits + 1
    BY <1>5, <1>9
  <1>11. /\ StatsOK(bs, st2) /\ st2[dst] = new
         /\ \A b \in DOMAIN bs : b # dst => st2[b] = st[b]
    <2> HIDE DEF new
    <2> QED
      BY <1>3, <1>8, <1>10 DEF StatsOK
  <1>12. \E s \in Seq(ws) : Once(s) /\ Range(s) = more /\ q2 = Tail(q) \o s
    <2>1. CASE st[dst].visits + 1 >= Cardinality(bs[dst].ins)
      <3>1. IsFiniteSet(ws) /\ WiresBehind(ws, dst) \in SUBSET ws
        BY DEF IsNetlist, WiresBehind
      <3>2. IsFiniteSet(WiresBehind(ws, dst))
        BY <3>1, FS_Subset
      <3>3. /\ SetToSeq(WiresBehind(ws, dst)) \in Seq(WiresBehind(ws, dst))
            /\ Range(SetToSeq(WiresBehind(ws, dst))) = WiresBehind(ws, dst)
            /\ Once(SetToSeq(WiresBehind(ws, dst)))
        BY <3>2, Listed
      <3>4. SetToSeq(WiresBehind(ws, dst)) \in Seq(ws)
        BY <3>1, <3>3
      <3>5. q2 = Tail(q) \o SetToSeq(WiresBehind(ws, dst))
        BY <1>0, <1>1, <2>1 DEF Visits
      <3> QED
        BY <2>1, <3>3, <3>4, <3>5
    <2>2. CASE ~(st[dst].visits + 1 >= Cardinality(bs[dst].ins))
      <3>1. <<>> \in Seq(ws) /\ Once(<<>>) /\ Range(<<>>) = {}
        BY DEF Once, Range
      <3>2. q2 = Tail(q) \o <<>>
        BY <1>0, <1>1, <2>2 DEF Visits
      <3> QED
        BY <2>2, <3>1, <3>2
    <2> QED
      BY <2>1, <2>2
  <1>13. \A x \in more : x \in ws /\ x[1][1] = dst /\ x \notin seen /\ x \notin Range(q)
    <2>1. \A x \in more : x \in ws /\ x[1][1] = dst
      BY DEF WiresBehind
    <2> QED
      BY <1>7, <2>1 DEF SearchOK
  <1>14. /\ q2 \in Seq(ws) /\ Once(q2) /\ Range(q2) = Range(Tail(q)) \cup more
    <2>1. PICK s \in Seq(ws) : Once(s) /\ Range(s) = more /\ q2 = Tail(q) \o s
      BY <1>12
    <2>2. Range(Tail(q)) \cap Range(s) = {}
      BY <1>2, <1>13, <2>1
    <2> HIDE DEF more
    <2>3. PICK t : t = Tail(q)
      OBVIOUS
    <2>4. t \in Seq(ws) /\ Once(t) /\ Range(t) \cap Range(s) = {}
      BY <1>2, <2>2, <2>3
    <2>5. t \o s \in Seq(ws) /\ Once(t \o s) /\ Range(t \o s) = Range(t) \cup Range(s)
      BY <2>1, <2>4, Concatenated
    <2> QED
      BY <2>1, <2>3, <2>5
  <1>15. Range(q2) \cap (seen \cup {w}) = {}
    <2> HIDE DEF more
    <2> QED
      BY <1>2, <1>4, <1>13, <1>14
  <1>16. ASSUME NEW x \in ws
         PROVE  x \in (seen \cup {w}) \cup Range(q2) <=> Ready(bs, st2, x[1][1])
    <2>1. x \in seen \cup Range(q) <=> Ready(bs, st, x[1][1])
      BY DEF SearchOK
    <2>2. x[1][1] \in DOMAIN bs
      BY DEF IsNetlist
    <2>3. CASE x[1][1] # dst
      <3>1. x \notin more
        BY <1>13, <2>3
      <3>2. Ready(bs, st2, x[1][1]) <=> Ready(bs, st, x[1][1])
        BY <1>11, <2>2, <2>3 DEF Ready
      <3> HIDE DEF more
      <3> QED
        BY <1>2, <1>14, <2>1, <3>1, <3>2
    <2>4. CASE x[1][1] = dst
      <3>1. x \notin seen \cup Range(q)
        BY <1>7, <2>1, <2>4
      <3>2. x \in more <=> st[dst].visits + 1 >= Cardinality(bs[dst].ins)
        BY <2>4 DEF WiresBehind
      <3>3. Ready(bs, st2, dst) <=> st[dst].visits + 1 >= Cardinality(bs[dst].ins)
        BY <1>10, <1>11 DEF Ready
      <3> HIDE DEF more
      <3> QED
        BY <1>2, <1>14, <2>4, <3>1, <3>2, <3>3
    <2> QED
      BY <2>3, <2>4
  <1>17. st2[dst].visits = st[dst].visits + 1
    BY <1>10, <1>11
  <1>18. st2[dst].depth = IF BringsOf(bs, st, w) <= st[dst].depth THEN st[dst].depth ELSE BringsOf(bs, st, w)
    BY <1>9, <1>11
  <1> HIDE DEF new, more
  <1> QED
    BY <1>0, <1>1, <1>2, <1>3, <1>4, <1>7, <1>11, <1>14, <1>15, <1>16, <1>17, <1>18 DEF Visit

\* The only registers are those that the clock needs.
OnlyLate(bs) == \A b \in DOMAIN bs : bs[b].class = "PipelineRegister" => b \in Late(bs)

\* The search has visited the head of the queue as well.
Finds(bs, ws, st2, q2, q, seen) == SearchOK(bs, ws, st2, q2, seen \cup {Head(q)})

\* A visit keeps what is known of the search.
LEMMA SearchKeeps ==
  ASSUME NEW bs, NEW ws, NEW st, NEW q, NEW st2, NEW q2, NEW seen, IsNetlist(bs, ws), OnlyLate(bs),
         SearchOK(bs, ws, st, q, seen), q # <<>>, Visits(bs, ws, st, q, st2, q2)
  PROVE  Finds(bs, ws, st2, q2, q, seen)
  <1>1. PICK w : w = Head(q)
    OBVIOUS
  <1>2. PICK dst : dst = w[2][1]
    OBVIOUS
  <1>3. Visit(bs, ws, st, q, seen, st2, q2, w, dst)
    BY <1>1, <1>2, VisitIs
  <1> DEFINE all == seen \cup {w}
  <1>4. all \subseteq ws /\ seen \subseteq ws
    BY <1>3 DEF Visit, SearchOK
  <1>5. /\ w \in ws /\ dst \in DOMAIN bs /\ w[1][1] \in DOMAIN bs /\ w \notin seen
        /\ Ready(bs, st, w[1][1]) /\ ~Ready(bs, st, dst) /\ w[1][1] # dst /\ StatsOK(bs, st2)
        /\ \A b \in DOMAIN bs : b # dst => st2[b] = st[b]
        /\ st2[dst].visits = st[dst].visits + 1
        /\ st2[dst].depth = IF BringsOf(bs, st, w) <= st[dst].depth THEN st[dst].depth ELSE BringsOf(bs, st, w)
    BY <1>3 DEF Visit
  <1>6. \A b \in DOMAIN bs : st[b].depth \in Nat /\ st[b].visits \in Nat
    BY DEF SearchOK, StatsOK
  <1>7. \A x \in ws : x[1][1] \in DOMAIN bs /\ x[2][1] \in DOMAIN bs
    BY DEF IsNetlist
  <1>8. ASSUME NEW b \in DOMAIN bs
        PROVE  st2[b].visits = Cardinality(WiresInto(all, b))
    <2>1. WiresInto(seen, b) \in SUBSET ws /\ IsFiniteSet(ws)
      BY <1>4 DEF WiresInto, IsNetlist
    <2>2. IsFiniteSet(WiresInto(seen, b))
      BY <2>1, FS_Subset
    <2>3. st[b].visits = Cardinality(WiresInto(seen, b))
      BY DEF SearchOK
    <2>4. CASE b = dst
      <3>1. WiresInto(all, b) = WiresInto(seen, b) \cup {w} /\ w \notin WiresInto(seen, b)
        BY <1>2, <1>5, <2>4 DEF WiresInto
      <3>2. Cardinality(WiresInto(seen, b) \cup {w}) = Cardinality(WiresInto(seen, b)) + 1
        BY <2>2, <3>1, FS_AddElement
      <3> HIDE DEF all
      <3> QED
        BY <1>5, <2>3, <2>4, <3>1, <3>2
    <2>5. CASE b # dst
      <3>1. WiresInto(all, b) = WiresInto(seen, b)
        BY <1>2, <2>5 DEF WiresInto
      <3> QED
        BY <1>5, <2>3, <2>5, <3>1
    <2> QED
      BY <2>4, <2>5
  <1>9. ASSUME NEW b \in DOMAIN bs
        PROVE  st[b].depth <= st2[b].depth /\ st2[b].depth \in Nat
    <2>1. BringsOf(bs, st, w) \in Nat
      BY <1>5, <1>6 DEF BringsOf, Extra
    <2> QED
      BY <1>5, <1>6, <2>1
  <1>10. ASSUME NEW x \in all
         PROVE  BringsOf(bs, st2, x) <= st2[x[2][1]].depth
    <2>1. x[1][1] # dst /\ x[1][1] \in DOMAIN bs /\ x[2][1] \in DOMAIN bs
      BY <1>4, <1>5, <1>7 DEF SearchOK
    <2>2. BringsOf(bs, st2, x) = BringsOf(bs, st, x) /\ BringsOf(bs, st, x) \in Nat
      BY <1>5, <1>6, <2>1 DEF BringsOf, Extra
    <2>3. CASE x \in seen
      <3>1. BringsOf(bs, st, x) <= st[x[2][1]].depth
        BY <2>3 DEF SearchOK
      <3> QED
        BY <1>6, <1>9, <2>1, <2>2, <3>1
    <2>4. CASE x = w
      BY <1>2, <1>5, <1>6, <2>2, <2>4
    <2> QED
      BY <2>3, <2>4
  <1>11. Backed(bs, st2)
    <2> SUFFICES ASSUME NEW b \in DOMAIN bs, NEW k \in Nat, k < st2[b].depth
                 PROVE  \E r \in Late(bs) : Ready(bs, st2, r) /\ st2[r].depth = k
      BY DEF Backed
    <2>1. ASSUME NEW c \in DOMAIN bs, k < st[c].depth
          PROVE  \E r \in Late(bs) : Ready(bs, st, r) /\ st[r].depth = k
      BY <2>1 DEF SearchOK, Backed
    <2>2. \E r \in Late(bs) : Ready(bs, st, r) /\ st[r].depth = k
      <3>1. CASE k < st[b].depth
        BY <2>1, <3>1
      <3>2. CASE ~(k < st[b].depth)
        <4>1. b = dst
          BY <1>5, <3>2
        <4>2. k < BringsOf(bs, st, w)
          BY <1>5, <3>2, <4>1
        <4>3. CASE k < st[w[1][1]].depth
          BY <1>5, <2>1, <4>3
        <4>4. CASE ~(k < st[w[1][1]].depth)
          <5>1. Extra(bs, w[1][1]) = 1 /\ st[w[1][1]].depth = k
            BY <1>5, <1>6, <4>2, <4>4 DEF BringsOf, Extra
          <5>2. w[1][1] \in Late(bs)
            BY <1>5, <5>1 DEF Extra, OnlyLate
          <5> QED
            BY <1>5, <5>1, <5>2
        <4> QED
          BY <4>3, <4>4
      <3> QED
        BY <3>1, <3>2
    <2>3. PICK r \in Late(bs) : Ready(bs, st, r) /\ st[r].depth = k
      BY <2>2
    <2>4. r \in DOMAIN bs /\ st2[r] = st[r]
      BY <1>5, <2>3 DEF Late
    <2> QED
      BY <2>3, <2>4 DEF Ready
  <1>12. /\ q2 \in Seq(ws) /\ Once(q2) /\ Range(q2) \cap all = {}
         /\ \A x \in ws : x \in all \cup Range(q2) <=> Ready(bs, st2, x[1][1])
    BY <1>3 DEF Visit
  <1> HIDE DEF all
  <1>13. SearchOK(bs, ws, st2, q2, all)
    BY <1>4, <1>5, <1>8, <1>10, <1>11, <1>12 DEF SearchOK
  <1> QED
    BY <1>1, <1>13 DEF all, Finds

\* The search starts at the blocks that have no inputs.
LEMMA SearchStarts ==
  ASSUME NEW bs, NEW ws, NEW st, NEW q, IsNetlist(bs, ws),
         st = [b \in DOMAIN bs |-> [depth |-> 0, visits |-> 0]],
         q \in SetToSeqs({w \in ws : bs[w[1][1]].ins = {}})
  PROVE  SearchOK(bs, ws, st, q, {})
  <1> DEFINE S == {w \in ws : bs[w[1][1]].ins = {}}
  <1>1. IsFiniteSet(S)
    <2>1. IsFiniteSet(ws) /\ S \in SUBSET ws
      BY DEF IsNetlist
    <2> QED
      BY <2>1, FS_Subset
  <1>2. q \in Seq(S) /\ Range(q) = S /\ Once(q)
    <2>1. q \in SetToSeqs(S)
      OBVIOUS
    <2> HIDE DEF S
    <2> QED
      BY <1>1, <2>1, Listed
  <1>3. q \in Seq(ws)
    BY <1>2
  <1>4. ASSUME NEW b \in DOMAIN bs
        PROVE  Ready(bs, st, b) <=> bs[b].ins = {}
    <2>1. IsFiniteSet(bs[b].ins) /\ Cardinality(bs[b].ins) \in Nat /\ st[b].visits = 0
      BY WiresInCount DEF IsNetlist
    <2>2. Cardinality(bs[b].ins) = 0 <=> bs[b].ins = {}
      BY <2>1, FS_EmptySet
    <2> QED
      BY <2>1, <2>2 DEF Ready
  <1>5. \A w \in ws : w \in Range(q) <=> Ready(bs, st, w[1][1])
    <2>1. \A w \in ws : w[1][1] \in DOMAIN bs
      BY DEF IsNetlist
    <2> QED
      BY <1>2, <1>4, <2>1
  <1>6. \A b \in DOMAIN bs : st[b].visits = Cardinality(WiresInto({}, b))
    <2>1. \A b \in DOMAIN bs : WiresInto({}, b) = {}
      BY DEF WiresInto
    <2> QED
      BY <2>1, FS_EmptySet
  <1>7. Backed(bs, st)
    BY DEF Backed
  <1>8. StatsOK(bs, st)
    BY DEF StatsOK
  <1> QED
    BY <1>2, <1>3, <1>5, <1>6, <1>7, <1>8 DEF SearchOK

\* When the queue is empty every wire was visited.
LEMMA SearchEnds ==
  ASSUME NEW bs, NEW ws, NEW st, NEW seen, NetOK(bs, ws), SearchOK(bs, ws, st, <<>>, seen)
  PROVE  /\ seen = ws /\ StatsOK(bs, st) /\ Backed(bs, st)
         /\ \A b \in DOMAIN bs : Ready(bs, st, b) /\ st[b].visits = Cardinality(bs[b].ins)
         /\ \A w \in ws : BringsOf(bs, st, w) <= st[w[2][1]].depth
  <1>0. IsNetlist(bs, ws) /\ Acyclic(bs, ws)
    BY DEF NetOK
  <1>1. PICK height \in Nat : IsRanked(bs, ws, height)
    BY <1>0 DEF Acyclic
  <1>2. PICK rank \in [DOMAIN bs -> 1..height] : \A w \in ws : rank[w[1][1]] < rank[w[2][1]]
    BY <1>1 DEF IsRanked
  <1>3. \A w \in ws : w[1][1] \in DOMAIN bs /\ w[2][1] \in DOMAIN bs
    BY <1>0 DEF IsNetlist
  <1>4. Range(<<>>) = {}
    BY DEF Range
  <1>5. \A w \in ws : w \in seen <=> Ready(bs, st, w[1][1])
    BY <1>4 DEF SearchOK
  <1>6. ASSUME NEW b \in DOMAIN bs, \A w \in ws : w[2][1] = b => Ready(bs, st, w[1][1])
        PROVE  Ready(bs, st, b) /\ st[b].visits = Cardinality(bs[b].ins)
    <2>1. seen \subseteq ws
      BY DEF SearchOK
    <2>2. WiresInto(seen, b) = WiresInto(ws, b)
      BY <1>5, <1>6, <2>1 DEF WiresInto
    <2>3. st[b].visits = Cardinality(bs[b].ins) /\ Cardinality(bs[b].ins) \in Nat
      BY <1>0, <2>2, WiresInCount DEF SearchOK
    <2> QED
      BY <2>3 DEF Ready
  <1>7. ASSUME NEW c \in DOMAIN bs, ~Ready(bs, st, c)
        PROVE  FALSE
    <2> DEFINE C == {b \in DOMAIN bs : ~Ready(bs, st, b)}
    <2>1. C \in SUBSET DOMAIN bs /\ C # {}
      BY <1>7
    <2>2. \E b \in C : \A d \in C : rank[b] <= rank[d]
      <3> HIDE DEF C
      <3> QED
        BY <1>1, <1>2, <2>1, Lowest
    <2>3. PICK b \in C : \A d \in C : rank[b] <= rank[d]
      BY <2>2
    <2>4. PICK w \in ws : w[2][1] = b /\ ~Ready(bs, st, w[1][1])
      BY <1>6, <2>3
    <2>5. w[1][1] \in C /\ rank[w[1][1]] < rank[b] /\ rank[w[1][1]] \in Nat /\ rank[b] \in Nat
      BY <1>1, <1>2, <1>3, <2>4
    <2> QED
      BY <2>3, <2>5
  <1>8. seen = ws
    BY <1>3, <1>5, <1>7 DEF SearchOK
  <1> QED
    BY <1>3, <1>6, <1>7, <1>8 DEF SearchOK

-----------------------------------------------------------------------------
(* Balancing                                                               *)

\* A constant is driven by constants, and never a register.
ConstantsOK(bs, ws, cs) ==
  /\ cs \subseteq DOMAIN bs
  /\ \A b \in cs : bs[b].class \notin {"Input", "PipelineRegister"}
  /\ \A w \in ws : w[2][1] \in cs => w[1][1] \in cs

\* Blocks without inputs are in the first stage.
SourcesFirst(bs, st) == \A b \in DOMAIN bs : bs[b].ins = {} => st[b].depth = 0

\* The depths while the blocks of td are still to balance.
BalanceOK(bs, ws, st, td, cs) ==
  /\ StatsOK(bs, st) /\ SourcesFirst(bs, st) /\ Backed(bs, st)
  /\ \A c, n : Place("balance", <<c, n>>) \in DOMAIN bs => c \in DOMAIN bs \ td
  /\ \A b \in DOMAIN bs : st[b].visits = Cardinality(bs[b].ins)
  /\ \A w \in ws : BringsOf(bs, st, w) <= st[w[2][1]].depth
  /\ \A w \in ws : w[1][1] \notin td \cup cs => BringsOf(bs, st, w) = st[w[2][1]].depth

\* The wires behind b that cross a stage.
Crossing(bs, ws, st, cs, b) ==
  IF b \in cs THEN {} ELSE {w \in WiresBehind(ws, b) : st[w[2][1]].depth - st[w[1][1]].depth > Extra(bs, b)}

\* The block b is balanced.
Balances(bs, ws, st, td, cs, bs2, ws2, st2, td2, b) ==
  LET long == Crossing(bs, ws, st, cs, b)
      regs == {Place("balance", w[1]) : w \in long}
  IN  /\ Inserts(bs, ws, bs2, ws2, "balance", "PipelineRegister", long, [w \in ws |-> 1])
      /\ st2 = [c \in DOMAIN st \cup regs |->
                  IF c \in regs THEN [depth |-> st[b].depth + Extra(bs, b), visits |-> 1] ELSE st[c]]
      /\ td2 = (td \ {b}) \cup regs

\* Balancing a block keeps the depths in order.
LEMMA BalanceKeeps ==
  ASSUME NEW bs, NEW ws, NEW st, NEW td, NEW cs, NEW bs2, NEW ws2, NEW st2, NEW td2, NEW b \in td,
         NetOK(bs, ws), td \subseteq DOMAIN bs, BalanceOK(bs, ws, st, td, cs), ConstantsOK(bs, ws, cs), LateOK(bs),
         Balances(bs, ws, st, td, cs, bs2, ws2, st2, td2, b)
  PROVE  /\ CanInsert(bs, ws, "balance", "PipelineRegister", Crossing(bs, ws, st, cs, b))
         /\ td2 \subseteq DOMAIN bs2 /\ BalanceOK(bs2, ws2, st2, td2, cs) /\ ConstantsOK(bs2, ws2, cs) /\ LateOK(bs2)
  <1> DEFINE leg == [w \in ws |-> 1]
  <1>1. PICK long : long = Crossing(bs, ws, st, cs, b)
    OBVIOUS
  <1>2. IsNetlist(bs, ws) /\ b \in DOMAIN bs /\ StatsOK(bs, st) /\ DOMAIN st = DOMAIN bs
    BY DEF NetOK, BalanceOK, StatsOK
  <1>3. \A w \in ws : /\ IsWire(w) /\ w[1] = <<w[1][1], w[1][2]>> /\ w[2] = <<w[2][1], w[2][2]>>
                      /\ w[1][1] \in DOMAIN bs /\ w[2][1] \in DOMAIN bs
    <2> TAKE w \in ws
    <2>1. /\ w = <<<<w[1][1], w[1][2]>>, <<w[2][1], w[2][2]>>>>
          /\ w[1][1] \in DOMAIN bs /\ w[2][1] \in DOMAIN bs
      BY <1>2 DEF IsNetlist
    <2> QED
      BY <2>1, WireEnds
  <1>4. \A w \in long : /\ w \in ws /\ w[1][1] = b /\ b \notin cs /\ w[1] = <<b, w[1][2]>>
                        /\ st[w[2][1]].depth - st[b].depth > Extra(bs, b) /\ w[2][1] \in DOMAIN bs
    BY <1>1, <1>3 DEF Crossing, WiresBehind
  <1>5. CanInsert(bs, ws, "balance", "PipelineRegister", long)
    <2>1. ASSUME NEW w \in long
          PROVE  Place("balance", w[1]) \notin DOMAIN bs
      <3>1. w[1] = <<b, w[1][2]>>
        BY <1>4
      <3>2. Place("balance", <<b, w[1][2]>>) \notin DOMAIN bs
        BY DEF BalanceOK
      <3> QED
        BY <3>1, <3>2
    <2> QED
      BY <1>4, <2>1 DEF CanInsert
  <1>6. Inserts(bs, ws, bs2, ws2, "balance", "PipelineRegister", long, leg)
    BY <1>1 DEF Balances
  <1>7. Insertion(bs, ws, bs2, ws2, "balance", "PipelineRegister", long, leg)
    <2> HIDE DEF leg
    <2> QED
      BY <1>2, <1>5, <1>6, InsertedWires
  <1> DEFINE regs == {Place("balance", w[1]) : w \in long}
             depth == st[b].depth + Extra(bs, b)
  <1>8. /\ st2 = [c \in DOMAIN st \cup regs |-> IF c \in regs THEN [depth |-> depth, visits |-> 1] ELSE st[c]]
        /\ td2 = (td \ {b}) \cup regs
    BY <1>1 DEF Balances
  <1>9. /\ DOMAIN bs2 = DOMAIN bs \cup regs /\ regs \cap DOMAIN bs = {}
        /\ \A c \in DOMAIN bs : bs2[c] = bs[c] /\ st2[c] = st[c] /\ Extra(bs2, c) = Extra(bs, c)
        /\ \A c \in regs : /\ bs2[c].class = "PipelineRegister" /\ bs2[c].ins = {1} /\ Extra(bs2, c) = 1
                           /\ st2[c] = [depth |-> depth, visits |-> 1]
    <2>1. /\ DOMAIN bs2 = DOMAIN bs \cup regs /\ regs \cap DOMAIN bs = {}
          /\ \A c \in DOMAIN bs : bs2[c] = bs[c]
          /\ \A c \in regs : bs2[c] = Block("PipelineRegister", {1})
      BY <1>7 DEF Insertion
    <2> HIDE DEF regs, depth
    <2>2. /\ \A c \in regs : st2[c] = [depth |-> depth, visits |-> 1]
          /\ \A c \in DOMAIN bs : st2[c] = st[c]
      BY <1>2, <1>8, <2>1
    <2> QED
      BY <2>1, <2>2 DEF Block, Extra
  <1>10. depth \in Nat /\ Extra(bs, b) \in {0, 1} /\ \A c \in DOMAIN bs : st[c].depth \in Nat
    BY <1>2 DEF StatsOK, Extra
  <1>11. \A w \in long : Place("balance", w[1]) \in regs
    OBVIOUS
  <1>12. \A r \in regs : \E w \in long : r = Place("balance", w[1]) /\ depth < st[w[2][1]].depth
    BY <1>4, <1>10
  <1>13. \A w \in ws2 : \/ w \in ws \ long
                        \/ \E v \in long : w[1] = v[1] /\ w[2] = <<Place("balance", v[1]), 1>>
                        \/ \E v \in long : w[1][1] = Place("balance", v[1]) /\ w[2] = v[2]
    BY <1>7 DEF Insertion
  <1> HIDE DEF leg, regs, depth
  <1>14. StatsOK(bs2, st2)
    <2>1. DOMAIN st2 = DOMAIN bs2 /\ st2 = [c \in DOMAIN st2 |-> st2[c]]
      BY <1>2, <1>8, <1>9
    <2>2. ASSUME NEW c \in DOMAIN bs2
          PROVE  st2[c] \in [depth : Nat, visits : Nat]
      <3>1. CASE c \in DOMAIN bs
        BY <1>2, <1>9, <3>1 DEF StatsOK
      <3>2. CASE c \in regs
        BY <1>9, <1>10, <3>2
      <3> QED
        BY <1>9, <3>1, <3>2
    <2> QED
      BY <2>1, <2>2 DEF StatsOK
  <1>15. SourcesFirst(bs2, st2)
    <2> SUFFICES ASSUME NEW c \in DOMAIN bs2, bs2[c].ins = {}
                 PROVE  st2[c].depth = 0
      BY DEF SourcesFirst
    <2>1. c \in DOMAIN bs
      BY <1>9
    <2> QED
      BY <1>9, <2>1 DEF BalanceOK, SourcesFirst
  <1>16. Late(bs2) = Late(bs)
    <2>1. \A r \in regs : ~IsLate(r)
      <3> SUFFICES ASSUME NEW r \in regs, NEW o, r = Place("reg", o)
                   PROVE  FALSE
        BY DEF IsLate
      <3>1. PICK w \in long : r = Place("balance", w[1])
        BY <1>12
      <3> QED
        BY <3>1 DEF Place
    <2> QED
      BY <1>9, <2>1 DEF Late
  <1>17. Backed(bs2, st2)
    <2> SUFFICES ASSUME NEW c \in DOMAIN bs2, NEW k \in Nat, k < st2[c].depth
                 PROVE  \E r \in Late(bs2) : Ready(bs2, st2, r) /\ st2[r].depth = k
      BY DEF Backed
    <2>1. \E x \in DOMAIN bs : k < st[x].depth
      <3>1. CASE c \in DOMAIN bs
        BY <1>9, <3>1
      <3>2. CASE c \in regs
        <4>1. PICK w \in long : depth < st[w[2][1]].depth
          BY <1>12, <3>2
        <4>2. k < depth
          BY <1>9, <3>2
        <4>3. w[2][1] \in DOMAIN bs /\ st[w[2][1]].depth \in Nat
          BY <1>4, <1>10
        <4> QED
          BY <1>10, <4>1, <4>2, <4>3
      <3> QED
        BY <1>9, <3>1, <3>2
    <2>2. PICK r \in Late(bs) : Ready(bs, st, r) /\ st[r].depth = k
      BY <2>1 DEF BalanceOK, Backed
    <2>3. r \in DOMAIN bs
      BY DEF Late
    <2> QED
      BY <1>9, <1>16, <2>2, <2>3 DEF Ready
  <1>18. ASSUME NEW c, NEW n, Place("balance", <<c, n>>) \in DOMAIN bs2
         PROVE  c \in DOMAIN bs2 \ td2
    <2>1. CASE Place("balance", <<c, n>>) \in DOMAIN bs
      <3>1. c \in DOMAIN bs \ td
        BY <2>1 DEF BalanceOK
      <3> QED
        BY <1>8, <1>9, <3>1
    <2>2. CASE Place("balance", <<c, n>>) \in regs
      <3>1. PICK w \in long : Place("balance", <<c, n>>) = Place("balance", w[1])
        BY <1>12, <2>2
      <3>2. w[1] = <<b, w[1][2]>>
        BY <1>4
      <3>3. <<c, n>> = <<b, w[1][2]>>
        BY <3>1, <3>2 DEF Place
      <3>4. c = b
        BY <3>3
      <3> QED
        BY <1>2, <1>8, <1>9, <3>4
    <2> QED
      BY <1>9, <1>18, <2>1, <2>2
  <1>19. ASSUME NEW c \in DOMAIN bs2
         PROVE  st2[c].visits = Cardinality(bs2[c].ins)
    <2>1. CASE c \in DOMAIN bs
      BY <1>9, <2>1 DEF BalanceOK
    <2>2. CASE c \in regs
      <3>1. bs2[c].ins = {1} /\ st2[c].visits = 1
        BY <1>9, <2>2
      <3>2. Cardinality({1}) = 1
        BY FS_Singleton
      <3> QED
        BY <3>1, <3>2
    <2> QED
      BY <1>9, <2>1, <2>2
  <1>20. ASSUME NEW w \in ws2
         PROVE  /\ BringsOf(bs2, st2, w) <= st2[w[2][1]].depth
                /\ w[1][1] \notin td2 \cup cs => BringsOf(bs2, st2, w) = st2[w[2][1]].depth
    <2>1. CASE w \in ws \ long
      <3>1. /\ BringsOf(bs2, st2, w) = BringsOf(bs, st, w) /\ st2[w[2][1]] = st[w[2][1]]
            /\ w[1][1] \in DOMAIN bs /\ w[2][1] \in DOMAIN bs
        BY <1>3, <1>9, <2>1 DEF BringsOf
      <3>2. /\ BringsOf(bs, st, w) <= st[w[2][1]].depth
            /\ w[1][1] \notin td \cup cs => BringsOf(bs, st, w) = st[w[2][1]].depth
        BY <2>1 DEF BalanceOK
      <3>3. ASSUME w[1][1] = b, b \notin cs
            PROVE  BringsOf(bs, st, w) = st[w[2][1]].depth
        <4>1. ~(st[w[2][1]].depth - st[b].depth > Extra(bs, b))
          BY <1>1, <2>1, <3>3 DEF Crossing, WiresBehind
        <4>2. BringsOf(bs, st, w) = st[b].depth + Extra(bs, b)
          BY <3>3 DEF BringsOf
        <4>3. st[w[2][1]].depth \in Nat /\ st[b].depth \in Nat
          BY <1>2, <1>10, <3>1
        <4> QED
          BY <1>10, <3>2, <4>1, <4>2, <4>3
      <3>4. w[1][1] \notin td2 \cup cs => w[1][1] \notin td \cup cs \/ (w[1][1] = b /\ b \notin cs)
        BY <1>8
      <3> QED
        BY <3>1, <3>2, <3>3, <3>4
    <2>2. ASSUME NEW v \in long, w[1] = v[1], w[2] = <<Place("balance", v[1]), 1>>
          PROVE  BringsOf(bs2, st2, w) = st2[w[2][1]].depth /\ BringsOf(bs2, st2, w) \in Nat
      <3>1. w[1][1] = b /\ w[2][1] = Place("balance", v[1])
        BY <1>4, <2>2
      <3>2. BringsOf(bs2, st2, w) = depth /\ st2[w[2][1]].depth = depth
        BY <1>2, <1>9, <1>11, <3>1 DEF BringsOf, depth
      <3> QED
        BY <1>10, <3>2
    <2>3. ASSUME NEW v \in long, w[1][1] = Place("balance", v[1]), w[2] = v[2]
          PROVE  BringsOf(bs2, st2, w) <= st2[w[2][1]].depth /\ w[1][1] \in td2
      <3>1. BringsOf(bs2, st2, w) = depth + 1 /\ st2[w[2][1]] = st[v[2][1]]
        BY <1>4, <1>9, <1>11, <2>3 DEF BringsOf
      <3>2. st[v[2][1]].depth - st[b].depth > Extra(bs, b) /\ st[v[2][1]].depth \in Nat /\ st[b].depth \in Nat
        BY <1>2, <1>4, <1>10
      <3>3. depth = st[b].depth + Extra(bs, b)
        BY DEF depth
      <3>4. w[1][1] \in td2
        BY <1>8, <1>11, <2>3
      <3> QED
        BY <1>10, <3>1, <3>2, <3>3, <3>4
    <2> QED
      BY <1>13, <2>1, <2>2, <2>3
  <1>21. ConstantsOK(bs2, ws2, cs)
    <2>1. \A w \in ws2 : w[2][1] \in cs => w[1][1] \in cs
      <3> SUFFICES ASSUME NEW w \in ws2, w[2][1] \in cs
                   PROVE  w[1][1] \in cs
        OBVIOUS
      <3>1. CASE w \in ws \ long
        BY <3>1 DEF ConstantsOK
      <3>2. ~ \E v \in long : w[2] = <<Place("balance", v[1]), 1>>
        BY <1>9, <1>11 DEF ConstantsOK
      <3>3. ~ \E v \in long : w[2] = v[2]
        BY <1>4 DEF ConstantsOK
      <3> QED
        BY <1>13, <3>1, <3>2, <3>3
    <2> QED
      BY <1>9, <2>1 DEF ConstantsOK
  <1>22. LateOK(bs2)
    BY <1>9, <1>16 DEF LateOK
  <1>23. td2 \subseteq DOMAIN bs2
    BY <1>8, <1>9
  <1> QED
    BY <1>1, <1>5, <1>14, <1>15, <1>17, <1>18, <1>19, <1>20, <1>21, <1>22, <1>23 DEF BalanceOK

\* No wire behind a block goes back in depth.
LEMMA Agree ==
  ASSUME NEW bs, NEW ws, NEW st, NEW td, NEW cs, IsNetlist(bs, ws), BalanceOK(bs, ws, st, td, cs),
         NEW b \in DOMAIN bs, NEW w \in WiresBehind(ws, b)
  PROVE  /\ st[w[2][1]].depth >= st[b].depth
         /\ bs[b].class = "PipelineRegister" => st[w[2][1]].depth - st[b].depth # 0
  <1>1. w \in ws /\ w[1][1] = b /\ w[2][1] \in DOMAIN bs
    BY DEF WiresBehind, IsNetlist
  <1>2. st[b].depth \in Nat /\ st[w[2][1]].depth \in Nat
    BY <1>1 DEF BalanceOK, StatsOK
  <1>3. st[b].depth + Extra(bs, b) <= st[w[2][1]].depth
    BY <1>1 DEF BalanceOK, BringsOf
  <1> QED
    BY <1>2, <1>3 DEF Extra

\* When all blocks are balanced every register has a stage, and there is one
\* output to control.
LEMMA Fits ==
  ASSUME NEW bs, NEW ws, NEW st, NEW td, NEW cs, NEW last, NetOK(bs, ws), Fed(bs, ws), OneOutput(bs), LateOK(bs),
         BalanceOK(bs, ws, st, td, cs), last = Largest({st[b].depth : b \in DOMAIN st})
  PROVE  /\ last \in Nat /\ \A b \in DOMAIN bs : st[b].depth <= last
         /\ \E b \in DOMAIN bs : st[b].depth = last
         /\ \A b \in DOMAIN st : st[b].visits = Cardinality(bs[b].ins)
         /\ \A b \in DOMAIN bs : bs[b].class = "PipelineRegister" => WiresBehind(ws, b) # {} /\ st[b].depth < last
         /\ last > 0 => /\ \E b \in DOMAIN bs : bs[b].class = "Input"
                        /\ Cardinality(OutputsOf(bs)) = 1
  <1> DEFINE depth == [b \in DOMAIN bs |-> st[b].depth]
             S == {depth[b] : b \in DOMAIN bs}
  <1>1. /\ st \in [DOMAIN bs -> [depth : Nat, visits : Nat]] /\ DOMAIN st = DOMAIN bs
        /\ \A b \in DOMAIN bs : st[b].depth \in Nat
    BY DEF BalanceOK, StatsOK
  <1>2. IsFiniteSet(DOMAIN bs) /\ \A w \in ws : w[2][1] \in DOMAIN bs
    BY DEF NetOK, IsNetlist
  <1>3. S \in SUBSET Nat /\ last = Largest(S)
    BY <1>1
  <1>4. IsFiniteSet(S)
    <2> HIDE DEF depth
    <2> QED
      BY <1>2, FiniteImage
  <1>5. PICK o \in DOMAIN bs : bs[o].class = "Output"
    BY DEF NetOK, HasRoles
  <1>6. S # {}
    BY <1>5
  <1>7. last \in S /\ \A m \in S : m <= last
    <2> HIDE DEF S
    <2> QED
      BY <1>3, <1>4, <1>6, LargestIs
  <1>8. /\ last \in Nat /\ \A b \in DOMAIN bs : st[b].depth <= last
        /\ \E b \in DOMAIN bs : st[b].depth = last
    BY <1>3, <1>7
  <1>9. ASSUME NEW b \in DOMAIN bs, bs[b].class = "PipelineRegister"
        PROVE  WiresBehind(ws, b) # {} /\ st[b].depth < last
    <2>1. PICK w \in ws : w[1][1] = b
      BY <1>9 DEF Fed
    <2>2. BringsOf(bs, st, w) = st[b].depth + 1 /\ BringsOf(bs, st, w) <= st[w[2][1]].depth
      BY <1>9, <2>1 DEF BalanceOK, BringsOf, Extra
    <2>3. st[w[2][1]].depth <= last /\ st[w[2][1]].depth \in Nat /\ st[b].depth \in Nat
      BY <1>1, <1>2, <1>8
    <2>4. st[b].depth < last
      BY <1>8, <2>2, <2>3
    <2> QED
      BY <2>1, <2>4 DEF WiresBehind
  <1>10. ASSUME last > 0
         PROVE  \E b \in DOMAIN bs : bs[b].class = "Input"
    <2>1. PICK b \in DOMAIN bs : st[b].depth = last
      BY <1>8
    <2>2. Late(bs) # {}
      BY <1>10, <2>1 DEF BalanceOK, Backed
    <2> QED
      BY <2>2 DEF LateOK
  <1>11. Cardinality(OutputsOf(bs)) = 1
    <2>1. OutputsOf(bs) = {o}
      BY <1>5 DEF OutputsOf, OneOutput
    <2> QED
      BY <2>1, FS_Singleton
  <1>12. \A b \in DOMAIN st : st[b].visits = Cardinality(bs[b].ins)
    BY <1>1 DEF BalanceOK
  <1> QED
    BY <1>8, <1>9, <1>10, <1>11, <1>12

-----------------------------------------------------------------------------
(* The invariant                                                           *)

\* What the schedule is in each phase.
ScheduleInv ==
  /\ phase = "depths" => /\ \E seen \in SUBSET wires : SearchOK(blocks, wires, stats, queue, seen)
                         /\ SourcesFirst(blocks, stats)
  /\ phase \in {"depths", "balance", "run"} => ConstantsOK(blocks, wires, constants)
  /\ phase \in {"balance", "run"} =>
       /\ todo \subseteq DOMAIN blocks
       /\ BalanceOK(blocks, wires, stats, todo, constants)
  /\ phase = "run" => todo = {}

\* The invariant.
Inv == NetInv /\ ScheduleInv

\* What a step does to the netlist.
NetStep(bs, ws, bs2, ws2) ==
  \/ bs2 = bs /\ ws2 = ws
  \/ \E b \in DOMAIN bs : bs[b].class \in {"Wait", "Fork"} /\ Eliminates(bs, ws, bs2, ws2, b)
  \/ /\ Without(bs, {"Wait", "Fork"}) /\ Joined \notin DOMAIN bs /\ JoinedOut \notin DOMAIN bs
     /\ Unifies(bs, ws, bs2, ws2)
  \/ \E used : Restricts(bs, ws, bs2, ws2, used)
  \/ \E tag, class, taken, leg :
       CanInsert(bs, ws, tag, class, taken) /\ Inserts(bs, ws, bs2, ws2, tag, class, taken, leg)

\* A region is a netlist that nothing was done with.
LEMMA InitInv ==
  ASSUME Init
  PROVE  Inv
  <1>1. phase = "finalize" /\ IsRegion(region) /\ blocks = region.blocks /\ wires = region.wires
    BY RegionsOK DEF Init
  <1>2. IsNetlist(blocks, wires) /\ IsRanked(blocks, wires, Cardinality(DOMAIN blocks))
    BY <1>1 DEF IsRegion
  <1>3. Acyclic(blocks, wires)
    <2>1. Cardinality(DOMAIN blocks) \in Nat
      BY <1>2, FS_CardinalityType DEF IsNetlist
    <2> QED
      BY <1>2, <2>1 DEF Acyclic
  <1>4. HasRoles(blocks, wires)
    <2>1. ASSUME NEW b \in DOMAIN blocks
          PROVE  /\ blocks[b].class \in {"Input", "Constant"} => blocks[b].ins = {}
                 /\ blocks[b].class \in {"Output", "Fork", "PipelineRegister"} => blocks[b].ins = {1}
                 /\ blocks[b].class = "Wait" => 1 \in blocks[b].ins
      <3>1. /\ blocks[b].class \in DOMAIN Ports => blocks[b].ins \in Ports[blocks[b].class]
            /\ blocks[b].class = "Wait" => 1 \in blocks[b].ins
            /\ blocks[b].class # "PipelineRegister"
        BY <1>1 DEF IsRegion
      <3>2. /\ DOMAIN Ports = {"Input", "Constant", "Output", "Fork"}
            /\ Ports["Input"] = {{}} /\ Ports["Constant"] = {{}} /\ Ports["Output"] = {{1}} /\ Ports["Fork"] = {{1}}
        BY DEF Ports
      <3> QED
        BY <3>1, <3>2
    <2>2. /\ \A w \in wires : blocks[w[1][1]].class # "Output"
          /\ \E b \in DOMAIN blocks : blocks[b].class = "Output"
      BY <1>1 DEF IsRegion
    <2> QED
      BY <2>1, <2>2 DEF HasRoles
  <1>5. /\ Named(blocks, TagsAt(phase))
        /\ Without(blocks, {"PipelineRegister"})
    BY <1>1 DEF IsRegion, Named, Without
  <1> QED
    BY <1>1, <1>2, <1>3, <1>4, <1>5 DEF Inv, NetInv, ScheduleInv, NetOK, Phases

\* Taking out a Wait or Fork.
LEMMA EliminateInv ==
  ASSUME Inv, NEW b \in DOMAIN blocks, Eliminate(b)
  PROVE  Inv' /\ NetStep(blocks, wires, blocks', wires')
  <1>1. /\ phase = "finalize" /\ phase' = "finalize" /\ blocks[b].class \in {"Wait", "Fork"}
        /\ Eliminates(blocks, wires, blocks', wires', b)
    BY DEF Eliminate, Eliminates, All, Class, Behind
  <1>2. /\ NetOK(blocks, wires) /\ Named(blocks, TagsAt(phase))
        /\ Without(blocks, {"PipelineRegister"})
    BY <1>1 DEF Inv, NetInv
  <1>3. NetOK(blocks', wires')
    BY <1>1, <1>2, EliminateKeeps
  <1>4. \A c \in DOMAIN blocks' : c \in DOMAIN blocks /\ blocks'[c] = blocks[c]
    BY <1>1 DEF Eliminates
  <1>5. Named(blocks', TagsAt(phase')) /\ Without(blocks', {"PipelineRegister"})
    BY <1>1, <1>2, <1>4 DEF Named, Without
  <1> QED
    BY <1>1, <1>3, <1>5 DEF Inv, NetInv, ScheduleInv, Phases, NetStep

\* Joining the outputs.
LEMMA UnifyInv ==
  ASSUME Inv, unifyOutput
  PROVE  Inv' /\ NetStep(blocks, wires, blocks', wires')
  <1>1. /\ phase = "finalize" /\ phase' = "simplify"
        /\ All("Wait") \cup All("Fork") = {} /\ All("Output") = OutputsOf(blocks)
    BY DEF unifyOutput, All, Class, OutputsOf
  <1>2. /\ NetOK(blocks, wires) /\ Named(blocks, {})
        /\ Without(blocks, {"PipelineRegister"})
    BY <1>1 DEF Inv, NetInv, TagsAt
  <1>3. Without(blocks, {"Wait", "Fork"})
    BY <1>1 DEF All, Class, Without
  <1>4. IsFiniteSet(OutputsOf(blocks)) /\ Cardinality(OutputsOf(blocks)) \in Nat
    <2>1. IsFiniteSet(DOMAIN blocks) /\ OutputsOf(blocks) \in SUBSET DOMAIN blocks
      BY <1>2 DEF NetOK, IsNetlist, OutputsOf
    <2>2. IsFiniteSet(OutputsOf(blocks))
      BY <2>1, FS_Subset
    <2> QED
      BY <2>2, FS_CardinalityType
  <1>5. /\ NetOK(blocks', wires') /\ OneOutput(blocks') /\ Named(blocks', {"unify"})
        /\ Without(blocks', {"PipelineRegister"}) /\ Without(blocks', {"Wait", "Fork"})
        /\ NetStep(blocks, wires, blocks', wires')
    <2>1. CASE Cardinality(OutputsOf(blocks)) <= 1
      <3>1. blocks' = blocks /\ wires' = wires
        BY <1>1, <2>1 DEF unifyOutput, netVars
      <3>2. ASSUME NEW b \in OutputsOf(blocks), NEW c \in OutputsOf(blocks), b # c
            PROVE  FALSE
        <4>1. IsFiniteSet({b}) /\ Cardinality({b}) = 1
          BY FS_Singleton
        <4>2. Cardinality({b} \cup {c}) = 2
          BY <3>2, <4>1, FS_AddElement
        <4>3. {b} \cup {c} \in SUBSET OutputsOf(blocks)
          OBVIOUS
        <4>4. Cardinality({b} \cup {c}) <= Cardinality(OutputsOf(blocks))
          BY <1>4, <4>3, FS_Subset
        <4> QED
          BY <1>4, <2>1, <4>2, <4>4
      <3>3. OneOutput(blocks)
        BY <3>2 DEF OneOutput, OutputsOf
      <3>4. Named(blocks, {"unify"})
        BY <1>2 DEF Named
      <3> QED
        BY <1>2, <1>3, <3>1, <3>3, <3>4 DEF NetStep
    <2>2. CASE ~(Cardinality(OutputsOf(blocks)) <= 1)
      <3>1. Unifies(blocks, wires, blocks', wires')
        <4>1. PICK outs : outs = All("Output") /\ outs = OutputsOf(blocks)
          BY <1>1
        <4>2. ~(Cardinality(outs) <= 1)
          BY <2>2, <4>1
        <4>3. wires' = {IF w[2][1] \in outs THEN <<w[1], <<Joined, w[2][1]>>>> ELSE w : w \in wires}
                         \cup {<<<<Joined, 1>>, <<JoinedOut, 1>>>>}
          BY <4>1, <4>2 DEF unifyOutput, Joined, JoinedOut
        <4>4. blocks' = [b \in (DOMAIN blocks \ outs) \cup {Joined, JoinedOut} |->
                           CASE b = Joined    -> Block("Join", outs)
                             [] b = JoinedOut -> Block("Output", {1})
                             [] OTHER         -> blocks[b]]
          BY <4>1, <4>2 DEF unifyOutput, Joined, JoinedOut
        <4> QED
          BY <4>1, <4>3, <4>4 DEF Unifies, ToJoin
      <3>2. Joined = Place("unify", "join") /\ JoinedOut = Place("unify", "out")
        BY DEF Joined, JoinedOut, Place
      <3>3. Joined \notin DOMAIN blocks /\ JoinedOut \notin DOMAIN blocks
        BY <1>2, <3>2, Fresh
      <3>4. NetOK(blocks', wires') /\ OneOutput(blocks')
        BY <1>2, <3>1, <3>3, UnifyKeeps
      <3>5. \A c \in DOMAIN blocks' : \/ c \in DOMAIN blocks /\ blocks'[c] = blocks[c]
                                      \/ c \in {Joined, JoinedOut} /\ blocks'[c].class \in {"Join", "Output"}
        BY <3>1 DEF Unifies, Block
      <3>6. NetStep(blocks, wires, blocks', wires')
        BY <1>3, <3>1, <3>3 DEF NetStep
      <3> QED
        BY <1>2, <1>3, <3>2, <3>4, <3>5, <3>6 DEF Named, Without
    <2> QED
      BY <1>4, <2>1, <2>2
  <1> QED
    BY <1>1, <1>5 DEF Inv, NetInv, ScheduleInv, Phases, TagsAt

\* Leaving out what is not used.
LEMMA SimplifyInv ==
  ASSUME Inv, Simplify
  PROVE  Inv' /\ NetStep(blocks, wires, blocks', wires')
  <1>1. phase = "simplify" /\ phase' = "forks"
    BY DEF Simplify
  <1>2. PICK used \in SUBSET DOMAIN blocks : Restricts(blocks, wires, blocks', wires', used)
    BY DEF Simplify, Restricts, Behind, Class
  <1>3. /\ NetOK(blocks, wires) /\ Named(blocks, TagsAt("simplify")) /\ OneOutput(blocks)
        /\ Without(blocks, {"PipelineRegister"}) /\ Without(blocks, {"Wait", "Fork"})
    BY <1>1 DEF Inv, NetInv
  <1>4. NetOK(blocks', wires') /\ Fed(blocks', wires') /\ OneOutput(blocks')
    BY <1>2, <1>3, RestrictKeeps
  <1>5. \A c \in DOMAIN blocks' : c \in DOMAIN blocks /\ blocks'[c] = blocks[c]
    BY <1>2 DEF Restricts
  <1>6. /\ Named(blocks', TagsAt("forks")) /\ Without(blocks', {"PipelineRegister"})
        /\ Without(blocks', {"Wait", "Fork"})
    BY <1>3, <1>5 DEF Named, Without, TagsAt
  <1>7. NetStep(blocks, wires, blocks', wires')
    BY <1>2 DEF NetStep
  <1> QED
    BY <1>1, <1>4, <1>6, <1>7 DEF Inv, NetInv, ScheduleInv, Phases

\* What an insertion does to the names and the classes.
Adds(bs, bs2, tag, class, taken) ==
  /\ DOMAIN bs2 = DOMAIN bs \cup {Place(tag, w[1]) : w \in taken}
  /\ \A b \in DOMAIN bs2 : \/ b \in DOMAIN bs /\ bs2[b] = bs[b]
                           \/ bs2[b].class = class /\ \E w \in taken : b = Place(tag, w[1])

\* An insertion adds blocks of one class, with new names.
LEMMA InsertedBlocks ==
  ASSUME NEW bs, NEW ws, NEW bs2, NEW ws2, NEW tag, NEW class, NEW taken, NEW leg,
         Inserts(bs, ws, bs2, ws2, tag, class, taken, leg)
  PROVE  Adds(bs, bs2, tag, class, taken)
  BY DEF Adds, Inserts, Block

\* Making the forks.
LEMMA ForksInv ==
  ASSUME Inv, SynthesizeForks
  PROVE  Inv' /\ NetStep(blocks, wires, blocks', wires')
  <1> DEFINE taken == {w \in wires : \E v \in wires \ {w} : v[1] = w[1]}
             leg == [w \in wires |-> w[2]]
  <1>1. /\ phase = "forks" /\ phase' = "frequency"
        /\ Inserts(blocks, wires, blocks', wires', "fork", "VirtualFork", taken, leg)
    BY DEF SynthesizeForks, InsertAfter, Inserts
  <1>2. /\ NetOK(blocks, wires) /\ Named(blocks, {"unify"}) /\ OneOutput(blocks) /\ Fed(blocks, wires)
        /\ Without(blocks, {"PipelineRegister"}) /\ Without(blocks, {"Wait", "Fork"})
    BY <1>1 DEF Inv, NetInv, TagsAt
  <1>3. CanInsert(blocks, wires, "fork", "VirtualFork", taken)
    BY <1>2, Fresh DEF CanInsert
  <1> HIDE DEF taken, leg
  <1>4. NetOK(blocks', wires') /\ Fed(blocks', wires') /\ OneOutput(blocks')
    BY <1>1, <1>2, <1>3, InsertKeeps
  <1>5. \A b \in DOMAIN blocks' : \/ b \in DOMAIN blocks /\ blocks'[b] = blocks[b]
                                  \/ blocks'[b].class = "VirtualFork" /\ \E w \in taken : b = Place("fork", w[1])
    <2>1. Adds(blocks, blocks', "fork", "VirtualFork", taken)
      BY <1>1, InsertedBlocks
    <2> QED
      BY <2>1 DEF Adds
  <1>6. Named(blocks', TagsAt("frequency"))
    BY <1>2, <1>5 DEF Named, TagsAt
  <1>7. Without(blocks', {"PipelineRegister"}) /\ Without(blocks', {"Wait", "Fork"})
    BY <1>2, <1>5 DEF Without
  <1>8. NetStep(blocks, wires, blocks', wires')
    BY <1>1, <1>3 DEF NetStep
  <1> QED
    BY <1>1, <1>4, <1>6, <1>7, <1>8 DEF Inv, NetInv, ScheduleInv, Phases

\* What the delays of the inputs reach, and what constants alone drive.
FromInputs(bs, ws, reached) ==
  /\ reached \subseteq DOMAIN bs
  /\ \A b \in reached : bs[b].class = "Input" \/ \E w \in WiresInto(ws, b) : w[1][1] \in reached
FromConstants(bs, ws, cs) ==
  /\ cs \subseteq DOMAIN bs
  /\ \A b \in cs : bs[b].class = "Constant" \/ (bs[b].ins # {} /\ \A w \in WiresInto(ws, b) : w[1][1] \in cs)
Reached(bs, reached, cs) ==
  /\ reached # {} => \E b \in DOMAIN bs : bs[b].class = "Input"
  /\ reached \cap cs = {}

\* The first has an input and none of the second.
LEMMA ReachedAre ==
  ASSUME NEW bs, NEW ws, NetOK(bs, ws), NEW reached, FromInputs(bs, ws, reached), NEW cs, FromConstants(bs, ws, cs)
  PROVE  Reached(bs, reached, cs)
  <1>0. reached \in SUBSET DOMAIN bs /\ cs \in SUBSET DOMAIN bs
    BY DEF FromInputs, FromConstants
  <1>1. PICK height \in Nat : IsRanked(bs, ws, height)
    BY DEF NetOK, Acyclic
  <1>2. PICK rank \in [DOMAIN bs -> 1..height] : \A w \in ws : rank[w[1][1]] < rank[w[2][1]]
    BY <1>1 DEF IsRanked
  <1>3. ASSUME NEW b \in DOMAIN bs, NEW w \in WiresInto(ws, b)
        PROVE  w[1][1] \in DOMAIN bs /\ ~(rank[b] <= rank[w[1][1]]) /\ bs[b].ins # {}
    <2>1. w \in ws /\ w[2][1] = b /\ w[1][1] \in DOMAIN bs /\ w[2][2] \in bs[b].ins
      BY <1>3 DEF WiresInto, NetOK, IsNetlist
    <2>2. rank[w[1][1]] < rank[b] /\ rank[w[1][1]] \in Nat /\ rank[b] \in Nat
      BY <1>1, <1>2, <2>1
    <2> QED
      BY <2>1, <2>2
  <1>4. ASSUME reached # {}
        PROVE  \E b \in DOMAIN bs : bs[b].class = "Input"
    <2>1. PICK b \in reached : \A c \in reached : rank[b] <= rank[c]
      BY <1>0, <1>1, <1>2, <1>4, Lowest
    <2> QED
      BY <1>0, <1>3, <2>1 DEF FromInputs
  <1>5. ASSUME reached \cap cs # {}
        PROVE  FALSE
    <2>1. PICK b \in reached \cap cs : \A c \in reached \cap cs : rank[b] <= rank[c]
      <3>1. reached \cap cs \in SUBSET DOMAIN bs
        BY <1>0
      <3> QED
        BY <1>1, <1>2, <1>5, <3>1, Lowest
    <2>2. b \in DOMAIN bs /\ (bs[b].class \in {"Input", "Constant"} => bs[b].ins = {})
      BY <1>0, <2>1 DEF NetOK, HasRoles
    <2>3. bs[b].class # "Input"
      BY <2>1, <2>2 DEF FromConstants
    <2>4. PICK w \in WiresInto(ws, b) : w[1][1] \in reached
      BY <2>1, <2>3 DEF FromInputs
    <2>5. w[1][1] \in DOMAIN bs /\ ~(rank[b] <= rank[w[1][1]]) /\ bs[b].ins # {}
      BY <1>3, <2>2, <2>4
    <2>6. w[1][1] \in cs
      BY <2>1, <2>2, <2>4, <2>5 DEF FromConstants
    <2> QED
      BY <2>1, <2>4, <2>5, <2>6
  <1> QED
    BY <1>4, <1>5 DEF Reached

\* The new registers are no more than the late outputs.
LEMMA LateAre ==
  ASSUME NEW bs, NEW ws, NEW bs2, NEW late, NetOK(bs, ws), \A b \in DOMAIN bs : ~IsLate(b),
         late \subseteq {w[1] : w \in ws}, Cardinality(late) <= MaxLate,
         NEW class, Adds(bs, bs2, "reg", class, {w \in ws : w[1] \in late})
  PROVE  Cardinality(Late(bs2)) <= MaxLate /\ (Late(bs2) # {} => late # {})
  <1> DEFINE to == [o \in late |-> Place("reg", o)]
             image == {to[o] : o \in late}
             ends == [w \in ws |-> w[1]]
  <1>1. IsFiniteSet(late)
    <2>1. IsFiniteSet({ends[w] : w \in ws})
      <3>1. IsFiniteSet(ws)
        BY DEF NetOK, IsNetlist
      <3> HIDE DEF ends
      <3> QED
        BY <3>1, FiniteImage
    <2>2. late \in SUBSET {ends[w] : w \in ws}
      OBVIOUS
    <2> HIDE DEF ends
    <2> QED
      BY <2>1, <2>2, FS_Subset
  <1>2. Late(bs2) \in SUBSET image
    BY DEF Late, Adds
  <1>3. IsFiniteSet(image) /\ Cardinality(image) <= Cardinality(late)
    <2>1. to \in Surjection(late, image)
      BY DEF Surjection
    <2> HIDE DEF to, image
    <2> QED
      BY <1>1, <2>1, FS_Surjection
  <1>4. image # {} => late # {}
    OBVIOUS
  <1> HIDE DEF image
  <1>5. IsFiniteSet(Late(bs2)) /\ Cardinality(Late(bs2)) <= Cardinality(image)
    BY <1>2, <1>3, FS_Subset
  <1>6. Cardinality(Late(bs2)) \in Nat /\ Cardinality(image) \in Nat /\ Cardinality(late) \in Nat /\ MaxLate \in Nat
    BY <1>1, <1>3, <1>5, FS_CardinalityType, BoundsNat
  <1> QED
    BY <1>2, <1>3, <1>4, <1>5, <1>6

\* Registers behind the late outputs, and the search starts.
LEMMA FrequencyInv ==
  ASSUME Inv, PipelineFrequency
  PROVE  Inv' /\ NetStep(blocks, wires, blocks', wires')
  <1>0. PICK reached \in SUBSET DOMAIN blocks :
          /\ AreReached(reached)
          /\ \E late \in SUBSET {w[1] : w \in {v \in wires : v[1][1] \in reached}} :
               /\ Cardinality(late) <= MaxLate
               /\ InsertAfter("reg", "PipelineRegister", {w \in wires : w[1] \in late}, dout)
    BY DEF PipelineFrequency
  <1>1. PICK late \in SUBSET {w[1] : w \in {v \in wires : v[1][1] \in reached}} :
          /\ AreReached(reached) /\ Cardinality(late) <= MaxLate
          /\ InsertAfter("reg", "PipelineRegister", {w \in wires : w[1] \in late}, dout)
    BY <1>0
  <1> DEFINE taken == {w \in wires : w[1] \in late}
  <1>2. /\ phase = "frequency" /\ phase' = "depths"
        /\ constants' \in SUBSET DOMAIN blocks /\ AreConstants(constants')
        /\ Inserts(blocks, wires, blocks', wires', "reg", "PipelineRegister", taken, dout)
        /\ stats' = [b \in DOMAIN blocks' |-> [depth |-> 0, visits |-> 0]]
        /\ queue' \in SetToSeqs({w \in wires' : blocks'[w[1][1]].ins = {}})
    BY <1>1 DEF PipelineFrequency, InsertAfter, Inserts
  <1>3. /\ NetOK(blocks, wires) /\ Named(blocks, {"unify", "fork"}) /\ OneOutput(blocks) /\ Fed(blocks, wires)
        /\ Without(blocks, {"PipelineRegister"}) /\ Without(blocks, {"Wait", "Fork"})
    BY <1>2 DEF Inv, NetInv, TagsAt
  <1>4. \A o : Place("reg", o) \notin DOMAIN blocks
    <2>1. "reg" \notin {"unify", "fork"}
      OBVIOUS
    <2> QED
      BY <1>3, <2>1, Fresh
  <1>5. CanInsert(blocks, wires, "reg", "PipelineRegister", taken)
    BY <1>4 DEF CanInsert
  <1>6. NetOK(blocks', wires') /\ Fed(blocks', wires') /\ OneOutput(blocks')
    <2> HIDE DEF taken
    <2> QED
      BY <1>2, <1>3, <1>5, InsertKeeps
  <1>7. Adds(blocks, blocks', "reg", "PipelineRegister", taken)
    <2> HIDE DEF taken
    <2> QED
      BY <1>2, InsertedBlocks
  <1>8. \A b \in DOMAIN blocks' : \/ b \in DOMAIN blocks /\ blocks'[b] = blocks[b]
                                  \/ blocks'[b].class = "PipelineRegister" /\ \E o : b = Place("reg", o)
    BY <1>7 DEF Adds
  <1>9. /\ reached # {} => \E b \in DOMAIN blocks : blocks[b].class = "Input"
        /\ reached \cap constants' = {}
    <2>1. FromInputs(blocks, wires, reached)
      BY <1>1 DEF FromInputs, AreReached, Class, Drivers, Into, WiresInto
    <2>2. FromConstants(blocks, wires, constants')
      BY <1>2 DEF FromConstants, AreConstants, Class, Drivers, Into, WiresInto
    <2>3. Reached(blocks, reached, constants')
      BY <1>3, <2>1, <2>2, ReachedAre
    <2> QED
      BY <2>3 DEF Reached
  <1>10. \A b \in DOMAIN blocks : ~IsLate(b)
    BY <1>4 DEF IsLate
  <1>11. LateOK(blocks')
    <2>1. late \subseteq {w[1] : w \in wires} /\ (late # {} => reached # {})
      OBVIOUS
    <2>2. Cardinality(Late(blocks')) <= MaxLate /\ (Late(blocks') # {} => late # {})
      BY <1>1, <1>3, <1>7, <1>10, <2>1, LateAre
    <2>3. \A b \in DOMAIN blocks : b \in DOMAIN blocks' /\ blocks'[b] = blocks[b]
      BY <1>2, <1>4 DEF Inserts
    <2> QED
      BY <1>9, <2>1, <2>2, <2>3 DEF LateOK
  <1>12. ConstantsOK(blocks', wires', constants')
    <2>1. \A b \in constants' : /\ b \in DOMAIN blocks /\ b \in DOMAIN blocks' /\ blocks'[b] = blocks[b]
      BY <1>2, <1>4 DEF Inserts
    <2>2. \A b \in constants' : \/ blocks[b].class = "Constant"
                                \/ blocks[b].ins # {} /\ Drivers(b) \subseteq constants'
      BY <1>2 DEF AreConstants, Class
    <2>3. \A b \in constants' : blocks[b].class \notin {"Input", "PipelineRegister"}
      <3>1. \A b \in DOMAIN blocks : /\ blocks[b].class = "Input" => blocks[b].ins = {}
                                     /\ blocks[b].class # "PipelineRegister"
        BY <1>3 DEF NetOK, HasRoles, Without
      <3> QED
        BY <2>1, <2>2, <3>1
    <2>4. \A w \in wires : w[2][1] \in constants' => w[1][1] \in constants'
      <3> SUFFICES ASSUME NEW w \in wires, w[2][1] \in constants'
                   PROVE  w[1][1] \in constants'
        OBVIOUS
      <3>1. blocks[w[2][1]].ins # {} /\ (blocks[w[2][1]].class = "Constant" => blocks[w[2][1]].ins = {})
        BY <1>3, <2>1 DEF NetOK, IsNetlist, HasRoles
      <3> QED
        BY <2>2, <3>1 DEF Drivers, Into
    <2>5. Insertion(blocks, wires, blocks', wires', "reg", "PipelineRegister", taken, dout)
      <3> HIDE DEF taken
      <3> QED
        BY <1>2, <1>3, <1>5, InsertedWires DEF NetOK
    <2>6. \A w \in wires' : \/ w \in wires
                            \/ \E v \in taken : w[2][1] = Place("reg", v[1])
                            \/ \E v \in taken : w[2] = v[2]
      <3> HIDE DEF taken
      <3> QED
        BY <2>5 DEF Insertion
    <2>7. \A v \in taken : v \in wires /\ v[1][1] \in reached
      OBVIOUS
    <2> HIDE DEF taken
    <2>8. \A w \in wires' : w[2][1] \in constants' => w \in wires
      BY <1>4, <1>9, <2>1, <2>4, <2>6, <2>7
    <2> QED
      BY <2>1, <2>3, <2>4, <2>8 DEF ConstantsOK
  <1>13. SearchOK(blocks', wires', stats', queue', {}) /\ SourcesFirst(blocks', stats')
    <2>1. IsNetlist(blocks', wires')
      BY <1>6 DEF NetOK
    <2> QED
      BY <1>2, <2>1, SearchStarts DEF SourcesFirst
  <1>14. Named(blocks', TagsAt("depths"))
    BY <1>3, <1>8 DEF Named, TagsAt
  <1>15. Without(blocks', {"Wait", "Fork"})
    BY <1>3, <1>8 DEF Without
  <1>16. \A b \in DOMAIN blocks' : blocks'[b].class = "PipelineRegister" => IsLate(b)
    BY <1>3, <1>8 DEF Without, IsLate
  <1> HIDE DEF taken
  <1>17. NetInv'
    BY <1>2, <1>6, <1>11, <1>14, <1>15, <1>16 DEF NetInv, Phases, All, Class
  <1>18. ScheduleInv'
    BY <1>2, <1>12, <1>13 DEF ScheduleInv
  <1>19. NetStep(blocks, wires, blocks', wires')
    BY <1>2, <1>5 DEF NetStep
  <1> QED
    BY <1>17, <1>18, <1>19 DEF Inv

\* The search visits a wire.
LEMMA VisitInv ==
  ASSUME Inv, VisitWire
  PROVE  Inv' /\ NetStep(blocks, wires, blocks', wires')
  <1>1. /\ phase = "depths" /\ phase' = "depths" /\ queue # <<>>
        /\ UNCHANGED <<blocks, wires, constants>>
    BY DEF VisitWire, netVars
  <1>2. Visits(blocks, wires, stats, queue, stats', queue')
    BY DEF VisitWire, Visits, Brings, BringsOf, Extra, IsReg, Class, WiresBehind, Behind
  <1>3. /\ NetInv /\ IsNetlist(blocks, wires) /\ ConstantsOK(blocks, wires, constants) /\ SourcesFirst(blocks, stats)
        /\ OnlyLate(blocks)
    BY <1>1 DEF Inv, NetInv, ScheduleInv, NetOK, All, Class, Late, OnlyLate
  <1>4. PICK seen \in SUBSET wires : SearchOK(blocks, wires, stats, queue, seen)
    BY <1>1 DEF Inv, ScheduleInv
  <1>5. SearchOK(blocks, wires, stats', queue', seen \cup {Head(queue)})
    <2> SUFFICES Finds(blocks, wires, stats', queue', queue, seen)
      BY DEF Finds
    <2> QED
      BY <1>1, <1>2, <1>3, <1>4, SearchKeeps DEF OnlyLate
  <1>6. PICK w, dst : Visit(blocks, wires, stats, queue, seen, stats', queue', w, dst)
    <2>1. Visit(blocks, wires, stats, queue, seen, stats', queue', Head(queue), Head(queue)[2][1])
      BY <1>1, <1>2, <1>3, <1>4, VisitIs
    <2> QED
      BY <2>1
  <1>7. SourcesFirst(blocks, stats')
    <2>1. /\ w \in wires /\ dst = w[2][1]
          /\ \A b \in DOMAIN blocks : b # dst => stats'[b] = stats[b]
      BY <1>6 DEF Visit
    <2>2. blocks[dst].ins # {}
      BY <1>3, <2>1 DEF IsNetlist
    <2> QED
      BY <1>3, <2>1, <2>2 DEF SourcesFirst
  <1>8. ScheduleInv'
    <2>1. seen \cup {Head(queue)} \in SUBSET wires
      BY <1>5 DEF SearchOK
    <2> QED
      BY <1>1, <1>3, <1>5, <1>7, <2>1 DEF ScheduleInv
  <1>9. NetInv'
    BY <1>1, <1>3 DEF NetInv, All, Class
  <1> QED
    BY <1>1, <1>8, <1>9 DEF Inv, NetStep

\* The search is over.
LEMMA StartInv ==
  ASSUME Inv, StartBalance
  PROVE  Inv' /\ NetStep(blocks, wires, blocks', wires')
  <1>1. /\ phase = "depths" /\ phase' = "balance" /\ queue = <<>> /\ todo' = DOMAIN blocks
        /\ UNCHANGED <<blocks, wires, stats, constants>>
    BY DEF StartBalance, netVars
  <1>2. /\ NetInv /\ NetOK(blocks, wires) /\ ConstantsOK(blocks, wires, constants) /\ SourcesFirst(blocks, stats)
        /\ Named(blocks, {"unify", "fork", "reg"})
    BY <1>1 DEF Inv, NetInv, ScheduleInv, TagsAt
  <1>3. PICK seen \in SUBSET wires : SearchOK(blocks, wires, stats, queue, seen)
    BY <1>1 DEF Inv, ScheduleInv
  <1>4. SearchOK(blocks, wires, stats, <<>>, seen)
    BY <1>1, <1>3
  <1>5. /\ StatsOK(blocks, stats) /\ Backed(blocks, stats)
        /\ \A b \in DOMAIN blocks : stats[b].visits = Cardinality(blocks[b].ins)
        /\ \A w \in wires : BringsOf(blocks, stats, w) <= stats[w[2][1]].depth
    BY <1>2, <1>4, SearchEnds
  <1>6. \A o : Place("balance", o) \notin DOMAIN blocks
    <2>1. "balance" \notin {"unify", "fork", "reg"}
      OBVIOUS
    <2> QED
      BY <1>2, <2>1, Fresh
  <1>7. \A w \in wires : w[1][1] \in DOMAIN blocks
    BY <1>2 DEF NetOK, IsNetlist
  <1>8. BalanceOK(blocks, wires, stats, DOMAIN blocks, constants)
    BY <1>2, <1>5, <1>6, <1>7 DEF BalanceOK
  <1>9. NetInv'
    BY <1>1, <1>2 DEF NetInv, TagsAt, Phases, Named
  <1> QED
    BY <1>1, <1>2, <1>8, <1>9 DEF Inv, ScheduleInv, NetStep

\* A block is balanced; no wire behind it goes back.
LEMMA BalanceInv ==
  ASSUME Inv, NEW b \in todo, Balance(b)
  PROVE  Inv' /\ NetStep(blocks, wires, blocks', wires')
  <1>1. phase = "balance" /\ constants' = constants
    BY DEF Balance
  <1>2. /\ NetInv /\ NetOK(blocks, wires) /\ Fed(blocks, wires) /\ OneOutput(blocks) /\ LateOK(blocks)
        /\ ConstantsOK(blocks, wires, constants) /\ b \in DOMAIN blocks /\ todo \subseteq DOMAIN blocks
        /\ BalanceOK(blocks, wires, stats, todo, constants)
        /\ Named(blocks, {"unify", "fork", "reg", "balance"}) /\ Without(blocks, {"Wait", "Fork"})
    BY <1>1 DEF Inv, NetInv, ScheduleInv, TagsAt
  <1>3. \A w \in Behind(b) : stats[w[2][1]].depth >= stats[b].depth /\ ~(IsReg(b) /\ Carry(w) = 0)
    <2> SUFFICES ASSUME NEW w \in Behind(b)
                 PROVE  stats[w[2][1]].depth >= stats[b].depth /\ ~(IsReg(b) /\ Carry(w) = 0)
      OBVIOUS
    <2>1. w \in WiresBehind(wires, b) /\ w[1][1] = b
      BY DEF Behind, WiresBehind
    <2>2. /\ stats[w[2][1]].depth >= stats[b].depth
          /\ blocks[b].class = "PipelineRegister" => stats[w[2][1]].depth - stats[b].depth # 0
      BY <1>2, <2>1, Agree DEF NetOK
    <2> QED
      BY <2>1, <2>2 DEF IsReg, Class, Carry
  <1>4. PICK long : long = IF b \in constants THEN {} ELSE TooShort(b)
    OBVIOUS
  <1>5. /\ phase' = "balance"
        /\ InsertAfter("balance", "PipelineRegister", long, dout)
        /\ stats' = [c \in DOMAIN stats \cup {Place("balance", w[1]) : w \in long} |->
                       IF c \in {Place("balance", w[1]) : w \in long}
                       THEN [depth |-> stats[b].depth + (IF IsReg(b) THEN 1 ELSE 0), visits |-> 1] ELSE stats[c]]
        /\ todo' = (todo \ {b}) \cup {Place("balance", w[1]) : w \in long}
    BY <1>1, <1>3, <1>4 DEF Balance
  <1>6. long = Crossing(blocks, wires, stats, constants, b)
    BY <1>4 DEF Crossing, TooShort, Behind, WiresBehind, Carry, Extra, IsReg, Class
  <1>7. Inserts(blocks, wires, blocks', wires', "balance", "PipelineRegister", long, dout)
    BY <1>5 DEF InsertAfter, Inserts
  <1>8. Balances(blocks, wires, stats, todo, constants, blocks', wires', stats', todo', b)
    BY <1>5, <1>6, <1>7 DEF Balances, dout, Extra, IsReg, Class
  <1>9. /\ CanInsert(blocks, wires, "balance", "PipelineRegister", long)
        /\ todo' \subseteq DOMAIN blocks' /\ BalanceOK(blocks', wires', stats', todo', constants)
        /\ ConstantsOK(blocks', wires', constants) /\ LateOK(blocks')
    BY <1>2, <1>6, <1>8, BalanceKeeps
  <1>10. NetOK(blocks', wires') /\ Fed(blocks', wires') /\ OneOutput(blocks')
    BY <1>2, <1>7, <1>9, InsertKeeps
  <1>11. Adds(blocks, blocks', "balance", "PipelineRegister", long)
    BY <1>7, InsertedBlocks
  <1>12. Named(blocks', TagsAt("balance")) /\ Without(blocks', {"Wait", "Fork"})
    BY <1>2, <1>11 DEF Adds, Named, TagsAt, Without
  <1>13. NetInv'
    BY <1>5, <1>9, <1>10, <1>12 DEF NetInv, Phases
  <1>14. ScheduleInv'
    BY <1>1, <1>5, <1>9 DEF ScheduleInv
  <1>15. NetStep(blocks, wires, blocks', wires')
    BY <1>7, <1>9 DEF NetStep
  <1> QED
    BY <1>13, <1>14, <1>15 DEF Inv

\* The stages fit.
LEMMA StagesInv ==
  ASSUME Inv, AssignStages
  PROVE  Inv' /\ NetStep(blocks, wires, blocks', wires')
  <1>1. /\ phase = "balance" /\ todo = {}
        /\ UNCHANGED <<blocks, wires, stats, todo, constants>>
    BY DEF AssignStages, netVars
  <1>2. /\ NetInv /\ NetOK(blocks, wires) /\ Fed(blocks, wires) /\ OneOutput(blocks) /\ LateOK(blocks)
        /\ ConstantsOK(blocks, wires, constants) /\ BalanceOK(blocks, wires, stats, todo, constants)
    BY <1>1 DEF Inv, NetInv, ScheduleInv
  <1>3. PICK last : last = Largest({stats[b].depth : b \in DOMAIN stats})
    OBVIOUS
  <1>4. /\ \A b \in DOMAIN stats : stats[b].visits = Cardinality(blocks[b].ins)
        /\ \A b \in DOMAIN blocks : blocks[b].class = "PipelineRegister" => WiresBehind(wires, b) # {} /\ stats[b].depth < last
        /\ last > 0 => /\ \E b \in DOMAIN blocks : blocks[b].class = "Input"
                       /\ Cardinality(OutputsOf(blocks)) = 1
    BY <1>2, <1>3, Fits
  <1>5. \A b \in All("PipelineRegister") : Behind(b) # {} /\ stats[b].depth < last
    BY <1>4 DEF All, Class, Behind, WiresBehind
  <1>6. last > 0 => All("Input") # {} /\ Cardinality(All("Output")) = 1
    BY <1>4 DEF All, Class, OutputsOf
  <1>7. phase' = "run"
    BY <1>3, <1>4, <1>5, <1>6 DEF AssignStages
  <1>8. NetInv'
    BY <1>1, <1>2, <1>7 DEF NetInv, TagsAt, Phases
  <1>9. ScheduleInv'
    BY <1>1, <1>2, <1>7 DEF ScheduleInv
  <1> QED
    BY <1>1, <1>8, <1>9 DEF Inv, NetStep

\* The circuit leaves the netlist and the schedule alone.
LEMMA SameInv ==
  ASSUME Inv, UNCHANGED <<netVars, phase, scheduleVars>>
  PROVE  Inv' /\ NetStep(blocks, wires, blocks', wires')
  <1>1. NetInv /\ ScheduleInv /\ UNCHANGED <<blocks, wires, phase, stats, queue, todo, constants>>
    BY DEF Inv, netVars, scheduleVars
  <1>2. NetInv'
    BY <1>1 DEF NetInv, All, Class
  <1>3. ScheduleInv'
    BY <1>1 DEF ScheduleInv
  <1> QED
    BY <1>1, <1>2, <1>3 DEF Inv, NetStep

\* A step keeps the invariant.
LEMMA NextInv ==
  ASSUME Inv, [Next]_vars
  PROVE  Inv' /\ NetStep(blocks, wires, blocks', wires')
  <1>1. ASSUME NEW b \in DOMAIN blocks, Eliminate(b)
        PROVE  Inv' /\ NetStep(blocks, wires, blocks', wires')
    BY <1>1, EliminateInv
  <1>2. CASE unifyOutput
    BY <1>2, UnifyInv
  <1>3. CASE Simplify
    BY <1>3, SimplifyInv
  <1>4. CASE SynthesizeForks
    BY <1>4, ForksInv
  <1>5. CASE PipelineFrequency
    BY <1>5, FrequencyInv
  <1>6. CASE VisitWire
    BY <1>6, VisitInv
  <1>7. CASE StartBalance
    BY <1>7, StartInv
  <1>8. ASSUME NEW b \in todo, Balance(b)
        PROVE  Inv' /\ NetStep(blocks, wires, blocks', wires')
    BY <1>8, BalanceInv
  <1>9. CASE AssignStages
    BY <1>9, StagesInv
  <1>10. CASE Reset
    <2>1. UNCHANGED <<netVars, phase, scheduleVars>>
      BY <1>10 DEF Reset
    <2> QED
      BY <2>1, SameInv
  <1>11. ASSUME NEW out_bp \in BOOLEAN, Clock(out_bp)
         PROVE  Inv' /\ NetStep(blocks, wires, blocks', wires')
    <2>1. UNCHANGED <<netVars, phase, scheduleVars>>
      BY <1>11 DEF Clock
    <2> QED
      BY <2>1, SameInv
  <1>12. CASE UNCHANGED vars
    <2>1. UNCHANGED <<netVars, phase, scheduleVars>>
      BY <1>12 DEF vars
    <2> QED
      BY <2>1, SameInv
  <1> QED
    BY <1>1, <1>2, <1>3, <1>4, <1>5, <1>6, <1>7, <1>8, <1>9, <1>10, <1>11, <1>12 DEF Next, Build

\* The compiler meets all its assertions, whatever the region: no wire goes
\* back in depth, every block is reached through all its inputs, every register
\* has a stage, and there is one output to control (ControlRegion::schedule,
\* writeCRControl).
THEOREM ScheduleIsSound == Spec => []ScheduleSound
  <1>1. Init => Inv
    BY InitInv
  <1>2. Inv /\ [Next]_vars => Inv'
    BY NextInv
  <1>3. Inv => ScheduleSound
    BY DEF Inv, NetInv, Phases, ScheduleSound
  <1> QED
    BY <1>1, <1>2, <1>3, PTL DEF Spec

-----------------------------------------------------------------------------
(* What each block is computed from                                        *)

\* A definition by recursion over ranked things has a solution.
Ranks(D, drv) ==
  \E height \in Nat : \E rank \in [D -> 1..height] :
    \A b \in D : drv[b] \subseteq D /\ \A c \in drv[b] : rank[c] < rank[b]
Solution(g, D, drv, lead, first) == g = [b \in D |-> IF lead[b] THEN first[b] ELSE UNION {g[c] : c \in drv[b]}]
Solved(D, drv, lead, first) == \E g : Solution(g, D, drv, lead, first)

\* Over ranked things every definition has one.
LEMMA Solves ==
  ASSUME NEW D, NEW drv, NEW lead, NEW first, Ranks(D, drv)
  PROVE  Solved(D, drv, lead, first)
  <1>1. PICK height \in Nat :
          \E rank \in [D -> 1..height] :
            \A b \in D : drv[b] \subseteq D /\ \A c \in drv[b] : rank[c] < rank[b]
    BY DEF Ranks
  <1>2. PICK rank \in [D -> 1..height] :
          \A b \in D : drv[b] \subseteq D /\ \A c \in drv[b] : rank[c] < rank[b]
    BY <1>1
  <1> DEFINE Def(g, b) == IF lead[b] THEN first[b] ELSE UNION {g[c] : c \in drv[b]}
             Upto(g, n) == g = [b \in D |-> g[b]] /\ \A b \in D : rank[b] <= n => g[b] = Def(g, b)
             T == {n \in 0..height : \E g : Upto(g, n)}
  <1>3. 0 \in T
    <2>1. PICK g : g = [b \in D |-> {}]
      OBVIOUS
    <2>2. \A b \in D : ~(rank[b] <= 0)
      OBVIOUS
    <2>3. g = [b \in D |-> g[b]]
      BY <2>1
    <2> HIDE DEF Def
    <2>4. Upto(g, 0)
      BY <2>2, <2>3
    <2> QED
      BY <2>4
  <1>4. ASSUME NEW n \in 1..height, n - 1 \in T
        PROVE  n \in T
    <2>1. PICK g : Upto(g, n - 1)
      BY <1>4
    <2>2. PICK h : h = [b \in D |-> Def(g, b)]
      OBVIOUS
    <2>3. ASSUME NEW b \in D, rank[b] <= n
          PROVE  h[b] = Def(h, b)
      <3>1. ASSUME NEW c \in drv[b]
            PROVE  h[c] = g[c]
        <4>1. c \in D /\ rank[c] < rank[b] /\ rank[c] \in Nat /\ rank[b] \in Nat
          BY <1>2, <3>1
        <4>2. rank[c] <= n - 1
          BY <2>3, <4>1
        <4> HIDE DEF Def
        <4> QED
          BY <2>1, <2>2, <4>1, <4>2
      <3>2. {h[c] : c \in drv[b]} = {g[c] : c \in drv[b]}
        BY <3>1
      <3>3. h[b] = Def(g, b)
        <4> HIDE DEF Def
        <4> QED
          BY <2>2
      <3> QED
        BY <3>2, <3>3
    <2>4. h = [b \in D |-> h[b]]
      <3> HIDE DEF Def
      <3> QED
        BY <2>2
    <2> HIDE DEF Def
    <2>5. Upto(h, n)
      BY <2>3, <2>4
    <2> QED
      BY <2>5
  <1> HIDE DEF T
  <1>5. height \in T
    BY <1>3, <1>4, Induction
  <1>6. PICK g : Upto(g, height)
    BY <1>5 DEF T
  <1>7. \A b \in D : g[b] = Def(g, b)
    <2> HIDE DEF Def
    <2> QED
      BY <1>6
  <1>8. g = [b \in D |-> Def(g, b)]
    <2> HIDE DEF Def
    <2>1. g = [b \in D |-> g[b]]
      BY <1>6
    <2> QED
      BY <1>7, <2>1
  <1> QED
    BY <1>8 DEF Solved, Solution

\* The ports a netlist takes tokens on.
InputsOf(bs) == {b \in DOMAIN bs : bs[b].class = "Input"}

\* The wires that bring what b gives on: a Wait gives on what comes in first.
Giving(bs, ws, b) == {w \in ws : w[2][1] = b /\ (bs[b].class = "Wait" => w[2][2] = 1)}

\* Each block b is computed from the inputs from[b], and the outputs from total.
Feeds(bs, ws, from, total) ==
  /\ \A b \in DOMAIN bs : \A i :
       i \in from[b] <=> IF bs[b].class = "Input" THEN i = b
                         ELSE \E w \in Giving(bs, ws, b) : i \in from[w[1][1]]
  /\ \A i : i \in total <=> \E b \in OutputsOf(bs) : i \in from[b]

\* An inserted block is computed from what the output before it is.
LEMMA InsertFeeds ==
  ASSUME NEW bs, NEW ws, NEW bs2, NEW ws2, NEW tag, NEW class, NEW taken, NEW leg, NEW from, NEW total,
         IsNetlist(bs, ws), CanInsert(bs, ws, tag, class, taken),
         Inserts(bs, ws, bs2, ws2, tag, class, taken, leg), Feeds(bs, ws, from, total)
  PROVE  \E from2 : Feeds(bs2, ws2, from2, total)
  <1>1. Insertion(bs, ws, bs2, ws2, tag, class, taken, leg)
    BY InsertedWires
  <1>2. PICK from2 : from2 = [b \in DOMAIN bs2 |-> IF b \in DOMAIN bs THEN from[b] ELSE from[b[2][1]]]
    OBVIOUS
  <1>3. /\ DOMAIN bs2 = DOMAIN bs \cup {Place(tag, w[1]) : w \in taken}
        /\ \A b \in DOMAIN bs : bs2[b] = bs[b] /\ from2[b] = from[b]
    BY <1>1, <1>2 DEF Insertion
  <1>4. ASSUME NEW w \in taken
        PROVE  /\ Place(tag, w[1]) \in DOMAIN bs2 \ DOMAIN bs
               /\ bs2[Place(tag, w[1])].class \in {"VirtualFork", "PipelineRegister"}
               /\ from2[Place(tag, w[1])] = from[w[1][1]]
    <2>1. bs2[Place(tag, w[1])] = Block(class, {1}) /\ Place(tag, w[1]) \in DOMAIN bs2 \ DOMAIN bs
      BY <1>1 DEF Insertion
    <2>2. Place(tag, w[1])[2] = w[1]
      BY DEF Place
    <2>3. from2[Place(tag, w[1])] = from[w[1][1]]
      BY <1>2, <2>1, <2>2
    <2> QED
      BY <2>1, <2>3 DEF Block, CanInsert
  <1>5. \A w \in ws2 : \/ w \in ws \ taken
                       \/ \E v \in taken : w = ToNew(tag, v) \/ w = FromNew(tag, leg, v)
    BY <1>1 DEF Insertion
  <1>6. \A w \in taken : /\ w \in ws
                         /\ ToNew(tag, w) \in ws2 /\ ToNew(tag, w)[1] = w[1] /\ ToNew(tag, w)[2][1] = Place(tag, w[1])
                         /\ FromNew(tag, leg, w) \in ws2 /\ FromNew(tag, leg, w)[1][1] = Place(tag, w[1])
                         /\ FromNew(tag, leg, w)[2] = w[2]
    BY <1>1 DEF Insertion
  <1>7. \A w \in ws : w[1][1] \in DOMAIN bs /\ w[2][1] \in DOMAIN bs /\ (w \notin taken => w \in ws2)
    BY <1>1 DEF Insertion
  <1>8. ASSUME NEW b \in DOMAIN bs2, NEW i
        PROVE  i \in from2[b] <=> IF bs2[b].class = "Input" THEN i = b
                                  ELSE \E w \in Giving(bs2, ws2, b) : i \in from2[w[1][1]]
    <2>1. CASE b \in DOMAIN bs
      <3>1. bs2[b] = bs[b] /\ from2[b] = from[b]
        BY <1>3, <2>1
      <3>2. ASSUME NEW w \in Giving(bs, ws, b), i \in from[w[1][1]]
            PROVE  \E v \in Giving(bs2, ws2, b) : i \in from2[v[1][1]]
        <4>1. w \in ws /\ w[2][1] = b /\ (bs[b].class = "Wait" => w[2][2] = 1)
          BY DEF Giving
        <4>2. CASE w \in taken
          <5>1. FromNew(tag, leg, w) \in Giving(bs2, ws2, b)
            BY <1>6, <3>1, <4>1, <4>2 DEF Giving
          <5>2. from2[FromNew(tag, leg, w)[1][1]] = from[w[1][1]]
            BY <1>4, <1>6, <4>2
          <5> QED
            BY <3>2, <5>1, <5>2
        <4>3. CASE w \notin taken
          BY <1>3, <1>7, <3>1, <3>2, <4>1, <4>3 DEF Giving
        <4> QED
          BY <4>2, <4>3
      <3>3. ASSUME NEW v \in Giving(bs2, ws2, b), i \in from2[v[1][1]]
            PROVE  \E w \in Giving(bs, ws, b) : i \in from[w[1][1]]
        <4>1. v \in ws2 /\ v[2][1] = b /\ (bs[b].class = "Wait" => v[2][2] = 1)
          BY <3>1 DEF Giving
        <4>2. CASE v \in ws \ taken
          BY <1>3, <1>7, <3>3, <4>1, <4>2 DEF Giving
        <4>3. ASSUME NEW w \in taken, v = ToNew(tag, w)
              PROVE  FALSE
          BY <1>4, <1>6, <2>1, <4>1, <4>3
        <4>4. ASSUME NEW w \in taken, v = FromNew(tag, leg, w)
              PROVE  w \in Giving(bs, ws, b) /\ i \in from[w[1][1]]
          BY <1>4, <1>6, <3>3, <4>1, <4>4 DEF Giving
        <4> QED
          BY <1>5, <4>1, <4>2, <4>3, <4>4
      <3>4. i \in from[b] <=> IF bs[b].class = "Input" THEN i = b
                              ELSE \E w \in Giving(bs, ws, b) : i \in from[w[1][1]]
        BY <2>1 DEF Feeds
      <3> QED
        BY <3>1, <3>2, <3>3, <3>4
    <2>2. CASE b \notin DOMAIN bs
      <3>1. PICK w \in taken : b = Place(tag, w[1])
        BY <1>3, <2>2
      <3>2. /\ bs2[b].class # "Input" /\ bs2[b].class # "Wait" /\ from2[b] = from[w[1][1]]
            /\ w \in ws /\ w[1][1] \in DOMAIN bs
        BY <1>4, <1>6, <1>7, <3>1
      <3>3. ToNew(tag, w) \in Giving(bs2, ws2, b) /\ from2[ToNew(tag, w)[1][1]] = from[w[1][1]]
        BY <1>3, <1>6, <3>1, <3>2 DEF Giving
      <3>4. ASSUME NEW v \in Giving(bs2, ws2, b)
            PROVE  from2[v[1][1]] = from[w[1][1]]
        <4>1. v \in ws2 /\ v[2][1] = b
          BY DEF Giving
        <4>2. v \notin ws
          BY <1>7, <2>2, <4>1
        <4>3. ASSUME NEW u \in taken, v = ToNew(tag, u)
              PROVE  from2[v[1][1]] = from[w[1][1]]
          <5>1. Place(tag, u[1]) = Place(tag, w[1])
            BY <1>6, <3>1, <4>1, <4>3
          <5>2. u[1] = w[1]
            BY <5>1 DEF Place
          <5> QED
            BY <1>3, <1>6, <3>2, <4>3, <5>2
        <4>4. ASSUME NEW u \in taken, v = FromNew(tag, leg, u)
              PROVE  FALSE
          BY <1>6, <1>7, <2>2, <4>1, <4>4
        <4> QED
          BY <1>5, <4>1, <4>2, <4>3, <4>4
      <3> QED
        BY <3>2, <3>3, <3>4
    <2> QED
      BY <2>1, <2>2
  <1>9. OutputsOf(bs2) = OutputsOf(bs)
    <2>1. \A b \in DOMAIN bs2 : b \in DOMAIN bs \/ bs2[b].class # "Output"
      BY <1>3, <1>4
    <2> QED
      BY <1>3, <2>1 DEF OutputsOf
  <1>10. \A i : i \in total <=> \E b \in OutputsOf(bs2) : i \in from2[b]
    BY <1>3, <1>9 DEF Feeds, OutputsOf
  <1> QED
    BY <1>8, <1>10 DEF Feeds

\* Taking out a Wait or Fork leaves what the others are computed from.
LEMMA EliminateFeeds ==
  ASSUME NEW bs, NEW ws, NEW bs2, NEW ws2, NEW b \in DOMAIN bs, bs[b].class \in {"Wait", "Fork"}, NEW from, NEW total,
         NetOK(bs, ws), Eliminates(bs, ws, bs2, ws2, b), Feeds(bs, ws, from, total)
  PROVE  Feeds(bs2, ws2, from, total)
  <1>0. IsNetlist(bs, ws) /\ Acyclic(bs, ws) /\ HasRoles(bs, ws)
    BY DEF NetOK
  <1>1. Elimination(bs, ws, bs2, ws2, b)
    BY <1>0, EliminationIs
  <1>2. PICK d \in ws : /\ d[2] = <<b, 1>> /\ d[2][1] = b /\ d[1][1] # b
                        /\ ws2 = {w \in ws : b \notin {w[1][1], w[2][1]}}
                                   \cup {<<d[1], w[2]>> : w \in {w \in ws : w[1][1] = b}}
    BY <1>1 DEF Elimination
  <1>3. DOMAIN bs2 = DOMAIN bs \ {b} /\ \A c \in DOMAIN bs2 : bs2[c] = bs[c]
    BY <1>1 DEF Elimination
  <1>4. \A v \in ws : ~(v[1][1] = b /\ v[2][1] = b)
    BY <1>1 DEF Elimination
  <1>5. \A i : i \in from[b] <=> i \in from[d[1][1]]
    <2>1. d \in Giving(bs, ws, b)
      BY <1>2 DEF Giving
    <2>2. ASSUME NEW u \in Giving(bs, ws, b)
          PROVE  u = d
      <3>1. u \in ws /\ u[2][1] = b /\ u[2][2] \in bs[b].ins /\ u = <<<<u[1][1], u[1][2]>>, <<u[2][1], u[2][2]>>>>
        BY <1>0 DEF Giving, IsNetlist
      <3>2. u[2][2] = 1
        BY <1>0, <3>1 DEF Giving, HasRoles
      <3>3. u[2] = <<b, 1>>
        BY <3>1, <3>2, WireEnds
      <3> QED
        BY <1>0, <1>2, <3>1, <3>3 DEF IsNetlist
    <2> QED
      BY <2>1, <2>2 DEF Feeds
  <1>6. ASSUME NEW c \in DOMAIN bs2, NEW i
        PROVE  i \in from[c] <=> IF bs2[c].class = "Input" THEN i = c
                                 ELSE \E w \in Giving(bs2, ws2, c) : i \in from[w[1][1]]
    <2>1. c \in DOMAIN bs /\ c # b /\ bs2[c] = bs[c]
      BY <1>3
    <2>2. ASSUME NEW w \in Giving(bs, ws, c), i \in from[w[1][1]]
          PROVE  \E v \in Giving(bs2, ws2, c) : i \in from[v[1][1]]
      <3>1. w \in ws /\ w[2][1] = c /\ (bs[c].class = "Wait" => w[2][2] = 1)
        BY DEF Giving
      <3>2. CASE w[1][1] = b
        <4>1. <<d[1], w[2]>> \in ws2 /\ <<d[1], w[2]>>[1] = d[1] /\ <<d[1], w[2]>>[2] = w[2]
          BY <1>2, <3>1, <3>2
        <4>2. <<d[1], w[2]>> \in Giving(bs2, ws2, c)
          BY <2>1, <3>1, <4>1 DEF Giving
        <4> QED
          BY <1>5, <2>2, <3>2, <4>1, <4>2
      <3>3. CASE w[1][1] # b
        <4>1. w \in Giving(bs2, ws2, c)
          BY <1>2, <2>1, <3>1, <3>3 DEF Giving
        <4> QED
          BY <2>2, <4>1
      <3> QED
        BY <3>2, <3>3
    <2>3. ASSUME NEW v \in Giving(bs2, ws2, c), i \in from[v[1][1]]
          PROVE  \E w \in Giving(bs, ws, c) : i \in from[w[1][1]]
      <3>1. v \in ws2 /\ v[2][1] = c /\ (bs[c].class = "Wait" => v[2][2] = 1)
        BY <2>1 DEF Giving
      <3>2. CASE v \in ws
        BY <2>3, <3>1, <3>2 DEF Giving
      <3>3. ASSUME NEW w \in ws, w[1][1] = b, v = <<d[1], w[2]>>
            PROVE  w \in Giving(bs, ws, c) /\ i \in from[w[1][1]]
        BY <1>5, <2>3, <3>1, <3>3 DEF Giving
      <3> QED
        BY <1>2, <3>1, <3>2, <3>3
    <2>4. i \in from[c] <=> IF bs[c].class = "Input" THEN i = c
                            ELSE \E w \in Giving(bs, ws, c) : i \in from[w[1][1]]
      BY <2>1 DEF Feeds
    <2> QED
      BY <2>1, <2>2, <2>3, <2>4
  <1>7. OutputsOf(bs2) = OutputsOf(bs)
    BY <1>3 DEF OutputsOf
  <1> QED
    BY <1>6, <1>7 DEF Feeds

\* The one output is computed from what the outputs were.
LEMMA UnifyFeeds ==
  ASSUME NEW bs, NEW ws, NEW bs2, NEW ws2, NEW from, NEW total, NetOK(bs, ws), Without(bs, {"Wait"}),
         Unifies(bs, ws, bs2, ws2), Joined \notin DOMAIN bs, JoinedOut \notin DOMAIN bs, Feeds(bs, ws, from, total)
  PROVE  \E from2 : Feeds(bs2, ws2, from2, total)
  <1> DEFINE outs == OutputsOf(bs)
             last == <<<<Joined, 1>>, <<JoinedOut, 1>>>>
  <1>0. IsNetlist(bs, ws) /\ HasRoles(bs, ws)
    BY DEF NetOK
  <1>1. Joined # JoinedOut
    BY DEF Joined, JoinedOut
  <1>2. PICK from2 : from2 = [c \in DOMAIN bs2 |-> IF c \in {Joined, JoinedOut} THEN total ELSE from[c]]
    OBVIOUS
  <1>3. /\ DOMAIN bs2 = (DOMAIN bs \ outs) \cup {Joined, JoinedOut}
        /\ \A b \in DOMAIN bs \ outs : bs2[b] = bs[b] /\ from2[b] = from[b] /\ b \notin {Joined, JoinedOut}
        /\ bs2[Joined].class = "Join" /\ bs2[JoinedOut].class = "Output"
        /\ from2[Joined] = total /\ from2[JoinedOut] = total
    BY <1>1, <1>2 DEF Unifies, Block
  <1>4. \A w \in ws : /\ w[1][1] \in DOMAIN bs \ outs /\ w[2][1] \in DOMAIN bs
                      /\ ToJoin(bs, w) \in ws2 /\ ToJoin(bs, w)[1] = w[1]
                      /\ w[2][1] \in outs => ToJoin(bs, w)[2][1] = Joined
                      /\ w[2][1] \notin outs => ToJoin(bs, w)[2] = w[2]
    <2> TAKE w \in ws
    <2>1. /\ w = <<<<w[1][1], w[1][2]>>, <<w[2][1], w[2][2]>>>>
          /\ w[1][1] \in DOMAIN bs /\ w[2][1] \in DOMAIN bs
      BY <1>0 DEF IsNetlist
    <2>2. w[1][1] \notin outs
      BY <1>0 DEF HasRoles, OutputsOf
    <2>3. ToJoin(bs, w) \in ws2
      BY DEF Unifies
    <2>4. ToJoin(bs, w) = IF w[2][1] \in outs THEN <<w[1], <<Joined, w[2][1]>>>> ELSE w
      BY DEF ToJoin
    <2> QED
      BY <2>1, <2>2, <2>3, <2>4
  <1>5. last \in ws2 /\ last[1][1] = Joined /\ last[2][1] = JoinedOut
    BY DEF Unifies
  <1>6. \A w \in ws2 : w = last \/ \E v \in ws : w = ToJoin(bs, v)
    BY DEF Unifies
  <1>7. \A b \in DOMAIN bs : Giving(bs, ws, b) = {w \in ws : w[2][1] = b}
    BY DEF Giving, Without
  <1>8. \A b \in DOMAIN bs2 : Giving(bs2, ws2, b) = {w \in ws2 : w[2][1] = b}
    <2>1. \A b \in DOMAIN bs2 : bs2[b].class # "Wait"
      BY <1>3 DEF Without
    <2> QED
      BY <2>1 DEF Giving
  <1> HIDE DEF last
  <1>9. ASSUME NEW c \in DOMAIN bs2, NEW i
        PROVE  i \in from2[c] <=> IF bs2[c].class = "Input" THEN i = c
                                  ELSE \E w \in Giving(bs2, ws2, c) : i \in from2[w[1][1]]
    <2>1. CASE c = JoinedOut
      <3>1. last \in Giving(bs2, ws2, c) /\ from2[last[1][1]] = total
        BY <1>3, <1>5, <1>8, <2>1
      <3>2. \A w \in Giving(bs2, ws2, c) : w = last
        BY <1>1, <1>3, <1>4, <1>6, <1>8, <2>1
      <3> QED
        BY <1>3, <2>1, <3>1, <3>2
    <2>2. CASE c = Joined
      <3>1. ASSUME NEW w \in Giving(bs2, ws2, c), i \in from2[w[1][1]]
            PROVE  i \in total
        <4>1. w \in ws2 /\ w[2][1] = Joined
          BY <1>8, <2>2
        <4>2. PICK v \in ws : w = ToJoin(bs, v)
          BY <1>1, <1>5, <1>6, <4>1
        <4>3. v[2][1] \in outs /\ i \in from[v[1][1]]
          BY <1>3, <1>4, <3>1, <4>1, <4>2
        <4>4. v \in Giving(bs, ws, v[2][1]) /\ bs[v[2][1]].class # "Input"
          BY <1>4, <1>7, <4>3 DEF OutputsOf
        <4>5. i \in from[v[2][1]]
          BY <1>4, <4>3, <4>4 DEF Feeds
        <4> QED
          BY <4>3, <4>5 DEF Feeds
      <3>2. ASSUME i \in total
            PROVE  \E w \in Giving(bs2, ws2, c) : i \in from2[w[1][1]]
        <4>1. PICK o \in outs : i \in from[o]
          BY <3>2 DEF Feeds
        <4>2. o \in DOMAIN bs /\ bs[o].class # "Input"
          BY DEF OutputsOf
        <4>3. PICK v \in Giving(bs, ws, o) : i \in from[v[1][1]]
          BY <4>1, <4>2 DEF Feeds
        <4>4. v \in ws /\ v[2][1] = o
          BY DEF Giving
        <4>5. ToJoin(bs, v) \in Giving(bs2, ws2, c) /\ i \in from2[ToJoin(bs, v)[1][1]]
          BY <1>3, <1>4, <1>8, <2>2, <4>3, <4>4
        <4> QED
          BY <4>5
      <3> QED
        BY <1>3, <2>2, <3>1, <3>2
    <2>3. CASE c \in DOMAIN bs \ outs
      <3>1. bs2[c] = bs[c] /\ from2[c] = from[c] /\ c \notin {Joined, JoinedOut}
        BY <1>3, <2>3
      <3>2. ASSUME NEW w \in Giving(bs, ws, c), i \in from[w[1][1]]
            PROVE  ToJoin(bs, w) \in Giving(bs2, ws2, c) /\ i \in from2[ToJoin(bs, w)[1][1]]
        <4>1. w \in ws /\ w[2][1] = c
          BY DEF Giving
        <4> QED
          BY <1>3, <1>4, <1>8, <2>3, <3>2, <4>1
      <3>3. ASSUME NEW v \in Giving(bs2, ws2, c), i \in from2[v[1][1]]
            PROVE  \E w \in Giving(bs, ws, c) : i \in from[w[1][1]]
        <4>1. v \in ws2 /\ v[2][1] = c
          BY DEF Giving
        <4>2. PICK w \in ws : v = ToJoin(bs, w)
          BY <1>5, <1>6, <3>1, <4>1
        <4>3. w[2][1] = c
          BY <1>4, <3>1, <4>1, <4>2
        <4> QED
          BY <1>3, <1>4, <1>7, <2>3, <3>3, <4>2, <4>3
      <3>4. i \in from[c] <=> IF bs[c].class = "Input" THEN i = c
                              ELSE \E w \in Giving(bs, ws, c) : i \in from[w[1][1]]
        BY <2>3 DEF Feeds
      <3> QED
        BY <3>1, <3>2, <3>3, <3>4
    <2> QED
      BY <1>3, <2>1, <2>2, <2>3
  <1>10. OutputsOf(bs2) = {JoinedOut}
    <2>1. \A b \in DOMAIN bs \ outs : bs2[b].class # "Output"
      BY <1>3 DEF OutputsOf
    <2> QED
      BY <1>3, <2>1 DEF OutputsOf
  <1>11. \A i : i \in total <=> \E b \in OutputsOf(bs2) : i \in from2[b]
    BY <1>3, <1>10
  <1> QED
    BY <1>9, <1>11 DEF Feeds

\* Leaving out what is not used leaves it too.
LEMMA RestrictFeeds ==
  ASSUME NEW bs, NEW ws, NEW bs2, NEW ws2, NEW used, NEW from, NEW total,
         Restricts(bs, ws, bs2, ws2, used), Feeds(bs, ws, from, total)
  PROVE  Feeds(bs2, ws2, from, total)
  <1>1. DOMAIN bs2 = used /\ used \subseteq DOMAIN bs /\ \A b \in used : bs2[b] = bs[b]
    BY DEF Restricts
  <1>2. \A b \in used : Giving(bs2, ws2, b) = Giving(bs, ws, b)
    BY <1>1 DEF Restricts, Giving
  <1>3. OutputsOf(bs2) = OutputsOf(bs)
    BY <1>1 DEF Restricts, OutputsOf
  <1> QED
    BY <1>1, <1>2, <1>3 DEF Feeds



\* The inputs that the blocks of a region are computed from.
LEMMA NeedsFeed ==
  ASSUME region \in Regions
  PROVE  Feeds(region.blocks, region.wires, needs, Needed)
  <1> DEFINE bs == region.blocks
             ws == region.wires
             D == DOMAIN bs
             drv == [b \in D |-> {w[1][1] : w \in Giving(bs, ws, b)}]
             lead == [b \in D |-> bs[b].class = "Input"]
             first == [b \in D |-> {b}]
  <1>1. IsNetlist(bs, ws) /\ IsRanked(bs, ws, Cardinality(D)) /\ Cardinality(D) \in Nat
    BY RegionsOK, FS_CardinalityType DEF IsRegion, IsNetlist
  <1>2. PICK height \in Nat : IsRanked(bs, ws, height)
    BY <1>1
  <1>3. PICK rank \in [D -> 1..height] : \A w \in ws : rank[w[1][1]] < rank[w[2][1]]
    BY <1>2 DEF IsRanked
  <1>4. \A b \in D : drv[b] \subseteq D /\ \A c \in drv[b] : rank[c] < rank[b]
    BY <1>1, <1>3 DEF Giving, IsNetlist
  <1>5. Ranks(D, drv)
    <2> HIDE DEF D, drv
    <2> QED
      BY <1>2, <1>3, <1>4 DEF Ranks
  <1>6. PICK g : Solution(g, D, drv, lead, first)
    <2>1. Solved(D, drv, lead, first)
      <3> HIDE DEF D, drv, lead, first
      <3> QED
        BY <1>5, Solves
    <2> HIDE DEF D, drv, lead, first
    <2> QED
      BY <2>1 DEF Solved
  <1> DEFINE Sources(b) ==
    {w[1][1] : w \in {v \in region.wires : v[2][1] = b /\ (region.blocks[b].class = "Wait" => v[2][2] = 1)}}
  <1>7. \A b \in D : drv[b] = Sources(b)
    BY DEF Giving
  <1>8. \A b \in D : (IF lead[b] THEN first[b] ELSE UNION {g[c] : c \in drv[b]})
                     = IF region.blocks[b].class = "Input" THEN {b} ELSE UNION {g[c] : c \in Sources(b)}
    <2> HIDE DEF Sources
    <2> TAKE b \in D
    <2>1. drv[b] = Sources(b)
      BY <1>7
    <2>2. lead[b] = (region.blocks[b].class = "Input") /\ first[b] = {b}
      OBVIOUS
    <2> HIDE DEF drv, lead, first
    <2> QED
      BY <2>1, <2>2
  <1>9. g = [b \in D |-> IF region.blocks[b].class = "Input" THEN {b} ELSE UNION {g[c] : c \in Sources(b)}]
    <2> HIDE DEF Sources, drv, lead, first, D
    <2> QED
      BY <1>6, <1>8 DEF Solution
  <1>10. \E f : f = [b \in DOMAIN region.blocks |->
                       IF region.blocks[b].class = "Input" THEN {b} ELSE UNION {f[c] : c \in Sources(b)}]
    BY <1>9
  <1>11. needs = [b \in DOMAIN region.blocks |->
                    IF region.blocks[b].class = "Input" THEN {b} ELSE UNION {needs[c] : c \in Sources(b)}]
    BY <1>10, Zenon DEF needs
  <1>12. ASSUME NEW b \in D, NEW i
         PROVE  i \in needs[b] <=> IF bs[b].class = "Input" THEN i = b
                                   ELSE \E w \in Giving(bs, ws, b) : i \in needs[w[1][1]]
    <2>1. needs[b] = IF bs[b].class = "Input" THEN {b} ELSE UNION {needs[c] : c \in Sources(b)}
      <3> HIDE DEF Sources
      <3> QED
        BY <1>11
    <2>2. \A c : c \in Sources(b) <=> \E w \in Giving(bs, ws, b) : c = w[1][1]
      BY DEF Giving
    <2> HIDE DEF Sources, bs, ws, D
    <2> QED
      BY <2>1, <2>2
  <1>13. \A i : i \in Needed <=> \E b \in OutputsOf(bs) : i \in needs[b]
    BY DEF Needed, OutputsOf
  <1> QED
    BY <1>12, <1>13 DEF Feeds

-----------------------------------------------------------------------------
(* The netlist computes what the region did                                *)

\* A step on the netlist keeps its inputs and what the outputs are computed from.
LEMMA StepFeeds ==
  ASSUME NEW bs, NEW ws, NEW bs2, NEW ws2, NEW from, NEW total,
         NetOK(bs, ws), NetStep(bs, ws, bs2, ws2), Feeds(bs, ws, from, total)
  PROVE  InputsOf(bs2) = InputsOf(bs) /\ \E from2 : Feeds(bs2, ws2, from2, total)
  <1>0. IsNetlist(bs, ws)
    BY DEF NetOK
  <1>1. CASE bs2 = bs /\ ws2 = ws
    BY <1>1
  <1>2. ASSUME NEW b \in DOMAIN bs, bs[b].class \in {"Wait", "Fork"}, Eliminates(bs, ws, bs2, ws2, b)
        PROVE  InputsOf(bs2) = InputsOf(bs) /\ \E from2 : Feeds(bs2, ws2, from2, total)
    <2>1. Feeds(bs2, ws2, from, total)
      BY <1>2, EliminateFeeds
    <2>2. InputsOf(bs2) = InputsOf(bs)
      BY <1>2 DEF Eliminates, InputsOf
    <2> QED
      BY <2>1, <2>2
  <1>3. CASE /\ Without(bs, {"Wait", "Fork"}) /\ Joined \notin DOMAIN bs /\ JoinedOut \notin DOMAIN bs
             /\ Unifies(bs, ws, bs2, ws2)
    <2>1. Without(bs, {"Wait"})
      BY <1>3 DEF Without
    <2>2. \E from2 : Feeds(bs2, ws2, from2, total)
      BY <1>3, <2>1, UnifyFeeds
    <2>3. /\ DOMAIN bs2 = (DOMAIN bs \ OutputsOf(bs)) \cup {Joined, JoinedOut}
          /\ \A b \in DOMAIN bs \ OutputsOf(bs) : bs2[b] = bs[b]
          /\ bs2[Joined].class = "Join" /\ bs2[JoinedOut].class = "Output"
      <3>1. Joined # JoinedOut
        BY DEF Joined, JoinedOut
      <3> QED
        BY <1>3, <3>1 DEF Unifies, Block
    <2>4. InputsOf(bs2) = InputsOf(bs)
      BY <2>3 DEF InputsOf, OutputsOf
    <2> QED
      BY <2>2, <2>4
  <1>4. ASSUME NEW used, Restricts(bs, ws, bs2, ws2, used)
        PROVE  InputsOf(bs2) = InputsOf(bs) /\ \E from2 : Feeds(bs2, ws2, from2, total)
    <2>1. Feeds(bs2, ws2, from, total)
      BY <1>4, RestrictFeeds
    <2>2. InputsOf(bs2) = InputsOf(bs)
      BY <1>4 DEF Restricts, InputsOf
    <2> QED
      BY <2>1, <2>2
  <1>5. ASSUME NEW tag, NEW class, NEW taken, NEW leg, CanInsert(bs, ws, tag, class, taken),
               Inserts(bs, ws, bs2, ws2, tag, class, taken, leg)
        PROVE  InputsOf(bs2) = InputsOf(bs) /\ \E from2 : Feeds(bs2, ws2, from2, total)
    <2>1. \E from2 : Feeds(bs2, ws2, from2, total)
      BY <1>0, <1>5, InsertFeeds
    <2>2. Adds(bs, bs2, tag, class, taken) /\ class # "Input"
      BY <1>5, InsertedBlocks DEF CanInsert
    <2>3. \A b \in DOMAIN bs : b \in DOMAIN bs2 /\ bs2[b] = bs[b]
      BY <1>5 DEF Inserts, CanInsert
    <2>4. InputsOf(bs2) = InputsOf(bs)
      BY <2>2, <2>3 DEF Adds, InputsOf
    <2> QED
      BY <2>1, <2>4
  <1> QED
    BY <1>1, <1>2, <1>3, <1>4, <1>5 DEF NetStep

\* The netlist has the region's inputs and computes its outputs from the same.
Flow ==
  /\ region \in Regions
  /\ InputsOf(blocks) = InputsOf(region.blocks)
  /\ \E from : Feeds(blocks, wires, from, Needed)

\* A region computes what it needs.
LEMMA FlowInit ==
  ASSUME Init
  PROVE  Flow
  <1>1. region \in Regions /\ blocks = region.blocks /\ wires = region.wires
    BY DEF Init
  <1> QED
    BY <1>1, NeedsFeed DEF Flow

\* No step changes what the outputs are computed from.
LEMMA FlowNext ==
  ASSUME Inv, Flow, [Next]_vars
  PROVE  Flow' /\ region' = region /\ Needed' = Needed
  <1>1. region' = region
    <2>1. CASE \E b \in DOMAIN blocks : Eliminate(b)
      BY <2>1 DEF Eliminate
    <2>2. CASE unifyOutput
      BY <2>2 DEF unifyOutput
    <2>3. CASE Simplify
      BY <2>3 DEF Simplify
    <2>4. CASE SynthesizeForks
      BY <2>4 DEF SynthesizeForks
    <2>5. CASE PipelineFrequency
      BY <2>5 DEF PipelineFrequency
    <2>6. CASE VisitWire
      <3>1. UNCHANGED <<region, netVars, phase, todo, constants, clocks, circuitVars>>
        BY <2>6, Zenon DEF VisitWire
      <3> QED
        BY <3>1
    <2>7. CASE StartBalance
      BY <2>7 DEF StartBalance
    <2>8. CASE \E b \in todo : Balance(b)
      BY <2>8 DEF Balance
    <2>9. CASE AssignStages
      BY <2>9 DEF AssignStages
    <2>10. CASE Reset
      BY <2>10 DEF Reset
    <2>11. CASE \E out_bp \in BOOLEAN : Clock(out_bp)
      BY <2>11 DEF Clock
    <2>12. CASE UNCHANGED vars
      BY <2>12 DEF vars
    <2> QED
      BY <2>1, <2>2, <2>3, <2>4, <2>5, <2>6, <2>7, <2>8, <2>9, <2>10, <2>11, <2>12 DEF Next, Build
  <1>2. Needed' = Needed
    BY <1>1 DEF Needed, needs
  <1>3. NetOK(blocks, wires) /\ NetStep(blocks, wires, blocks', wires')
    BY NextInv DEF Inv, NetInv
  <1>4. PICK from : Feeds(blocks, wires, from, Needed)
    BY DEF Flow
  <1>5. InputsOf(blocks') = InputsOf(blocks) /\ \E from2 : Feeds(blocks', wires', from2, Needed)
    BY <1>3, <1>4, StepFeeds
  <1> QED
    BY <1>1, <1>2, <1>5 DEF Flow

\* A region that computes has an input and an output computed from one.
LEMMA SomeNeeded ==
  ASSUME region \in Regions, Computes(region)
  PROVE  Needed # {} /\ InputsOf(region.blocks) # {}
  <1> DEFINE S == {b \in DOMAIN region.blocks : needs[b] # {}}
  <1>1. Feeds(region.blocks, region.wires, needs, Needed)
    BY NeedsFeed
  <1>2. \A w \in region.wires : w[1][1] \in DOMAIN region.blocks
    BY RegionsOK DEF IsRegion, IsNetlist
  <1>3. \A b \in DOMAIN region.blocks : region.blocks[b].class = "Input" => b \in S
    BY <1>1 DEF Feeds
  <1>4. ASSUME NEW b \in DOMAIN region.blocks, NEW w \in Giving(region.blocks, region.wires, b), w[1][1] \in S
        PROVE  b \in S
    <2>1. PICK i : i \in needs[w[1][1]]
      BY <1>4
    <2>2. i \in needs[b] \/ b \in needs[b]
      BY <1>1, <2>1 DEF Feeds
    <2> QED
      BY <2>2
  <1>5. S \in SUBSET DOMAIN region.blocks
    OBVIOUS
  <1> HIDE DEF S
  <1>6. PICK o \in OutputsOf(region.blocks) : o \in S
    <2>1. ASSUME NEW b \in DOMAIN region.blocks,
                 \/ region.blocks[b].class = "Input"
                 \/ \E w \in region.wires : /\ w[2][1] = b /\ (region.blocks[b].class = "Wait" => w[2][2] = 1)
                                            /\ w[1][1] \in S
          PROVE  b \in S
      BY <1>3, <1>4, <2>1 DEF Giving
    <2>2. \E b \in S : region.blocks[b].class = "Output"
      BY <1>5, <2>1 DEF Computes
    <2> QED
      BY <1>5, <2>2 DEF OutputsOf
  <1>7. PICK i : i \in needs[o]
    BY <1>6 DEF S
  <1>8. Needed # {}
    BY <1>1, <1>7 DEF Feeds
  <1>9. ASSUME InputsOf(region.blocks) = {}
        PROVE  FALSE
    <2>1. {} \in SUBSET DOMAIN region.blocks
      OBVIOUS
    <2>2. \A b \in DOMAIN region.blocks : region.blocks[b].class # "Input"
      BY <1>9 DEF InputsOf
    <2> QED
      BY <2>1, <2>2 DEF Computes
  <1> QED
    BY <1>8, <1>9

-----------------------------------------------------------------------------
(* The schedule of a balanced netlist                                      *)

\* The output is in the last stage.
LEMMA OutputIsLast ==
  ASSUME NEW bs, NEW ws, NEW st, NEW td, NEW cs, NEW last \in Nat, NetOK(bs, ws), Fed(bs, ws), OneOutput(bs),
         BalanceOK(bs, ws, st, td, cs), \A b \in DOMAIN bs : st[b].depth <= last,
         \E b \in DOMAIN bs : st[b].depth = last, NEW o \in DOMAIN bs, bs[o].class = "Output"
  PROVE  st[o].depth = last
  <1> DEFINE S == {b \in DOMAIN bs : st[b].depth = last}
  <1>1. \A b \in DOMAIN bs : st[b].depth \in Nat
    BY DEF BalanceOK, StatsOK
  <1>2. CASE last = 0
    BY <1>1, <1>2
  <1>3. CASE last > 0
    <2>1. PICK height \in Nat : IsRanked(bs, ws, height)
      BY DEF NetOK, Acyclic
    <2>2. PICK rank \in [DOMAIN bs -> 1..height] : \A w \in ws : rank[w[1][1]] < rank[w[2][1]]
      BY <2>1 DEF IsRanked
    <2>3. S \in SUBSET DOMAIN bs /\ S # {}
      OBVIOUS
    <2>4. \E b \in S : \A c \in S : rank[c] <= rank[b]
      <3> HIDE DEF S
      <3> QED
        BY <2>1, <2>2, <2>3, Highest
    <2>5. PICK b \in S : \A c \in S : rank[c] <= rank[b]
      BY <2>4
    <2>6. bs[b].class # "Input"
      <3>1. bs[b].class = "Input" => bs[b].ins = {}
        BY DEF NetOK, HasRoles
      <3> QED
        BY <1>3, <3>1 DEF BalanceOK, SourcesFirst
    <2>7. CASE bs[b].class = "Output"
      BY <2>7 DEF OneOutput
    <2>8. CASE bs[b].class # "Output"
      <3>1. PICK w \in ws : w[1][1] = b
        BY <2>6, <2>8 DEF Fed
      <3>2. w[2][1] \in DOMAIN bs
        BY DEF NetOK, IsNetlist
      <3>3. BringsOf(bs, st, w) <= st[w[2][1]].depth /\ BringsOf(bs, st, w) = last + Extra(bs, b)
        BY <3>1 DEF BalanceOK, BringsOf
      <3>4. st[w[2][1]].depth = last
        BY <1>1, <3>2, <3>3 DEF Extra
      <3>5. rank[w[2][1]] <= rank[b] /\ rank[b] < rank[w[2][1]] /\ rank[b] \in Nat /\ rank[w[2][1]] \in Nat
        BY <2>1, <2>2, <2>5, <3>1, <3>2, <3>4
      <3> QED
        BY <3>5
    <2> QED
      BY <2>7, <2>8
  <1> QED
    BY <1>2, <1>3

\* There are no more stages than late outputs.
LEMMA FewStages ==
  ASSUME NEW bs, NEW ws, NEW st, NEW td, NEW cs, NEW last \in Nat, NetOK(bs, ws), LateOK(bs),
         BalanceOK(bs, ws, st, td, cs), \E b \in DOMAIN bs : st[b].depth = last
  PROVE  last <= MaxLate
  <1> DEFINE Stage(k) == CHOOSE r \in Late(bs) : st[r].depth = k - 1
             f == [k \in 1..last |-> Stage(k)]
  <1>1. ASSUME NEW k \in 1..last
        PROVE  Stage(k) \in Late(bs) /\ st[Stage(k)].depth = k - 1
    <2>1. PICK b \in DOMAIN bs : st[b].depth = last
      OBVIOUS
    <2>2. k - 1 \in Nat /\ k - 1 < st[b].depth
      BY <2>1
    <2>3. \E r \in Late(bs) : st[r].depth = k - 1
      BY <2>2 DEF BalanceOK, Backed
    <2> QED
      BY <2>3
  <1>2. f \in Injection(1..last, Late(bs))
    <2>1. f \in [1..last -> Late(bs)] /\ \A k \in 1..last : st[f[k]].depth = k - 1
      <3>1. \A k \in 1..last : f[k] = Stage(k)
        OBVIOUS
      <3> HIDE DEF Stage
      <3> QED
        BY <1>1, <3>1
    <2> HIDE DEF f
    <2>2. \A j, k \in 1..last : f[j] = f[k] => j = k
      <3> TAKE j, k \in 1..last
      <3>1. j \in Int /\ k \in Int /\ st[f[j]].depth = j - 1 /\ st[f[k]].depth = k - 1
        BY <2>1
      <3> QED
        BY <3>1
    <2> QED
      BY <2>1, <2>2 DEF Injection, IsInjective
  <1>3. IsFiniteSet(Late(bs))
    <2>1. Late(bs) \in SUBSET DOMAIN bs /\ IsFiniteSet(DOMAIN bs)
      BY DEF Late, NetOK, IsNetlist
    <2> QED
      BY <2>1, FS_Subset
  <1>4. IsFiniteSet(1..last) /\ Cardinality(1..last) = last
    <2>1. 1 \in Int /\ last \in Int
      OBVIOUS
    <2>2. IsFiniteSet(1..last) /\ Cardinality(1..last) = IF 1 > last THEN 0 ELSE last - 1 + 1
      BY <2>1, FS_Interval
    <2> QED
      BY <2>2
  <1> HIDE DEF f
  <1>5. Cardinality(1..last) <= Cardinality(Late(bs))
    BY <1>2, <1>3, <1>4, FS_Injection
  <1>6. Cardinality(Late(bs)) \in Nat /\ Cardinality(Late(bs)) <= MaxLate /\ MaxLate \in Nat
    BY <1>3, FS_CardinalityType, BoundsNat DEF LateOK
  <1> QED
    BY <1>4, <1>5, <1>6

-----------------------------------------------------------------------------
(* The values in a cycle                                                   *)

\* The tokens with number n of the inputs in S.
Tokens(S, n) == {<<i, n>> : i \in S}

\* What the blocks show when inputs offer head and registers hold dt.
Shows(bs, ws, v, dt, head) ==
  \A b \in DOMAIN bs : \A x :
    x \in v[b] <=> CASE bs[b].class = "Input"            -> x = <<b, head[b]>>
                     [] bs[b].class = "PipelineRegister" -> x \in dt[b]
                     [] OTHER                            -> \E w \in WiresInto(ws, b) : x \in v[w[1][1]]

\* Constants show no token and are computed from no input.
LEMMA ConstantsAreEmpty ==
  ASSUME NEW bs, NEW ws, NEW v, NEW dt, NEW head, NEW from, NEW total, NEW cs, NetOK(bs, ws),
         Without(bs, {"Wait", "Fork"}),
         ConstantsOK(bs, ws, cs), Feeds(bs, ws, from, total), Shows(bs, ws, v, dt, head)
  PROVE  \A b \in cs : \A x : x \notin v[b] /\ x \notin from[b]
  <1> DEFINE C == {b \in cs : \E x : x \in v[b] \/ x \in from[b]}
  <1> SUFFICES ASSUME C # {}
               PROVE  FALSE
    OBVIOUS
  <1>1. PICK height \in Nat : IsRanked(bs, ws, height)
    BY DEF NetOK, Acyclic
  <1>2. PICK rank \in [DOMAIN bs -> 1..height] : \A w \in ws : rank[w[1][1]] < rank[w[2][1]]
    BY <1>1 DEF IsRanked
  <1>3. C \in SUBSET DOMAIN bs
    BY DEF ConstantsOK
  <1>4. \E b \in C : \A c \in C : rank[b] <= rank[c]
    <2> HIDE DEF C
    <2> QED
      BY <1>1, <1>2, <1>3, Lowest
  <1>5. PICK b \in C : \A c \in C : rank[b] <= rank[c]
    BY <1>4
  <1>6. b \in DOMAIN bs /\ b \in cs /\ bs[b].class \notin {"Input", "PipelineRegister", "Wait"}
    BY DEF ConstantsOK, Without
  <1>7. PICK x : x \in v[b] \/ x \in from[b]
    OBVIOUS
  <1>8. \E w \in ws : w[2][1] = b /\ (x \in v[w[1][1]] \/ x \in from[w[1][1]])
    <2>1. CASE x \in v[b]
      BY <1>6, <2>1 DEF Shows, WiresInto
    <2>2. CASE x \in from[b]
      BY <1>6, <2>2 DEF Feeds, Giving
    <2> QED
      BY <1>7, <2>1, <2>2
  <1>9. PICK w \in ws : w[2][1] = b /\ (x \in v[w[1][1]] \/ x \in from[w[1][1]])
    BY <1>8
  <1>10. w[1][1] \in C /\ w[1][1] \in DOMAIN bs
    BY <1>6, <1>9 DEF ConstantsOK
  <1>11. rank[b] <= rank[w[1][1]] /\ rank[w[1][1]] < rank[b] /\ rank[b] \in Nat /\ rank[w[1][1]] \in Nat
    BY <1>1, <1>2, <1>5, <1>6, <1>9, <1>10
  <1> QED
    BY <1>11

\* The registers before stage d hold, and the inputs before stage 0 offer, the
\* tokens with number n.
StageOffers(bs, ws, st, v, dt, head, from, total, cs, d, n) ==
  /\ NetOK(bs, ws) /\ Without(bs, {"Wait", "Fork"}) /\ BalanceOK(bs, ws, st, {}, cs) /\ ConstantsOK(bs, ws, cs)
  /\ Feeds(bs, ws, from, total) /\ Shows(bs, ws, v, dt, head)
  /\ d \in Nat /\ (d = 0 => \A b \in InputsOf(bs) : head[b] = n)
  /\ \A r \in DOMAIN bs : bs[r].class = "PipelineRegister" /\ st[r].depth + 1 = d => dt[r] = Tokens(from[r], n)

\* What comes to the blocks of the stage.
StageGets(bs, ws, st, v, from, d, n) ==
  \A b \in DOMAIN bs : bs[b].class # "Input" /\ st[b].depth = d =>
    UNION {v[w[1][1]] : w \in WiresInto(ws, b)} = Tokens(from[b], n)

\* What comes to the blocks of a stage was computed from what it is offered.
LEMMA StageShows ==
  ASSUME NEW bs, NEW ws, NEW st, NEW v, NEW dt, NEW head, NEW from, NEW total, NEW cs, NEW d, NEW n,
         StageOffers(bs, ws, st, v, dt, head, from, total, cs, d, n)
  PROVE  StageGets(bs, ws, st, v, from, d, n)
  <1> SUFFICES ASSUME NEW b \in DOMAIN bs, bs[b].class # "Input", st[b].depth = d
               PROVE  UNION {v[w[1][1]] : w \in WiresInto(ws, b)} = Tokens(from[b], n)
    BY DEF StageGets
  <1>0. /\ NetOK(bs, ws) /\ Without(bs, {"Wait", "Fork"}) /\ BalanceOK(bs, ws, st, {}, cs) /\ ConstantsOK(bs, ws, cs)
        /\ Feeds(bs, ws, from, total) /\ Shows(bs, ws, v, dt, head)
        /\ d \in Nat /\ (d = 0 => \A c \in InputsOf(bs) : head[c] = n)
        /\ \A r \in DOMAIN bs : bs[r].class = "PipelineRegister" /\ st[r].depth + 1 = d => dt[r] = Tokens(from[r], n)
    BY DEF StageOffers
  <1> DEFINE Right(c) == \A x : x \in v[c] <=> \E i \in from[c] : x = <<i, n>>
  <1>1. PICK height \in Nat : IsRanked(bs, ws, height)
    BY <1>0 DEF NetOK, Acyclic
  <1>2. PICK rank \in [DOMAIN bs -> 1..height] : \A w \in ws : rank[w[1][1]] < rank[w[2][1]]
    BY <1>1 DEF IsRanked
  <1>3. \A w \in ws : w[1][1] \in DOMAIN bs /\ w[2][1] \in DOMAIN bs
    BY <1>0 DEF NetOK, IsNetlist
  <1>4. \A c \in cs : \A x : x \notin v[c] /\ x \notin from[c]
    BY <1>0, ConstantsAreEmpty
  <1>5. ASSUME NEW c \in DOMAIN bs, st[c].depth = d, NEW w \in WiresInto(ws, c),
               bs[w[1][1]].class \notin {"Input", "PipelineRegister"} /\ st[w[1][1]].depth = d => Right(w[1][1])
        PROVE  Right(w[1][1])
    <2>1. w \in ws /\ w[2][1] = c /\ w[1][1] \in DOMAIN bs
      BY <1>3 DEF WiresInto
    <2>2. CASE w[1][1] \in cs
      BY <1>4, <2>2
    <2>3. CASE w[1][1] \notin cs
      <3>1. st[w[1][1]].depth + Extra(bs, w[1][1]) = d /\ st[w[1][1]].depth \in Nat
        BY <1>0, <1>5, <2>1, <2>3 DEF BalanceOK, StatsOK, BringsOf
      <3>2. CASE bs[w[1][1]].class = "PipelineRegister"
        <4>1. dt[w[1][1]] = Tokens(from[w[1][1]], n)
          BY <1>0, <2>1, <3>1, <3>2 DEF Extra
        <4> QED
          BY <1>0, <2>1, <3>2, <4>1 DEF Shows, Tokens
      <3>3. CASE bs[w[1][1]].class = "Input"
        <4>1. bs[w[1][1]].ins = {}
          BY <1>0, <2>1, <3>3 DEF NetOK, HasRoles
        <4>2. d = 0
          BY <1>0, <2>1, <3>1, <3>3, <4>1 DEF BalanceOK, SourcesFirst, Extra
        <4>3. head[w[1][1]] = n
          BY <1>0, <2>1, <3>3, <4>2 DEF InputsOf
        <4>4. \A x : x \in v[w[1][1]] <=> x = <<w[1][1], n>>
          BY <1>0, <2>1, <3>3, <4>3 DEF Shows
        <4>5. \A i : i \in from[w[1][1]] <=> i = w[1][1]
          BY <1>0, <2>1, <3>3 DEF Feeds
        <4> QED
          BY <4>4, <4>5
      <3>4. CASE bs[w[1][1]].class \notin {"Input", "PipelineRegister"}
        <4>1. st[w[1][1]].depth = d
          BY <3>1, <3>4 DEF Extra
        <4> HIDE DEF Right
        <4> QED
          BY <1>5, <3>4, <4>1
      <3> HIDE DEF Right
      <3> QED
        BY <3>2, <3>3, <3>4
    <2> HIDE DEF Right
    <2> QED
      BY <2>2, <2>3
  <1>6. ASSUME NEW c \in DOMAIN bs, bs[c].class # "Input", \A w \in WiresInto(ws, c) : Right(w[1][1]), NEW x
        PROVE  (\E w \in WiresInto(ws, c) : x \in v[w[1][1]]) <=> \E i \in from[c] : x = <<i, n>>
    <2>1. Giving(bs, ws, c) = WiresInto(ws, c)
      BY <1>0 DEF Giving, WiresInto, Without
    <2>2. \A i : i \in from[c] <=> \E w \in WiresInto(ws, c) : i \in from[w[1][1]]
      BY <1>0, <1>6, <2>1 DEF Feeds
    <2> QED
      BY <1>6, <2>2
  <1> DEFINE C == {c \in DOMAIN bs : bs[c].class \notin {"Input", "PipelineRegister"} /\ st[c].depth = d /\ ~Right(c)}
  <1>7. C = {}
    <2> SUFFICES ASSUME C # {}
                 PROVE  FALSE
      OBVIOUS
    <2>1. C \in SUBSET DOMAIN bs
      OBVIOUS
    <2>2. \E c \in C : \A e \in C : rank[c] <= rank[e]
      <3> HIDE DEF C
      <3> QED
        BY <1>1, <1>2, <2>1, Lowest
    <2>3. PICK c \in C : \A e \in C : rank[c] <= rank[e]
      BY <2>2
    <2>4. /\ c \in DOMAIN bs /\ bs[c].class \notin {"Input", "PipelineRegister"} /\ st[c].depth = d /\ ~Right(c)
      <3> HIDE DEF Right
      <3> QED
        OBVIOUS
    <2>5. ASSUME NEW w \in WiresInto(ws, c)
          PROVE  Right(w[1][1])
      <3>1. w \in ws /\ w[2][1] = c /\ w[1][1] \in DOMAIN bs
        BY <1>3 DEF WiresInto
      <3>2. ~(rank[c] <= rank[w[1][1]])
        <4>1. rank[w[1][1]] < rank[c] /\ rank[c] \in Nat /\ rank[w[1][1]] \in Nat
          BY <1>1, <1>2, <2>4, <3>1
        <4> QED
          BY <4>1
      <3>3. w[1][1] \notin C
        <4> HIDE DEF C
        <4> QED
          BY <2>3, <3>2
      <3> HIDE DEF Right
      <3> QED
        BY <1>5, <2>4, <3>1, <3>3
    <2>6. Right(c)
      <3>1. \A x : (\E w \in WiresInto(ws, c) : x \in v[w[1][1]]) <=> \E i \in from[c] : x = <<i, n>>
        <4> HIDE DEF Right
        <4> QED
          BY <1>6, <2>4, <2>5
      <3>2. \A x : x \in v[c] <=> \E w \in WiresInto(ws, c) : x \in v[w[1][1]]
        BY <1>0, <2>4 DEF Shows
      <3> QED
        BY <3>1, <3>2
    <2> QED
      BY <2>4, <2>6
  <1>8. \A w \in WiresInto(ws, b) : Right(w[1][1])
    <2> SUFFICES ASSUME NEW w \in WiresInto(ws, b)
                 PROVE  Right(w[1][1])
      OBVIOUS
    <2>1. w[1][1] \in DOMAIN bs
      BY <1>3 DEF WiresInto
    <2> HIDE DEF Right
    <2> QED
      BY <1>5, <1>7, <2>1
  <1>9. \A x : (\E w \in WiresInto(ws, b) : x \in v[w[1][1]]) <=> \E i \in from[b] : x = <<i, n>>
    <2> HIDE DEF Right
    <2> QED
      BY <1>6, <1>8
  <1> QED
    BY <1>9 DEF Tokens


\* What the inputs offer.
Heads == [i \in InputsOf(blocks) |-> IF x_valid[i] THEN accepted[i] + 1 ELSE 0]

\* The values of a cycle are what the blocks show.
LEMMA ValueShows ==
  ASSUME NetOK(blocks, wires)
  PROVE  Shows(blocks, wires, value, data, Heads)
  <1> DEFINE D == DOMAIN blocks
             Offer(b) == {<<b, IF x_valid[b] THEN accepted[b] + 1 ELSE 0>>}
             drv == [b \in D |-> Drivers(b)]
             lead == [b \in D |-> blocks[b].class \in {"Input", "PipelineRegister"}]
             first == [b \in D |-> IF blocks[b].class = "Input" THEN Offer(b) ELSE data[b]]
  <1>1. PICK height \in Nat : IsRanked(blocks, wires, height)
    BY DEF NetOK, Acyclic
  <1>2. PICK rank \in [D -> 1..height] : \A w \in wires : rank[w[1][1]] < rank[w[2][1]]
    BY <1>1 DEF IsRanked
  <1>3. \A b \in D : drv[b] \subseteq D /\ \A c \in drv[b] : rank[c] < rank[b]
    BY <1>2 DEF Drivers, Into, NetOK, IsNetlist
  <1>4. Ranks(D, drv)
    <2> HIDE DEF D, drv
    <2> QED
      BY <1>1, <1>2, <1>3 DEF Ranks
  <1>5. PICK g : Solution(g, D, drv, lead, first)
    <2>1. Solved(D, drv, lead, first)
      <3> HIDE DEF D, drv, lead, first
      <3> QED
        BY <1>4, Solves
    <2> HIDE DEF D, drv, lead, first
    <2> QED
      BY <2>1 DEF Solved
  <1> DEFINE Def(f, b) == CASE Class(b) = "Input" -> Offer(b)
                            [] IsReg(b)           -> data[b]
                            [] OTHER              -> UNION {f[c] : c \in Drivers(b)}
  <1>6. \A b \in D : (IF lead[b] THEN first[b] ELSE UNION {g[c] : c \in drv[b]}) = Def(g, b)
    <2> TAKE b \in D
    <2>1. drv[b] = Drivers(b) /\ lead[b] = (blocks[b].class \in {"Input", "PipelineRegister"})
      OBVIOUS
    <2>2. first[b] = IF blocks[b].class = "Input" THEN Offer(b) ELSE data[b]
      OBVIOUS
    <2> HIDE DEF drv, lead, first, Offer
    <2> QED
      BY <2>1, <2>2 DEF Class, IsReg
  <1>7. g = [b \in D |-> Def(g, b)]
    <2> HIDE DEF Def, drv, lead, first, D
    <2> QED
      BY <1>5, <1>6 DEF Solution
  <1>8. \E f : f = [b \in DOMAIN blocks |->
                      CASE Class(b) = "Input" -> {<<b, IF x_valid[b] THEN accepted[b] + 1 ELSE 0>>}
                        [] IsReg(b)           -> data[b]
                        [] OTHER              -> UNION {f[c] : c \in Drivers(b)}]
    BY <1>7, Zenon
  <1>9. value = [b \in D |-> Def(value, b)]
    BY <1>8, Zenon DEF value
  <1>10. ASSUME NEW b \in D, NEW x
         PROVE  x \in value[b] <=>
                  CASE blocks[b].class = "Input"            -> x = <<b, Heads[b]>>
                    [] blocks[b].class = "PipelineRegister" -> x \in data[b]
                    [] OTHER -> \E w \in WiresInto(wires, b) : x \in value[w[1][1]]
    <2>1. value[b] = Def(value, b)
      <3> HIDE DEF Def
      <3> QED
        BY <1>9
    <2>2. CASE blocks[b].class = "Input"
      <3>1. Heads[b] = IF x_valid[b] THEN accepted[b] + 1 ELSE 0
        BY <2>2 DEF Heads, InputsOf
      <3>2. Offer(b) = {<<b, Heads[b]>>}
        BY <3>1
      <3>3. Def(value, b) = Offer(b)
        <4> HIDE DEF Offer
        <4> QED
          BY <2>2 DEF Class, IsReg
      <3> HIDE DEF Def, Offer
      <3>4. value[b] = {<<b, Heads[b]>>}
        BY <2>1, <3>2, <3>3
      <3> QED
        BY <2>2, <3>4
    <2>3. CASE blocks[b].class = "PipelineRegister"
      BY <2>1, <2>3 DEF Class, IsReg
    <2>4. CASE blocks[b].class \notin {"Input", "PipelineRegister"}
      <3>1. value[b] = UNION {value[c] : c \in Drivers(b)}
        BY <2>1, <2>4 DEF Class, IsReg
      <3>2. \A c : c \in Drivers(b) <=> \E w \in WiresInto(wires, b) : c = w[1][1]
        BY DEF Drivers, Into, WiresInto
      <3> HIDE DEF Def, D
      <3> QED
        BY <2>4, <3>1, <3>2
    <2> QED
      BY <2>2, <2>3, <2>4
  <1> QED
    BY <1>10 DEF Shows

\* What comes to a block is what the blocks before it show.
LEMMA ArrivingIs ==
  ASSUME NEW b
  PROVE  Arriving(b) = UNION {value[w[1][1]] : w \in WiresInto(wires, b)}
  BY DEF Arriving, Drivers, Into, WiresInto

-----------------------------------------------------------------------------
(* The firings in the stages                                               *)

\* What the neighbours may have done: an input that has a token has one left.
CircuitInv ==
  /\ x_valid \in [InputsOf(blocks) -> BOOLEAN]
  /\ accepted \in [InputsOf(blocks) -> 0..MaxTokens]
  /\ \A i \in InputsOf(blocks) : x_valid[i] => accepted[i] < MaxTokens
  /\ phase # "run" => accepted = [i \in InputsOf(blocks) |-> 0] /\ delivered = <<>>

\* Each register has a stage, and the output is behind the last one.
Staged ==
  /\ clocks \in Nat /\ clocks <= MaxLate /\ valid \in [1..clocks -> BOOLEAN]
  /\ data = [r \in All("PipelineRegister") |-> data[r]]
  /\ \A r \in DOMAIN data : stats[r].depth \in Nat /\ stats[r].depth < clocks
  /\ \A b \in All("Output") : stats[b].depth = clocks

\* passed[s] firings went into stage s, and the last of passed is how many were
\* delivered; a full stage holds the last firing that went into it.
Passing(from, passed) ==
  /\ passed \in [1..clocks + 1 -> Nat]
  /\ accepted = [i \in InputsOf(blocks) |-> passed[1]]
  /\ delivered = [k \in 1..passed[clocks + 1] |-> Tokens(Needed, k)]
  /\ \A s \in 1..clocks : passed[s] = passed[s + 1] + (IF valid[s] THEN 1 ELSE 0)
  /\ \A r \in DOMAIN data :
       valid[stats[r].depth + 1] => data[r] = Tokens(from[r], passed[stats[r].depth + 1])

\* In a region that runs.
RunInv ==
  phase = "run" => Staged /\ \E from, passed : Feeds(blocks, wires, from, Needed) /\ Passing(from, passed)

\* A region that runs.
Running(from, passed) ==
  /\ NetOK(blocks, wires) /\ Without(blocks, {"Wait", "Fork"}) /\ OneOutput(blocks)
  /\ BalanceOK(blocks, wires, stats, {}, constants) /\ ConstantsOK(blocks, wires, constants)
  /\ Feeds(blocks, wires, from, Needed) /\ Staged /\ CircuitInv /\ Passing(from, passed)

\* When a stage is offered a firing it is the next one, and so is what comes to
\* the blocks of the stage.
LEMMA Arrives ==
  ASSUME NEW from, NEW passed, Running(from, passed), NEW s \in 1..clocks + 1, vin_valid(s),
         NEW b \in DOMAIN blocks, blocks[b].class # "Input", stats[b].depth = s - 1
  PROVE  Arriving(b) = Tokens(from[b], passed[s] + 1)
  <1>1. PICK d : d = s - 1
    OBVIOUS
  <1>2. PICK n : n = passed[s] + 1
    OBVIOUS
  <1>3. clocks \in Nat /\ s \in Nat /\ d \in Nat /\ d <= clocks
    BY <1>1 DEF Running, Staged
  <1>4. Shows(blocks, wires, value, data, Heads)
    BY ValueShows DEF Running
  <1>5. ASSUME d = 0, NEW i \in InputsOf(blocks)
        PROVE  Heads[i] = n
    <2>1. s = 1
      BY <1>1, <1>3, <1>5
    <2>2. x_valid[i]
      BY <2>1 DEF vin_valid, cr_valid, All, Class, InputsOf
    <2>3. accepted[i] = passed[1]
      BY DEF Running, Passing
    <2> QED
      BY <1>2, <2>1, <2>2, <2>3 DEF Heads
  <1>6. ASSUME NEW r \in DOMAIN blocks, blocks[r].class = "PipelineRegister", stats[r].depth + 1 = d
        PROVE  data[r] = Tokens(from[r], n)
    <2>1. r \in DOMAIN data
      BY <1>6 DEF Running, Staged, All, Class
    <2>2. stats[r].depth \in Nat
      BY <2>1 DEF Running, Staged
    <2>3. d \in 1..clocks /\ s # 1 /\ d + 1 = s
      BY <1>1, <1>3, <1>6, <2>2
    <2>4. valid[d]
      BY <1>1, <2>3 DEF vin_valid
    <2>5. passed[d] = passed[s] + 1
      BY <2>3, <2>4 DEF Running, Passing
    <2> QED
      BY <1>2, <1>6, <2>1, <2>4, <2>5 DEF Running, Passing
  <1>7. StageGets(blocks, wires, stats, value, from, d, n)
    <2>1. /\ NetOK(blocks, wires) /\ Without(blocks, {"Wait", "Fork"})
          /\ BalanceOK(blocks, wires, stats, {}, constants) /\ ConstantsOK(blocks, wires, constants)
          /\ Feeds(blocks, wires, from, Needed)
      BY DEF Running
    <2>2. d = 0 => \A i \in InputsOf(blocks) : Heads[i] = n
      BY <1>5
    <2>3. \A r \in DOMAIN blocks :
            blocks[r].class = "PipelineRegister" /\ stats[r].depth + 1 = d => data[r] = Tokens(from[r], n)
      BY <1>6
    <2>4. StageOffers(blocks, wires, stats, value, data, Heads, from, Needed, constants, d, n)
      BY <1>3, <1>4, <2>1, <2>2, <2>3 DEF StageOffers
    <2> QED
      BY <2>4, StageShows
  <1> QED
    BY <1>1, <1>2, <1>7, ArrivingIs DEF StageGets

\* What is given on the output is the next firing.
LEMMA NextOut ==
  ASSUME NEW from, NEW passed, Running(from, passed), out_valid
  PROVE  out = Tokens(Needed, passed[clocks + 1] + 1)
  <1>1. clocks \in Nat /\ clocks + 1 \in 1..clocks + 1
    BY DEF Running, Staged
  <1>2. vin_valid(clocks + 1)
    BY <1>1 DEF out_valid, vin_valid
  <1>3. PICK o \in DOMAIN blocks : blocks[o].class = "Output"
    BY DEF Running, NetOK, HasRoles
  <1>4. All("Output") = {o}
    BY <1>3 DEF Running, OneOutput, All, Class
  <1>5. (CHOOSE b \in All("Output") : TRUE) = o
    BY <1>4
  <1>6. stats[o].depth = clocks
    BY <1>4 DEF Running, Staged
  <1>7. Arriving(o) = Tokens(from[o], passed[clocks + 1] + 1)
    <2>1. stats[o].depth = (clocks + 1) - 1
      BY <1>1, <1>6
    <2> QED
      BY <1>1, <1>2, <1>3, <2>1, Arrives
  <1>8. from[o] = Needed \/ Tokens(from[o], passed[clocks + 1] + 1) = Tokens(Needed, passed[clocks + 1] + 1)
    <2>1. \A b : b \in OutputsOf(blocks) <=> b = o
      BY <1>4 DEF All, Class, OutputsOf
    <2>2. \A i : i \in Needed <=> i \in from[o]
      BY <2>1 DEF Running, Feeds
    <2> QED
      BY <2>2 DEF Tokens
  <1>9. out = Arriving(o)
    BY <1>5 DEF out
  <1> QED
    BY <1>7, <1>8, <1>9

\* How the firings move in a cycle.
Moves(s, out_bp) == IF s = clocks + 1 THEN out_valid /\ ~out_bp ELSE Incoming(s)

\* A firing leaves a stage for the next one, or for the output.
LEMMA Handshakes ==
  ASSUME Staged, NEW out_bp \in BOOLEAN
  PROVE  /\ \A s \in 1..clocks + 1 : Moves(s, out_bp) \in BOOLEAN /\ (Moves(s, out_bp) => vin_valid(s))
         /\ \A s \in 1..clocks : /\ Moves(s, out_bp) <=> Incoming(s)
                                 /\ Moves(s + 1, out_bp) <=> Outgoing(s, out_bp)
         /\ ~in_bp(out_bp) <=> Moves(1, out_bp)
  <1>1. clocks \in Nat /\ valid \in [1..clocks -> BOOLEAN]
    BY DEF Staged
  <1>2. ASSUME NEW s \in 1..clocks + 1
        PROVE  Moves(s, out_bp) \in BOOLEAN /\ (Moves(s, out_bp) => vin_valid(s))
    <2>1. CASE s = clocks + 1
      BY <1>1, <2>1 DEF Moves, out_valid, vin_valid, cr_valid
    <2>2. CASE s # clocks + 1
      BY <1>1, <2>2 DEF Moves, Incoming, vin_valid, cr_valid
    <2> QED
      BY <2>1, <2>2
  <1>3. ASSUME NEW s \in 1..clocks
        PROVE  /\ Moves(s, out_bp) <=> Incoming(s)
               /\ Moves(s + 1, out_bp) <=> Outgoing(s, out_bp)
    <2>1. s # clocks + 1 /\ s + 1 # 1 /\ (s + 1) - 1 = s /\ clocks # 0 /\ (s + 1 = clocks + 1 <=> s = clocks)
      BY <1>1
    <2>2. Moves(s, out_bp) <=> Incoming(s)
      BY <2>1 DEF Moves
    <2>3. CASE s = clocks
      BY <1>1, <2>1, <2>3 DEF Moves, Outgoing, vout_bp, cr_bp, out_valid
    <2>4. CASE s # clocks
      BY <1>1, <2>1, <2>4 DEF Moves, Outgoing, vout_bp, Incoming, vin_bp, vin_valid
    <2> QED
      BY <2>2, <2>3, <2>4
  <1>4. ~in_bp(out_bp) <=> Moves(1, out_bp)
    <2>1. CASE clocks = 0
      BY <2>1 DEF in_bp, Moves, out_valid, cr_bp
    <2>2. CASE clocks # 0
      BY <1>1, <2>2 DEF in_bp, Moves, Incoming, vin_bp, vin_valid
    <2> QED
      BY <2>1, <2>2
  <1> QED
    BY <1>2, <1>3, <1>4

\* The values of the first m firings.
Given(N, m) == [k \in 1..m |-> Tokens(N, k)]

\* One more firing.
LEMMA GivenNext ==
  ASSUME NEW N, NEW m \in Nat
  PROVE  Append(Given(N, m), Tokens(N, m + 1)) = Given(N, m + 1)
  <1> DEFINE T == {Tokens(N, k) : k \in 1..m + 1}
             s == Given(N, m)
             t == Given(N, m + 1)
             x == Tokens(N, m + 1)
  <1>1. m + 1 \in 1..m + 1 /\ \A k \in 1..m : k \in 1..m + 1
    OBVIOUS
  <1>2. s \in [1..m -> T] /\ x \in T
    BY <1>1 DEF Given
  <1>3. s \in Seq(T) /\ Len(s) = m
    <2> HIDE DEF s, T
    <2> QED
      BY <1>2
  <1>4. (\A k \in 1..m + 1 : t[k] = Tokens(N, k)) /\ (\A k \in 1..m : s[k] = Tokens(N, k)) /\ DOMAIN t = 1..m + 1
    BY <1>1 DEF Given
  <1>5. t = [k \in 1..m + 1 |-> t[k]]
    BY DEF Given
  <1>6. \A k \in 1..m + 1 : t[k] = IF k <= m THEN s[k] ELSE x
    BY <1>4
  <1> HIDE DEF s, x, t, T
  <1>7. /\ Append(s, x) \in Seq(T) /\ Len(Append(s, x)) = m + 1
        /\ \A k \in 1..m : Append(s, x)[k] = s[k]
        /\ Append(s, x)[m + 1] = x
    BY <1>2, <1>3, AppendProperties
  <1>8. Append(s, x) = [k \in 1..m + 1 |-> Append(s, x)[k]]
    BY <1>7, LenProperties
  <1>9. \A k \in 1..m + 1 : Append(s, x)[k] = t[k]
    BY <1>6, <1>7
  <1>10. Append(s, x) = t
    BY <1>5, <1>8, <1>9
  <1> QED
    BY <1>10 DEF s, x, t

\* A cycle of the circuit leaves the netlist and the schedule alone.
LEMMA ClockSame ==
  ASSUME NEW out_bp, Clock(out_bp)
  PROVE  UNCHANGED <<region, blocks, wires, phase, stats, constants, clocks>> /\ phase = "run"
  BY DEF Clock, netVars, scheduleVars

\* The inputs never offer more than their last token.
LEMMA ClockInputs ==
  ASSUME CircuitInv, NEW out_bp \in BOOLEAN, Clock(out_bp), in_bp(out_bp) \in BOOLEAN
  PROVE  /\ CircuitInv'
         /\ \A i \in InputsOf(blocks) : accepted'[i] = accepted[i] + (IF x_valid[i] /\ ~in_bp(out_bp) THEN 1 ELSE 0)
         /\ accepted' = [i \in InputsOf(blocks) |-> accepted'[i]]
  <1>1. UNCHANGED <<region, blocks, wires, phase, stats, constants, clocks>> /\ phase = "run"
    BY ClockSame
  <1>2. /\ x_valid \in [InputsOf(blocks) -> BOOLEAN] /\ accepted \in [InputsOf(blocks) -> 0..MaxTokens]
        /\ \A i \in InputsOf(blocks) : x_valid[i] => accepted[i] < MaxTokens
    BY DEF CircuitInv
  <1>3. accepted' = [i \in DOMAIN accepted |-> accepted[i] + (IF x_valid[i] /\ ~in_bp(out_bp) THEN 1 ELSE 0)]
    BY DEF Clock, Transfer
  <1>4. \A i \in InputsOf(blocks) : accepted'[i] = accepted[i] + (IF x_valid[i] /\ ~in_bp(out_bp) THEN 1 ELSE 0)
    BY <1>2, <1>3
  <1>5. accepted' \in [InputsOf(blocks) -> 0..MaxTokens]
    <2>1. \A i \in InputsOf(blocks) : accepted'[i] \in 0..MaxTokens
      BY <1>2, <1>4, BoundsNat
    <2>2. accepted' = [i \in InputsOf(blocks) |-> accepted'[i]]
      BY <1>2, <1>3, <1>4
    <2> QED
      BY <2>1, <2>2
  <1>6. x_valid' \in [InputsOf(blocks) -> BOOLEAN] /\ \A i \in InputsOf(blocks) : x_valid'[i] => accepted'[i] < MaxTokens
    BY <1>2 DEF Clock, Drive
  <1>7. InputsOf(blocks') = InputsOf(blocks)
    BY <1>1
  <1> QED
    BY <1>1, <1>4, <1>5, <1>6, <1>7 DEF CircuitInv

\* A cycle moves the firings from stage to stage.
LEMMA ClockPassing ==
  ASSUME NEW from, NEW passed, Running(from, passed), NEW out_bp \in BOOLEAN, Clock(out_bp), Needed' = Needed,
         NEW passed2, passed2 = [s \in 1..clocks + 1 |-> passed[s] + (IF Moves(s, out_bp) THEN 1 ELSE 0)]
  PROVE  CircuitInv' /\ Staged' /\ Passing(from, passed2)'
  <1>1. UNCHANGED <<region, blocks, wires, phase, stats, constants, clocks>>
    BY ClockSame
  <1>2. /\ clocks \in Nat /\ clocks <= MaxLate /\ valid \in [1..clocks -> BOOLEAN]
        /\ data = [r \in All("PipelineRegister") |-> data[r]]
        /\ \A r \in DOMAIN data : stats[r].depth \in Nat /\ stats[r].depth < clocks
        /\ \A b \in All("Output") : stats[b].depth = clocks
    BY DEF Running, Staged
  <1>3. /\ passed \in [1..clocks + 1 -> Nat]
        /\ accepted = [i \in InputsOf(blocks) |-> passed[1]]
        /\ delivered = [k \in 1..passed[clocks + 1] |-> Tokens(Needed, k)]
        /\ \A s \in 1..clocks : passed[s] = passed[s + 1] + (IF valid[s] THEN 1 ELSE 0)
        /\ \A r \in DOMAIN data :
             valid[stats[r].depth + 1] => data[r] = Tokens(from[r], passed[stats[r].depth + 1])
    BY DEF Running, Passing
  <1>4. /\ \A s \in 1..clocks + 1 : Moves(s, out_bp) \in BOOLEAN /\ (Moves(s, out_bp) => vin_valid(s))
        /\ \A s \in 1..clocks : /\ Moves(s, out_bp) <=> Incoming(s)
                                /\ Moves(s + 1, out_bp) <=> Outgoing(s, out_bp)
        /\ ~in_bp(out_bp) <=> Moves(1, out_bp)
    BY Handshakes DEF Running
  <1>5. 1 \in 1..clocks + 1 /\ clocks + 1 \in 1..clocks + 1 /\ \A s \in 1..clocks : s \in 1..clocks + 1 /\ s + 1 \in 1..clocks + 1
    BY <1>2
  <1>6. \A s \in 1..clocks + 1 : passed2[s] = passed[s] + (IF Moves(s, out_bp) THEN 1 ELSE 0)
    OBVIOUS
  <1>7. passed2 \in [1..clocks + 1 -> Nat]
    BY <1>3
  <1>8. valid' = [s \in 1..clocks |-> ~Outgoing(s, out_bp) /\ (Incoming(s) \/ valid[s])]
    BY DEF Clock, StageControllers
  <1>9. \A s \in 1..clocks : valid'[s] = (~Outgoing(s, out_bp) /\ (Incoming(s) \/ valid[s])) /\ valid'[s] \in BOOLEAN
    BY <1>2, <1>8 DEF Outgoing, Incoming
  <1>10. valid' \in [1..clocks -> BOOLEAN]
    <2>1. valid' = [s \in 1..clocks |-> valid'[s]]
      BY <1>8
    <2> QED
      BY <1>9, <2>1
  <1>11. ASSUME NEW s \in 1..clocks
         PROVE  passed2[s] = passed2[s + 1] + (IF valid'[s] THEN 1 ELSE 0)
    <2>1. (Incoming(s) => ~valid[s]) /\ (Outgoing(s, out_bp) => valid[s])
      BY DEF Incoming, vin_bp, Outgoing
    <2>2. passed[s] \in Nat /\ passed[s + 1] \in Nat /\ passed[s] = passed[s + 1] + (IF valid[s] THEN 1 ELSE 0)
      BY <1>3, <1>5
    <2>3. /\ passed2[s] = passed[s] + (IF Incoming(s) THEN 1 ELSE 0)
          /\ passed2[s + 1] = passed[s + 1] + (IF Outgoing(s, out_bp) THEN 1 ELSE 0)
      BY <1>4, <1>5, <1>6
    <2>4. valid'[s] <=> ~Outgoing(s, out_bp) /\ (Incoming(s) \/ valid[s])
      BY <1>9
    <2> QED
      BY <2>1, <2>2, <2>3, <2>4
  <1>12. in_bp(out_bp) \in BOOLEAN
    BY <1>2 DEF in_bp, vin_bp, vin_valid, cr_bp, cr_valid
  <1>13. /\ CircuitInv'
         /\ \A i \in InputsOf(blocks) : accepted'[i] = accepted[i] + (IF x_valid[i] /\ ~in_bp(out_bp) THEN 1 ELSE 0)
         /\ accepted' = [i \in InputsOf(blocks) |-> accepted'[i]]
    BY <1>12, ClockInputs DEF Running
  <1>14. accepted' = [i \in InputsOf(blocks) |-> passed2[1]]
    <2>1. ASSUME NEW i \in InputsOf(blocks)
          PROVE  accepted'[i] = passed2[1]
      <3>1. Moves(1, out_bp) => x_valid[i]
        BY <1>4, <1>5 DEF vin_valid, cr_valid, All, Class, InputsOf
      <3>2. accepted[i] = passed[1] /\ passed2[1] = passed[1] + (IF Moves(1, out_bp) THEN 1 ELSE 0)
        BY <1>3, <1>5, <1>6
      <3> QED
        BY <1>4, <1>13, <3>1, <3>2
    <2> QED
      BY <1>13, <2>1
  <1>15. delivered' = [k \in 1..passed2[clocks + 1] |-> Tokens(Needed, k)]
    <2>1. Moves(clocks + 1, out_bp) <=> out_valid /\ ~out_bp
      BY DEF Moves
    <2>2. passed[clocks + 1] \in Nat /\ passed2[clocks + 1] = passed[clocks + 1] + (IF Moves(clocks + 1, out_bp) THEN 1 ELSE 0)
      BY <1>3, <1>5, <1>6
    <2>3. delivered' = IF out_valid /\ ~out_bp THEN Append(delivered, out) ELSE delivered
      BY DEF Clock, Transfer
    <2>4. CASE out_valid /\ ~out_bp
      <3>1. out = Tokens(Needed, passed[clocks + 1] + 1)
        BY <2>4, NextOut
      <3>2. delivered = Given(Needed, passed[clocks + 1])
        BY <1>3 DEF Given
      <3>3. delivered' = Given(Needed, passed[clocks + 1] + 1)
        BY <2>2, <2>3, <2>4, <3>1, <3>2, GivenNext
      <3> QED
        BY <2>1, <2>2, <2>4, <3>3 DEF Given
    <2>5. CASE ~(out_valid /\ ~out_bp)
      <3>1. delivered' = delivered /\ passed2[clocks + 1] = passed[clocks + 1]
        BY <2>1, <2>2, <2>3, <2>5
      <3> QED
        BY <1>3, <3>1
    <2> QED
      BY <2>4, <2>5
  <1>16. data' = [r \in DOMAIN data |-> IF Incoming(stats[r].depth + 1) THEN Arriving(r) ELSE data[r]]
    BY DEF Clock, SlaveRegisters
  <1>17. ASSUME NEW r \in DOMAIN data, valid'[stats[r].depth + 1]
         PROVE  data'[r] = Tokens(from[r], passed2[stats[r].depth + 1])
    <2>1. PICK s : s = stats[r].depth + 1
      OBVIOUS
    <2>2. s \in 1..clocks /\ s \in 1..clocks + 1 /\ stats[r].depth = s - 1
      <3>1. PICK d : d = stats[r].depth
        OBVIOUS
      <3>2. d \in Nat /\ d < clocks /\ clocks \in Nat /\ s = d + 1
        BY <1>2, <2>1, <3>1
      <3>3. s \in 1..clocks /\ s \in 1..clocks + 1 /\ d = s - 1
        BY <3>2
      <3> QED
        BY <3>1, <3>3
    <2>3. r \in DOMAIN blocks /\ blocks[r].class = "PipelineRegister"
      BY <1>2 DEF All, Class
    <2>4. data'[r] = IF Incoming(s) THEN Arriving(r) ELSE data[r]
      BY <1>16, <2>1
    <2>5. passed2[s] = passed[s] + (IF Incoming(s) THEN 1 ELSE 0) /\ passed[s] \in Nat
      BY <1>3, <1>4, <1>6, <2>2
    <2>6. CASE Incoming(s)
      <3>1. vin_valid(s)
        BY <2>6 DEF Incoming
      <3>2. Arriving(r) = Tokens(from[r], passed[s] + 1)
        BY <2>2, <2>3, <3>1, Arrives
      <3> QED
        BY <2>1, <2>4, <2>5, <2>6, <3>2
    <2>7. CASE ~Incoming(s)
      <3>1. valid[s]
        BY <1>9, <1>17, <2>1, <2>2, <2>7
      <3> QED
        BY <1>3, <2>1, <2>4, <2>5, <2>7, <3>1
    <2> QED
      BY <2>6, <2>7
  <1>18. All("PipelineRegister")' = All("PipelineRegister") /\ All("Output")' = All("Output") /\ DOMAIN data' = DOMAIN data
    BY <1>1, <1>16 DEF All, Class
  <1>19. Staged'
    <2>1. data' = [r \in All("PipelineRegister") |-> data'[r]]
      BY <1>2, <1>16
    <2> QED
      BY <1>1, <1>2, <1>10, <1>18, <2>1 DEF Staged
  <1>20. Passing(from, passed2)'
    BY <1>1, <1>7, <1>11, <1>14, <1>15, <1>17, <1>18 DEF Passing
  <1> QED
    BY <1>13, <1>19, <1>20

\* Nothing was given yet.
LEMMA NoneGiven ==
  ASSUME NEW N
  PROVE  Given(N, 0) = <<>>
  <1>1. 1..0 = {}
    OBVIOUS
  <1> QED
    BY <1>1 DEF Given

\* The compiler leaves the ports alone, and only the last step starts the region.
LEMMA BuildSame ==
  ASSUME Build
  PROVE  phase # "run" /\ UNCHANGED <<x_valid, accepted, delivered>> /\ (phase' # "run" \/ AssignStages)
  <1>1. CASE \E b \in DOMAIN blocks : Eliminate(b)
    <2>1. phase = "finalize" /\ UNCHANGED phase /\ UNCHANGED circuitVars
      BY <1>1 DEF Eliminate
    <2> QED
      BY <2>1 DEF circuitVars
  <1>2. CASE unifyOutput
    BY <1>2 DEF unifyOutput, circuitVars
  <1>3. CASE Simplify
    BY <1>3 DEF Simplify, circuitVars
  <1>4. CASE SynthesizeForks
    BY <1>4 DEF SynthesizeForks, circuitVars
  <1>5. CASE PipelineFrequency
    BY <1>5 DEF PipelineFrequency, circuitVars
  <1>6. CASE VisitWire
    <2>1. phase = "depths" /\ UNCHANGED <<region, netVars, phase, todo, constants, clocks, circuitVars>>
      BY <1>6, Zenon DEF VisitWire
    <2> QED
      BY <2>1 DEF circuitVars
  <1>7. CASE StartBalance
    BY <1>7 DEF StartBalance, circuitVars
  <1>8. CASE \E b \in todo : Balance(b)
    <2>1. PICK b \in todo : Balance(b)
      BY <1>8
    <2>2. phase = "balance" /\ UNCHANGED circuitVars
      BY <2>1 DEF Balance
    <2>3. phase' = phase \/ phase' = "aborted"
      BY <2>1 DEF Balance
    <2> QED
      BY <2>2, <2>3 DEF circuitVars
  <1>9. CASE AssignStages
    BY <1>9 DEF AssignStages
  <1> QED
    BY <1>1, <1>2, <1>3, <1>4, <1>5, <1>6, <1>7, <1>8, <1>9 DEF Build

\* A region starts empty.
LEMMA StagesRun ==
  ASSUME Inv, Flow, CircuitInv, AssignStages, Needed' = Needed, phase' = "run"
  PROVE  RunInv'
  <1>1. phase = "balance" /\ todo = {} /\ UNCHANGED <<blocks, wires, stats, constants, accepted, delivered>>
    BY DEF AssignStages, netVars
  <1>2. PICK last : last = Largest({stats[b].depth : b \in DOMAIN stats})
    OBVIOUS
  <1>3. /\ clocks' = last
        /\ valid' = [s \in 1..last |-> FALSE]
        /\ data' = [b \in All("PipelineRegister") |-> {}]
    BY <1>2 DEF AssignStages
  <1>4. /\ NetOK(blocks, wires) /\ Fed(blocks, wires) /\ OneOutput(blocks) /\ LateOK(blocks)
        /\ BalanceOK(blocks, wires, stats, todo, constants)
    BY <1>1 DEF Inv, NetInv, ScheduleInv
  <1>5. /\ last \in Nat /\ \A b \in DOMAIN blocks : stats[b].depth <= last
        /\ \E b \in DOMAIN blocks : stats[b].depth = last
        /\ \A b \in DOMAIN blocks : blocks[b].class = "PipelineRegister" => stats[b].depth < last
    <2>1. /\ last \in Nat /\ \A b \in DOMAIN blocks : stats[b].depth <= last
          /\ \E b \in DOMAIN blocks : stats[b].depth = last
      BY <1>2, <1>4, Fits
    <2>2. \A b \in DOMAIN blocks : blocks[b].class = "PipelineRegister" => WiresBehind(wires, b) # {} /\ stats[b].depth < last
      BY <1>2, <1>4, Fits
    <2> QED
      BY <2>1, <2>2
  <1>6. \A o \in DOMAIN blocks : blocks[o].class = "Output" => stats[o].depth = last
    BY <1>4, <1>5, OutputIsLast
  <1>7. last <= MaxLate
    BY <1>4, <1>5, FewStages
  <1>8. \A b \in DOMAIN blocks : stats[b].depth \in Nat
    BY <1>4 DEF BalanceOK, StatsOK
  <1>9. All("PipelineRegister")' = All("PipelineRegister") /\ All("Output")' = All("Output")
    BY <1>1 DEF All, Class
  <1>10. Staged'
    <2>1. valid' \in [1..last -> BOOLEAN]
      BY <1>3
    <2>2. data' = [r \in All("PipelineRegister") |-> data'[r]] /\ DOMAIN data' = All("PipelineRegister")
      BY <1>3
    <2> QED
      BY <1>1, <1>3, <1>5, <1>6, <1>7, <1>8, <1>9, <2>1, <2>2 DEF Staged, All, Class
  <1>11. PICK from : Feeds(blocks, wires, from, Needed)
    BY DEF Flow
  <1>12. PICK passed : passed = [s \in 1..last + 1 |-> 0]
    OBVIOUS
  <1>13. passed \in [1..last + 1 -> Nat] /\ \A s \in 1..last + 1 : passed[s] = 0
    BY <1>12
  <1>14. 1 \in 1..last + 1 /\ last + 1 \in 1..last + 1 /\ \A s \in 1..last : s \in 1..last + 1 /\ s + 1 \in 1..last + 1
    BY <1>5
  <1>15. accepted' = [i \in InputsOf(blocks) |-> 0] /\ delivered' = Given(Needed, 0)
    <2>1. accepted = [i \in InputsOf(blocks) |-> 0] /\ delivered = <<>>
      BY <1>1 DEF CircuitInv
    <2> QED
      BY <1>1, <2>1, NoneGiven
  <1>16. \A s \in 1..last : ~valid'[s]
    BY <1>3
  <1>17. ASSUME NEW r \in DOMAIN data'
         PROVE  ~valid'[stats[r].depth + 1]
    <2>1. PICK d : d = stats[r].depth
      OBVIOUS
    <2>2. r \in DOMAIN blocks /\ blocks[r].class = "PipelineRegister"
      BY <1>3 DEF All, Class
    <2>3. d \in Nat /\ d < last
      BY <1>5, <1>8, <2>1, <2>2
    <2>4. d + 1 \in 1..last
      BY <1>5, <2>3
    <2> QED
      BY <1>16, <2>1, <2>4
  <1>18. Passing(from, passed)'
    <2>1. passed \in [1..clocks' + 1 -> Nat] /\ passed[1] = 0 /\ passed[clocks' + 1] = 0
      BY <1>3, <1>13, <1>14
    <2>2. accepted' = [i \in InputsOf(blocks') |-> passed[1]]
      BY <1>1, <1>15, <2>1
    <2>3. delivered' = [k \in 1..passed[clocks' + 1] |-> Tokens(Needed', k)]
      BY <1>15, <2>1 DEF Given
    <2>4. \A s \in 1..clocks' : passed[s] = passed[s + 1] + (IF valid'[s] THEN 1 ELSE 0)
      BY <1>3, <1>13, <1>14, <1>16
    <2>5. \A r \in DOMAIN data' :
            valid'[stats'[r].depth + 1] => data'[r] = Tokens(from[r], passed[stats'[r].depth + 1])
      BY <1>1, <1>17
    <2> QED
      BY <2>1, <2>2, <2>3, <2>4, <2>5 DEF Passing
  <1>19. Feeds(blocks, wires, from, Needed)'
    BY <1>1, <1>11
  <1> QED
    BY <1>10, <1>18, <1>19 DEF RunInv

\* A reset empties it.
LEMMA ResetRuns ==
  ASSUME CircuitInv, RunInv, Reset, Needed' = Needed
  PROVE  CircuitInv' /\ RunInv'
  <1>1. phase = "run" /\ UNCHANGED <<region, blocks, wires, phase, stats, constants, clocks>>
    BY DEF Reset, netVars, scheduleVars
  <1>2. /\ valid' = [s \in 1..clocks |-> FALSE] /\ data' = [r \in DOMAIN data |-> {}]
        /\ accepted' = [i \in DOMAIN accepted |-> 0] /\ delivered' = <<>>
        /\ Drive
    BY DEF Reset
  <1>3. /\ clocks \in Nat /\ clocks <= MaxLate
        /\ data = [r \in All("PipelineRegister") |-> data[r]]
        /\ \A r \in DOMAIN data : stats[r].depth \in Nat /\ stats[r].depth < clocks
        /\ \A b \in All("Output") : stats[b].depth = clocks
    BY <1>1 DEF RunInv, Staged
  <1>4. DOMAIN accepted = InputsOf(blocks) /\ DOMAIN x_valid = InputsOf(blocks)
    BY DEF CircuitInv
  <1>5. accepted' = [i \in InputsOf(blocks) |-> 0] /\ delivered' = Given(Needed, 0)
    BY <1>2, <1>4, NoneGiven
  <1>6. CircuitInv'
    <2>1. accepted' \in [InputsOf(blocks) -> 0..MaxTokens]
      BY <1>5, BoundsNat
    <2>2. x_valid' \in [InputsOf(blocks) -> BOOLEAN] /\ \A i \in InputsOf(blocks) : x_valid'[i] => accepted'[i] < MaxTokens
      BY <1>2, <1>4 DEF Drive
    <2>3. InputsOf(blocks') = InputsOf(blocks)
      BY <1>1
    <2> QED
      BY <1>1, <2>1, <2>2, <2>3 DEF CircuitInv
  <1>7. All("PipelineRegister")' = All("PipelineRegister") /\ All("Output")' = All("Output") /\ DOMAIN data' = DOMAIN data
    BY <1>1, <1>2 DEF All, Class
  <1>8. Staged'
    <2>1. data' = [r \in All("PipelineRegister") |-> data'[r]]
      BY <1>2, <1>3
    <2>2. valid' \in [1..clocks -> BOOLEAN]
      BY <1>2
    <2> QED
      BY <1>1, <1>3, <1>7, <2>1, <2>2 DEF Staged
  <1>9. PICK from : \E passed : Feeds(blocks, wires, from, Needed) /\ Passing(from, passed)
    BY <1>1 DEF RunInv
  <1>10. PICK passed : passed = [s \in 1..clocks + 1 |-> 0]
    OBVIOUS
  <1>11. passed \in [1..clocks + 1 -> Nat] /\ \A s \in 1..clocks + 1 : passed[s] = 0
    BY <1>10
  <1>12. 1 \in 1..clocks + 1 /\ clocks + 1 \in 1..clocks + 1 /\ \A s \in 1..clocks : s \in 1..clocks + 1 /\ s + 1 \in 1..clocks + 1
    BY <1>3
  <1>13. \A s \in 1..clocks : ~valid'[s]
    BY <1>2
  <1>14. ASSUME NEW r \in DOMAIN data
         PROVE  ~valid'[stats[r].depth + 1]
    <2>1. PICK d : d = stats[r].depth
      OBVIOUS
    <2>2. d \in Nat /\ d < clocks
      BY <1>3, <2>1
    <2>3. d + 1 \in 1..clocks
      BY <1>3, <2>2
    <2> QED
      BY <1>13, <2>1, <2>3
  <1>15. Passing(from, passed)'
    BY <1>1, <1>5, <1>7, <1>11, <1>12, <1>13, <1>14 DEF Passing, Given
  <1>16. Feeds(blocks, wires, from, Needed)'
    BY <1>1, <1>9
  <1> QED
    BY <1>6, <1>8, <1>15, <1>16 DEF RunInv

\* A cycle leaves a region that runs.
LEMMA IsRunning ==
  ASSUME Inv, CircuitInv, RunInv, phase = "run"
  PROVE  \E from, passed : Running(from, passed)
  <1>1. PICK from, passed : Feeds(blocks, wires, from, Needed) /\ Passing(from, passed)
    BY DEF RunInv
  <1>2. /\ NetOK(blocks, wires) /\ Without(blocks, {"Wait", "Fork"}) /\ OneOutput(blocks)
        /\ ConstantsOK(blocks, wires, constants) /\ BalanceOK(blocks, wires, stats, {}, constants)
    BY DEF Inv, NetInv, ScheduleInv
  <1>3. Running(from, passed)
    BY <1>1, <1>2 DEF Running, RunInv
  <1> QED
    BY <1>3

\* A cycle keeps the firings apart.
LEMMA ClockRuns ==
  ASSUME NEW from, NEW passed, Running(from, passed), NEW out_bp \in BOOLEAN, Clock(out_bp), Needed' = Needed
  PROVE  CircuitInv' /\ RunInv'
  <1>1. PICK passed2 : passed2 = [s \in 1..clocks + 1 |-> passed[s] + (IF Moves(s, out_bp) THEN 1 ELSE 0)]
    OBVIOUS
  <1>2. CircuitInv' /\ Staged' /\ Passing(from, passed2)'
    BY <1>1, ClockPassing
  <1>3. Feeds(blocks, wires, from, Needed)'
    BY ClockSame DEF Running
  <1> QED
    BY <1>2, <1>3 DEF RunInv

\* A step keeps the invariant of the circuit.
LEMMA CircuitNext ==
  ASSUME Inv, Flow, CircuitInv, RunInv, [Next]_vars
  PROVE  CircuitInv' /\ RunInv'
  <1>1. Flow' /\ region' = region /\ Needed' = Needed
    BY FlowNext
  <1>2. InputsOf(blocks') = InputsOf(blocks)
    BY <1>1 DEF Flow
  <1>3. CASE Build
    <2>1. phase # "run" /\ UNCHANGED <<x_valid, accepted, delivered>> /\ (phase' # "run" \/ AssignStages)
      BY <1>3, BuildSame
    <2>2. CircuitInv'
      BY <1>2, <2>1 DEF CircuitInv
    <2>3. RunInv'
      BY <1>1, <2>1, StagesRun DEF RunInv
    <2> QED
      BY <2>2, <2>3
  <1>4. CASE Reset
    BY <1>1, <1>4, ResetRuns
  <1>5. ASSUME NEW out_bp \in BOOLEAN, Clock(out_bp)
        PROVE  CircuitInv' /\ RunInv'
    <2>1. phase = "run"
      BY <1>5, ClockSame
    <2>2. PICK from, passed : Running(from, passed)
      BY <2>1, IsRunning
    <2> QED
      BY <1>1, <1>5, <2>2, ClockRuns
  <1>6. CASE UNCHANGED vars
    <2>1. UNCHANGED <<blocks, wires, phase, stats, constants, clocks, valid, data, x_valid, accepted, delivered>>
      BY <1>6 DEF vars, netVars, scheduleVars, circuitVars
    <2>2. CircuitInv'
      BY <2>1 DEF CircuitInv
    <2>3. Staged' <=> Staged
      BY <2>1 DEF Staged, All, Class
    <2>4. \A from, passed : Passing(from, passed)' <=> Passing(from, passed)
      BY <1>1, <2>1 DEF Passing
    <2>5. RunInv'
      BY <1>1, <2>1, <2>3, <2>4 DEF RunInv
    <2> QED
      BY <2>2, <2>5
  <1> QED
    BY <1>3, <1>4, <1>5, <1>6 DEF Next

-----------------------------------------------------------------------------
(* The region is a channel                                                 *)

\* The first n firings.
Counted(n) == [k \in 1..n |-> k]

\* They are a sequence, and the next one goes to its end.
LEMMA CountedIs ==
  ASSUME NEW n \in Nat
  PROVE  /\ Counted(n) \in Seq(Nat) /\ Len(Counted(n)) = n /\ \A k \in 1..n : Counted(n)[k] = k
         /\ Append(Counted(n), n + 1) = Counted(n + 1)
  <1> DEFINE s == Counted(n)
             t == Counted(n + 1)
             x == n + 1
  <1>1. s \in [1..n -> Nat] /\ \A k \in 1..n : s[k] = k
    BY DEF Counted
  <1>2. t = [k \in 1..n + 1 |-> t[k]] /\ \A k \in 1..n + 1 : t[k] = k
    BY DEF Counted
  <1> HIDE DEF s, t
  <1>3. s \in Seq(Nat) /\ Len(s) = n /\ x \in Nat
    BY <1>1
  <1>4. /\ Append(s, x) \in Seq(Nat) /\ Len(Append(s, x)) = n + 1
        /\ \A k \in 1..n : Append(s, x)[k] = s[k]
        /\ Append(s, x)[n + 1] = n + 1
    BY <1>3, AppendProperties
  <1>5. Append(s, x) = [k \in 1..n + 1 |-> Append(s, x)[k]]
    BY <1>4, LenProperties
  <1>6. \A k \in 1..n + 1 : Append(s, x)[k] = t[k]
    BY <1>1, <1>2, <1>4
  <1>7. Append(s, x) = t
    BY <1>2, <1>5, <1>6
  <1> QED
    BY <1>1, <1>3, <1>7 DEF s, t

\* Between a stage and the output there are no more firings than stages.
LEMMA PassedBounds ==
  ASSUME NEW last \in Nat, NEW passed \in [1..last + 1 -> Nat], NEW full,
         \A s \in 1..last : passed[s] = passed[s + 1] + (IF full[s] THEN 1 ELSE 0)
  PROVE  passed[last + 1] <= passed[1] /\ passed[1] <= passed[last + 1] + last
  <1> DEFINE T == {n \in 0..last : /\ passed[last + 1] <= passed[last + 1 - n]
                                   /\ passed[last + 1 - n] <= passed[last + 1] + n}
  <1>1. 0 \in T
    <2>1. last + 1 \in 1..last + 1 /\ last + 1 - 0 = last + 1
      OBVIOUS
    <2>2. passed[last + 1] \in Nat
      BY <2>1
    <2> QED
      BY <2>1, <2>2
  <1>2. ASSUME NEW n \in 1..last, n - 1 \in T
        PROVE  n \in T
    <2>1. PICK s : s = last + 1 - n
      OBVIOUS
    <2>2. s \in 1..last /\ s \in 1..last + 1 /\ s + 1 \in 1..last + 1 /\ s + 1 = last + 1 - (n - 1) /\ last + 1 \in 1..last + 1
      BY <2>1
    <2>3. passed[s] = passed[s + 1] + (IF full[s] THEN 1 ELSE 0) /\ passed[s + 1] \in Nat /\ passed[last + 1] \in Nat
      BY <2>2
    <2>4. passed[last + 1] <= passed[s + 1] /\ passed[s + 1] <= passed[last + 1] + (n - 1)
      BY <1>2, <2>2
    <2>5. passed[last + 1] <= passed[s] /\ passed[s] <= passed[last + 1] + n
      BY <2>3, <2>4
    <2> QED
      BY <2>1, <2>5
  <1> HIDE DEF T
  <1>3. last \in T
    <2>1. \A n \in 1..last : n - 1 \in T => n \in T
      BY <1>2
    <2>2. 0..last \subseteq T
      BY <1>1, <2>1, Induction
    <2> QED
      BY <2>2
  <1>4. last + 1 - last = 1
    OBVIOUS
  <1> QED
    BY <1>3, <1>4 DEF T

\* The firings and the results are read from the histories.
FiringsOf(acc) == [k \in 1..(CHOOSE n \in Range(acc) : \A m \in Range(acc) : n <= m) |-> k]
ResultsOf(del, N) ==
  [k \in DOMAIN del |->
     IF \E n \in 1..MaxTokens : del[k] = {<<i, n>> : i \in N}
     THEN CHOOSE n \in 1..MaxTokens : del[k] = {<<i, n>> : i \in N} ELSE 0]

\* When all inputs took n tokens, n firings were taken.
LEMMA FiringsAre ==
  ASSUME NEW I, I # {}, NEW n \in Nat
  PROVE  FiringsOf([i \in I |-> n]) = Counted(n)
  <1>1. PICK acc : acc = [i \in I |-> n]
    OBVIOUS
  <1>2. Range(acc) = {n}
    BY <1>1 DEF Range
  <1>3. (CHOOSE k \in Range(acc) : \A j \in Range(acc) : k <= j) = n
    BY <1>2
  <1> QED
    BY <1>1, <1>3 DEF FiringsOf, Counted

\* The values of m firings are m results.
LEMMA ResultsAre ==
  ASSUME NEW N, N # {}, NEW m \in 0..MaxTokens
  PROVE  ResultsOf(Given(N, m), N) = Counted(m)
  <1>1. PICK del : del = Given(N, m)
    OBVIOUS
  <1>2. DOMAIN del = 1..m /\ \A k \in 1..m : del[k] = Tokens(N, k)
    BY <1>1 DEF Given
  <1> DEFINE Value(k) == IF \E j \in 1..MaxTokens : del[k] = {<<i, j>> : i \in N}
                         THEN CHOOSE j \in 1..MaxTokens : del[k] = {<<i, j>> : i \in N} ELSE 0
  <1>3. ASSUME NEW k \in 1..m
        PROVE  Value(k) = k
    <2>1. k \in 1..MaxTokens
      BY BoundsNat
    <2>2. \A j \in 1..MaxTokens : del[k] = {<<i, j>> : i \in N} <=> j = k
      <3> TAKE j \in 1..MaxTokens
      <3>1. del[k] = {<<i, k>> : i \in N}
        BY <1>2 DEF Tokens
      <3>2. PICK i : i \in N
        OBVIOUS
      <3>3. ASSUME {<<h, k>> : h \in N} = {<<h, j>> : h \in N}
            PROVE  j = k
        <4>1. <<i, k>> \in {<<h, j>> : h \in N}
          BY <3>2, <3>3
        <4> QED
          BY <4>1
      <3> QED
        BY <3>1, <3>3
    <2>3. (CHOOSE j \in 1..MaxTokens : del[k] = {<<i, j>> : i \in N}) = k
      BY <2>1, <2>2
    <2> QED
      BY <2>1, <2>2, <2>3
  <1>4. ResultsOf(del, N) = [k \in 1..m |-> Value(k)]
    BY <1>2 DEF ResultsOf
  <1> HIDE DEF Value
  <1> QED
    BY <1>1, <1>3, <1>4 DEF Counted

\* The inputs took n firings and m of them were delivered.
Shown(n, m) == Firings = Counted(n) /\ Results = Counted(m)

\* The histories show as many before a step,
LEMMA ShownIs ==
  ASSUME NEW n \in 0..MaxTokens, NEW m \in 0..n, InputsOf(blocks) # {}, Needed # {},
         accepted = [i \in InputsOf(blocks) |-> n], delivered = Given(Needed, m)
  PROVE  Shown(n, m)
  <1>1. Firings = FiringsOf(accepted) /\ Results = ResultsOf(delivered, Needed)
    BY DEF Firings, FiringsOf, Results, ResultsOf
  <1>2. FiringsOf([i \in InputsOf(blocks) |-> n]) = Counted(n) /\ ResultsOf(Given(Needed, m), Needed) = Counted(m)
    <2>1. n \in Nat /\ m \in 0..MaxTokens
      BY BoundsNat
    <2>2. FiringsOf([i \in InputsOf(blocks) |-> n]) = Counted(n)
      BY <2>1, FiringsAre
    <2>3. ResultsOf(Given(Needed, m), Needed) = Counted(m)
      BY <2>1, ResultsAre
    <2> QED
      BY <2>2, <2>3
  <1>3. FiringsOf(accepted) = Counted(n) /\ ResultsOf(delivered, Needed) = Counted(m)
    BY <1>2, Zenon
  <1> QED
    BY <1>1, <1>3 DEF Shown

\* and after it.
LEMMA ShownIsNext ==
  ASSUME NEW n \in 0..MaxTokens, NEW m \in 0..n, InputsOf(blocks') # {}, Needed' # {},
         accepted' = [i \in InputsOf(blocks') |-> n], delivered' = Given(Needed', m)
  PROVE  Shown(n, m)'
  <1>1. Firings' = FiringsOf(accepted') /\ Results' = ResultsOf(delivered', Needed')
    BY DEF Firings, FiringsOf, Results, ResultsOf
  <1>2. FiringsOf([i \in InputsOf(blocks') |-> n]) = Counted(n) /\ ResultsOf(Given(Needed', m), Needed') = Counted(m)
    <2>1. n \in Nat /\ m \in 0..MaxTokens
      BY BoundsNat
    <2>2. FiringsOf([i \in InputsOf(blocks') |-> n]) = Counted(n)
      BY <2>1, FiringsAre
    <2>3. ResultsOf(Given(Needed', m), Needed') = Counted(m)
      BY <2>1, ResultsAre
    <2> QED
      BY <2>2, <2>3
  <1>3. FiringsOf(accepted') = Counted(n) /\ ResultsOf(delivered', Needed') = Counted(m)
    BY <1>2, Zenon
  <1> QED
    BY <1>1, <1>3 DEF Shown

\* A region has an input, and an output that is computed from one.
Computing == region \in Regions /\ Computes(region)

\* It keeps them while it is compiled.
LEMMA SomeInput ==
  ASSUME Flow, Computing
  PROVE  InputsOf(blocks) # {} /\ Needed # {}
  BY SomeNeeded DEF Flow, Computing

\* A cycle of the region is a cycle of the channel.
LEMMA ClockRefines ==
  ASSUME NEW from, NEW passed, Running(from, passed), NEW out_bp \in BOOLEAN, Clock(out_bp), Needed' = Needed,
         InputsOf(blocks) # {}, Needed # {}
  PROVE  Channel!Cycle
  <1>1. PICK passed2 : passed2 = [s \in 1..clocks + 1 |-> passed[s] + (IF Moves(s, out_bp) THEN 1 ELSE 0)]
    OBVIOUS
  <1>2. CircuitInv' /\ Staged' /\ Passing(from, passed2)' /\ UNCHANGED <<blocks, clocks>>
    BY <1>1, ClockPassing, ClockSame
  <1>3. /\ CircuitInv /\ clocks \in Nat /\ clocks <= MaxLate /\ MaxLate \in Nat /\ MaxTokens \in Nat
        /\ 1 \in 1..clocks + 1 /\ clocks + 1 \in 1..clocks + 1
    BY BoundsNat DEF Running, Staged
  <1>4. /\ passed \in [1..clocks + 1 -> Nat] /\ accepted = [i \in InputsOf(blocks) |-> passed[1]]
        /\ delivered = Given(Needed, passed[clocks + 1])
        /\ \A s \in 1..clocks : passed[s] = passed[s + 1] + (IF valid[s] THEN 1 ELSE 0)
    BY DEF Running, Passing, Given
  <1>5. /\ passed2 \in [1..clocks + 1 -> Nat] /\ accepted' = [i \in InputsOf(blocks) |-> passed2[1]]
        /\ delivered' = Given(Needed, passed2[clocks + 1])
        /\ \A s \in 1..clocks : passed2[s] = passed2[s + 1] + (IF valid'[s] THEN 1 ELSE 0)
    BY <1>2 DEF Passing, Given
  <1>6. PICK n, m, n2, m2 : n = passed[1] /\ m = passed[clocks + 1] /\ n2 = passed2[1] /\ m2 = passed2[clocks + 1]
    OBVIOUS
  <1>7. n \in Nat /\ m \in Nat /\ n2 \in Nat /\ m2 \in Nat
    BY <1>3, <1>4, <1>5, <1>6
  <1>8. m <= n /\ m2 <= n2 /\ n2 <= m2 + MaxLate
    <2>1. m <= n
      BY <1>3, <1>4, <1>6, PassedBounds
    <2>2. m2 <= n2 /\ n2 <= m2 + clocks
      BY <1>3, <1>5, <1>6, PassedBounds
    <2> QED
      BY <1>3, <1>7, <2>1, <2>2
  <1>9. n <= MaxTokens /\ n2 <= MaxTokens
    <2>1. PICK i : i \in InputsOf(blocks)
      OBVIOUS
    <2>2. accepted[i] \in 0..MaxTokens /\ accepted[i] = n
      BY <1>3, <1>4, <1>6, <2>1 DEF CircuitInv
    <2>3. accepted'[i] \in 0..MaxTokens /\ accepted'[i] = n2
      BY <1>2, <1>5, <1>6, <2>1 DEF CircuitInv
    <2> QED
      BY <1>3, <1>7, <2>2, <2>3
  <1>10. n2 \in {n, n + 1} /\ m2 \in {m, m + 1}
    <2>1. \A s \in 1..clocks + 1 : passed2[s] \in {passed[s], passed[s] + 1}
      BY <1>1, <1>4
    <2> QED
      BY <1>3, <1>6, <2>1
  <1>11. Firings = Counted(n) /\ Results = Counted(m)
    <2>1. n \in 0..MaxTokens /\ m \in 0..n
      BY <1>3, <1>7, <1>8, <1>9
    <2>2. accepted = [i \in InputsOf(blocks) |-> n] /\ delivered = Given(Needed, m)
      BY <1>4, <1>6
    <2> QED
      BY <2>1, <2>2, ShownIs DEF Shown
  <1>12. Firings' = Counted(n2) /\ Results' = Counted(m2)
    <2>1. n2 \in 0..MaxTokens /\ m2 \in 0..n2
      BY <1>3, <1>7, <1>8, <1>9
    <2>2. InputsOf(blocks') = InputsOf(blocks)
      BY <1>2
    <2>3. accepted' = [i \in InputsOf(blocks') |-> n2] /\ delivered' = Given(Needed', m2)
      BY <1>5, <1>6, <2>2
    <2> QED
      BY <2>1, <2>2, <2>3, ShownIsNext DEF Shown
  <1>13. Channel!Accept
    <2>1. CASE n2 = n
      BY <1>11, <1>12, <2>1 DEF Channel!Accept
    <2>2. CASE n2 = n + 1
      <3>1. Firings' = Append(Firings, n + 1)
        BY <1>7, <1>11, <1>12, <2>2, CountedIs
      <3>2. n + 1 \in 1..MaxTokens
        BY <1>3, <1>7, <1>9, <2>2
      <3> QED
        BY <3>1, <3>2 DEF Channel!Accept
    <2> QED
      BY <1>10, <2>1, <2>2
  <1>14. Channel!Deliver
    <2>1. CASE m2 = m
      BY <1>11, <1>12, <2>1 DEF Channel!Deliver
    <2>2. CASE m2 = m + 1
      <3>1. Results' = Append(Results, m + 1) /\ Len(Results) = m
        BY <1>7, <1>11, <1>12, <2>2, CountedIs
      <3>2. m + 1 \in 1..n2 /\ Len(Firings') = n2 /\ Firings'[m + 1] = m + 1
        <4>1. PICK f : f = Firings'
          OBVIOUS
        <4>2. f = Counted(n2)
          BY <1>12, <4>1
        <4>3. Len(f) = n2 /\ \A k \in 1..n2 : f[k] = k
          BY <1>7, <4>2, CountedIs
        <4>4. m + 1 \in 1..n2
          BY <1>7, <1>8, <2>2
        <4> QED
          BY <4>1, <4>3, <4>4
      <3>3. /\ Len(Results) + 1 <= Len(Firings')
            /\ Results' = Append(Results, Firings'[Len(Results) + 1])
        BY <1>7, <3>1, <3>2
      <3> QED
        BY <3>3 DEF Channel!Deliver
    <2> QED
      BY <1>10, <2>1, <2>2
  <1>15. Len(Firings') <= Len(Results') + MaxLate
    BY <1>7, <1>8, <1>12, CountedIs
  <1> QED
    BY <1>13, <1>14, <1>15 DEF Channel!Cycle

\* A reset is a reset of the channel.
LEMMA ResetRefines ==
  ASSUME CircuitInv, Reset, Needed' = Needed, InputsOf(blocks) # {}, Needed # {}
  PROVE  Channel!Reset
  <1>1. accepted' = [i \in InputsOf(blocks) |-> 0] /\ delivered' = <<>> /\ blocks' = blocks
    BY DEF Reset, CircuitInv, netVars
  <1>2. Shown(0, 0)'
    <2>1. 0 \in 0..MaxTokens /\ 0 \in 0..0
      BY BoundsNat
    <2>2. InputsOf(blocks') = InputsOf(blocks) /\ delivered' = Given(Needed', 0)
      BY <1>1, NoneGiven
    <2> QED
      BY <1>1, <2>1, <2>2, ShownIsNext
  <1>3. Counted(0) = <<>>
    <2>1. 1..0 = {}
      OBVIOUS
    <2> QED
      BY <2>1 DEF Counted
  <1> QED
    BY <1>2, <1>3 DEF Channel!Reset, Shown

\* A step of the compiler is none of the channel.
LEMMA BuildRefines ==
  ASSUME region' = region, UNCHANGED <<accepted, delivered>>, Needed' = Needed
  PROVE  UNCHANGED <<Firings, Results>>
  BY DEF Firings, Results

\* What the refinement needs.
Refining == Inv /\ Flow /\ CircuitInv /\ RunInv /\ Computing

\* A region starts as an empty channel.
LEMMA RefiningInit ==
  ASSUME Init, \A r \in Regions : Computes(r)
  PROVE  Refining /\ Channel!Init
  <1>1. Inv /\ Flow /\ Computing
    BY InitInv, FlowInit DEF Flow, Computing
  <1>2. /\ phase = "finalize" /\ delivered = <<>>
        /\ x_valid = [i \in InputsOf(blocks) |-> FALSE] /\ accepted = [i \in InputsOf(blocks) |-> 0]
    BY DEF Init, All, Class, InputsOf
  <1>3. CircuitInv /\ RunInv
    BY <1>2, BoundsNat DEF CircuitInv, RunInv
  <1>4. Shown(0, 0)
    <2>1. 0 \in 0..MaxTokens /\ 0 \in 0..0
      BY BoundsNat
    <2> QED
      BY <1>1, <1>2, <2>1, NoneGiven, SomeInput, ShownIs
  <1>5. Counted(0) = <<>>
    <2>1. 1..0 = {}
      OBVIOUS
    <2> QED
      BY <2>1 DEF Counted
  <1> QED
    BY <1>1, <1>3, <1>4, <1>5 DEF Refining, Channel!Init, Shown

\* Every step is one of the channel or none.
LEMMA RefiningNext ==
  ASSUME Refining, [Next]_vars
  PROVE  Refining' /\ [Channel!Next]_Channel!chanVars
  <1>1. Inv /\ Flow /\ CircuitInv /\ RunInv /\ Computing
    BY DEF Refining
  <1>2. Flow' /\ region' = region /\ Needed' = Needed
    BY <1>1, FlowNext
  <1>3. InputsOf(blocks) # {} /\ Needed # {}
    BY <1>1, SomeInput
  <1>4. Refining'
    BY <1>1, <1>2, NextInv, CircuitNext DEF Refining, Computing
  <1>5. ASSUME Build
        PROVE  UNCHANGED <<Firings, Results>>
    BY <1>2, <1>5, BuildSame, BuildRefines
  <1>6. ASSUME Reset
        PROVE  Channel!Next
    <2>1. Channel!Reset
      BY <1>1, <1>2, <1>3, <1>6, ResetRefines
    <2> QED
      BY <2>1 DEF Channel!Next
  <1>7. ASSUME NEW out_bp \in BOOLEAN, Clock(out_bp)
        PROVE  Channel!Next
    <2>1. PICK from, passed : Running(from, passed)
      BY <1>1, <1>7, ClockSame, IsRunning
    <2>2. Channel!Cycle
      BY <1>2, <1>3, <1>7, <2>1, ClockRefines
    <2> QED
      BY <2>2 DEF Channel!Next
  <1>8. ASSUME UNCHANGED vars
        PROVE  UNCHANGED <<Firings, Results>>
    <2>1. UNCHANGED <<accepted, delivered>>
      BY <1>8 DEF vars, circuitVars
    <2> QED
      BY <1>2, <2>1, BuildRefines
  <1>9. Channel!Next \/ UNCHANGED <<Firings, Results>>
    BY <1>5, <1>6, <1>7, <1>8 DEF Next
  <1>10. [Channel!Next]_Channel!chanVars
    BY <1>9 DEF Channel!chanVars
  <1> QED
    BY <1>4, <1>10

\* Wherever the compiler puts registers and however the neighbours stall, the
\* region is a channel: it gives the firings in the order it took them, each
\* result computed from the tokens of one firing, none lost or repeated, and
\* it holds no more of them than outputs were late (PipelineStageController and
\* PipelineReg_Slave under the schedule of ControlRegion::schedule).
THEOREM ImplementsChannel ==
  ASSUME \A r \in Regions : Computes(r)
  PROVE  Spec => ChannelSpec
  <1>1. Init => Refining /\ Channel!Init
    BY RefiningInit
  <1>2. Refining /\ [Next]_vars => Refining' /\ [Channel!Next]_Channel!chanVars
    BY RefiningNext
  <1> QED
    BY <1>1, <1>2, PTL DEF Spec, ChannelSpec, Channel!Spec
=============================================================================
