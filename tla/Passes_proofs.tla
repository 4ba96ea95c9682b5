---------------------------- MODULE Passes_proofs ----------------------------
(***************************************************************************)
(* The passes keep a well-formed netlist, leave no output with two          *)
(* consumers, join the outputs that depend on each other, break every cycle *)
(* that something outside the module feeds, and leave every value where it  *)
(* was: for any netlist, any order in which a pass visits its blocks and    *)
(* any order of the search for a cycle.                                     *)
(***************************************************************************)
EXTENDS Integers, Passes, TLAPS, FiniteSetTheorems, SequenceTheorems, WellFoundedInduction

-----------------------------------------------------------------------------
(* The invariant of the passes that rewrite the netlist                    *)

\* Wires join ports that exist, and an input has one source.
Joined(w) ==
  /\ w = <<<<w[1][1], w[1][2]>>, <<w[2][1], w[2][2]>>>>
  /\ w[1][1] \in DOMAIN blocks /\ w[1][2] \in 1..blocks[w[1][1]].outs
  /\ w[2][1] \in DOMAIN blocks /\ w[2][2] \in 1..blocks[w[2][1]].ins

\* A register has one input and one output, and a source has no input.
Ports(b) ==
  /\ blocks[b].ins \in Nat /\ blocks[b].outs \in Nat
  /\ blocks[b].class \in {"Input", "Never"} => blocks[b].ins = 0
  /\ IsPipelineReg(b) => blocks[b].ins = 1 /\ blocks[b].outs = 1

\* The netlist is well formed: what WellFormed asks of a module, after any pass.
NetOK ==
  /\ IsFiniteSet(wires)
  /\ \A b \in DOMAIN blocks : Ports(b)
  /\ \A w \in wires : Joined(w)
  /\ \A v, w \in wires : v[2] = w[2] => v = w

\* What a block was made for; those of the module have a name of one part.
Role(b) == IF DOMAIN b = {1} THEN "module" ELSE b[1]

\* The roles that blocks may have when pass p is at work.
RolesBy(p) ==
  {"module", "join", "depfork", "extract"}
    \cup (IF p # "dependents" THEN {"reg", "latch"} ELSE {})
    \cup (IF p \notin {"dependents", "latches"} THEN {"fork"} ELSE {})
    \cup (IF p \in {"cycles", "connections", "done"} THEN {"late"} ELSE {})
    \cup (IF p \in {"connections", "done"} THEN {"never"} ELSE {})

\* The roles of the blocks that a visit of p makes for what it visits.
RolesOf(p) ==
  CASE p = "dependents"  -> {"join", "depfork", "extract"}
    [] p = "latches"     -> {"reg", "latch"}
    [] p = "forks"       -> {"reg", "fork"}
    [] p = "connections" -> {"never"}
    [] OTHER             -> {}

\* What is still to be visited has no block of this pass yet.
Fresh ==
  /\ \A b \in DOMAIN blocks :
       /\ Role(b) \in RolesBy(pass)
       /\ Role(b) \in RolesOf(pass) => b[2] \notin todo
       /\ Role(b) = "reg" /\ pass = "recombine" => b[2][1] \notin todo
  /\ pass = "forks" => \A o \in todo : Role(o[1]) # "fork"

\* A register made for an output is a register, and the output feeds registers
\* only; until the forks are made it feeds this one only.
Placed ==
  \A b \in DOMAIN blocks : Role(b) = "reg" =>
    /\ IsPipelineReg(b) /\ b[2][1] \in DOMAIN blocks
    /\ \A w \in wires : w[1] = b[2] => IsPipelineReg(w[2][1])

Tight ==
  pass \in {"latches", "forks"} =>
    \A b \in DOMAIN blocks : Role(b) = "reg" =>
      /\ Role(b[2][1]) # "fork"
      /\ \A w \in wires : w[1] = b[2] => w[2] = <<b, 1>>

\* What a pass has to visit.
ToVisit ==
  /\ pass = "dependents" =>
       \A b \in todo :
         /\ b \in DOMAIN blocks /\ blocks[b].outs > 1
         /\ Is(b, "Split") => /\ blocks[b].ins = 1
                              /\ \E w \in wires : w[2] = <<b, 1>> /\ w[1][1] # b
  /\ pass \in {"latches", "forks"} =>
       \A o \in todo : o = <<o[1], o[2]>> /\ o[1] \in DOMAIN blocks /\ o[2] \in 1..blocks[o[1]].outs
  /\ pass = "recombine" => \A f \in todo : f \in DOMAIN blocks
  /\ pass = "connections" =>
       \A i \in todo : /\ i = <<i[1], i[2]>> /\ i[1] \in DOMAIN blocks /\ i[2] \in 1..blocks[i[1]].ins
                       /\ \A w \in wires : w[2] # i
  /\ pass \in {"frequency", "done"} => todo = {}

\* Until it is visited, only an output of todo has several consumers.
Consumers ==
  /\ pass = "forks" => \A v, w \in wires : v[1] = w[1] => v = w \/ v[1] \in todo
  /\ pass \in {"recombine", "frequency", "cycles", "connections", "done"} =>
       \A v, w \in wires : v[1] = w[1] => v = w

\* The invariant of the netlist, in its parts.
NetInv ==
  /\ NetOK /\ Fresh /\ Placed /\ Tight /\ ToVisit /\ Consumers
  /\ pass \in Range(Order) /\ clocked \in BOOLEAN

-----------------------------------------------------------------------------
(* The invariant of the search                                             *)

\* The blocks that the search goes through.
Plain == {b \in DOMAIN blocks : ~IsPipelineReg(b)}

\* S is closed under the wires to plain blocks.
Closed(S) == \A c \in S : Successors(c) \subseteq S

\* The blocks of D, in the order they were left, only feed earlier ones.
Acyclic(D) ==
  \A b \in D : \E S \in SUBSET (D \ {b}) : Successors(b) \subseteq S /\ Closed(S)

\* level[n] counts the entries of the stack that are still open when the
\* search comes to the nth entry of the queue.
Levels(level) ==
  /\ level \in [DOMAIN queue -> Nat]
  /\ queue = <<>> => stack = <<>>
  /\ queue # <<>> => level[1] = Len(stack)
  /\ \A m, n \in DOMAIN queue : m <= n => level[n] <= level[m]
  /\ \A n \in DOMAIN queue :
       /\ level[n] = (IF n = Len(queue) THEN 0 ELSE level[n + 1]) + (IF queue[n] = Pop THEN 1 ELSE 0)
       /\ queue[n] # Pop => IF level[n] = 0 THEN Len(queue) = 1
                            ELSE queue[n][1][1] = stack[level[n]][2][1]

\* The block that the nth wire of the stack leads to.
Target(n) == stack[n][2][1]

\* The stack is a path through blocks it has not been through before, and the
\* wires behind them have been seen; a register ends it.
Path ==
  /\ stack \in Seq(wires)
  /\ queue \in Seq(wires \cup {Pop})
  /\ \A n \in DOMAIN stack :
       /\ n # 1 => stack[n][1][1] = Target(n - 1)
       /\ IsPipelineReg(Target(n)) => n = Len(stack) /\ queue # <<>> /\ Head(queue) = Pop
       /\ ~IsPipelineReg(Target(n)) =>
            /\ \A m \in 1..n : stack[m][1][1] # Target(n)
            /\ \A w \in wires : w[1][1] = Target(n) => w \in seen

\* D are the blocks that the search has left.
Left(D) ==
  /\ D \in SUBSET Plain /\ Acyclic(D)
  /\ \A w \in seen \cup (Starts \ todo) :
       \/ IsPipelineReg(w[2][1]) \/ w[2][1] \in D
       \/ w \in Range(queue) \/ w \in Range(stack)

\* The invariant of the search: it has no state outside its pass, and while no
\* cycle is found it keeps a path and has left only blocks that are on no cycle.
SearchInv ==
  /\ pass # "cycles" => queue = <<>> /\ stack = <<>> /\ cycle = {} /\ seen = {}
  /\ pass = "cycles" =>
       /\ todo \subseteq Starts
       /\ seen \subseteq wires
       /\ cycle # {} => /\ queue = <<>> /\ stack = <<>> /\ seen = {}
                        /\ \A w \in cycle : w \in wires /\ ~IsPipelineReg(w[2][1])
       /\ cycle = {} => /\ Path
                        /\ \E level : Levels(level)
                        /\ \E D : Left(D)

\* Nothing feeds itself without a register.
NoLoops == \A b \in Plain : \E S \in SUBSET Plain : Successors(b) \subseteq S /\ Closed(S) /\ b \notin S

-----------------------------------------------------------------------------
(* Names, ports and edits                                                  *)

\* The name that a pass gives a block says what it was made for.
LEMMA Roles ==
  ASSUME NEW r, NEW x
  PROVE  /\ r # "module" => Role(<<r, x>>) = r
         /\ <<r, x>>[2] = x
         /\ \A k : Role(<<r, x, k>>) = r /\ <<r, x, k>>[2] = x
  <1>1. DOMAIN <<r, x>> # {1}
    <2>1. 2 \in DOMAIN <<r, x>>
      OBVIOUS
    <2> QED
      BY <2>1
  <1>2. ASSUME NEW k
        PROVE  DOMAIN <<r, x, k>> # {1} 
    <2>1. 2 \in DOMAIN <<r, x, k>>
      OBVIOUS
    <2> QED
      BY <2>1
  <1> QED
    BY <1>1, <1>2 DEF Role

\* An output that exists.
IsOutput(o) == o = <<o[1], o[2]>> /\ o[1] \in DOMAIN blocks /\ o[2] \in 1..blocks[o[1]].outs

\* AllOutputs are the outputs that exist.
LEMMA OutputsAre ==
  ASSUME NEW o
  PROVE  /\ o \in AllOutputs <=> IsOutput(o)
         /\ \A b \in DOMAIN blocks : o \in Outputs(b) <=> IsOutput(o) /\ o[1] = b
  BY DEF AllOutputs, Outputs, IsOutput

\* What the insertion of blocks behind outputs makes of blocks and wires.
LEMMA Inserted ==
  ASSUME NEW class, NEW id, InsertAfter(class, id),
         \A o \in DOMAIN id : id[o] \notin DOMAIN blocks
  PROVE  /\ DOMAIN blocks' = DOMAIN blocks \cup {id[o] : o \in DOMAIN id}
         /\ \A b \in DOMAIN blocks : blocks'[b] = blocks[b]
         /\ \A o \in DOMAIN id : blocks'[id[o]] = Block(class, 1, 1)
         /\ \A w \in wires' :
              \/ w \in wires /\ w[1] \notin DOMAIN id
              \/ \E v \in wires : v[1] \in DOMAIN id /\ w = <<<<id[v[1]], 1>>, v[2]>>
              \/ \E o \in DOMAIN id : w = <<o, <<id[o], 1>>>>
         /\ \A w \in wires : IF w[1] \in DOMAIN id THEN <<<<id[w[1]], 1>>, w[2]>> \in wires' ELSE w \in wires'
         /\ \A o \in DOMAIN id : <<o, <<id[o], 1>>>> \in wires'
  <1>1. Range(id) = {id[o] : o \in DOMAIN id}
    BY DEF Range
  <1>2. blocks' = With(blocks, [b \in Range(id) |-> Block(class, 1, 1)]) /\ wires' = After(wires, id)
    BY DEF InsertAfter
  <1> QED
    BY <1>1, <1>2 DEF After, With

\* A function has finitely many values on a finite set.
LEMMA FiniteImage ==
  ASSUME NEW S, IsFiniteSet(S), NEW f
  PROVE  IsFiniteSet({f[x] : x \in S})
  <1> DEFINE T == {f[x] : x \in S}
             g == [x \in S |-> f[x]]
  <1>1. g \in Surjection(S, T)
    BY DEF Surjection
  <1> HIDE DEF g
  <1> QED
    BY <1>1, FS_Surjection

\* A pair is finite.
LEMMA FinitePair ==
  ASSUME NEW x, NEW y
  PROVE  IsFiniteSet({x, y})
  <1>1. IsFiniteSet({x}) /\ {x, y} = {x} \cup {y}
    BY FS_Singleton
  <1> QED
    BY <1>1, FS_AddElement

\* Outputs that may get a new block each.
Insertable(id) ==
  /\ IsFiniteSet(DOMAIN id)
  /\ \A o \in DOMAIN id : IsOutput(o) /\ id[o] \notin DOMAIN blocks
  /\ \A o, q \in DOMAIN id : id[o] = id[q] => o = q

\* A netlist stays well formed when blocks are inserted behind its outputs.
LEMMA InsertKeepsNet ==
  ASSUME NetOK, NEW class \in {"PipelineRegister", "Latch"}, NEW id, Insertable(id),
         InsertAfter(class, id)
  PROVE  NetOK'
  <1>1. /\ DOMAIN blocks' = DOMAIN blocks \cup {id[o] : o \in DOMAIN id}
        /\ \A b \in DOMAIN blocks : blocks'[b] = blocks[b]
        /\ \A o \in DOMAIN id : blocks'[id[o]] = Block(class, 1, 1)
    BY Inserted DEF Insertable
  <1>2. \A w \in wires' :
          \/ w \in wires /\ w[1] \notin DOMAIN id
          \/ \E v \in wires : v[1] \in DOMAIN id /\ w = <<<<id[v[1]], 1>>, v[2]>>
          \/ \E o \in DOMAIN id : w = <<o, <<id[o], 1>>>>
    BY Inserted DEF Insertable
  <1>3. IsFiniteSet(wires')
    <2> DEFINE f == [w \in wires |-> IF w[1] \in DOMAIN id THEN <<<<id[w[1]], 1>>, w[2]>> ELSE w]
               g == [o \in DOMAIN id |-> <<o, <<id[o], 1>>>>]
    <2>1. IsFiniteSet({f[w] : w \in wires}) /\ IsFiniteSet({g[o] : o \in DOMAIN id})
      <3> HIDE DEF f, g
      <3> QED BY FiniteImage DEF NetOK, Insertable
    <2>2. wires' = {f[w] : w \in wires} \cup {g[o] : o \in DOMAIN id}
      BY DEF InsertAfter, After
    <2> HIDE DEF f, g
    <2> QED
      BY <2>1, <2>2, FS_Union
  <1>4. ASSUME NEW b \in DOMAIN blocks'
        PROVE  Ports(b)'
    <2>1. CASE b \in DOMAIN blocks
      BY <1>1, <2>1 DEF NetOK, Ports, IsPipelineReg, Is
    <2>2. CASE b \notin DOMAIN blocks
      BY <1>1, <2>2 DEF Ports, IsPipelineReg, Is, Block
    <2> QED
      BY <2>1, <2>2
  <1>5. ASSUME NEW w \in wires'
        PROVE  Joined(w)'
    <2>1. CASE w \in wires
      BY <1>1, <2>1 DEF NetOK, Joined
    <2>2. ASSUME NEW v \in wires, v[1] \in DOMAIN id, w = <<<<id[v[1]], 1>>, v[2]>>
          PROVE  Joined(w)'
      <3>1. Joined(v)
        BY DEF NetOK
      <3>2. blocks'[id[v[1]]].outs = 1 /\ id[v[1]] \in DOMAIN blocks'
        BY <1>1, <2>2 DEF Block
      <3> QED
        BY <1>1, <2>2, <3>1, <3>2 DEF Joined
    <2>3. ASSUME NEW o \in DOMAIN id, w = <<o, <<id[o], 1>>>>
          PROVE  Joined(w)'
      <3>1. blocks'[id[o]].ins = 1 /\ id[o] \in DOMAIN blocks'
        BY <1>1, <2>3 DEF Block
      <3>2. IsOutput(o)
        BY DEF Insertable
      <3> QED
        BY <1>1, <2>3, <3>1, <3>2 DEF Joined, IsOutput
    <2> QED
      BY <1>2, <2>1, <2>2, <2>3
  <1>6. ASSUME NEW v \in wires', NEW w \in wires', v[2] = w[2]
        PROVE  v = w
    <2>1. \A x \in wires : x[2][1] \in DOMAIN blocks
      BY DEF NetOK, Joined
    <2>2. \A x, y \in wires : x[2] = y[2] => x = y
      BY DEF NetOK
    <2>3. \A o \in DOMAIN id : id[o] \notin DOMAIN blocks
      BY DEF Insertable
    <2>4. \A o, q \in DOMAIN id : id[o] = id[q] => o = q
      BY DEF Insertable
    <2>5. CASE \E o \in DOMAIN id : v = <<o, <<id[o], 1>>>>
      BY <1>2, <1>6, <2>1, <2>3, <2>4, <2>5
    <2>6. CASE \E o \in DOMAIN id : w = <<o, <<id[o], 1>>>>
      BY <1>2, <1>6, <2>1, <2>3, <2>4, <2>6
    <2>7. CASE ~ \E o \in DOMAIN id : v = <<o, <<id[o], 1>>>> \/ w = <<o, <<id[o], 1>>>>
      <3>1. PICK x \in wires : v = x \/ v = <<<<id[x[1]], 1>>, x[2]>>
        BY <1>2, <2>7
      <3>2. PICK y \in wires : w = y \/ w = <<<<id[y[1]], 1>>, y[2]>>
        BY <1>2, <2>7
      <3>3. x = y
        BY <1>6, <2>2, <3>1, <3>2
      <3> QED
        BY <1>2, <1>6, <2>2, <2>7, <3>3
    <2> QED
      BY <2>5, <2>6, <2>7
  <1> QED
    BY <1>3, <1>4, <1>5, <1>6 DEF NetOK

\* Insertions give each output o a block <<r, o>>.
Behind(r, os) == [o \in os |-> <<r, o>>]

\* A visit takes something from todo.
LEMMA Visited ==
  ASSUME NEW p, NEW x, Visit(p, x)
  PROVE  /\ pass = p /\ pass' = p /\ x \in todo /\ todo' = todo \ {x}
         /\ UNCHANGED <<original, clocked, queue, seen, stack, cycle>>
  BY DEF Visit, search

\* The outputs os may have a new block of role r behind them.
CanInsert(r, os) == IsFiniteSet(os) /\ \A o \in os : IsOutput(o) /\ <<r, o>> \notin DOMAIN blocks

\* The step inserts blocks of one class.
Inserts == \E class \in {"PipelineRegister", "Latch"}, r \in {"reg", "latch", "late"} :
             \E os : CanInsert(r, os) /\ InsertAfter(class, Behind(r, os))

\* The step inserts registers behind outputs of a set.
Registers(outputs) == \E r \in {"reg", "late"}, os \in SUBSET outputs :
                        CanInsert(r, os) /\ InsertAfter("PipelineRegister", Behind(r, os))

\* What an insertion of blocks of a class behind os leaves.
Effect(class, r, os) ==
  /\ DOMAIN blocks' = DOMAIN blocks \cup {<<r, o>> : o \in os}
  /\ \A b \in DOMAIN blocks : blocks'[b] = blocks[b]
  /\ \A o \in os : blocks'[<<r, o>>] = Block(class, 1, 1)
  /\ \A w \in wires' :
       \/ w \in wires /\ w[1] \notin os
       \/ \E v \in wires : v[1] \in os /\ w = <<<<<<r, v[1]>>, 1>>, v[2]>>
       \/ w[1] \in os /\ w = <<w[1], <<<<r, w[1]>>, 1>>>>
  /\ \A w \in wires : IF w[1] \in os THEN <<<<<<r, w[1]>>, 1>>, w[2]>> \in wires' ELSE w \in wires'
  /\ \A o \in os : <<o, <<<<r, o>>, 1>>>> \in wires'

\* What an insertion does to the netlist, block by block and wire by wire.
LEMMA InsertedBehind ==
  ASSUME NetOK, NEW class \in {"PipelineRegister", "Latch"}, NEW r \in {"reg", "latch", "late"}, NEW os,
         CanInsert(r, os),
         InsertAfter(class, Behind(r, os))
  PROVE  NetOK' /\ Effect(class, r, os)
  <1> DEFINE id == Behind(r, os)
  <1>1. DOMAIN id = os /\ \A o \in os : id[o] = <<r, o>>
    BY DEF Behind
  <1>2. Insertable(id)
    BY <1>1 DEF Insertable, CanInsert
  <1>5. InsertAfter(class, id)
    OBVIOUS
  <1> HIDE DEF id
  <1>3. NetOK'
    BY <1>2, <1>5, InsertKeepsNet
  <1>4. \A o \in DOMAIN id : id[o] \notin DOMAIN blocks
    BY <1>2 DEF Insertable
  <1>6. /\ DOMAIN blocks' = DOMAIN blocks \cup {id[o] : o \in DOMAIN id}
        /\ \A b \in DOMAIN blocks : blocks'[b] = blocks[b]
        /\ \A o \in DOMAIN id : blocks'[id[o]] = Block(class, 1, 1)
        /\ \A w \in wires' :
              \/ w \in wires /\ w[1] \notin DOMAIN id
              \/ \E v \in wires : v[1] \in DOMAIN id /\ w = <<<<id[v[1]], 1>>, v[2]>>
              \/ \E o \in DOMAIN id : w = <<o, <<id[o], 1>>>>
        /\ \A w \in wires : IF w[1] \in DOMAIN id THEN <<<<id[w[1]], 1>>, w[2]>> \in wires' ELSE w \in wires'
        /\ \A o \in DOMAIN id : <<o, <<id[o], 1>>>> \in wires'
    BY <1>4, <1>5, Inserted
  <1>7. {id[o] : o \in DOMAIN id} = {<<r, o>> : o \in os}
    BY <1>1
  <1>8. ASSUME NEW w \in wires'
        PROVE  \/ w \in wires /\ w[1] \notin os
               \/ \E v \in wires : v[1] \in os /\ w = <<<<<<r, v[1]>>, 1>>, v[2]>>
               \/ w[1] \in os /\ w = <<w[1], <<<<r, w[1]>>, 1>>>>
    <2>1. ASSUME NEW o \in DOMAIN id, w = <<o, <<id[o], 1>>>>
          PROVE  w[1] \in os /\ w = <<w[1], <<<<r, w[1]>>, 1>>>>
      BY <1>1, <2>1
    <2>2. ASSUME NEW v \in wires, v[1] \in DOMAIN id, w = <<<<id[v[1]], 1>>, v[2]>>
          PROVE  v[1] \in os /\ w = <<<<<<r, v[1]>>, 1>>, v[2]>>
      BY <1>1, <2>2
    <2> QED
      BY <1>1, <1>6, <2>1, <2>2
  <1>9. \A o \in os : /\ blocks'[<<r, o>>] = Block(class, 1, 1)
                       /\ <<o, <<<<r, o>>, 1>>>> \in wires'
    BY <1>1, <1>6
  <1>10. \A w \in wires : IF w[1] \in os THEN <<<<<<r, w[1]>>, 1>>, w[2]>> \in wires' ELSE w \in wires'
    BY <1>1, <1>6
  <1>11. DOMAIN blocks' = DOMAIN blocks \cup {<<r, o>> : o \in os}
    BY <1>6, <1>7
  <1>12. \A b \in DOMAIN blocks : blocks'[b] = blocks[b]
    BY <1>6
  <1>13. \A w \in wires' :
              \/ w \in wires /\ w[1] \notin os
              \/ \E v \in wires : v[1] \in os /\ w = <<<<<<r, v[1]>>, 1>>, v[2]>>
              \/ w[1] \in os /\ w = <<w[1], <<<<r, w[1]>>, 1>>>>
    BY <1>8
  <1> QED
    BY <1>3, <1>9, <1>10, <1>11, <1>12, <1>13 DEF Effect

\* One consumer for each output stays one consumer.
LEMMA InsertKeepsConsumers ==
  ASSUME NetOK, NEW class \in {"PipelineRegister", "Latch"}, NEW r \in {"reg", "latch", "late"}, NEW os,
         CanInsert(r, os),
         InsertAfter(class, Behind(r, os)),
         \A v, w \in wires : v[1] = w[1] => v = w
  PROVE  \A v, w \in wires' : v[1] = w[1] => v = w
  <1>1. \A w \in wires' :
          \/ w \in wires /\ w[1] \notin os
          \/ \E v \in wires : v[1] \in os /\ w = <<<<<<r, v[1]>>, 1>>, v[2]>>
          \/ w[1] \in os /\ w = <<w[1], <<<<r, w[1]>>, 1>>>>
    <2>1. Effect(class, r, os)
      BY InsertedBehind
    <2> QED
      BY <2>1 DEF Effect
  <1>2. \A w \in wires : w[1][1] \in DOMAIN blocks
    BY DEF NetOK, Joined
  <1>3. \A o \in os : o[1] \in DOMAIN blocks /\ <<r, o>> \notin DOMAIN blocks
    BY DEF IsOutput, CanInsert
  <1> TAKE v, w \in wires'
  <1> HAVE v[1] = w[1]
  <1>4. CASE v[1] \in os
    BY <1>1, <1>2, <1>3, <1>4
  <1>5. CASE v[1] \notin os /\ v[1][1] \in DOMAIN blocks
    BY <1>1, <1>2, <1>3, <1>5
  <1>6. CASE v[1][1] \notin DOMAIN blocks
    <2>1. PICK x \in wires : x[1] \in os /\ v = <<<<<<r, x[1]>>, 1>>, x[2]>>
      BY <1>1, <1>2, <1>3, <1>6
    <2>2. PICK y \in wires : y[1] \in os /\ w = <<<<<<r, y[1]>>, 1>>, y[2]>>
      BY <1>1, <1>2, <1>3, <1>6
    <2>3. x[1] = y[1]
      BY <2>1, <2>2
    <2> QED
      BY <2>1, <2>2, <2>3
  <1> QED
    BY <1>4, <1>5, <1>6

\* Registers stay where they are, and new ones are placed like them.
LEMMA InsertKeepsPlaced ==
  ASSUME NetOK, Placed, NEW class \in {"PipelineRegister", "Latch"}, NEW r \in {"reg", "latch", "late"}, NEW os,
         CanInsert(r, os), Effect(class, r, os),
         r = "reg" => class = "PipelineRegister",
         class = "Latch" => \A b \in DOMAIN blocks : Role(b) = "reg" => b[2] \notin os
  PROVE  Placed'
  <1> SUFFICES ASSUME NEW b \in DOMAIN blocks', Role(b) = "reg"
               PROVE  /\ IsPipelineReg(b)' /\ b[2][1] \in DOMAIN blocks'
                      /\ \A w \in wires' : w[1] = b[2] => IsPipelineReg(w[2][1])'
    BY DEF Placed, Role
  <1>1. \A o \in os : o[1] \in DOMAIN blocks /\ <<r, o>> \notin DOMAIN blocks
    BY DEF CanInsert, IsOutput
  <1>2. \A o \in os : IsPipelineReg(<<r, o>>)' <=> class = "PipelineRegister"
    BY DEF Effect, IsPipelineReg, Is, Block
  <1>3. \A c \in DOMAIN blocks : IsPipelineReg(c)' <=> IsPipelineReg(c)
    BY DEF Effect, IsPipelineReg, Is
  <1>4. \A w \in wires : w[2][1] \in DOMAIN blocks /\ w[1][1] \in DOMAIN blocks
    BY DEF NetOK, Joined
  <1>5. \A w \in wires' :
          \/ w \in wires /\ w[1] \notin os
          \/ \E v \in wires : v[1] \in os /\ w = <<<<<<r, v[1]>>, 1>>, v[2]>>
          \/ w[1] \in os /\ w = <<w[1], <<<<r, w[1]>>, 1>>>>
    BY DEF Effect
  <1>6. DOMAIN blocks' = DOMAIN blocks \cup {<<r, o>> : o \in os}
    BY DEF Effect
  <1>7. CASE b \in DOMAIN blocks
    <2>1. IsPipelineReg(b) /\ b[2][1] \in DOMAIN blocks /\ \A w \in wires : w[1] = b[2] => IsPipelineReg(w[2][1])
      BY <1>7 DEF Placed
    <2>2. ASSUME NEW w \in wires', w[1] = b[2]
          PROVE  IsPipelineReg(w[2][1])'
      <3>1. CASE w \in wires /\ w[1] \notin os
        BY <1>3, <1>4, <2>1, <2>2, <3>1
      <3>2. CASE w[1] \in os /\ w = <<w[1], <<<<r, w[1]>>, 1>>>>
        BY <1>2, <1>7, <2>2, <3>2
      <3>3. CASE \E v \in wires : v[1] \in os /\ w = <<<<<<r, v[1]>>, 1>>, v[2]>>
        BY <1>1, <2>1, <2>2, <3>3
      <3> QED
        BY <1>5, <3>1, <3>2, <3>3
    <2> QED
      BY <1>3, <1>6, <1>7, <2>1, <2>2
  <1>8. CASE b \notin DOMAIN blocks
    <2>1. PICK o \in os : b = <<r, o>>
      BY <1>6, <1>8
    <2>2. r = "reg" /\ b[2] = o
      BY <2>1, Roles
    <2>3. ASSUME NEW w \in wires', w[1] = o
          PROVE  IsPipelineReg(w[2][1])'
      <3>1. ASSUME NEW v \in wires, v[1] \in os, w = <<<<<<r, v[1]>>, 1>>, v[2]>>
            PROVE  FALSE
        <4>1. o[1] = <<r, v[1]>>
          BY <2>3, <3>1
        <4> QED
          BY <1>1, <3>1, <4>1
      <3>2. w = <<o, <<<<r, o>>, 1>>>>
        BY <1>5, <2>3, <3>1
      <3> QED
        BY <1>2, <2>2, <3>2
    <2> QED
      BY <1>1, <1>2, <1>6, <2>1, <2>2, <2>3
  <1> QED
    BY <1>7, <1>8

\* LatchUntiedOutputs puts a register or a latch behind an output.
LEMMA LatchUntiedKeeps ==
  ASSUME NetInv, NEW o, LatchUntied(o)
  PROVE  /\ NetInv' /\ Inserts
         /\ \E class \in {"PipelineRegister", "Latch"}, r \in {"reg", "latch"} : CanInsert(r, {o}) /\ Effect(class, r, {o})
  <1> DEFINE class == IF clocked THEN "PipelineRegister" ELSE "Latch"
             r == IF clocked THEN "reg" ELSE "latch"
  <1>1. /\ pass = "latches" /\ pass' = "latches" /\ o \in todo /\ todo' = todo \ {o} /\ clocked' = clocked
    BY Visited DEF LatchUntied
  <1>2. InsertAfter(class, Behind(r, {o}))
    BY DEF LatchUntied, Behind
  <1>3. IsOutput(o)
    BY <1>1 DEF NetInv, ToVisit, IsOutput
  <1>4. Role(<<r, o>>) = r /\ <<r, o>>[2] = o
    BY Roles
  <1>5. r \in {"reg", "latch"} /\ class \in {"PipelineRegister", "Latch"} /\ (r = "reg" <=> class = "PipelineRegister")
    OBVIOUS
  <1> HIDE DEF class, r
  <1>6. <<r, o>> \notin DOMAIN blocks
    BY <1>1, <1>4, <1>5 DEF NetInv, Fresh, RolesOf
  <1>7. CanInsert(r, {o})
    BY <1>3, <1>6, FS_Singleton DEF CanInsert
  <1>8. NetOK' /\ Effect(class, r, {o})
    BY <1>2, <1>5, <1>7, InsertedBehind DEF NetInv
  <1>9. \A b \in DOMAIN blocks : Role(b) \in {"reg", "latch"} => b[2] # o
    BY <1>1 DEF NetInv, Fresh, RolesOf
  <1>10. Placed'
    BY <1>5, <1>7, <1>8, <1>9, InsertKeepsPlaced DEF NetInv
  <1>11. DOMAIN blocks' = DOMAIN blocks \cup {<<r, o>>}
    BY <1>8 DEF Effect
  <1>12. Fresh'
    <2> SUFFICES ASSUME NEW b \in DOMAIN blocks'
                 PROVE  Role(b) \in RolesBy("latches") /\ (Role(b) \in {"reg", "latch"} => b[2] \notin todo')
      BY <1>1 DEF Fresh, Role, RolesBy, RolesOf
    <2>1. CASE b \in DOMAIN blocks
      BY <1>1, <2>1 DEF NetInv, Fresh, RolesOf
    <2>2. CASE b = <<r, o>>
      BY <1>1, <1>4, <1>5, <2>2 DEF RolesBy
    <2> QED
      BY <1>11, <2>1, <2>2
  <1>13. Tight'
    <2> SUFFICES ASSUME NEW b \in DOMAIN blocks', Role(b) = "reg"
                 PROVE  /\ Role(b[2][1]) # "fork"
                        /\ \A w \in wires' : w[1] = b[2] => w[2] = <<b, 1>>
      BY DEF Tight, Role
    <2>1. \A w \in wires' :
          \/ w \in wires /\ w[1] # o
          \/ w[1] = <<<<r, o>>, 1>>
          \/ w = <<o, <<<<r, o>>, 1>>>>
      <3>1. \A w \in wires' :
          \/ w \in wires /\ w[1] \notin {o}
          \/ \E v \in wires : v[1] \in {o} /\ w = <<<<<<r, v[1]>>, 1>>, v[2]>>
          \/ w[1] \in {o} /\ w = <<w[1], <<<<r, w[1]>>, 1>>>>
        BY <1>8 DEF Effect
      <3> QED
        BY <3>1
    <2>2. CASE b \in DOMAIN blocks
      <3>1. Role(b[2][1]) # "fork" /\ b[2][1] \in DOMAIN blocks /\ \A w \in wires : w[1] = b[2] => w[2] = <<b, 1>>
        BY <1>1, <2>2 DEF NetInv, Tight, Placed
      <3>2. b[2] # o /\ b[2] # <<<<r, o>>, 1>>
        BY <1>6, <1>9, <2>2, <3>1
      <3> QED
        BY <2>1, <3>1, <3>2
    <2>3. CASE b = <<r, o>>
      <3>1. Role(o[1]) \in RolesBy("latches")
        BY <1>1, <1>3 DEF NetInv, Fresh, IsOutput
      <3>2. Role(o[1]) # "fork"
        BY <3>1 DEF RolesBy
      <3>3. o[1] # <<r, o>>
        BY <1>3, <1>6 DEF IsOutput
      <3> QED
        BY <1>4, <2>1, <2>3, <3>2, <3>3
    <2> QED
      BY <1>11, <2>2, <2>3
  <1>14. ToVisit'
    <2> SUFFICES ASSUME NEW q \in todo'
                 PROVE  q = <<q[1], q[2]>> /\ q[1] \in DOMAIN blocks' /\ q[2] \in 1..blocks'[q[1]].outs
      BY <1>1 DEF ToVisit
    <2>1. q = <<q[1], q[2]>> /\ q[1] \in DOMAIN blocks /\ q[2] \in 1..blocks[q[1]].outs
      BY <1>1 DEF NetInv, ToVisit
    <2> QED
      BY <1>8, <2>1 DEF Effect
  <1>15. \E c \in {"PipelineRegister", "Latch"}, q \in {"reg", "latch"} : CanInsert(q, {o}) /\ Effect(c, q, {o})
    BY <1>5, <1>7, <1>8
  <1> QED
    BY <1>1, <1>2, <1>5, <1>7, <1>8, <1>10, <1>12, <1>13, <1>14, <1>15 DEF NetInv, Consumers, Inserts

\* Insertions of registers in the passes after the forks.
LEMMA RegistersKeep ==
  ASSUME NetInv, NEW r \in {"reg", "late"}, NEW os, CanInsert(r, os),
         InsertAfter("PipelineRegister", Behind(r, os)),
         pass \in {"recombine", "frequency", "cycles"}, clocked' = clocked,
         pass' \in {"recombine", "cycles"},
         pass = "recombine" <=> pass' = "recombine",
         r = "late" => pass' = "cycles",
         pass' = "recombine" => todo' \subseteq todo /\ \A o \in os : o[1] \notin todo'
  PROVE  NetInv'
  <1>1. NetOK' /\ Effect("PipelineRegister", r, os)
    BY InsertedBehind DEF NetInv
  <1>2. Placed'
    BY <1>1, InsertKeepsPlaced DEF NetInv
  <1>3. DOMAIN blocks' = DOMAIN blocks \cup {<<r, o>> : o \in os}
    BY <1>1 DEF Effect
  <1>4. Consumers'
    <2>1. \A v, w \in wires : v[1] = w[1] => v = w
      BY DEF NetInv, Consumers
    <2>2. \A v, w \in wires' : v[1] = w[1] => v = w
      BY <2>1, InsertKeepsConsumers DEF NetInv
    <2> QED
      BY <2>2 DEF Consumers
  <1>5. Fresh'
    <2> SUFFICES ASSUME NEW b \in DOMAIN blocks'
                 PROVE  /\ Role(b) \in RolesBy(pass')
                        /\ Role(b) \notin RolesOf(pass')
                        /\ Role(b) = "reg" /\ pass' = "recombine" => b[2][1] \notin todo'
      BY DEF Fresh, Role, RolesBy, RolesOf
    <2>1. CASE b \in DOMAIN blocks
      BY <2>1 DEF NetInv, Fresh, RolesOf, RolesBy
    <2>2. ASSUME NEW o \in os, b = <<r, o>>
          PROVE  /\ Role(b) \in RolesBy(pass')
                 /\ Role(b) \notin RolesOf(pass')
                 /\ Role(b) = "reg" /\ pass' = "recombine" => b[2][1] \notin todo'
      <3>1. Role(b) = r /\ b[2] = o
        BY <2>2, Roles
      <3>2. Role(b) \in RolesBy(pass')
        BY <3>1 DEF RolesBy
      <3> QED
        BY <3>1, <3>2 DEF RolesOf
    <2> QED
      BY <1>3, <2>1, <2>2
  <1>6. ToVisit'
    BY <1>3 DEF NetInv, ToVisit
  <1>7. Tight' /\ pass' \in Range(Order)
    <2>1. "recombine" = Order[4] /\ "cycles" = Order[6] /\ 4 \in DOMAIN Order /\ 6 \in DOMAIN Order
      BY DEF Order
    <2> QED
      BY <2>1 DEF Tight, Range
  <1> QED
    BY <1>1, <1>2, <1>4, <1>5, <1>6, <1>7 DEF NetInv

\* The second part of SynthesizeForksPass inserts registers.
LEMMA RecombineKeeps ==
  ASSUME NetInv, NEW f, Recombine(f)
  PROVE  NetInv' /\ Inserts /\ Registers(Outputs(f))
  <1>1. pass = "recombine" /\ pass' = "recombine" /\ f \in todo /\ todo' = todo \ {f} /\ clocked' = clocked
    BY Visited DEF Recombine
  <1>2. PICK os \in SUBSET Outputs(f) : InsertAfter("PipelineRegister", Behind("reg", os))
    <2>1. PICK unset \in BOOLEAN :
            LET meet == {o \in Outputs(f) : \E q \in Outputs(f) \ {o} :
                           unset \/ FindConsumers(o) \cap FindConsumers(q) # {}}
            IN  InsertAfter("PipelineRegister", [o \in meet |-> <<"reg", o>>])
      BY DEF Recombine
    <2> QED
      BY <2>1 DEF Behind
  <1>3. f \in DOMAIN blocks /\ blocks[f].outs \in Nat
    BY <1>1 DEF NetInv, ToVisit, NetOK, Ports
  <1>4. \A o \in os : IsOutput(o) /\ o[1] = f
    BY <1>3, OutputsAre
  <1>5. IsFiniteSet(os)
    <2> DEFINE N == 1..blocks[f].outs
               g == [n \in N |-> <<f, n>>]
    <2>1. IsFiniteSet(N)
      BY <1>3, FS_Interval
    <2>2. Outputs(f) = {g[n] : n \in N}
      BY DEF Outputs
    <2> HIDE DEF g, N
    <2>3. IsFiniteSet(Outputs(f))
      BY <2>1, <2>2, FiniteImage
    <2> QED
      BY <2>3, FS_Subset
  <1>6. \A o \in os : <<"reg", o>> \notin DOMAIN blocks
    <2> TAKE o \in os
    <2>1. Role(<<"reg", o>>) = "reg" /\ <<"reg", o>>[2][1] = f
      BY <1>4, Roles
    <2> QED
      BY <1>1, <2>1 DEF NetInv, Fresh
  <1>7. CanInsert("reg", os)
    BY <1>4, <1>5, <1>6 DEF CanInsert
  <1>8. \A o \in os : o[1] \notin todo'
    BY <1>1, <1>4
  <1> QED
    BY <1>1, <1>2, <1>7, <1>8, RegistersKeep DEF Inserts, Registers

\* PipelineFrequencyPass inserts registers.
LEMMA PipelineFrequencyKeeps ==
  ASSUME NetInv, PipelineFrequency
  PROVE  NetInv' /\ Inserts /\ Registers(AllOutputs)
  <1>1. pass = "frequency" /\ pass' = "cycles" /\ clocked' = clocked
    BY DEF PipelineFrequency
  <1>2. PICK os : /\ os \subseteq {o \in AllOutputs : Sinks(o) # {}}
                  /\ InsertAfter("PipelineRegister", Behind("late", os))
    <2>1. PICK os \in {S \in SUBSET {o \in AllOutputs : Sinks(o) # {} /\ ~IsPipelineReg(o[1])} :
                        Cardinality(S) <= IF clocked THEN MaxSlow ELSE 0} :
            InsertAfter("PipelineRegister", [o \in os |-> <<"late", o>>])
      BY DEF PipelineFrequency
    <2> QED
      BY <2>1 DEF Behind
  <1>3. IsFiniteSet(os)
    <2> DEFINE g == [w \in wires |-> w[1]]
    <2>1. os \subseteq {g[w] : w \in wires}
      BY <1>2 DEF Sinks
    <2> HIDE DEF g
    <2>2. IsFiniteSet({g[w] : w \in wires})
      BY FiniteImage DEF NetInv, NetOK
    <2> QED
      BY <2>1, <2>2, FS_Subset
  <1>4. \A o \in os : IsOutput(o)
    BY <1>2, OutputsAre
  <1>5. \A o \in os : <<"late", o>> \notin DOMAIN blocks
    <2> TAKE o \in os
    <2>1. Role(<<"late", o>>) = "late"
      BY Roles
    <2>2. "late" \notin RolesBy("frequency")
      BY DEF RolesBy
    <2> QED
      BY <1>1, <2>1, <2>2 DEF NetInv, Fresh
  <1>6. CanInsert("late", os)
    BY <1>3, <1>4, <1>5 DEF CanInsert
  <1> QED
    BY <1>1, <1>2, <1>6, RegistersKeep DEF Inserts, Registers

\* PipelineCyclesPass inserts a register into the cycle it found.
LEMMA BreakCycleKeeps ==
  ASSUME NetInv, SearchInv, BreakCycle
  PROVE  NetInv' /\ Inserts /\ Registers(AllOutputs)
  <1>1. PICK w \in cycle : InsertAfter("PipelineRegister", [o \in {w[1]} |-> <<"reg", o>>])
    BY DEF BreakCycle
  <1>2. pass = "cycles" /\ pass' = "cycles" /\ clocked' = clocked
    BY <1>1 DEF SearchInv, BreakCycle
  <1>3. w \in wires /\ ~IsPipelineReg(w[2][1])
    BY <1>1, <1>2 DEF SearchInv
  <1>4. IsOutput(w[1])
    BY <1>3 DEF NetInv, NetOK, Joined, IsOutput
  <1>5. <<"reg", w[1]>> \notin DOMAIN blocks
    <2>1. Role(<<"reg", w[1]>>) = "reg" /\ <<"reg", w[1]>>[2] = w[1]
      BY Roles
    <2> QED
      BY <1>3, <2>1 DEF NetInv, Placed
  <1>6. CanInsert("reg", {w[1]})
    BY <1>4, <1>5, FS_Singleton DEF CanInsert
  <1>7. InsertAfter("PipelineRegister", Behind("reg", {w[1]}))
    BY <1>1 DEF Behind
  <1>8. {w[1]} \in SUBSET AllOutputs
    BY <1>4, OutputsAre
  <1> QED
    BY <1>2, <1>6, <1>7, <1>8, RegistersKeep DEF Inserts, Registers

\* A finite set as a sequence.
LEMMA Sequence ==
  ASSUME NEW S, IsFiniteSet(S)
  PROVE  LET s == SetToSeq(S)
         IN  /\ Len(s) \in Nat /\ DOMAIN s = 1..Len(s)
             /\ \A k \in 1..Len(s) : s[k] \in S
             /\ \A x \in S : \E k \in 1..Len(s) : s[k] = x
             /\ \A j, k \in 1..Len(s) : s[j] = s[k] => j = k
  <1> DEFINE c == Cardinality(S)
             s == SetToSeq(S)
  <1>1. c \in Nat /\ ExistsBijection(1..c, S)
    BY FS_CardinalityType
  <1>2. \E f \in [1..c -> S] : IsInjective(f)
    BY <1>1 DEF ExistsBijection, Bijection, Injection
  <1>3. s \in [1..c -> S] /\ IsInjective(s)
    BY <1>2 DEF SetToSeq
  <1>4. IsFiniteSet(1..c) /\ Cardinality(1..c) = c
    BY <1>1, FS_Interval
  <1> HIDE DEF s, c
  <1>5. s \in Injection(1..c, S)
    BY <1>3 DEF Injection
  <1>6. s \in Surjection(1..c, S)
    <2>1. Cardinality(1..c) = Cardinality(S)
      BY <1>4 DEF c
    <2> DEFINE N == 1..c
    <2> HIDE DEF N
    <2>2. s \in Injection(N, S) /\ IsFiniteSet(N) /\ Cardinality(N) = Cardinality(S)
      BY <1>4, <1>5, <2>1 DEF N
    <2>3. s \in Surjection(N, S)
      BY <2>2, FS_Injection
    <2> QED
      BY <2>3 DEF N
  <1>7. Len(s) = c /\ DOMAIN s = 1..c
    BY <1>1, <1>3
  <1>8. \A j, k \in 1..c : s[j] = s[k] => j = k
    BY <1>3, <1>7 DEF IsInjective
  <1> QED
    BY <1>1, <1>3, <1>6, <1>7, <1>8 DEF Surjection, s

\* The wires of a fork behind o, and of the register between them if there is one.
ForkEffect(o, virt, registered, sinks) ==
  LET fork == <<"fork", o>>
      reg == <<"reg", o>>
  IN  /\ DOMAIN blocks' = DOMAIN blocks \cup {fork} \cup (IF registered THEN {reg} ELSE {})
      /\ \A b \in DOMAIN blocks : blocks'[b] = blocks[b]
      /\ blocks'[fork] = Block(IF virt THEN "VirtualFork" ELSE "Fork", 1, Len(sinks))
      /\ registered => blocks'[reg] = Block("PipelineRegister", 1, 1)
      /\ \A w \in wires' :
           \/ w \in wires /\ w[1] # o
           \/ \E k \in 1..Len(sinks) : w = <<<<fork, k>>, sinks[k]>>
           \/ registered /\ (w = <<o, <<reg, 1>>>> \/ w = <<<<reg, 1>>, <<fork, 1>>>>)
           \/ ~registered /\ w = <<o, <<fork, 1>>>>
      /\ \A w \in wires : w[1] # o => w \in wires'
      /\ \A k \in 1..Len(sinks) : <<<<fork, k>>, sinks[k]>> \in wires'
      /\ IF registered THEN <<o, <<reg, 1>>>> \in wires' /\ <<<<reg, 1>>, <<fork, 1>>>> \in wires'
                       ELSE <<o, <<fork, 1>>>> \in wires'
      /\ Len(sinks) \in Nat
      /\ \A k \in 1..Len(sinks) : \E v \in wires : v[1] = o /\ v[2] = sinks[k]
      /\ \A v \in wires : v[1] = o => \E k \in 1..Len(sinks) : sinks[k] = v[2]
      /\ \A j, k \in 1..Len(sinks) : sinks[j] = sinks[k] => j = k

\* What SynthesizeForksPass does to the netlist, block by block and wire by wire.
LEMMA Forked ==
  ASSUME NetInv, NEW o, SynthesizeFork(o)
  PROVE  /\ pass = "forks" /\ pass' = "forks" /\ o \in todo /\ todo' = todo \ {o}
         /\ IsOutput(o) /\ <<"fork", o>> \notin DOMAIN blocks /\ <<"reg", o>> \notin DOMAIN blocks
         /\ IsFiniteSet(wires')
         /\ \E virt, registered \in BOOLEAN : \E sinks : ForkEffect(o, virt, registered, sinks)
  <1> DEFINE virt == o[1] \in FindConstants
             registered == clocked /\ ~virt
             fork == <<"fork", o>>
             reg == <<"reg", o>>
             sinks == SetToSeq(Sinks(o))
  <1>1. pass = "forks" /\ pass' = "forks" /\ o \in todo /\ todo' = todo \ {o}
    BY Visited DEF SynthesizeFork
  <1>2. IsOutput(o)
    BY <1>1 DEF NetInv, ToVisit, IsOutput
  <1>3. fork \notin DOMAIN blocks /\ reg \notin DOMAIN blocks
    <2>1. Role(fork) = "fork" /\ fork[2] = o /\ Role(reg) = "reg" /\ reg[2] = o
      BY Roles
    <2> QED
      BY <1>1, <2>1 DEF NetInv, Fresh, RolesOf
  <1>4. /\ blocks' = With(blocks, [x \in {fork} \cup (IF registered THEN {reg} ELSE {}) |->
                                      IF x = fork THEN Block(IF virt THEN "VirtualFork" ELSE "Fork", 1, Len(sinks))
                                      ELSE Block("PipelineRegister", 1, 1)])
        /\ wires' = {w \in wires : w[1] # o}
                      \cup {<<<<fork, k>>, sinks[k]>> : k \in DOMAIN sinks}
                      \cup (IF registered THEN {<<o, <<reg, 1>>>>, <<<<reg, 1>>, <<fork, 1>>>>}
                            ELSE {<<o, <<fork, 1>>>>})
    BY DEF SynthesizeFork
  <1>5. IsFiniteSet(Sinks(o))
    <2> DEFINE g == [w \in wires |-> w[2]]
               W == {w \in wires : w[1] = o}
    <2>1. IsFiniteSet(W)
      BY FS_Subset DEF NetInv, NetOK
    <2>2. Sinks(o) = {g[w] : w \in W}
      BY DEF Sinks
    <2> HIDE DEF g, W
    <2> QED
      BY <2>1, <2>2, FiniteImage
  <1>6. /\ Len(sinks) \in Nat /\ DOMAIN sinks = 1..Len(sinks)
        /\ \A k \in 1..Len(sinks) : sinks[k] \in Sinks(o)
        /\ \A x \in Sinks(o) : \E k \in 1..Len(sinks) : sinks[k] = x
        /\ \A j, k \in 1..Len(sinks) : sinks[j] = sinks[k] => j = k
    <2>1. LET s == SetToSeq(Sinks(o))
          IN  /\ Len(s) \in Nat /\ DOMAIN s = 1..Len(s)
              /\ \A k \in 1..Len(s) : s[k] \in Sinks(o)
              /\ \A x \in Sinks(o) : \E k \in 1..Len(s) : s[k] = x
              /\ \A j, k \in 1..Len(s) : s[j] = s[k] => j = k
      BY <1>5, Sequence
    <2> QED
      BY <2>1
  <1> HIDE DEF sinks, virt
  <1>7. fork # reg
    OBVIOUS
  <1> HIDE DEF fork, reg, registered
  <1>8. /\ DOMAIN blocks' = DOMAIN blocks \cup {fork} \cup (IF registered THEN {reg} ELSE {})
        /\ \A b \in DOMAIN blocks : blocks'[b] = blocks[b]
        /\ blocks'[fork] = Block(IF virt THEN "VirtualFork" ELSE "Fork", 1, Len(sinks))
        /\ registered => blocks'[reg] = Block("PipelineRegister", 1, 1)
    <2> DEFINE made == [x \in {fork} \cup (IF registered THEN {reg} ELSE {}) |->
                                      IF x = fork THEN Block(IF virt THEN "VirtualFork" ELSE "Fork", 1, Len(sinks))
                                      ELSE Block("PipelineRegister", 1, 1)]
    <2>1. DOMAIN made = {fork} \cup (IF registered THEN {reg} ELSE {})
      OBVIOUS
    <2>2. made[fork] = Block(IF virt THEN "VirtualFork" ELSE "Fork", 1, Len(sinks))
      OBVIOUS
    <2>3. registered => made[reg] = Block("PipelineRegister", 1, 1)
      BY <1>7
    <2>4. blocks' = With(blocks, made)
      BY <1>4
    <2> HIDE DEF made
    <2> QED
      BY <1>3, <2>1, <2>2, <2>3, <2>4 DEF With
  <1>9. IsFiniteSet(wires')
    <2> DEFINE N == 1..Len(sinks)
               g == [k \in N |-> <<<<fork, k>>, sinks[k]>>]
               X == IF registered THEN {<<o, <<reg, 1>>>>, <<<<reg, 1>>, <<fork, 1>>>>} ELSE {<<o, <<fork, 1>>>>}
               Y == {w \in wires : w[1] # o}
    <2>1. IsFiniteSet(N)
      BY <1>6, FS_Interval
    <2>2. wires' = Y \cup {g[k] : k \in N} \cup X
      BY <1>4, <1>6
    <2>3. IsFiniteSet(X)
      <3>1. IsFiniteSet({<<o, <<reg, 1>>>>, <<<<reg, 1>>, <<fork, 1>>>>})
        BY FinitePair
      <3> QED
        BY <3>1, FS_Singleton
    <2>4. IsFiniteSet(Y)
      BY FS_Subset DEF NetInv, NetOK
    <2> HIDE DEF N, g, X, Y
    <2>5. IsFiniteSet({g[k] : k \in N})
      BY <2>1, FiniteImage
    <2>6. IsFiniteSet(Y \cup {g[k] : k \in N})
      BY <2>4, <2>5, FS_Union
    <2> QED
      BY <2>2, <2>3, <2>6, FS_Union
  <1>10. ForkEffect(o, virt, registered, sinks)
    <2>1. \A w \in wires' :
           \/ w \in wires /\ w[1] # o
           \/ \E k \in 1..Len(sinks) : w = <<<<fork, k>>, sinks[k]>>
           \/ registered /\ (w = <<o, <<reg, 1>>>> \/ w = <<<<reg, 1>>, <<fork, 1>>>>)
           \/ ~registered /\ w = <<o, <<fork, 1>>>>
      BY <1>4, <1>6
    <2>2. \A k \in 1..Len(sinks) : <<<<fork, k>>, sinks[k]>> \in wires'
      BY <1>4, <1>6
    <2>3. /\ \A w \in wires : w[1] # o => w \in wires'
          /\ IF registered THEN <<o, <<reg, 1>>>> \in wires' /\ <<<<reg, 1>>, <<fork, 1>>>> \in wires'
                           ELSE <<o, <<fork, 1>>>> \in wires'
      BY <1>4
    <2>4. \A x : x \in Sinks(o) <=> \E v \in wires : v[1] = o /\ v[2] = x
      BY DEF Sinks
    <2>5. /\ \A k \in 1..Len(sinks) : \E v \in wires : v[1] = o /\ v[2] = sinks[k]
          /\ \A v \in wires : v[1] = o => \E k \in 1..Len(sinks) : sinks[k] = v[2]
      BY <1>6, <2>4
    <2> QED
      BY <1>6, <1>8, <2>1, <2>2, <2>3, <2>5 DEF ForkEffect, fork, reg
  <1>11. virt \in BOOLEAN /\ registered \in BOOLEAN
    <2>1. virt \in BOOLEAN
      BY DEF virt
    <2>2. clocked \in BOOLEAN
      BY DEF NetInv
    <2>3. registered = TRUE \/ registered = FALSE
      BY <2>1, <2>2 DEF registered
    <2> QED
      BY <2>1, <2>3
  <1> QED
    BY <1>1, <1>2, <1>3, <1>9, <1>10, <1>11 DEF fork, reg

\* A fork gives each of its outputs one consumer.
LEMMA SynthesizeForkKeeps ==
  ASSUME NetInv, NEW o, SynthesizeFork(o)
  PROVE  NetInv'
  <1> DEFINE fork == <<"fork", o>>
             reg == <<"reg", o>>
  <1>1. /\ pass = "forks" /\ pass' = "forks" /\ o \in todo /\ todo' = todo \ {o}
        /\ IsOutput(o) /\ fork \notin DOMAIN blocks /\ reg \notin DOMAIN blocks
        /\ IsFiniteSet(wires')
    BY Forked
  <1>2. PICK virt \in BOOLEAN, registered \in BOOLEAN : \E sinks : ForkEffect(o, virt, registered, sinks)
    BY Forked
  <1>2a. PICK sinks : ForkEffect(o, virt, registered, sinks)
    BY <1>2
  <1>3. /\ Role(fork) = "fork" /\ fork[2] = o /\ Role(reg) = "reg" /\ reg[2] = o
    BY Roles
  <1>4. fork # reg
    OBVIOUS
  <1> HIDE DEF fork, reg
  <1>5. /\ DOMAIN blocks' = DOMAIN blocks \cup {fork} \cup (IF registered THEN {reg} ELSE {})
        /\ \A b \in DOMAIN blocks : blocks'[b] = blocks[b]
        /\ blocks'[fork] = Block(IF virt THEN "VirtualFork" ELSE "Fork", 1, Len(sinks))
        /\ registered => blocks'[reg] = Block("PipelineRegister", 1, 1)
    BY <1>2a DEF ForkEffect, fork, reg
  <1>6. \A w \in wires' :
           \/ w \in wires /\ w[1] # o
           \/ \E k \in 1..Len(sinks) : w = <<<<fork, k>>, sinks[k]>>
           \/ registered /\ (w = <<o, <<reg, 1>>>> \/ w = <<<<reg, 1>>, <<fork, 1>>>>)
           \/ ~registered /\ w = <<o, <<fork, 1>>>>
    BY <1>2a DEF ForkEffect, fork, reg
  <1>7. /\ Len(sinks) \in Nat
        /\ \A k \in 1..Len(sinks) : \E v \in wires : v[1] = o /\ v[2] = sinks[k]
        /\ \A j, k \in 1..Len(sinks) : sinks[j] = sinks[k] => j = k
    BY <1>2a DEF ForkEffect
  <1>8. \A w \in wires : /\ w = <<<<w[1][1], w[1][2]>>, <<w[2][1], w[2][2]>>>>
                         /\ w[1][1] \in DOMAIN blocks /\ w[1][2] \in 1..blocks[w[1][1]].outs
                         /\ w[2][1] \in DOMAIN blocks /\ w[2][2] \in 1..blocks[w[2][1]].ins
    BY DEF NetInv, NetOK, Joined
  <1>9. \A v, w \in wires : v[2] = w[2] => v = w
    BY DEF NetInv, NetOK
  <1>10. o = <<o[1], o[2]>> /\ o[1] \in DOMAIN blocks /\ o[2] \in 1..blocks[o[1]].outs
    BY <1>1 DEF IsOutput
  <1>11. NetOK'
    <2>1. ASSUME NEW b \in DOMAIN blocks'
          PROVE  Ports(b)'
      <3>1. CASE b \in DOMAIN blocks
        BY <1>5, <3>1 DEF NetInv, NetOK, Ports, IsPipelineReg, Is
      <3>2. CASE b = fork
        BY <1>5, <1>7, <3>2 DEF Ports, IsPipelineReg, Is, Block
      <3>3. CASE registered /\ b = reg
        BY <1>5, <3>3 DEF Ports, IsPipelineReg, Is, Block
      <3> QED
        BY <1>5, <3>1, <3>2, <3>3
    <2>2. ASSUME NEW w \in wires'
          PROVE  Joined(w)'
      <3>1. CASE w \in wires
        BY <1>5, <1>8, <3>1 DEF Joined
      <3>2. ASSUME NEW k \in 1..Len(sinks), w = <<<<fork, k>>, sinks[k]>>
            PROVE  Joined(w)'
        <4>1. PICK v \in wires : v[2] = sinks[k]
          BY <1>7
        <4>2. sinks[k] = <<sinks[k][1], sinks[k][2]>> /\ sinks[k][1] \in DOMAIN blocks /\ sinks[k][2] \in 1..blocks[sinks[k][1]].ins
          BY <1>8, <4>1
        <4>3. fork \in DOMAIN blocks' /\ k \in 1..blocks'[fork].outs
          BY <1>5 DEF Block
        <4> QED
          BY <1>5, <3>2, <4>2, <4>3 DEF Joined
      <3>3. CASE registered /\ w = <<o, <<reg, 1>>>>
        BY <1>5, <1>10, <3>3 DEF Joined, Block
      <3>4. CASE registered /\ w = <<<<reg, 1>>, <<fork, 1>>>>
        BY <1>5, <3>4 DEF Joined, Block
      <3>5. CASE w = <<o, <<fork, 1>>>>
        BY <1>5, <1>10, <3>5 DEF Joined, Block
      <3> QED
        BY <1>6, <3>1, <3>2, <3>3, <3>4, <3>5
    <2>3. ASSUME NEW v \in wires', NEW w \in wires', v[2] = w[2]
          PROVE  v = w
      <3> DEFINE Old(x, y) == y[2] = x[2] /\ (IF y[1] = o THEN \E k \in 1..Len(sinks) : x = <<<<fork, k>>, sinks[k]>> ELSE x = y)
      <3>1. ASSUME NEW x \in wires'
            PROVE  \/ \E y \in wires : Old(x, y)
                   \/ x[2][1] = fork /\ (registered => x = <<<<reg, 1>>, <<fork, 1>>>>) /\ (~registered => x = <<o, <<fork, 1>>>>)
                   \/ x[2][1] = reg /\ registered /\ x = <<o, <<reg, 1>>>>
        <4>1. CASE x \in wires /\ x[1] # o
          BY <4>1
        <4>2. ASSUME NEW k \in 1..Len(sinks), x = <<<<fork, k>>, sinks[k]>>
              PROVE  \E y \in wires : Old(x, y)
          <5>1. PICK y \in wires : y[1] = o /\ y[2] = sinks[k]
            BY <1>7
          <5> QED
            BY <4>2, <5>1
        <4> QED
          BY <1>6, <4>1, <4>2
      <3>2. \A y \in wires : y[2][1] # fork /\ y[2][1] # reg
        BY <1>1, <1>8
      <3>3. CASE v[2][1] \in {fork, reg}
        BY <1>4, <2>3, <3>1, <3>2, <3>3
      <3>4. CASE v[2][1] \notin {fork, reg}
        <4>1. PICK y \in wires : Old(v, y)
          BY <3>1, <3>4
        <4>2. PICK z \in wires : Old(w, z)
          BY <2>3, <3>1, <3>4
        <4>3. y = z
          BY <1>9, <2>3, <4>1, <4>2
        <4>4. CASE y[1] # o
          BY <4>1, <4>2, <4>3, <4>4
        <4>5. CASE y[1] = o
          <5>1. PICK j \in 1..Len(sinks) : v = <<<<fork, j>>, sinks[j]>>
            BY <4>1, <4>5
          <5>2. PICK k \in 1..Len(sinks) : w = <<<<fork, k>>, sinks[k]>>
            BY <4>2, <4>3, <4>5
          <5>3. j = k
            BY <1>7, <2>3, <5>1, <5>2
          <5> QED
            BY <5>1, <5>2, <5>3
        <4> QED
          BY <4>4, <4>5
      <3> QED
        BY <3>3, <3>4
    <2> QED
      BY <1>1, <2>1, <2>2, <2>3 DEF NetOK
  <1>12. Fresh'
    <2> SUFFICES /\ \A b \in DOMAIN blocks' : /\ Role(b) \in RolesBy("forks")
                                              /\ Role(b) \in {"reg", "fork"} => b[2] \notin todo'
                 /\ \A q \in todo' : Role(q[1]) # "fork"
      BY <1>1 DEF Fresh, Role, RolesBy, RolesOf
    <2>1. ASSUME NEW b \in DOMAIN blocks'
          PROVE  Role(b) \in RolesBy("forks") /\ (Role(b) \in {"reg", "fork"} => b[2] \notin todo')
      <3>1. CASE b \in DOMAIN blocks
        BY <1>1, <3>1 DEF NetInv, Fresh, RolesOf
      <3>2. CASE b \in {fork, reg}
        BY <1>1, <1>3, <3>2 DEF RolesBy
      <3> QED
        BY <1>5, <3>1, <3>2
    <2> QED
      BY <1>1, <2>1 DEF NetInv, Fresh
  <1>13. Placed' /\ Tight'
    <2> SUFFICES ASSUME NEW b \in DOMAIN blocks', Role(b) = "reg"
                 PROVE  /\ IsPipelineReg(b)' /\ b[2][1] \in DOMAIN blocks' /\ Role(b[2][1]) # "fork"
                        /\ \A w \in wires' : w[1] = b[2] => w[2] = <<b, 1>>
      BY DEF Placed, Tight, Role
    <2>1. CASE b \in DOMAIN blocks
      <3>1. /\ IsPipelineReg(b) /\ b[2][1] \in DOMAIN blocks /\ Role(b[2][1]) # "fork"
            /\ \A w \in wires : w[1] = b[2] => w[2] = <<b, 1>>
        BY <1>1, <2>1 DEF NetInv, Placed, Tight
      <3>2. b[2] # o
        BY <1>1, <2>1 DEF NetInv, Fresh, RolesOf
      <3>3. \A k : b[2] # <<fork, k>> /\ b[2] # <<reg, k>>
        BY <1>1, <3>1
      <3>4. IsPipelineReg(b)'
        BY <1>5, <2>1, <3>1 DEF IsPipelineReg, Is
      <3>5. ASSUME NEW w \in wires', w[1] = b[2]
            PROVE  w[2] = <<b, 1>>
        BY <1>6, <3>1, <3>2, <3>3, <3>5
      <3> QED
        BY <1>5, <3>1, <3>4, <3>5
    <2>2. CASE b \notin DOMAIN blocks
      <3>1. b = reg /\ registered
        BY <1>3, <1>5, <2>2
      <3>2. IsPipelineReg(b)'
        BY <1>5, <3>1 DEF IsPipelineReg, Is, Block
      <3>3. Role(o[1]) # "fork"
        BY <1>1 DEF NetInv, Fresh
      <3>4. \A k : o # <<fork, k>> /\ o # <<reg, k>>
        BY <1>1, <1>10
      <3>5. ASSUME NEW w \in wires', w[1] = o
            PROVE  w[2] = <<reg, 1>>
        BY <1>6, <3>1, <3>4, <3>5
      <3> QED
        BY <1>3, <1>5, <1>10, <3>1, <3>2, <3>3, <3>5
    <2> QED
      BY <2>1, <2>2
  <1>14. ToVisit'
    <2> SUFFICES ASSUME NEW q \in todo'
                 PROVE  q = <<q[1], q[2]>> /\ q[1] \in DOMAIN blocks' /\ q[2] \in 1..blocks'[q[1]].outs
      BY <1>1 DEF ToVisit
    <2>1. q = <<q[1], q[2]>> /\ q[1] \in DOMAIN blocks /\ q[2] \in 1..blocks[q[1]].outs
      BY <1>1 DEF NetInv, ToVisit
    <2> QED
      BY <1>5, <2>1
  <1>15. Consumers'
    <2> SUFFICES ASSUME NEW v \in wires', NEW w \in wires', v[1] = w[1], v[1] \notin todo'
                 PROVE  v = w
      BY <1>1 DEF Consumers
    <2>1. \A x \in wires : x[1][1] # fork /\ x[1][1] # reg
      BY <1>1, <1>8
    <2>2. o[1] # fork /\ o[1] # reg
      BY <1>1, <1>10
    <2>3. CASE v[1] = o
      <3>1. ASSUME NEW x \in wires', x[1] = o
            PROVE  x = IF registered THEN <<o, <<reg, 1>>>> ELSE <<o, <<fork, 1>>>>
        BY <1>6, <2>2, <3>1
      <3> QED
        BY <2>3, <3>1
    <2>4. CASE v[1][1] = fork
      <3>1. ASSUME NEW x \in wires', x[1][1] = fork
            PROVE  \E k \in 1..Len(sinks) : x = <<<<fork, k>>, sinks[k]>>
        BY <1>4, <1>6, <2>1, <2>2, <3>1
      <3>2. PICK j \in 1..Len(sinks) : v = <<<<fork, j>>, sinks[j]>>
        BY <2>4, <3>1
      <3>3. PICK k \in 1..Len(sinks) : w = <<<<fork, k>>, sinks[k]>>
        BY <2>4, <3>1
      <3> QED
        BY <3>2, <3>3
    <2>5. CASE v[1][1] = reg
      BY <1>4, <1>6, <2>1, <2>2, <2>5
    <2>6. CASE v[1] # o /\ v[1][1] # fork /\ v[1][1] # reg
      <3>1. v \in wires /\ w \in wires
        BY <1>6, <2>6
      <3>2. v[1] \notin todo
        BY <1>1, <2>6
      <3> QED
        BY <1>1, <3>1, <3>2 DEF NetInv, Consumers
    <2> QED
      BY <2>3, <2>4, <2>5, <2>6
  <1>16. clocked' = clocked
    BY DEF SynthesizeFork, Visit
  <1> QED
    BY <1>1, <1>11, <1>12, <1>13, <1>14, <1>15, <1>16 DEF NetInv

\* The order of the blocks that stand between b and the consumers of its outputs.
Stage(c) == CASE Role(c) = "join" -> 1 [] Role(c) = "depfork" -> 2 [] OTHER -> 3

\* A wire from an output of b comes from the extract of that output.
Moved(b, v) == IF v[1][1] = b THEN <<<<<<"extract", b, v[1][2]>>, 1>>, v[2]>> ELSE v

\* What SplitToExtracts and JoinDependents do to the netlist around b.  K are the
\* blocks that stay, N the new ones.
Rebuilt(b, K, N) ==
  /\ K \subseteq DOMAIN blocks /\ DOMAIN blocks \ {b} \subseteq K
  /\ DOMAIN blocks' = K \cup N
  /\ \A c \in K : blocks'[c] = blocks[c]
  /\ \A c \in N : Role(c) \in {"join", "depfork", "extract"} /\ c[2] = b /\ Ports(c)'
  /\ \A k \in 1..blocks[b].outs : <<"extract", b, k>> \in N /\ blocks'[<<"extract", b, k>>].outs = 1
  /\ \A c \in N : blocks'[c].class = "Fork" \/ blocks'[c].outs = 1
  /\ IsFiniteSet(wires')
  /\ \A w \in wires' : IF w[2][1] \in N THEN Joined(w)' ELSE \E v \in wires : v[2][1] \in K /\ w = Moved(b, v)
  /\ \A v, w \in wires' : v[2] = w[2] /\ v[2][1] \in N => v = w
  /\ \A v \in wires : v[2][1] \in K => Moved(b, v) \in wires'
  /\ \A w \in wires' : w[2][1] \in N =>
       \/ w[1][1] = b /\ b \in K
       \/ w[1][1] \in N /\ Stage(w[1][1]) < Stage(w[2][1])
       \/ \E v \in wires : v[2][1] = b /\ v[1] = w[1] /\ w[1][1] \in K
  /\ \A U : (U \cap N # {} /\ \A w \in wires' : w[2][1] \in U => w[1][1] \in U) =>
       IF b \in K THEN b \in U
       ELSE blocks[b].class = "Split" /\ \A v \in wires : v[2][1] = b => v[1][1] \in U

\* The invariant of the netlist holds after a block was rebuilt.
LEMMA DependentsKeep ==
  ASSUME NetInv, NEW b, pass = "dependents", pass' = "dependents", b \in todo, todo' = todo \ {b},
         clocked' = clocked, NEW K, NEW N, Rebuilt(b, K, N)
  PROVE  NetInv' /\ N \cap DOMAIN blocks = {}
  <1>1. /\ K \subseteq DOMAIN blocks /\ DOMAIN blocks \ {b} \subseteq K
        /\ DOMAIN blocks' = K \cup N
        /\ \A c \in K : blocks'[c] = blocks[c]
        /\ \A c \in N : Role(c) \in {"join", "depfork", "extract"} /\ c[2] = b /\ Ports(c)'
        /\ \A k \in 1..blocks[b].outs : <<"extract", b, k>> \in N /\ blocks'[<<"extract", b, k>>].outs = 1
    BY DEF Rebuilt
  <1>2. /\ \A w \in wires' : IF w[2][1] \in N THEN Joined(w)' ELSE \E v \in wires : v[2][1] \in K /\ w = Moved(b, v)
        /\ \A v, w \in wires' : v[2] = w[2] /\ v[2][1] \in N => v = w
        /\ \A v \in wires : v[2][1] \in K => Moved(b, v) \in wires'
    BY DEF Rebuilt
  <1>3. \A c \in DOMAIN blocks : Role(c) \in {"module", "join", "depfork", "extract"} /\ (Role(c) # "module" => c[2] # b)
    <2>1. RolesBy("dependents") = {"module", "join", "depfork", "extract"} /\ RolesOf("dependents") = {"join", "depfork", "extract"}
      BY DEF RolesBy, RolesOf
    <2> QED
      BY <2>1 DEF NetInv, Fresh
  <1>4. \A c \in N : c \notin DOMAIN blocks
    BY <1>1, <1>3
  <1>5. \A w \in wires : /\ w = <<<<w[1][1], w[1][2]>>, <<w[2][1], w[2][2]>>>>
                         /\ w[1][1] \in DOMAIN blocks /\ w[1][2] \in 1..blocks[w[1][1]].outs
                         /\ w[2][1] \in DOMAIN blocks /\ w[2][2] \in 1..blocks[w[2][1]].ins
    BY DEF NetInv, NetOK, Joined
  <1>6. ASSUME NEW c \in DOMAIN blocks'
        PROVE  Ports(c)'
    <2>1. CASE c \in K
      BY <1>1, <2>1 DEF NetInv, NetOK, Ports, IsPipelineReg, Is
    <2> QED
      BY <1>1, <2>1
  <1>7. ASSUME NEW w \in wires'
        PROVE  Joined(w)'
    <2>1. CASE w[2][1] \notin N
      <3>1. PICK v \in wires : v[2][1] \in K /\ w = Moved(b, v)
        BY <1>2, <2>1
      <3>2. CASE v[1][1] = b
        BY <1>1, <1>5, <3>1, <3>2 DEF Moved, Joined
      <3>3. CASE v[1][1] # b
        BY <1>1, <1>5, <3>1, <3>3 DEF Moved, Joined
      <3> QED
        BY <3>2, <3>3
    <2> QED
      BY <1>2, <2>1
  <1>8. ASSUME NEW v \in wires', NEW w \in wires', v[2] = w[2]
        PROVE  v = w
    <2>1. CASE v[2][1] \notin N
      <3>1. PICK x \in wires : v = Moved(b, x)
        BY <1>2, <2>1
      <3>2. PICK y \in wires : w = Moved(b, y)
        BY <1>2, <1>8, <2>1
      <3>3. v[2] = x[2] /\ w[2] = y[2]
        BY <3>1, <3>2 DEF Moved
      <3>4. x = y
        BY <1>8, <3>3 DEF NetInv, NetOK
      <3> QED
        BY <3>1, <3>2, <3>4
    <2> QED
      BY <1>2, <1>8, <2>1
  <1>9. NetOK'
    BY <1>6, <1>7, <1>8 DEF NetOK, Rebuilt
  <1>10. \A c \in DOMAIN blocks' : Role(c) \in {"module", "join", "depfork", "extract"}
    BY <1>1, <1>3
  <1>11. Fresh'
    <2> SUFFICES \A c \in DOMAIN blocks' : /\ Role(c) \in RolesBy("dependents")
                                           /\ Role(c) \in {"join", "depfork", "extract"} => c[2] \notin todo'
      BY DEF Fresh, Role, RolesBy, RolesOf
    <2> TAKE c \in DOMAIN blocks'
    <2>1. Role(c) \in RolesBy("dependents")
      BY <1>10 DEF RolesBy
    <2>2. CASE c \in K
      BY <1>1, <2>1, <2>2 DEF NetInv, Fresh, RolesOf
    <2> QED
      BY <1>1, <2>1, <2>2
  <1>12. Placed' /\ Tight' /\ Consumers'
    BY <1>10 DEF Placed, Tight, Consumers, Role
  <1>13. ToVisit'
    <2> SUFFICES ASSUME NEW c \in todo'
                 PROVE  /\ c \in DOMAIN blocks' /\ blocks'[c].outs > 1
                        /\ blocks'[c].class = "Split" => /\ blocks'[c].ins = 1
                                                         /\ \E w \in wires' : w[2] = <<c, 1>> /\ w[1][1] # c
      BY DEF ToVisit, Is
    <2>1. /\ c \in DOMAIN blocks /\ blocks[c].outs > 1 /\ c # b
          /\ blocks[c].class = "Split" => blocks[c].ins = 1 /\ \E w \in wires : w[2] = <<c, 1>> /\ w[1][1] # c
      BY DEF NetInv, ToVisit, Is
    <2>2. c \in K /\ blocks'[c] = blocks[c] /\ c \in DOMAIN blocks'
      BY <1>1, <2>1
    <2>3. ASSUME NEW w \in wires, w[2] = <<c, 1>>, w[1][1] # c
          PROVE  \E x \in wires' : x[2] = <<c, 1>> /\ x[1][1] # c
      <3>1. Moved(b, w) \in wires' /\ Moved(b, w)[2] = w[2]
        BY <1>2, <2>2, <2>3 DEF Moved
      <3>2. Moved(b, w)[1][1] # c
        <4>1. CASE w[1][1] = b
          BY <1>1, <1>4, <1>5, <2>1, <4>1 DEF Moved
        <4>2. CASE w[1][1] # b
          BY <2>3, <4>2 DEF Moved
        <4> QED
          BY <4>1, <4>2
      <3> QED
        BY <2>3, <3>1, <3>2
    <2> QED
      BY <2>1, <2>2, <2>3
  <1> QED
    BY <1>4, <1>9, <1>11, <1>12, <1>13 DEF NetInv

\* The blocks that take the place of the outputs of b.
Extracts(b) == {<<"extract", b, k>> : k \in 1..blocks[b].outs}

\* The blocks that PipelineDependentsPass makes for b are new.
LEMMA Names ==
  ASSUME NetInv, pass = "dependents", NEW b \in todo
  PROVE  /\ b \in DOMAIN blocks /\ blocks[b].outs \in Nat /\ blocks[b].outs > 1
         /\ \A k : <<"extract", b, k>> \notin DOMAIN blocks
         /\ <<"depfork", b>> \notin DOMAIN blocks /\ <<"join", b>> \notin DOMAIN blocks
         /\ Role(<<"join", b>>) = "join" /\ Role(<<"depfork", b>>) = "depfork"
         /\ \A c \in Extracts(b) : Role(c) = "extract" /\ c[2] = b
         /\ <<"depfork", b>> # <<"join", b>>
         /\ \A k : <<"extract", b, k>> # <<"depfork", b>> /\ <<"extract", b, k>> # <<"join", b>>
  <1>1. b \in DOMAIN blocks /\ blocks[b].outs \in Nat /\ blocks[b].outs > 1
    BY DEF NetInv, ToVisit, NetOK, Ports
  <1>2. \A c \in DOMAIN blocks : Role(c) \in {"join", "depfork", "extract"} => c[2] # b
    BY DEF NetInv, Fresh, RolesOf
  <1>3. /\ Role(<<"join", b>>) = "join" /\ Role(<<"depfork", b>>) = "depfork"
        /\ <<"join", b>>[2] = b /\ <<"depfork", b>>[2] = b
        /\ \A k : Role(<<"extract", b, k>>) = "extract" /\ <<"extract", b, k>>[2] = b
    <2>1. Role(<<"join", b>>) = "join" /\ Role(<<"depfork", b>>) = "depfork"
      BY Roles
    <2>2. <<"join", b>>[2] = b /\ <<"depfork", b>>[2] = b
      OBVIOUS
    <2>3. ASSUME NEW k
          PROVE  Role(<<"extract", b, k>>) = "extract" /\ <<"extract", b, k>>[2] = b
      BY Roles
    <2> QED
      BY <2>1, <2>2, <2>3
  <1>4. ASSUME NEW k
        PROVE  <<"extract", b, k>> # <<"depfork", b>> /\ <<"extract", b, k>> # <<"join", b>>
    <2>1. <<"extract", b, k>>[1] = "extract" /\ <<"depfork", b>>[1] = "depfork" /\ <<"join", b>>[1] = "join"
      OBVIOUS
    <2> QED
      BY <2>1
  <1> QED
    BY <1>1, <1>2, <1>3, <1>4 DEF Extracts

\* Afterwards a fork gives what comes from o to an extract for each field.
Fans(b, o) ==
  /\ <<"depfork", b>> \in DOMAIN blocks' /\ blocks'[<<"depfork", b>>].class = "Fork"
  /\ <<o, <<<<"depfork", b>>, 1>>>> \in wires'
  /\ \A k \in 1..blocks[b].outs :
       /\ <<"extract", b, k>> \in DOMAIN blocks' /\ blocks'[<<"extract", b, k>>] = Extract(k)
       /\ <<<<<<"depfork", b>>, k>>, <<<<"extract", b, k>>, 1>>>> \in wires'

\* The output that drives the input of b, of another block.
DrivesIt(o, b) == IsOutput(o) /\ o[1] # b /\ <<o, <<b, 1>>>> \in wires

\* A Split is rebuilt as a fork and its extracts.
LEMMA SplitRebuilds ==
  ASSUME NetInv, NEW b, SplitToExtracts(b)
  PROVE  /\ Rebuilt(b, DOMAIN blocks \ {b}, {<<"depfork", b>>} \cup Extracts(b))
         /\ \E o : DrivesIt(o, b) /\ Fans(b, o)
  <1> DEFINE fork == <<"depfork", b>>
             n == blocks[b].outs
             extract(k) == <<"extract", b, k>>
             source == CHOOSE o \in Drivers(<<b, 1>>) : TRUE
             K == DOMAIN blocks \ {b}
             N == {fork} \cup Extracts(b)
  <1>1. pass = "dependents" /\ b \in todo /\ Is(b, "Split")
    BY Visited DEF SplitToExtracts
  <1>2. /\ blocks' = With(Restrict(blocks, DOMAIN blocks \ {b}),
                            [x \in {fork} \cup {extract(k) : k \in 1..n} |->
                               IF x = fork THEN Block("Fork", 1, n) ELSE Extract(x[3])])
        /\ wires' = {IF w[1][1] = b THEN <<<<extract(w[1][2]), 1>>, w[2]>> ELSE w
                        : w \in {x \in wires : x[2] # <<b, 1>>}}
                       \cup {<<source, <<fork, 1>>>>}
                       \cup {<<<<fork, k>>, <<extract(k), 1>>>> : k \in 1..n}
    BY DEF SplitToExtracts
  <1>3. /\ b \in DOMAIN blocks /\ n \in Nat /\ n > 1
        /\ \A k : extract(k) \notin DOMAIN blocks
        /\ fork \notin DOMAIN blocks
        /\ Role(fork) = "depfork"
        /\ \A c \in Extracts(b) : Role(c) = "extract" /\ c[2] = b
        /\ \A k : extract(k) # fork
    BY <1>1, Names
  <1>4. /\ DOMAIN blocks' = K \cup N
        /\ \A c \in K : blocks'[c] = blocks[c]
        /\ blocks'[fork] = Block("Fork", 1, n)
        /\ \A k \in 1..n : extract(k) \in N /\ blocks'[extract(k)] = Extract(k)
    <2>1. {extract(k) : k \in 1..n} = Extracts(b)
      BY DEF Extracts
    <2>2. DOMAIN Restrict(blocks, K) = K /\ \A c \in K : Restrict(blocks, K)[c] = blocks[c]
      BY DEF Restrict
    <2>3. \A k : extract(k)[3] = k
      OBVIOUS
    <2> DEFINE new == [x \in {fork} \cup {extract(k) : k \in 1..n} |->
                               IF x = fork THEN Block("Fork", 1, n) ELSE Extract(x[3])]
    <2>4. DOMAIN new = N
      BY <2>1
    <2>5. new[fork] = Block("Fork", 1, n)
      OBVIOUS
    <2>6. \A k \in 1..n : extract(k) \in N /\ new[extract(k)] = Extract(k)
      BY <1>3, <2>1, <2>3
    <2>7. blocks' = With(Restrict(blocks, K), new)
      BY <1>2
    <2>8. fork \in N /\ \A c \in K : c \notin N
      BY <1>3 DEF Extracts
    <2> HIDE DEF new, K, N, fork
    <2> QED
      BY <2>2, <2>4, <2>5, <2>6, <2>7, <2>8 DEF With
  <1>4a. \A k \in 1..n : LET x == blocks'[extract(k)] IN x.ins = 1 /\ x.outs = 1 /\ x.class = "Extract"
    <2>1. \A k : Extract(k).ins = 1 /\ Extract(k).outs = 1 /\ Extract(k).class = "Extract"
      BY DEF Extract
    <2> QED
      BY <1>4, <2>1
  <1>5. /\ source = <<source[1], source[2]>> /\ source[1] \in K /\ source[2] \in 1..blocks[source[1]].outs
        /\ <<source, <<b, 1>>>> \in wires
    <2>1. PICK w \in wires : w[2] = <<b, 1>> /\ w[1][1] # b
      BY <1>1 DEF NetInv, ToVisit
    <2>2. w[1] \in Drivers(<<b, 1>>)
      BY <2>1 DEF Drivers
    <2>3. source \in Drivers(<<b, 1>>)
      BY <2>2
    <2> HIDE DEF source
    <2>4. PICK x \in wires : x[2] = <<b, 1>> /\ x[1] = source
      BY <2>3 DEF Drivers
    <2>5. x = w
      BY <2>1, <2>4 DEF NetInv, NetOK
    <2> QED
      BY <2>1, <2>4, <2>5 DEF NetInv, NetOK, Joined
  <1> HIDE DEF source
  <1>6. \A w \in wires : /\ w = <<<<w[1][1], w[1][2]>>, <<w[2][1], w[2][2]>>>>
                         /\ w[1][1] \in DOMAIN blocks /\ w[1][2] \in 1..blocks[w[1][1]].outs
                         /\ w[2][1] \in DOMAIN blocks /\ w[2][2] \in 1..blocks[w[2][1]].ins
    BY DEF NetInv, NetOK, Joined
  <1>7. blocks[b].ins = 1
    BY <1>1 DEF NetInv, ToVisit
  <1>8. \A w \in wires : w[2] # <<b, 1>> <=> w[2][1] \in K
    BY <1>6, <1>7
  <1>9. wires' = {Moved(b, w) : w \in {x \in wires : x[2] # <<b, 1>>}}
                   \cup {<<source, <<fork, 1>>>>} \cup {<<<<fork, k>>, <<extract(k), 1>>>> : k \in 1..n}
    BY <1>2 DEF Moved
  <1>10. IsFiniteSet(wires')
    <2> DEFINE X == {x \in wires : x[2] # <<b, 1>>}
               M == 1..n
               f == [w \in X |-> Moved(b, w)]
               g == [k \in M |-> <<<<fork, k>>, <<extract(k), 1>>>>]
    <2>1. wires' = {f[w] : w \in X} \cup {<<source, <<fork, 1>>>>} \cup {g[k] : k \in M}
      BY <1>9
    <2>2. IsFiniteSet(X) /\ IsFiniteSet(M)
      <3>1. IsFiniteSet(M)
        BY <1>3, FS_Interval
      <3>2. IsFiniteSet(X)
        BY FS_Subset DEF NetInv, NetOK
      <3> QED
        BY <3>1, <3>2
    <2> HIDE DEF X, M, f, g
    <2>3. IsFiniteSet({f[w] : w \in X}) /\ IsFiniteSet({g[k] : k \in M})
      BY <2>2, FiniteImage
    <2>4. IsFiniteSet({f[w] : w \in X} \cup {<<source, <<fork, 1>>>>})
      BY <2>3, FS_AddElement
    <2> QED
      BY <2>1, <2>3, <2>4, FS_Union
  <1>11. \A w \in wires' : \/ \E v \in wires : v[2][1] \in K /\ w = Moved(b, v) /\ w[2] = v[2]
                           \/ w = <<source, <<fork, 1>>>>
                           \/ \E k \in 1..n : w = <<<<fork, k>>, <<extract(k), 1>>>>
    BY <1>8, <1>9 DEF Moved
  <1>12. \A k : extract(k) \notin K /\ fork \notin K
    BY <1>3
  <1>13. \A c \in K : c \notin N
    BY <1>3 DEF Extracts
  <1>14. ASSUME NEW w \in wires'
         PROVE  IF w[2][1] \in N THEN Joined(w)' ELSE \E v \in wires : v[2][1] \in K /\ w = Moved(b, v)
    <2>1. CASE w = <<source, <<fork, 1>>>>
      BY <1>4, <1>5, <2>1 DEF Joined, Block
    <2>2. ASSUME NEW k \in 1..n, w = <<<<fork, k>>, <<extract(k), 1>>>>
          PROVE  Joined(w)' /\ w[2][1] \in N
      BY <1>4, <1>4a, <2>2 DEF Joined, Block
    <2>3. CASE \E v \in wires : v[2][1] \in K /\ w = Moved(b, v) /\ w[2] = v[2]
      BY <1>13, <2>3
    <2> HIDE DEF K, N, fork
    <2>4. fork \in N
      BY DEF N
    <2> QED
      BY <1>11, <2>1, <2>2, <2>3, <2>4
  <1>15. ASSUME NEW v \in wires', NEW w \in wires', v[2] = w[2], v[2][1] \in N
         PROVE  v = w
    <2>1. ASSUME NEW x \in wires', x[2][1] \in N
          PROVE  IF x[2][1] = fork THEN x = <<source, <<fork, 1>>>> ELSE \E k \in 1..n : x[2][1] = extract(k) /\ x = <<<<fork, k>>, <<extract(k), 1>>>>
      <3> HIDE DEF K, N, fork
      <3> QED
        BY <1>3, <1>11, <1>13, <2>1
    <2> HIDE DEF K, N, fork
    <2>2. CASE v[2][1] = fork
      BY <1>15, <2>1, <2>2
    <2>3. CASE v[2][1] # fork
      <3>1. PICK j \in 1..n : v[2][1] = extract(j) /\ v = <<<<fork, j>>, <<extract(j), 1>>>>
        BY <1>15, <2>1, <2>3
      <3>2. PICK k \in 1..n : w[2][1] = extract(k) /\ w = <<<<fork, k>>, <<extract(k), 1>>>>
        BY <1>15, <2>1, <2>3
      <3>3. j = k
        BY <1>15, <3>1, <3>2
      <3> QED
        BY <3>1, <3>2, <3>3
    <2> QED
      BY <2>2, <2>3
  <1>16. \A v \in wires : v[2][1] \in K => Moved(b, v) \in wires'
    BY <1>8, <1>9
  <1>17. ASSUME NEW c \in N
         PROVE  Role(c) \in {"join", "depfork", "extract"} /\ c[2] = b /\ Ports(c)'
    <2>1. CASE c = fork
      BY <1>3, <1>4, <2>1 DEF Ports, IsPipelineReg, Is, Block
    <2>2. ASSUME NEW k \in 1..n, c = extract(k)
          PROVE  Ports(c)'
      BY <1>4a, <2>2 DEF Ports, IsPipelineReg, Is
    <2> QED
      BY <1>3, <2>1, <2>2 DEF Extracts
  <1>18. \A k \in 1..n : blocks'[extract(k)].outs = 1
    BY <1>4a
  <1>21. Stage(fork) = 2 /\ \A k \in 1..n : Stage(extract(k)) = 3 /\ extract(k) \in N
    <2>1. \A k \in 1..n : extract(k) \in Extracts(b)
      BY DEF Extracts
    <2> QED
      BY <1>3, <2>1 DEF Stage
  <1>22. ASSUME NEW w \in wires', w[2][1] \in N
         PROVE  \/ w[1][1] \in N /\ Stage(w[1][1]) < Stage(w[2][1])
                \/ \E v \in wires : v[2][1] = b /\ v[1] = w[1] /\ w[1][1] \in K
    <2>1. CASE w = <<source, <<fork, 1>>>>
      <3>1. <<source, <<b, 1>>>>[2][1] = b /\ <<source, <<b, 1>>>>[1] = w[1]
        BY <2>1
      <3>2. w[1][1] \in K
        BY <1>5, <2>1
      <3> QED
        BY <1>5, <3>1, <3>2
    <2>2. ASSUME NEW k \in 1..n, w = <<<<fork, k>>, <<extract(k), 1>>>>
          PROVE  w[1][1] \in N /\ Stage(w[1][1]) < Stage(w[2][1])
      <3>1. w[1][1] = fork /\ w[2][1] = extract(k) /\ fork \in N
        BY <2>2
      <3> HIDE DEF fork, N
      <3> QED
        BY <1>21, <3>1
    <2> HIDE DEF N, fork, K
    <2>3. CASE \E v \in wires : v[2][1] \in K /\ w = Moved(b, v) /\ w[2] = v[2]
      BY <1>13, <1>22, <2>3
    <2> QED
      BY <1>11, <2>1, <2>2, <2>3
  <1>23. ASSUME NEW U, U \cap N # {}, \A w \in wires' : w[2][1] \in U => w[1][1] \in U
         PROVE  blocks[b].class = "Split" /\ \A v \in wires : v[2][1] = b => v[1][1] \in U
    <2>1. <<source, <<fork, 1>>>> \in wires' /\ \A k \in 1..n : <<<<fork, k>>, <<extract(k), 1>>>> \in wires'
      BY <1>9
    <2>2. PICK c \in U : c \in N
      BY <1>23
    <2>3. c = fork \/ \E k \in 1..n : c = extract(k)
      BY <2>2 DEF Extracts
    <2>4. fork \in U
      <3>1. ASSUME NEW k \in 1..n, c = extract(k)
            PROVE  fork \in U
        BY <1>23, <2>1, <2>2, <3>1
      <3> QED
        BY <2>2, <2>3, <3>1
    <2>5. source[1] \in U
      BY <1>23, <2>1, <2>4
    <2>6. ASSUME NEW v \in wires, v[2][1] = b
          PROVE  v[1][1] \in U
      <3>1. v[2] = <<b, 1>>
        BY <1>6, <1>7, <2>6
      <3>2. v = <<source, <<b, 1>>>>
        BY <1>5, <3>1 DEF NetInv, NetOK
      <3> QED
        BY <2>5, <3>2
    <2> QED
      BY <1>1, <2>6 DEF Is
  <1>24. b \notin K
    OBVIOUS
  <1>25. \A c \in N : blocks'[c].class = "Fork" \/ blocks'[c].outs = 1
    BY <1>4, <1>4a DEF Block, Extracts
  <1>26. DrivesIt(source, b)
    BY <1>5 DEF DrivesIt, IsOutput
  <1>27. Fans(b, source)
    <2>1. fork \in DOMAIN blocks' /\ \A k \in 1..n : extract(k) \in DOMAIN blocks'
      BY <1>4
    <2>2. blocks'[fork].class = "Fork"
      BY <1>4 DEF Block
    <2>3. <<source, <<fork, 1>>>> \in wires' /\ \A k \in 1..n : <<<<fork, k>>, <<extract(k), 1>>>> \in wires'
      BY <1>9
    <2> QED
      BY <1>4, <2>1, <2>2, <2>3 DEF Fans
  <1> HIDE DEF N, fork
  <1>20. K \subseteq DOMAIN blocks /\ DOMAIN blocks \ {b} \subseteq K
    OBVIOUS
  <1> HIDE DEF K
  <1>19. Rebuilt(b, K, N)
    BY <1>4, <1>10, <1>14, <1>15, <1>16, <1>17, <1>18, <1>20, <1>22, <1>23, <1>24, <1>25 DEF Rebuilt
  <1> QED
    BY <1>19, <1>26, <1>27 DEF K, N, fork

\* The join made for b takes all its outputs, and nothing else does.
Joins(b) ==
  /\ <<"join", b>> \in DOMAIN blocks
  /\ blocks[<<"join", b>>] = Block("Join", blocks[b].outs, 1)
  /\ \A k \in 1..blocks[b].outs : <<<<b, k>>, <<<<"join", b>>, k>>>> \in wires
  /\ \A w \in wires : w[1][1] = b => w = <<w[1], <<<<"join", b>>, w[1][2]>>>>

\* A block with dependent outputs is followed by a join, a fork and extracts.
LEMMA JoinRebuilds ==
  ASSUME NetInv, NEW b, JoinDependents(b)
  PROVE  /\ Rebuilt(b, DOMAIN blocks, {<<"join", b>>, <<"depfork", b>>} \cup Extracts(b))
         /\ Joins(b)'
         /\ Fans(b, <<<<"join", b>>, 1>>)
  <1> DEFINE fork == <<"depfork", b>>
             join == <<"join", b>>
             n == blocks[b].outs
             extract(k) == <<"extract", b, k>>
             K == DOMAIN blocks
             N == {join, fork} \cup Extracts(b)
  <1>1. pass = "dependents" /\ b \in todo
    BY Visited DEF JoinDependents
  <1>2. /\ blocks' = With(blocks, [x \in {join, fork} \cup {extract(k) : k \in 1..n} |->
                                      IF x = join THEN Block("Join", n, 1)
                                      ELSE IF x = fork THEN Block("Fork", 1, n) ELSE Extract(x[3])])
        /\ wires' = {IF w[1][1] = b THEN <<<<extract(w[1][2]), 1>>, w[2]>> ELSE w : w \in wires}
                       \cup {<<<<b, k>>, <<join, k>>>> : k \in 1..n}
                       \cup {<<<<join, 1>>, <<fork, 1>>>>}
                       \cup {<<<<fork, k>>, <<extract(k), 1>>>> : k \in 1..n}
    BY DEF JoinDependents
  <1>3. /\ b \in DOMAIN blocks /\ n \in Nat /\ n > 1
        /\ \A k : extract(k) \notin DOMAIN blocks
        /\ fork \notin DOMAIN blocks /\ join \notin DOMAIN blocks
        /\ Role(fork) = "depfork" /\ Role(join) = "join"
        /\ \A c \in Extracts(b) : Role(c) = "extract" /\ c[2] = b
        /\ fork # join
        /\ \A k : extract(k) # fork /\ extract(k) # join
    BY <1>1, Names
  <1>4. /\ DOMAIN blocks' = K \cup N
        /\ \A c \in K : blocks'[c] = blocks[c]
        /\ blocks'[join] = Block("Join", n, 1) /\ blocks'[fork] = Block("Fork", 1, n)
        /\ \A k \in 1..n : extract(k) \in N /\ blocks'[extract(k)] = Extract(k)
    <2>1. {extract(k) : k \in 1..n} = Extracts(b)
      BY DEF Extracts
    <2>3. \A k : extract(k)[3] = k
      OBVIOUS
    <2> DEFINE new == [x \in {join, fork} \cup {extract(k) : k \in 1..n} |->
                                      IF x = join THEN Block("Join", n, 1)
                                      ELSE IF x = fork THEN Block("Fork", 1, n) ELSE Extract(x[3])]
    <2>4. DOMAIN new = N
      BY <2>1
    <2>5. new[fork] = Block("Fork", 1, n) /\ new[join] = Block("Join", n, 1)
      BY <1>3
    <2>6. \A k \in 1..n : extract(k) \in N /\ new[extract(k)] = Extract(k)
      BY <1>3, <2>1, <2>3
    <2>7. blocks' = With(blocks, new)
      BY <1>2
    <2>8. fork \in N /\ join \in N /\ \A c \in K : c \notin N
      BY <1>3 DEF Extracts
    <2> HIDE DEF new, N, fork, join
    <2> QED
      BY <2>4, <2>5, <2>6, <2>7, <2>8 DEF With
  <1>5. \A k \in 1..n : LET x == blocks'[extract(k)] IN x.ins = 1 /\ x.outs = 1 /\ x.class = "Extract"
    <2>1. \A k : Extract(k).ins = 1 /\ Extract(k).outs = 1 /\ Extract(k).class = "Extract"
      BY DEF Extract
    <2> QED
      BY <1>4, <2>1
  <1>6. \A w \in wires : /\ w = <<<<w[1][1], w[1][2]>>, <<w[2][1], w[2][2]>>>>
                         /\ w[1][1] \in DOMAIN blocks /\ w[1][2] \in 1..blocks[w[1][1]].outs
                         /\ w[2][1] \in DOMAIN blocks /\ w[2][2] \in 1..blocks[w[2][1]].ins
    BY DEF NetInv, NetOK, Joined
  <1>9. wires' = {Moved(b, w) : w \in wires} \cup {<<<<b, k>>, <<join, k>>>> : k \in 1..n}
                   \cup {<<<<join, 1>>, <<fork, 1>>>>} \cup {<<<<fork, k>>, <<extract(k), 1>>>> : k \in 1..n}
    BY <1>2 DEF Moved
  <1>10. IsFiniteSet(wires')
    <2> DEFINE M == 1..n
               f == [w \in wires |-> Moved(b, w)]
               g == [k \in M |-> <<<<fork, k>>, <<extract(k), 1>>>>]
               h == [k \in M |-> <<<<b, k>>, <<join, k>>>>]
    <2>1. wires' = {f[w] : w \in wires} \cup {h[k] : k \in M} \cup {<<<<join, 1>>, <<fork, 1>>>>} \cup {g[k] : k \in M}
      BY <1>9
    <2>2. IsFiniteSet(M)
      BY <1>3, FS_Interval
    <2>3. IsFiniteSet(wires)
      BY DEF NetInv, NetOK
    <2> HIDE DEF M, f, g, h
    <2>4. IsFiniteSet({f[w] : w \in wires}) /\ IsFiniteSet({g[k] : k \in M}) /\ IsFiniteSet({h[k] : k \in M})
      BY <2>2, <2>3, FiniteImage
    <2>5. IsFiniteSet({f[w] : w \in wires} \cup {h[k] : k \in M})
      BY <2>4, FS_Union
    <2>6. IsFiniteSet({f[w] : w \in wires} \cup {h[k] : k \in M} \cup {<<<<join, 1>>, <<fork, 1>>>>})
      BY <2>5, FS_AddElement
    <2> QED
      BY <2>1, <2>4, <2>6, FS_Union
  <1>11. \A w \in wires' : \/ \E v \in wires : v[2][1] \in K /\ w = Moved(b, v) /\ w[2] = v[2]
                           \/ \E k \in 1..n : w = <<<<b, k>>, <<join, k>>>>
                           \/ w = <<<<join, 1>>, <<fork, 1>>>>
                           \/ \E k \in 1..n : w = <<<<fork, k>>, <<extract(k), 1>>>>
    BY <1>6, <1>9 DEF Moved
  <1>13. \A c \in K : c \notin N
    BY <1>3 DEF Extracts
  <1>14. ASSUME NEW w \in wires'
         PROVE  IF w[2][1] \in N THEN Joined(w)' ELSE \E v \in wires : v[2][1] \in K /\ w = Moved(b, v)
    <2>1. CASE w = <<<<join, 1>>, <<fork, 1>>>>
      BY <1>4, <2>1 DEF Joined, Block
    <2>2. ASSUME NEW k \in 1..n, w = <<<<fork, k>>, <<extract(k), 1>>>>
          PROVE  Joined(w)' /\ w[2][1] \in N
      BY <1>4, <1>5, <2>2 DEF Joined, Block
    <2>3. CASE \E v \in wires : v[2][1] \in K /\ w = Moved(b, v) /\ w[2] = v[2]
      BY <1>13, <2>3
    <2>4. ASSUME NEW k \in 1..n, w = <<<<b, k>>, <<join, k>>>>
          PROVE  Joined(w)' /\ w[2][1] \in N
      BY <1>3, <1>4, <2>4 DEF Joined, Block
    <2> HIDE DEF K, N, fork, join
    <2>5. fork \in N
      BY DEF N
    <2> QED
      BY <1>11, <2>1, <2>2, <2>3, <2>4, <2>5
  <1>15. ASSUME NEW v \in wires', NEW w \in wires', v[2] = w[2], v[2][1] \in N
         PROVE  v = w
    <2>1. ASSUME NEW x \in wires', x[2][1] \in N
          PROVE  \/ x[2][1] = fork /\ x = <<<<join, 1>>, <<fork, 1>>>>
                 \/ x[2][1] = join /\ \E k \in 1..n : x = <<<<b, k>>, <<join, k>>>>
                 \/ \E k \in 1..n : x[2][1] = extract(k) /\ x = <<<<fork, k>>, <<extract(k), 1>>>>
      <3> HIDE DEF K, N, fork, join
      <3> QED
        BY <1>3, <1>11, <1>13, <2>1
    <2> HIDE DEF K, N, fork, join
    <2>2. CASE v[2][1] = fork
      BY <1>3, <1>15, <2>1, <2>2
    <2>3. CASE v[2][1] = join
      <3>1. PICK j \in 1..n : v = <<<<b, j>>, <<join, j>>>>
        BY <1>3, <1>15, <2>1, <2>3
      <3>2. PICK k \in 1..n : w = <<<<b, k>>, <<join, k>>>>
        BY <1>3, <1>15, <2>1, <2>3
      <3>3. j = k
        BY <1>15, <3>1, <3>2
      <3> QED
        BY <3>1, <3>2, <3>3
    <2>4. CASE v[2][1] \notin {fork, join}
      <3>1. PICK j \in 1..n : v[2][1] = extract(j) /\ v = <<<<fork, j>>, <<extract(j), 1>>>>
        BY <1>15, <2>1, <2>4
      <3>2. PICK k \in 1..n : w[2][1] = extract(k) /\ w = <<<<fork, k>>, <<extract(k), 1>>>>
        BY <1>15, <2>1, <2>4
      <3>3. j = k
        BY <1>15, <3>1, <3>2
      <3> QED
        BY <3>1, <3>2, <3>3
    <2> QED
      BY <2>2, <2>3, <2>4
  <1>16. \A v \in wires : v[2][1] \in K => Moved(b, v) \in wires'
    BY <1>9
  <1>17. ASSUME NEW c \in N
         PROVE  Role(c) \in {"join", "depfork", "extract"} /\ c[2] = b /\ Ports(c)'
    <2>1. CASE c = fork
      BY <1>3, <1>4, <2>1 DEF Ports, IsPipelineReg, Is, Block
    <2>2. ASSUME NEW k \in 1..n, c = extract(k)
          PROVE  Ports(c)'
      BY <1>5, <2>2 DEF Ports, IsPipelineReg, Is
    <2>3. CASE c = join
      BY <1>3, <1>4, <2>3 DEF Ports, IsPipelineReg, Is, Block
    <2> QED
      BY <1>3, <2>1, <2>2, <2>3 DEF Extracts
  <1>18. \A k \in 1..n : blocks'[extract(k)].outs = 1
    BY <1>5
  <1>21. Stage(join) = 1 /\ Stage(fork) = 2 /\ \A k \in 1..n : Stage(extract(k)) = 3 /\ extract(k) \in N
    <2>1. \A k \in 1..n : extract(k) \in Extracts(b)
      BY DEF Extracts
    <2> QED
      BY <1>3, <2>1 DEF Stage
  <1>22. ASSUME NEW w \in wires', w[2][1] \in N
         PROVE  \/ w[1][1] = b
                \/ w[1][1] \in N /\ Stage(w[1][1]) < Stage(w[2][1])
    <2>0. fork \in N /\ join \in N
      OBVIOUS
    <2> HIDE DEF N, fork, K, join
    <2>1. CASE w = <<<<join, 1>>, <<fork, 1>>>>
      <3>1. w[1][1] = join /\ w[2][1] = fork
        BY <2>1
      <3> QED
        BY <1>21, <2>0, <3>1
    <2>2. ASSUME NEW k \in 1..n, w = <<<<fork, k>>, <<extract(k), 1>>>>
          PROVE  w[1][1] \in N /\ Stage(w[1][1]) < Stage(w[2][1])
      <3>1. w[1][1] = fork /\ w[2][1] = extract(k)
        BY <2>2
      <3> QED
        BY <1>21, <2>0, <3>1
    <2>3. CASE \E v \in wires : v[2][1] \in K /\ w = Moved(b, v) /\ w[2] = v[2]
      BY <1>13, <1>22, <2>3
    <2> QED
      BY <1>11, <2>1, <2>2, <2>3
  <1>23. ASSUME NEW U, U \cap N # {}, \A w \in wires' : w[2][1] \in U => w[1][1] \in U
         PROVE  b \in U
    <2>1. /\ <<<<b, 1>>, <<join, 1>>>> \in wires' /\ <<<<join, 1>>, <<fork, 1>>>> \in wires'
          /\ \A k \in 1..n : <<<<fork, k>>, <<extract(k), 1>>>> \in wires'
      <3>1. 1 \in 1..n
        BY <1>3
      <3> QED
        BY <1>9, <3>1
    <2>2. PICK c \in U : c \in N
      BY <1>23
    <2>3. c = join \/ c = fork \/ \E k \in 1..n : c = extract(k)
      BY <2>2 DEF Extracts
    <2> HIDE DEF N, fork, join
    <2>4. c # join => fork \in U
      <3>1. ASSUME NEW k \in 1..n, c = extract(k)
            PROVE  fork \in U
        BY <1>23, <2>1, <2>2, <3>1
      <3> QED
        BY <2>2, <2>3, <3>1
    <2>5. join \in U
      BY <1>23, <2>1, <2>2, <2>4
    <2> QED
      BY <1>23, <2>1, <2>5
  <1>25. \A c \in N : blocks'[c].class = "Fork" \/ blocks'[c].outs = 1
    BY <1>4, <1>5 DEF Block, Extracts
  <1>26. Joins(b)'
    <2>1. /\ join \in DOMAIN blocks' /\ blocks'[join] = Block("Join", blocks'[b].outs, 1) /\ blocks'[b].outs = n
          /\ \A k \in 1..n : <<<<b, k>>, <<join, k>>>> \in wires'
      BY <1>3, <1>4, <1>9
    <2>2. ASSUME NEW w \in wires', w[1][1] = b
          PROVE  w = <<w[1], <<join, w[1][2]>>>>
      <3>1. ASSUME NEW v \in wires
            PROVE  Moved(b, v)[1][1] # b
        BY <1>3 DEF Moved
      <3> HIDE DEF fork, join
      <3>2. fork # b /\ join # b
        BY <1>3
      <3> QED
        BY <1>9, <2>2, <3>1, <3>2
    <2> QED
      BY <2>1, <2>2 DEF Joins
  <1>27. Fans(b, <<join, 1>>)
    <2>1. fork \in DOMAIN blocks' /\ \A k \in 1..n : extract(k) \in DOMAIN blocks'
      BY <1>4
    <2>2. blocks'[fork].class = "Fork"
      BY <1>4 DEF Block
    <2>3. <<<<join, 1>>, <<fork, 1>>>> \in wires' /\ \A k \in 1..n : <<<<fork, k>>, <<extract(k), 1>>>> \in wires'
      BY <1>9
    <2> QED
      BY <1>4, <2>1, <2>2, <2>3 DEF Fans
  <1> HIDE DEF N, fork, join
  <1>24. b \in K
    BY <1>3
  <1>20. K \subseteq DOMAIN blocks /\ DOMAIN blocks \ {b} \subseteq K
    OBVIOUS
  <1> HIDE DEF K
  <1>19. Rebuilt(b, K, N)
    BY <1>4, <1>10, <1>14, <1>15, <1>16, <1>17, <1>18, <1>20, <1>22, <1>23, <1>24, <1>25 DEF Rebuilt
  <1> QED
    BY <1>19, <1>26, <1>27 DEF K, N, fork, join

\* PipelineDependentsPass, on a Split.
LEMMA SplitToExtractsKeeps ==
  ASSUME NetInv, NEW b, SplitToExtracts(b)
  PROVE  NetInv'
  <1>1. pass = "dependents" /\ pass' = "dependents" /\ b \in todo /\ todo' = todo \ {b} /\ clocked' = clocked
    BY Visited DEF SplitToExtracts
  <1>2. Rebuilt(b, DOMAIN blocks \ {b}, {<<"depfork", b>>} \cup Extracts(b))
    BY SplitRebuilds
  <1> QED
    BY <1>1, <1>2, DependentsKeep

\* PipelineDependentsPass, on any other block.
LEMMA JoinDependentsKeeps ==
  ASSUME NetInv, NEW b, JoinDependents(b)
  PROVE  NetInv'
  <1>1. pass = "dependents" /\ pass' = "dependents" /\ b \in todo /\ todo' = todo \ {b} /\ clocked' = clocked
    BY Visited DEF JoinDependents
  <1>2. Rebuilt(b, DOMAIN blocks, {<<"join", b>>, <<"depfork", b>>} \cup Extracts(b))
    BY JoinRebuilds
  <1> QED
    BY <1>1, <1>2, DependentsKeep

\* CheckConnectionsPass drives an input that nothing drove.
LEMMA CheckConnectionKeeps ==
  ASSUME NetInv, NEW i, CheckConnection(i)
  PROVE  NetInv'
  <1> DEFINE never == <<"never", i>>
             wire == <<<<never, 1>>, i>>
  <1>1. /\ pass = "connections" /\ pass' = "connections" /\ i \in todo /\ todo' = todo \ {i} /\ clocked' = clocked
        /\ wires' = wires \cup {wire}
    BY Visited DEF CheckConnection
  <1>2. Role(never) = "never" /\ never[2] = i
    BY Roles
  <1>3. never \notin DOMAIN blocks
    BY <1>1, <1>2 DEF NetInv, Fresh, RolesOf
  <1>4. /\ DOMAIN blocks' = DOMAIN blocks \cup {never}
        /\ \A b \in DOMAIN blocks : blocks'[b] = blocks[b]
        /\ blocks'[never] = Block("Never", 0, 1)
    BY <1>3 DEF CheckConnection, With
  <1>5. /\ i = <<i[1], i[2]>> /\ i[1] \in DOMAIN blocks /\ i[2] \in 1..blocks[i[1]].ins
        /\ \A w \in wires : w[2] # i
    BY <1>1 DEF NetInv, ToVisit
  <1>6. \A w \in wires : /\ w = <<<<w[1][1], w[1][2]>>, <<w[2][1], w[2][2]>>>>
                         /\ w[1][1] \in DOMAIN blocks /\ w[1][2] \in 1..blocks[w[1][1]].outs
                         /\ w[2][1] \in DOMAIN blocks /\ w[2][2] \in 1..blocks[w[2][1]].ins
    BY DEF NetInv, NetOK, Joined
  <1> HIDE DEF never
  <1>7. NetOK'
    <2>1. ASSUME NEW b \in DOMAIN blocks'
          PROVE  Ports(b)'
      <3>1. CASE b \in DOMAIN blocks
        BY <1>4, <3>1 DEF NetInv, NetOK, Ports, IsPipelineReg, Is
      <3>2. CASE b = never
        BY <1>4, <3>2 DEF Ports, IsPipelineReg, Is, Block
      <3> QED
        BY <1>4, <3>1, <3>2
    <2>2. ASSUME NEW w \in wires'
          PROVE  Joined(w)'
      <3>1. CASE w \in wires
        BY <1>4, <1>6, <3>1 DEF Joined
      <3>2. CASE w = wire
        BY <1>4, <1>5, <3>2 DEF Joined, Block
      <3> QED
        BY <1>1, <3>1, <3>2
    <2>3. ASSUME NEW v \in wires', NEW w \in wires', v[2] = w[2]
          PROVE  v = w
      BY <1>1, <1>5, <2>3 DEF NetInv, NetOK
    <2>4. IsFiniteSet(wires')
      BY <1>1, FS_AddElement DEF NetInv, NetOK
    <2> QED
      BY <2>1, <2>2, <2>3, <2>4 DEF NetOK
  <1>8. Fresh'
    <2> SUFFICES ASSUME NEW b \in DOMAIN blocks'
                 PROVE  /\ Role(b) \in RolesBy("connections")
                        /\ Role(b) = "never" => b[2] \notin todo'
      BY <1>1 DEF Fresh, Role, RolesBy, RolesOf
    <2>1. CASE b \in DOMAIN blocks
      BY <1>1, <2>1 DEF NetInv, Fresh, RolesOf
    <2>2. CASE b = never
      BY <1>1, <1>2, <2>2 DEF RolesBy
    <2> QED
      BY <1>4, <2>1, <2>2
  <1>9. Placed'
    <2> SUFFICES ASSUME NEW b \in DOMAIN blocks', Role(b) = "reg"
                 PROVE  /\ IsPipelineReg(b)' /\ b[2][1] \in DOMAIN blocks'
                        /\ \A w \in wires' : w[1] = b[2] => IsPipelineReg(w[2][1])'
      BY DEF Placed, Role
    <2>1. b \in DOMAIN blocks
      BY <1>2, <1>4
    <2>2. /\ IsPipelineReg(b) /\ b[2][1] \in DOMAIN blocks
          /\ \A w \in wires : w[1] = b[2] => IsPipelineReg(w[2][1])
      BY <2>1 DEF NetInv, Placed
    <2>3. b[2] # <<never, 1>>
      BY <1>3, <2>2
    <2> QED
      BY <1>1, <1>4, <1>6, <2>1, <2>2, <2>3 DEF IsPipelineReg, Is
  <1>10. ToVisit'
    <2> SUFFICES ASSUME NEW q \in todo'
                 PROVE  /\ q = <<q[1], q[2]>> /\ q[1] \in DOMAIN blocks' /\ q[2] \in 1..blocks'[q[1]].ins
                        /\ \A w \in wires' : w[2] # q
      BY <1>1 DEF ToVisit
    <2> QED
      BY <1>1, <1>4 DEF NetInv, ToVisit
  <1>11. Consumers'
    <2> SUFFICES ASSUME NEW v \in wires', NEW w \in wires', v[1] = w[1]
                 PROVE  v = w
      BY <1>1 DEF Consumers
    <2>1. \A x \in wires : x[1] # <<never, 1>>
      BY <1>3, <1>6
    <2> QED
      BY <1>1, <2>1 DEF NetInv, Consumers
  <1> QED
    BY <1>1, <1>7, <1>8, <1>9, <1>10, <1>11 DEF NetInv, Tight

\* The pass after another.
LEMMA Following ==
  ASSUME NetInv, NextPass
  PROVE  /\ todo = {} /\ queue = <<>> /\ cycle = {} /\ seen' = {}
         /\ UNCHANGED <<original, blocks, wires, clocked, queue, stack, cycle>>
         /\ todo' = Work(pass')
         /\ \/ pass = "dependents"  /\ pass' = "latches"
            \/ pass = "latches"     /\ pass' = "forks"
            \/ pass = "forks"       /\ pass' = "recombine"
            \/ pass = "recombine"   /\ pass' = "frequency"
            \/ pass = "cycles"      /\ pass' = "connections"
            \/ pass = "connections" /\ pass' = "done"
  <1> DEFINE n == CHOOSE m \in DOMAIN Order : Order[m] = pass
  <1>1. pass' = Order[n + 1] /\ todo' = Work(pass') /\ pass \notin {"frequency", "done"}
    BY DEF NextPass
  <1>2. PICK m \in DOMAIN Order : Order[m] = pass
    BY DEF NetInv, Range
  <1>3. n \in DOMAIN Order /\ Order[n] = pass
    BY <1>2
  <1> HIDE DEF n
  <1>4. DOMAIN Order = 1..8
    BY DEF Order
  <1>5. n \in 1..8
    BY <1>3, <1>4
  <1>6. n = 1 \/ n = 2 \/ n = 3 \/ n = 4 \/ n = 5 \/ n = 6 \/ n = 7 \/ n = 8
    BY <1>5
  <1>7. /\ Order[1] = "dependents" /\ Order[2] = "latches" /\ Order[3] = "forks" /\ Order[4] = "recombine"
        /\ Order[5] = "frequency" /\ Order[6] = "cycles" /\ Order[7] = "connections" /\ Order[8] = "done"
    BY DEF Order
  <1>8. UNCHANGED <<original, blocks, wires, clocked, queue, stack, cycle>> /\ todo = {} /\ queue = <<>> /\ cycle = {} /\ seen' = {}
    BY DEF NextPass, net
  <1> QED
    BY <1>1, <1>3, <1>6, <1>7, <1>8

\* A pass that is done leaves what the next one starts from.
LEMMA NextPassKeeps ==
  ASSUME NetInv, NextPass
  PROVE  NetInv'
  <1>1. todo = {} /\ UNCHANGED <<blocks, wires, clocked>> /\ todo' = Work(pass')
    BY Following
  <1>2. NetOK' /\ Placed'
    BY <1>1 DEF NetInv, NetOK, Placed, Ports, Joined, IsPipelineReg, Is
  <1>3. \A b \in DOMAIN blocks : Role(b) \in RolesBy(pass)
    BY DEF NetInv, Fresh
  <1>4. pass' \in Range(Order)
    <2>1. /\ Order[2] = "latches" /\ Order[3] = "forks" /\ Order[4] = "recombine"
          /\ Order[5] = "frequency" /\ Order[7] = "connections" /\ Order[8] = "done"
          /\ 2 \in DOMAIN Order /\ 3 \in DOMAIN Order /\ 4 \in DOMAIN Order
          /\ 5 \in DOMAIN Order /\ 7 \in DOMAIN Order /\ 8 \in DOMAIN Order
      BY DEF Order
    <2> QED
      BY <2>1, Following DEF Range
  <1>5. CASE pass = "dependents" /\ pass' = "latches"
    <2>1. todo' = UNION {Outputs(b) : b \in {c \in DOMAIN blocks : ~OutputsTied(c)}}
      BY <1>1, <1>5 DEF Work
    <2>2. \A o \in todo' : o \in AllOutputs
      BY <2>1 DEF AllOutputs
    <2>3. \A b \in DOMAIN blocks : Role(b) \in {"module", "join", "depfork", "extract"}
      BY <1>3, <1>5 DEF RolesBy
    <2>4. Fresh' /\ Tight'
      BY <1>1, <1>5, <2>3 DEF Fresh, Tight, RolesBy, RolesOf, Role
    <2>5. ToVisit'
      BY <1>1, <1>5, <2>2, OutputsAre DEF ToVisit, IsOutput
    <2> QED
      BY <1>1, <1>2, <1>4, <1>5, <2>4, <2>5 DEF NetInv, Consumers
  <1>6. CASE pass = "latches" /\ pass' = "forks"
    <2>1. todo' = {o \in AllOutputs : Cardinality(Sinks(o)) > 1}
      BY <1>1, <1>6 DEF Work
    <2>2. \A b \in DOMAIN blocks : Role(b) \in RolesBy("forks") /\ Role(b) # "fork"
      BY <1>3, <1>6 DEF RolesBy
    <2>3. ASSUME NEW b \in DOMAIN blocks, Role(b) = "reg", b[2] \in todo'
          PROVE  FALSE
      <3>1. Sinks(b[2]) \subseteq {<<b, 1>>}
        BY <1>6, <2>3 DEF NetInv, Tight, Sinks
      <3>2. IsFiniteSet({<<b, 1>>}) /\ Cardinality({<<b, 1>>}) = 1
        BY FS_Singleton
      <3>3. Cardinality(Sinks(b[2])) <= 1
        BY <3>1, <3>2, FS_Subset
      <3>4. IsFiniteSet(Sinks(b[2]))
        BY <3>1, <3>2, FS_Subset
      <3>5. Cardinality(Sinks(b[2])) \in Nat
        BY <3>4, FS_CardinalityType
      <3>6. Cardinality(Sinks(b[2])) > 1
        BY <2>1, <2>3
      <3> QED
        BY <3>3, <3>5, <3>6
    <2>4. ASSUME NEW o \in todo'
          PROVE  o = <<o[1], o[2]>> /\ o[1] \in DOMAIN blocks /\ o[2] \in 1..blocks[o[1]].outs
      BY <2>1, OutputsAre DEF IsOutput
    <2>5. Fresh'
      BY <1>1, <1>6, <2>2, <2>3, <2>4 DEF Fresh, RolesOf, RolesBy, Role
    <2>6. ToVisit'
      BY <1>1, <1>6, <2>4 DEF ToVisit
    <2>7. ASSUME NEW v \in wires, NEW w \in wires, v[1] = w[1], v # w
          PROVE  v[1] \in todo'
      <3>1. Joined(v) /\ Joined(w)
        BY DEF NetInv, NetOK
      <3>2. v[2] # w[2]
        BY <2>7, <3>1 DEF Joined
      <3>3. {v[2], w[2]} \subseteq Sinks(v[1])
        BY <2>7 DEF Sinks
      <3>4. IsFiniteSet(Sinks(v[1]))
        <4> DEFINE g == [x \in wires |-> x[2]]
        <4>1. Sinks(v[1]) \subseteq {g[x] : x \in wires}
          BY DEF Sinks
        <4> HIDE DEF g
        <4>2. IsFiniteSet({g[x] : x \in wires})
          BY FiniteImage DEF NetInv, NetOK
        <4> QED
          BY <4>1, <4>2, FS_Subset
      <3>5. Cardinality(Sinks(v[1])) \in Nat /\ Cardinality(Sinks(v[1])) # 0
        BY <3>3, <3>4, FS_CardinalityType, FS_EmptySet
      <3>6. Cardinality(Sinks(v[1])) # 1
        <4>1. SUFFICES ASSUME Cardinality(Sinks(v[1])) = 1
                       PROVE  FALSE
          OBVIOUS
        <4>2. \E x : Sinks(v[1]) = {x}
          BY <3>4, <4>1, FS_Singleton
        <4> QED
          BY <3>2, <3>3, <4>2
      <3>7. v[1] \in AllOutputs
        BY <3>1, OutputsAre DEF IsOutput, Joined
      <3> QED
        BY <2>1, <3>5, <3>6, <3>7
    <2>8. Consumers'
      BY <1>1, <1>6, <2>7 DEF Consumers
    <2>9. Tight'
      BY <1>1, <1>6 DEF NetInv, Tight, Role
    <2> QED
      BY <1>1, <1>2, <1>4, <2>5, <2>6, <2>8, <2>9 DEF NetInv
  <1>7. CASE pass = "forks" /\ pass' = "recombine"
    <2>1. todo' \subseteq {<<"fork", o>> : o \in AllOutputs} \cap DOMAIN blocks
      BY <1>1, <1>7 DEF Work
    <2>2. \A b \in DOMAIN blocks : Role(b) \in RolesBy("recombine")
      BY <1>3, <1>7 DEF RolesBy
    <2>3. ASSUME NEW b \in DOMAIN blocks, Role(b) = "reg", b[2][1] \in todo'
          PROVE  FALSE
      <3>1. Role(b[2][1]) # "fork"
        BY <1>7, <2>3 DEF NetInv, Tight
      <3>2. \A o : Role(<<"fork", o>>) = "fork"
        <4> TAKE o
        <4> QED BY Roles
      <3> QED
        BY <2>1, <2>3, <3>1, <3>2
    <2>4. Fresh'
      BY <1>1, <1>7, <2>2, <2>3 DEF Fresh, RolesOf, RolesBy, Role
    <2>5. ToVisit'
      BY <1>1, <1>7, <2>1 DEF ToVisit
    <2>6. Consumers' /\ Tight'
      BY <1>1, <1>7 DEF NetInv, Consumers, Tight
    <2> QED
      BY <1>1, <1>2, <1>4, <2>4, <2>5, <2>6 DEF NetInv
  <1>8. CASE \/ pass = "recombine" /\ pass' = "frequency"
             \/ pass = "connections" /\ pass' = "done"
    <2>1. todo' = {}
      BY <1>1, <1>8 DEF Work
    <2>2. \A b \in DOMAIN blocks : Role(b) \in RolesBy(pass')
      BY <1>3, <1>8 DEF RolesBy
    <2>3. Fresh' /\ ToVisit'
      BY <1>1, <1>8, <2>1, <2>2 DEF Fresh, ToVisit, RolesOf, RolesBy, Role
    <2>4. Consumers' /\ Tight'
      BY <1>1, <1>8 DEF NetInv, Consumers, Tight
    <2> QED
      BY <1>1, <1>2, <1>4, <2>3, <2>4 DEF NetInv
  <1>9. CASE pass = "cycles" /\ pass' = "connections"
    <2>1. todo' = {i \in AllInputs : Drivers(i) = {}}
      BY <1>1, <1>9 DEF Work
    <2>2. \A b \in DOMAIN blocks : Role(b) \in RolesBy("connections") /\ Role(b) # "never"
      BY <1>3, <1>9 DEF RolesBy
    <2>3. Fresh'
      BY <1>1, <1>9, <2>2 DEF Fresh, RolesOf, RolesBy, Role
    <2>4. ToVisit'
      <3>1. ASSUME NEW i \in todo'
            PROVE  /\ i = <<i[1], i[2]>> /\ i[1] \in DOMAIN blocks /\ i[2] \in 1..blocks[i[1]].ins
                   /\ \A w \in wires : w[2] # i
        BY <2>1 DEF AllInputs, Inputs, Drivers
      <3> QED
        BY <1>1, <1>9, <3>1 DEF ToVisit
    <2>5. Consumers' /\ Tight'
      BY <1>1, <1>9 DEF NetInv, Consumers, Tight
    <2> QED
      BY <1>1, <1>2, <1>4, <2>3, <2>4, <2>5 DEF NetInv
  <1> QED
    BY <1>5, <1>6, <1>7, <1>8, <1>9, Following

\* The search leaves the netlist alone.
LEMMA SearchKeeps ==
  ASSUME NetInv, UNCHANGED <<blocks, wires, clocked, pass>>,
         todo' \subseteq todo, pass # "cycles" => todo' = todo
  PROVE  NetInv'
  <1>1. NetOK' /\ Placed' /\ Tight'
    BY DEF NetInv, NetOK, Placed, Tight, Ports, Joined, IsPipelineReg, Is
  <1>2. Fresh'
    BY DEF NetInv, Fresh
  <1>3. ToVisit'
    <2>1. pass \in {"frequency", "done"} => todo' = {}
      BY DEF NetInv, ToVisit
    <2> QED
      BY <2>1 DEF NetInv, ToVisit, Is
  <1>4. Consumers'
    BY DEF NetInv, Consumers
  <1> QED
    BY <1>1, <1>2, <1>3, <1>4 DEF NetInv

\* A module starts the passes well formed.
LEMMA NetStarts ==
  ASSUME Init
  PROVE  NetInv
  <1>1. /\ IsFiniteSet(wires)
        /\ \A b \in DOMAIN blocks :
             /\ DOMAIN b = {1}
             /\ blocks[b].ins \in Nat /\ blocks[b].outs \in Nat
             /\ blocks[b].class \in {"Input", "Never"} => blocks[b].ins = 0
             /\ blocks[b].class = "PipelineRegister" => blocks[b].ins = 1 /\ blocks[b].outs = 1
             /\ blocks[b].class = "Split" =>
                  /\ blocks[b].ins = 1
                  /\ \E w \in wires : w[2] = <<b, 1>> /\ w[1][1] # b
        /\ \A w \in wires :
             /\ w = <<<<w[1][1], w[1][2]>>, <<w[2][1], w[2][2]>>>>
             /\ w[1][1] \in DOMAIN blocks /\ w[1][2] \in 1..blocks[w[1][1]].outs
             /\ w[2][1] \in DOMAIN blocks /\ w[2][2] \in 1..blocks[w[2][1]].ins
        /\ \A v, w \in wires : v[2] = w[2] => v = w
    <2>1. WellFormed(original) /\ blocks = original.blocks /\ wires = original.wires
      BY NetlistsOK DEF Init
    <2> QED
      BY <2>1 DEF WellFormed
  <1>2. pass = "dependents" /\ todo = {b \in DOMAIN blocks : ~OutputsSeparate(b) /\ blocks[b].outs > 1} /\ clocked \in BOOLEAN
    BY DEF Init, Work
  <1>3. NetOK
    BY <1>1 DEF NetOK, Ports, Joined, IsPipelineReg, Is
  <1>4. \A b \in DOMAIN blocks : Role(b) = "module"
    BY <1>1 DEF Role
  <1>5. Fresh /\ Placed /\ Tight /\ Consumers
    BY <1>2, <1>4 DEF Fresh, Placed, Tight, Consumers, RolesBy, RolesOf
  <1>6. ToVisit
    BY <1>1, <1>2 DEF ToVisit, Is
  <1>7. pass \in Range(Order)
    BY <1>2 DEF Order, Range
  <1> QED
    BY <1>2, <1>3, <1>5, <1>6, <1>7 DEF NetInv

\* What each step does to the invariant of the netlist.
LEMMA NetKeeps ==
  ASSUME NetInv, SearchInv, [Next]_vars
  PROVE  NetInv'
  <1>1. ASSUME NEW x \in todo, StartPath(x)
        PROVE  NetInv'
    BY <1>1, SearchKeeps DEF StartPath, net
  <1>2. ASSUME VisitWire
        PROVE  NetInv'
    <2>1. UNCHANGED <<blocks, wires, clocked, pass>> /\ (todo' = todo \/ todo' = {}) /\ queue # <<>>
      BY <1>2 DEF VisitWire, net
    <2>2. pass = "cycles"
      BY <2>1 DEF SearchInv
    <2>3. todo' \subseteq todo
      BY <2>1
    <2> QED
      BY <2>1, <2>2, <2>3, SearchKeeps
  <1>3. ASSUME PopWire
        PROVE  NetInv'
    BY <1>3, SearchKeeps DEF PopWire, net
  <1>4. CASE Done \/ UNCHANGED vars
    <2>1. UNCHANGED <<blocks, wires, clocked, pass, todo>>
      BY <1>4 DEF Done, vars, net
    <2> QED
      BY <2>1, SearchKeeps
  <1>5. CASE NextPass
    BY <1>5, NextPassKeeps
  <1>6. CASE PipelineFrequency
    BY <1>6, PipelineFrequencyKeeps
  <1>7. CASE BreakCycle
    BY <1>7, BreakCycleKeeps
  <1>8. ASSUME NEW x \in todo,
               \/ SplitToExtracts(x) \/ JoinDependents(x) \/ LatchUntied(x)
               \/ SynthesizeFork(x) \/ Recombine(x) \/ CheckConnection(x)
        PROVE  NetInv'
    BY <1>8, SplitToExtractsKeeps, JoinDependentsKeeps, LatchUntiedKeeps, SynthesizeForkKeeps, RecombineKeeps,
       CheckConnectionKeeps
  <1> QED
    BY <1>1, <1>2, <1>3, <1>4, <1>5, <1>6, <1>7, <1>8 DEF Next

-----------------------------------------------------------------------------
(* The search                                                              *)

\* A sequence with one more element.
LEMMA Appended ==
  ASSUME NEW S, NEW s \in Seq(S), NEW x \in S
  PROVE  LET r == Append(s, x)
         IN  /\ r \in Seq(S) /\ Len(r) = Len(s) + 1
             /\ \A n \in 1..Len(s) : r[n] = s[n]
             /\ r[Len(s) + 1] = x
  OBVIOUS

\* The entries of a queue whose head is replaced by those of ws.
LEMMA Replaced ==
  ASSUME NEW T, Pop \in T, NEW q \in Seq(T), q # <<>>, NEW ws \in Seq(T)
  PROVE  LET r == ws \o <<Pop>> \o Tail(q)
         IN  /\ r \in Seq(T) /\ Len(r) = Len(ws) + Len(q)
             /\ \A i \in 1..Len(ws) : r[i] = ws[i]
             /\ r[Len(ws) + 1] = Pop
             /\ \A i \in 2..Len(q) : r[Len(ws) + i] = q[i]
  <1> DEFINE t == Tail(q)
             u == ws \o <<Pop>>
             r == u \o t
  <1>1. t \in Seq(T) /\ Len(t) = Len(q) - 1 /\ \A i \in 1..Len(t) : t[i] = q[i + 1]
    OBVIOUS
  <1>2. u \in Seq(T) /\ Len(u) = Len(ws) + 1 /\ (\A i \in 1..Len(ws) : u[i] = ws[i]) /\ u[Len(ws) + 1] = Pop
    OBVIOUS
  <1> HIDE DEF t, u
  <1>3. r \in Seq(T) /\ Len(r) = Len(u) + Len(t)
    BY <1>1, <1>2, ConcatProperties
  <1>4. \A i \in 1..Len(u) : r[i] = u[i]
    BY <1>1, <1>2
  <1>5. \A i \in 1..Len(t) : r[Len(u) + i] = t[i]
    BY <1>1, <1>2
  <1> HIDE DEF r
  <1>6. \A i \in 2..Len(q) : r[Len(ws) + i] = q[i]
    <2> TAKE i \in 2..Len(q)
    <2>1. i - 1 \in 1..Len(t) /\ Len(u) + (i - 1) = Len(ws) + i
      BY <1>1, <1>2
    <2>2. r[Len(u) + (i - 1)] = t[i - 1] /\ t[i - 1] = q[(i - 1) + 1]
      BY <1>1, <1>5, <2>1
    <2> QED
      BY <2>1, <2>2
  <1>7. \A i \in 1..Len(ws) : r[i] = ws[i]
    BY <1>2, <1>4
  <1>8. r[Len(ws) + 1] = Pop /\ Len(r) = Len(ws) + Len(q)
    BY <1>1, <1>2, <1>3, <1>4
  <1> QED
    BY <1>3, <1>6, <1>7, <1>8 DEF r, u, t

\* The search in the middle of its work.
Searching ==
  /\ pass = "cycles" /\ cycle = {}
  /\ todo \subseteq Starts /\ seen \subseteq wires /\ Path

\* A wire is a pair of pairs, and joins blocks that exist.
LEMMA WiresJoin ==
  ASSUME NetInv
  PROVE  /\ \A w \in wires : /\ w = <<<<w[1][1], w[1][2]>>, <<w[2][1], w[2][2]>>>>
                             /\ w[1][1] \in DOMAIN blocks /\ w[1][2] \in 1..blocks[w[1][1]].outs
                             /\ w[2][1] \in DOMAIN blocks /\ w[2][2] \in 1..blocks[w[2][1]].ins
         /\ Pop \notin wires
         /\ \A v, w \in wires : v[1] \in Deps(w[2]) <=> v[1][1] = w[2][1]
  <1>1. \A w \in wires : /\ w = <<<<w[1][1], w[1][2]>>, <<w[2][1], w[2][2]>>>>
                         /\ w[1][1] \in DOMAIN blocks /\ w[1][2] \in 1..blocks[w[1][1]].outs
                         /\ w[2][1] \in DOMAIN blocks /\ w[2][2] \in 1..blocks[w[2][1]].ins
    BY DEF NetInv, NetOK, Joined
  <1>2. Pop \notin wires
    <2>1. \A x, y : <<"pop">> # <<x, y>>
      <3> TAKE x, y
      <3>1. 2 \in DOMAIN <<x, y>> /\ 2 \notin DOMAIN <<"pop">>
        OBVIOUS
      <3> QED
        BY <3>1
    <2> QED
      BY <1>1, <2>1 DEF Pop
  <1>3. \A v, w \in wires : v[1] \in Deps(w[2]) <=> v[1][1] = w[2][1]
    <2> TAKE v, w \in wires
    <2>1. v[1] = <<v[1][1], v[1][2]>> /\ v[1][2] \in 1..blocks[v[1][1]].outs
      BY <1>1
    <2> QED
      BY <2>1 DEF Deps, Outputs
  <1> QED
    BY <1>1, <1>2, <1>3

\* A search starts with a wire of its own.
LEMMA StartPathKeeps ==
  ASSUME NetInv, SearchInv, NEW w, StartPath(w)
  PROVE  SearchInv'
  <1>1. /\ pass = "cycles" /\ pass' = "cycles" /\ queue = <<>> /\ cycle = {} /\ cycle' = {} /\ w \in todo
        /\ todo' = todo \ {w} /\ queue' = <<w>>
        /\ UNCHANGED <<blocks, wires, seen, stack>>
    BY DEF StartPath, net
  <1>2. todo \subseteq Starts /\ seen \subseteq wires /\ Path
    BY <1>1 DEF SearchInv
  <1>3. PICK level : Levels(level)
    BY <1>1 DEF SearchInv
  <1>4. stack = <<>>
    BY <1>1, <1>3 DEF Levels
  <1>5. w \in wires
    BY <1>1, <1>2 DEF Starts
  <1>6. w # Pop
    BY <1>5, WiresJoin
  <1>7. PICK D : Left(D)
    BY <1>1 DEF SearchInv
  <1>8. Left(D)'
    <2>1. Plain' = Plain /\ Acyclic(D)' = Acyclic(D) /\ Starts' = Starts
      BY <1>1 DEF Plain, Acyclic, Closed, Successors, Starts, IsPipelineReg, Is
    <2>2. \A v : IsPipelineReg(v)' = IsPipelineReg(v)
      BY <1>1 DEF IsPipelineReg, Is
    <2>3. w \in Range(queue') /\ \A v : v \notin Range(queue)
      BY <1>1 DEF Range
    <2> QED
      BY <1>1, <1>7, <2>1, <2>2, <2>3 DEF Left
  <1>9. Path'
    <2>1. stack' \in Seq(wires') /\ queue' \in Seq(wires' \cup {Pop}) /\ DOMAIN stack' = {}
      BY <1>1, <1>4, <1>5
    <2> QED
      BY <2>1 DEF Path
  <1>10. Levels([n \in {1} |-> 0])'
    <2>1. DOMAIN queue' = {1} /\ Len(queue') = 1 /\ queue'[1] = w /\ Len(stack') = 0 /\ queue' # <<>>
      BY <1>1, <1>4
    <2> QED
      BY <1>6, <2>1 DEF Levels
  <1>11. todo' \subseteq Starts'
    BY <1>1, <1>2 DEF Starts, IsPipelineReg, Is
  <1> QED
    BY <1>1, <1>2, <1>8, <1>9, <1>10, <1>11 DEF SearchInv

\* What the search knows of the entry it comes to.
LEMMA AtHead ==
  ASSUME NetInv, SearchInv, queue # <<>>
  PROVE  /\ pass = "cycles" /\ cycle = {} /\ todo \subseteq Starts /\ seen \subseteq wires /\ Path
         /\ \E level : Levels(level)
         /\ \E D : Left(D)
         /\ Len(queue) \in Nat /\ Len(queue) >= 1 /\ Head(queue) = queue[1] /\ DOMAIN queue = 1..Len(queue)
         /\ Len(stack) \in Nat /\ DOMAIN stack = 1..Len(stack) /\ \A n \in 1..Len(stack) : stack[n] \in wires
         /\ \A n \in 1..Len(queue) : queue[n] = Pop \/ queue[n] \in wires
         /\ Head(queue) # Pop => /\ Head(queue) \in wires
                                 /\ stack # <<>> => Head(queue)[1][1] = Target(Len(stack))
                                 /\ \A n \in 1..Len(stack) : ~IsPipelineReg(Target(n))
  <1>1. pass = "cycles"
    BY DEF SearchInv
  <1>2. cycle = {}
    BY <1>1 DEF SearchInv
  <1>3. todo \subseteq Starts /\ seen \subseteq wires /\ Path /\ (\E level : Levels(level)) /\ (\E D : Left(D))
    BY <1>1, <1>2 DEF SearchInv
  <1>4. stack \in Seq(wires) /\ queue \in Seq(wires \cup {Pop})
    BY <1>3 DEF Path
  <1>5. /\ Len(queue) \in Nat /\ Len(queue) >= 1 /\ Head(queue) = queue[1] /\ DOMAIN queue = 1..Len(queue)
        /\ Len(stack) \in Nat /\ DOMAIN stack = 1..Len(stack) /\ \A n \in 1..Len(stack) : stack[n] \in wires
        /\ \A n \in 1..Len(queue) : queue[n] = Pop \/ queue[n] \in wires
    BY <1>4
  <1>6. ASSUME Head(queue) # Pop
        PROVE  /\ Head(queue) \in wires
               /\ stack # <<>> => Head(queue)[1][1] = Target(Len(stack))
               /\ \A n \in 1..Len(stack) : ~IsPipelineReg(Target(n))
    <2>1. PICK level : Levels(level)
      BY <1>3
    <2>2. level[1] = Len(stack) /\ (queue[1] # Pop => IF level[1] = 0 THEN Len(queue) = 1 ELSE queue[1][1][1] = stack[level[1]][2][1])
      BY <1>5, <2>1 DEF Levels
    <2>3. stack # <<>> => Len(stack) # 0
      BY <1>4
    <2>4. \A n \in 1..Len(stack) : ~IsPipelineReg(Target(n))
      BY <1>3, <1>5, <1>6 DEF Path
    <2> QED
      BY <1>5, <1>6, <2>2, <2>3, <2>4 DEF Target
  <1> QED
    BY <1>1, <1>2, <1>3, <1>5, <1>6

\* The search goes on behind a wire, to the wires ws or back from a register.
Onward(ws, next) ==
  /\ stack' = Append(stack, Head(queue))
  /\ queue' = ws \o <<Pop>> \o Tail(queue)
  /\ seen' = seen \cup next
  /\ UNCHANGED <<blocks, wires, pass, todo, cycle>>
  /\ ws \in Seq(next) /\ next \subseteq wires
  /\ \A w \in next : w[1][1] = Head(queue)[2][1] /\ \E i \in 1..Len(ws) : ws[i] = w
  /\ IF IsPipelineReg(Head(queue)[2][1]) THEN ws = <<>>
     ELSE /\ \A m \in 1..Len(stack) : stack[m][1][1] # Head(queue)[2][1]
          /\ Head(queue)[1][1] # Head(queue)[2][1]
          /\ \A w \in wires : w[1][1] = Head(queue)[2][1] => w \in seen \cup next

\* The search goes on: it has the visited wire on its stack, and what follows in
\* its queue before the mark that takes it off again.
LEMMA OnwardKeeps ==
  ASSUME NetInv, SearchInv, queue # <<>>, Head(queue) # Pop, NEW ws, NEW next, Onward(ws, next)
  PROVE  SearchInv'
  <1> DEFINE h == Head(queue)
             k == Len(stack)
             p == Len(ws)
             q == Len(queue)
  <1>1. /\ pass = "cycles" /\ cycle = {} /\ todo \subseteq Starts /\ seen \subseteq wires /\ Path
        /\ q \in Nat /\ q >= 1 /\ h = queue[1] /\ DOMAIN queue = 1..q
        /\ k \in Nat /\ DOMAIN stack = 1..k /\ \A n \in 1..k : stack[n] \in wires
        /\ \A n \in 1..q : queue[n] = Pop \/ queue[n] \in wires
        /\ h \in wires
        /\ stack # <<>> => h[1][1] = Target(k)
        /\ \A n \in 1..k : ~IsPipelineReg(Target(n))
    BY AtHead
  <1>2. PICK level : Levels(level)
    BY AtHead
  <1>3. PICK D : Left(D)
    BY AtHead
  <1>4. stack \in Seq(wires) /\ queue \in Seq(wires \cup {Pop})
    BY <1>1 DEF Path
  <1>5. /\ stack' = Append(stack, h) /\ queue' = ws \o <<Pop>> \o Tail(queue) /\ seen' = seen \cup next
        /\ UNCHANGED <<blocks, wires, pass, todo, cycle>>
        /\ ws \in Seq(next) /\ next \subseteq wires
        /\ \A w \in next : w[1][1] = h[2][1] /\ \E i \in 1..p : ws[i] = w
        /\ IF IsPipelineReg(h[2][1]) THEN ws = <<>>
           ELSE /\ \A m \in 1..k : stack[m][1][1] # h[2][1]
                /\ h[1][1] # h[2][1]
                /\ \A w \in wires : w[1][1] = h[2][1] => w \in seen \cup next
    BY DEF Onward
  <1>6. p \in Nat /\ ws \in Seq(wires \cup {Pop}) /\ \A i \in 1..p : ws[i] \in next /\ ws[i] \in wires
    BY <1>5
  <1>7. /\ stack' \in Seq(wires) /\ Len(stack') = k + 1 /\ DOMAIN stack' = 1..(k + 1)
        /\ \A n \in 1..k : stack'[n] = stack[n]
        /\ stack'[k + 1] = h
    <2>1. LET r == Append(stack, h)
          IN  /\ r \in Seq(wires) /\ Len(r) = Len(stack) + 1
              /\ \A n \in 1..Len(stack) : r[n] = stack[n]
              /\ r[Len(stack) + 1] = h
      BY <1>1, <1>4, Appended
    <2> QED
      BY <1>5, <2>1
  <1>8. /\ queue' \in Seq(wires \cup {Pop}) /\ Len(queue') = p + q /\ DOMAIN queue' = 1..(p + q)
        /\ \A i \in 1..p : queue'[i] = ws[i]
        /\ queue'[p + 1] = Pop
        /\ \A i \in 2..q : queue'[p + i] = queue[i]
    <2>1. LET r == ws \o <<Pop>> \o Tail(queue)
          IN  /\ r \in Seq(wires \cup {Pop}) /\ Len(r) = Len(ws) + Len(queue)
              /\ \A i \in 1..Len(ws) : r[i] = ws[i]
              /\ r[Len(ws) + 1] = Pop
              /\ \A i \in 2..Len(queue) : r[Len(ws) + i] = queue[i]
      BY <1>4, <1>6, Replaced
    <2>2. \A s \in Seq(wires \cup {Pop}) : DOMAIN s = 1..Len(s)
      OBVIOUS
    <2> QED
      BY <1>5, <2>1, <2>2
  <1>9. Pop \notin wires
    BY WiresJoin
  <1>10. \A c : IsPipelineReg(c)' <=> IsPipelineReg(c)
    BY <1>5 DEF IsPipelineReg, Is
  <1>11. Head(queue') = queue'[1] /\ queue' # <<>>
    BY <1>1, <1>6, <1>8
  <1> HIDE DEF h, k, p, q
  <1>12. Path'
    <2>1. ASSUME NEW n \in 1..(k + 1)
          PROVE  /\ n # 1 => stack'[n][1][1] = Target(n - 1)'
                 /\ IsPipelineReg(Target(n))' => n = Len(stack') /\ queue' # <<>> /\ Head(queue') = Pop
                 /\ ~IsPipelineReg(Target(n))' =>
                      /\ \A m \in 1..n : stack'[m][1][1] # Target(n)'
                      /\ \A w \in wires' : w[1][1] = Target(n)' => w \in seen'
      <3>1. CASE n = k + 1
        <4>1. Target(n)' = h[2][1]
          BY <1>7, <3>1 DEF Target
        <4>2. n # 1 => stack'[n][1][1] = Target(n - 1)'
          <5> SUFFICES ASSUME n # 1
                       PROVE  h[1][1] = stack'[n - 1][2][1]
            BY <1>7, <3>1 DEF Target
          <5>1. k \in 1..k /\ stack # <<>> /\ n - 1 = k
            BY <1>1, <3>1
          <5> QED
            BY <1>1, <1>7, <5>1 DEF Target
        <4>3. IsPipelineReg(Target(n))' => Head(queue') = Pop
          <5>1. IsPipelineReg(h[2][1]) => p = 0
            BY <1>5 DEF p
          <5>2. p = 0 => Head(queue') = Pop
            BY <1>8, <1>11
          <5> QED
            BY <1>10, <4>1, <5>1, <5>2
        <4>4. ASSUME ~IsPipelineReg(Target(n))'
              PROVE  /\ \A m \in 1..n : stack'[m][1][1] # Target(n)'
                     /\ \A w \in wires' : w[1][1] = Target(n)' => w \in seen'
          <5>1. ~IsPipelineReg(h[2][1])
            BY <1>10, <4>1, <4>4
          <5>2. \A m \in 1..n : m \in 1..k \/ m = k + 1
            BY <1>1, <3>1
          <5> QED
            BY <1>5, <1>7, <4>1, <5>1, <5>2
        <4> QED
          BY <1>7, <1>11, <3>1, <4>2, <4>3, <4>4
      <3>2. CASE n \in 1..k
        <4>1. Target(n)' = Target(n) /\ ~IsPipelineReg(Target(n))
          BY <1>1, <1>7, <3>2 DEF Target
        <4>2. /\ n # 1 => stack[n][1][1] = Target(n - 1)
              /\ \A m \in 1..n : stack[m][1][1] # Target(n)
              /\ \A w \in wires : w[1][1] = Target(n) => w \in seen
          BY <1>1, <3>2, <4>1 DEF Path
        <4>3. n # 1 => stack'[n][1][1] = Target(n - 1)'
          <5>1. n # 1 => n - 1 \in 1..k
            BY <1>1, <3>2
          <5> QED
            BY <1>7, <3>2, <4>2, <5>1 DEF Target
        <4>4. \A m \in 1..n : m \in 1..k
          BY <1>1, <3>2
        <4> QED
          BY <1>5, <1>7, <1>10, <4>1, <4>2, <4>3, <4>4
      <3> QED
        BY <1>1, <3>1, <3>2
    <2>2. stack' \in Seq(wires') /\ queue' \in Seq(wires' \cup {Pop})
      BY <1>5, <1>7, <1>8
    <2> QED
      BY <1>7, <2>1, <2>2 DEF Path
  <1>13. \E l : Levels(l)'
    <2>0. PICK l : l = [i \in 1..(p + q) |-> IF i <= p + 1 THEN k + 1 ELSE level[i - p]]
      OBVIOUS
    <2>1. /\ level \in [1..q -> Nat]
          /\ level[1] = k
          /\ \A m, n \in 1..q : m <= n => level[n] <= level[m]
          /\ \A n \in 1..q :
               /\ level[n] = (IF n = q THEN 0 ELSE level[n + 1]) + (IF queue[n] = Pop THEN 1 ELSE 0)
               /\ queue[n] # Pop => IF level[n] = 0 THEN q = 1
                                    ELSE queue[n][1][1] = stack[level[n]][2][1]
      BY <1>1, <1>2 DEF Levels, q, k
    <2>2. h # Pop /\ queue[1] = h
      BY <1>1 DEF h
    <2>3. k = IF q = 1 THEN 0 ELSE level[2]
      BY <1>1, <2>1, <2>2
    <2>4. \A n \in 2..q : level[n] \in Nat /\ level[n] <= k
      BY <1>1, <2>1
    <2>5. l \in [1..(p + q) -> Nat]
      BY <1>1, <1>6, <2>0, <2>4
    <2>6. l[1] = k + 1
      BY <1>1, <1>6, <2>0
    <2>7. ASSUME NEW m \in 1..(p + q), NEW n \in 1..(p + q), m <= n
          PROVE  l[n] <= l[m]
      <3>1. CASE n <= p + 1
        BY <1>1, <1>6, <2>0, <2>7, <3>1
      <3>2. CASE ~(n <= p + 1)
        <4>1. n - p \in 2..q
          BY <1>1, <1>6, <2>0, <3>2
        <4>2. CASE m <= p + 1
          BY <1>1, <1>6, <2>0, <2>4, <3>2, <4>1, <4>2
        <4>3. CASE ~(m <= p + 1)
          <5>1. m - p \in 2..q /\ m - p <= n - p
            BY <1>1, <1>6, <2>0, <2>7, <4>3
          <5> QED
            BY <1>1, <1>6, <2>0, <2>1, <3>2, <4>1, <4>3, <5>1
        <4> QED
          BY <4>2, <4>3
      <3> QED
        BY <3>1, <3>2
    <2>8. ASSUME NEW n \in 1..(p + q)
          PROVE  /\ l[n] = (IF n = p + q THEN 0 ELSE l[n + 1]) + (IF queue'[n] = Pop THEN 1 ELSE 0)
                 /\ queue'[n] # Pop => IF l[n] = 0 THEN p + q = 1
                                       ELSE queue'[n][1][1] = stack'[l[n]][2][1]
      <3>1. CASE n \in 1..p
        <4>1. queue'[n] \in next /\ queue'[n] # Pop
          BY <1>5, <1>6, <1>8, <1>9, <3>1
        <4>2. l[n] = k + 1 /\ l[n + 1] = k + 1 /\ n # p + q /\ k + 1 # 0
          BY <1>1, <1>6, <2>0, <3>1
        <4>3. queue'[n][1][1] = stack'[l[n]][2][1]
          BY <1>5, <1>7, <4>1, <4>2
        <4> QED
          BY <1>1, <4>1, <4>2, <4>3
      <3>2. CASE n = p + 1
        <4>1. l[n] = k + 1 /\ queue'[n] = Pop
          BY <1>6, <1>8, <2>0, <3>2
        <4>2. n = p + q <=> q = 1
          BY <1>1, <1>6, <2>0, <3>2
        <4>3. q # 1 => l[n + 1] = level[2]
          BY <1>1, <1>6, <2>0, <3>2
        <4> QED
          BY <1>1, <2>3, <4>1, <4>2, <4>3
      <3>3. CASE n - p \in 2..q
        <4>1. l[n] = level[n - p] /\ queue'[n] = queue[n - p] /\ (n = p + q <=> n - p = q)
          <5>1. queue'[p + (n - p)] = queue[n - p]
            BY <1>8, <3>3
          <5>2. p + (n - p) = n
            BY <1>6
          <5>3. ~(n <= p + 1) /\ (n = p + q <=> n - p = q)
            BY <1>1, <1>6, <3>3
          <5> QED
            BY <2>0, <5>1, <5>2, <5>3
        <4>2. n # p + q => l[n + 1] = level[(n - p) + 1]
          <5>1. n # p + q => n + 1 \in 1..(p + q) /\ ~(n + 1 <= p + 1) /\ (n + 1) - p = (n - p) + 1
            BY <1>1, <1>6, <3>3
          <5> QED
            BY <2>0, <5>1
        <4>3. n - p \in 1..q /\ q # 1
          BY <1>1, <1>6, <2>0, <3>3
        <4>4. level[n - p] = (IF n - p = q THEN 0 ELSE level[(n - p) + 1]) + (IF queue[n - p] = Pop THEN 1 ELSE 0)
          BY <2>1, <4>3
        <4>5. queue[n - p] # Pop => level[n - p] # 0 /\ queue[n - p][1][1] = stack[level[n - p]][2][1]
          BY <2>1, <4>3
        <4>6. level[n - p] # 0 => level[n - p] \in 1..k
          BY <1>1, <2>4, <3>3
        <4> QED
          BY <1>7, <4>1, <4>2, <4>4, <4>5, <4>6
      <3> QED
        BY <1>1, <1>6, <2>0, <3>1, <3>2, <3>3
    <2>9. Levels(l)'
      <3>1. DOMAIN queue' = 1..(p + q) /\ Len(queue') = p + q /\ Len(stack') = k + 1 /\ queue' # <<>>
        BY <1>7, <1>8, <1>11
      <3>2. \A m, n \in DOMAIN queue' : m <= n => l[n] <= l[m]
        BY <2>7, <3>1
      <3>3. \A n \in DOMAIN queue' :
              /\ l[n] = (IF n = Len(queue') THEN 0 ELSE l[n + 1]) + (IF queue'[n] = Pop THEN 1 ELSE 0)
              /\ queue'[n] # Pop => IF l[n] = 0 THEN Len(queue') = 1
                                    ELSE queue'[n][1][1] = stack'[l[n]][2][1]
        BY <2>8, <3>1
      <3>4. l \in [DOMAIN queue' -> Nat]
        BY <2>5, <3>1
      <3> QED
        BY <2>6, <3>1, <3>2, <3>3, <3>4 DEF Levels
    <2> QED
      BY <2>9
  <1>14. Left(D)'
    <2>1. Plain' = Plain /\ Acyclic(D)' = Acyclic(D) /\ Starts' = Starts
      BY <1>5 DEF Plain, Acyclic, Closed, Successors, Starts, IsPipelineReg, Is
    <2>2. /\ \A w \in Range(stack) : w \in Range(stack')
          /\ h \in Range(stack')
      BY <1>1, <1>7 DEF Range
    <2>3. \A w \in Range(queue) : w \in Range(queue') \/ w = h
      <3> TAKE w \in Range(queue)
      <3>1. PICK n \in 1..q : w = queue[n]
        BY <1>1 DEF Range
      <3>2. CASE n \in 2..q
        <4>1. p + n \in 1..(p + q) /\ queue'[p + n] = w
          BY <1>1, <1>6, <1>8, <3>1, <3>2
        <4> QED
          BY <1>8, <4>1 DEF Range
      <3> QED
        BY <1>1, <3>1, <3>2
    <2>4. \A w \in next : w \in Range(queue')
      <3> TAKE w \in next
      <3>1. PICK i \in 1..p : ws[i] = w
        BY <1>5
      <3>2. i \in 1..(p + q) /\ queue'[i] = w
        BY <1>1, <1>6, <1>8, <3>1
      <3> QED
        BY <1>8, <3>2 DEF Range
    <2>5. D \in SUBSET Plain /\ Acyclic(D)
      BY <1>3 DEF Left
    <2>6. \A w \in seen \cup (Starts \ todo) :
            \/ IsPipelineReg(w[2][1]) \/ w[2][1] \in D
            \/ w \in Range(queue) \/ w \in Range(stack)
      BY <1>3 DEF Left
    <2>7. \A w \in seen' \cup (Starts' \ todo') :
            \/ IsPipelineReg(w[2][1])' \/ w[2][1] \in D
            \/ w \in Range(queue') \/ w \in Range(stack')
      BY <1>5, <1>10, <2>1, <2>2, <2>3, <2>4, <2>6
    <2> QED
      BY <2>1, <2>5, <2>7 DEF Left
  <1>15. todo' \subseteq Starts' /\ seen' \subseteq wires' /\ cycle' = {} /\ pass' = "cycles"
    BY <1>1, <1>5 DEF Starts, IsPipelineReg, Is
  <1> QED
    BY <1>12, <1>13, <1>14, <1>15 DEF SearchInv

\* An ordering of a finite set holds each of its elements.
LEMMA OrderingsAre ==
  ASSUME NEW S, IsFiniteSet(S), NEW s \in Orderings(S)
  PROVE  s \in Seq(S) /\ \A x \in S : \E i \in 1..Len(s) : s[i] = x
  <1> DEFINE c == Cardinality(S)
             N == 1..c
  <1>1. c \in Nat
    BY FS_CardinalityType
  <1>2. s \in [1..c -> S] /\ IsInjective(s)
    BY DEF Orderings
  <1>3. s \in Seq(S) /\ Len(s) = c /\ DOMAIN s = N
    BY <1>1, <1>2
  <1>4. IsFiniteSet(N) /\ Cardinality(N) = Cardinality(S)
    BY <1>1, FS_Interval
  <1>5. s \in Injection(N, S)
    BY <1>2 DEF Injection
  <1>7. Len(s) = c
    BY <1>3
  <1> HIDE DEF N
  <1>6. s \in Surjection(N, S)
    BY <1>4, <1>5, FS_Injection
  <1> QED
    BY <1>3, <1>6 DEF Surjection, N

\* The search visits a wire.
LEMMA VisitWireKeeps ==
  ASSUME NetInv, SearchInv, VisitWire
  PROVE  SearchInv'
  <1> DEFINE h == Head(queue)
             path == Append(stack, h)
             deps == Deps(h[2])
             back == {n \in DOMAIN path : path[n][1] \in deps}
             next == {w \in wires : w[1] \in deps} \ seen
             k == Len(stack)
  <1>1. queue # <<>> /\ h # Pop /\ UNCHANGED <<blocks, wires, pass>>
    BY DEF VisitWire, net
  <1>2. /\ pass = "cycles" /\ cycle = {} /\ todo \subseteq Starts /\ seen \subseteq wires /\ Path
        /\ k \in Nat /\ DOMAIN stack = 1..k /\ \A n \in 1..k : stack[n] \in wires
        /\ h \in wires
        /\ stack # <<>> => h[1][1] = Target(k)
        /\ \A n \in 1..k : ~IsPipelineReg(Target(n))
    BY <1>1, AtHead
  <1>3. stack \in Seq(wires) /\ queue \in Seq(wires \cup {Pop})
    BY <1>2 DEF Path
  <1>4. /\ path \in Seq(wires) /\ Len(path) = k + 1 /\ DOMAIN path = 1..(k + 1)
        /\ \A n \in 1..k : path[n] = stack[n]
        /\ path[k + 1] = h
    BY <1>2, <1>3
  <1>5. \A w \in wires : w[1] \in deps <=> w[1][1] = h[2][1]
    BY <1>2, WiresJoin
  <1>6. CASE IsPipelineReg(h[2][1])
    <2>1. /\ stack' = path /\ queue' = <<Pop>> \o Tail(queue)
          /\ UNCHANGED <<seen, cycle, todo>>
      BY <1>6 DEF VisitWire
    <2>2. <<>> \o <<Pop>> = <<Pop>>
      OBVIOUS
    <2>3. queue' = <<>> \o <<Pop>> \o Tail(queue)
      BY <2>1, <2>2
    <2>4. <<>> \in Seq({}) /\ seen' = seen \cup {}
      BY <2>1
    <2>5. Onward(<<>>, {})
      BY <1>1, <1>6, <2>1, <2>3, <2>4 DEF Onward
    <2> QED
      BY <1>1, <2>5, OnwardKeeps
  <1>7. CASE ~IsPipelineReg(h[2][1]) /\ back # {}
    <2>1. /\ \E n \in back : cycle' = Range(SubSeq(path, n, Len(path)))
          /\ stack' = <<>> /\ queue' = <<>> /\ seen' = {} /\ todo' = {}
      BY <1>7 DEF VisitWire
    <2>2. PICK n \in back : cycle' = Range(SubSeq(path, n, Len(path)))
      BY <2>1
    <2>3. n \in 1..(k + 1)
      BY <1>4
    <2> HIDE DEF path, back, deps
    <2> DEFINE s == SubSeq(path, n, Len(path))
    <2>4. DOMAIN s = 1..((k + 1) - n + 1) /\ \A i \in DOMAIN s : s[i] = path[n + i - 1]
      BY <1>2, <1>4, <2>3
    <2>5. \A w \in cycle' : \E i \in 1..(k + 1) : w = path[i]
      <3> TAKE w \in cycle'
      <3>1. PICK i \in DOMAIN s : w = s[i]
        BY <2>2 DEF Range
      <3>2. n + i - 1 \in 1..(k + 1)
        BY <1>2, <2>3, <2>4
      <3> QED
        BY <2>4, <3>1, <3>2
    <2>6. \A w \in cycle' : w \in wires /\ ~IsPipelineReg(w[2][1])
      <3> TAKE w \in cycle'
      <3>1. PICK i \in 1..(k + 1) : w = path[i]
        BY <2>5
      <3>2. i \in 1..k \/ i = k + 1
        BY <1>2
      <3> QED
        BY <1>2, <1>4, <1>7, <3>1, <3>2 DEF Target
    <2>7. cycle' # {}
      <3>1. 1 \in DOMAIN s
        BY <1>2, <2>3, <2>4
      <3>2. s[1] \in cycle'
        BY <2>2, <3>1 DEF Range
      <3> QED
        BY <3>2
    <2>8. \A w \in cycle' : ~IsPipelineReg(w[2][1])'
      BY <1>1, <2>6 DEF IsPipelineReg, Is
    <2> QED
      BY <1>1, <1>2, <2>1, <2>6, <2>7, <2>8 DEF SearchInv
  <1>8. CASE ~IsPipelineReg(h[2][1]) /\ back = {}
    <2>1. /\ \E ws \in Orderings(next) : queue' = ws \o <<Pop>> \o Tail(queue)
          /\ stack' = path /\ seen' = seen \cup next
          /\ UNCHANGED <<cycle, todo>>
      BY <1>8 DEF VisitWire
    <2>2. PICK ws \in Orderings(next) : queue' = ws \o <<Pop>> \o Tail(queue)
      BY <2>1
    <2>3. IsFiniteSet(next)
      <3>1. IsFiniteSet(wires) /\ next \subseteq wires
        BY DEF NetInv, NetOK
      <3> HIDE DEF next
      <3> QED
        BY <3>1, FS_Subset
    <2>4. next \subseteq wires /\ \A w \in next : w[1][1] = h[2][1]
      BY <1>5
    <2>5. \A w \in wires : w[1][1] = h[2][1] => w \in seen \cup next
      BY <1>5
    <2>6. \A n \in 1..(k + 1) : path[n] \in wires /\ path[n][1][1] # h[2][1]
      <3> TAKE n \in 1..(k + 1)
      <3>1. path[n] \in wires
        BY <1>4
      <3>2. path[n][1] \notin deps
        BY <1>4, <1>8
      <3> QED
        BY <1>5, <3>1, <3>2
    <2>7. /\ \A m \in 1..k : stack[m][1][1] # h[2][1]
          /\ h[1][1] # h[2][1]
      <3>1. k + 1 \in 1..(k + 1) /\ \A m \in 1..k : m \in 1..(k + 1)
        BY <1>2
      <3> HIDE DEF path
      <3> QED
        BY <1>4, <2>6, <3>1
    <2> HIDE DEF next, back, deps
    <2>8. ws \in Seq(next) /\ \A w \in next : \E i \in 1..Len(ws) : ws[i] = w
      BY <2>2, <2>3, OrderingsAre
    <2>9. Onward(ws, next)
      BY <1>1, <1>8, <2>1, <2>2, <2>4, <2>5, <2>7, <2>8 DEF Onward
    <2> QED
      BY <1>1, <2>9, OnwardKeeps
  <1> QED
    BY <1>6, <1>7, <1>8

\* The search leaves a block: what it feeds was left before, so it is on no cycle.
LEMMA PopWireKeeps ==
  ASSUME NetInv, SearchInv, PopWire
  PROVE  SearchInv'
  <1> DEFINE k == Len(stack)
             q == Len(queue)
             T == Target(k)
  <1>1. /\ queue # <<>> /\ Head(queue) = Pop /\ queue' = Tail(queue) /\ stack' = Front(stack)
        /\ UNCHANGED <<blocks, wires, pass, todo, seen, cycle>>
    BY DEF PopWire, net
  <1>2. /\ pass = "cycles" /\ cycle = {} /\ todo \subseteq Starts /\ seen \subseteq wires /\ Path
        /\ q \in Nat /\ q >= 1 /\ Head(queue) = queue[1] /\ DOMAIN queue = 1..q
        /\ k \in Nat /\ DOMAIN stack = 1..k /\ \A n \in 1..k : stack[n] \in wires
        /\ \A n \in 1..q : queue[n] = Pop \/ queue[n] \in wires
    BY <1>1, AtHead
  <1>3. PICK level : Levels(level)
    BY <1>1, AtHead
  <1>4. PICK D : Left(D)
    BY <1>1, AtHead
  <1>5. stack \in Seq(wires) /\ queue \in Seq(wires \cup {Pop})
    BY <1>2 DEF Path
  <1>6. /\ level \in [1..q -> Nat]
        /\ level[1] = k
        /\ \A m, n \in 1..q : m <= n => level[n] <= level[m]
        /\ \A n \in 1..q :
             /\ level[n] = (IF n = q THEN 0 ELSE level[n + 1]) + (IF queue[n] = Pop THEN 1 ELSE 0)
             /\ queue[n] # Pop => IF level[n] = 0 THEN q = 1
                                  ELSE queue[n][1][1] = stack[level[n]][2][1]
    BY <1>1, <1>2, <1>3 DEF Levels
  <1>7. k = (IF q = 1 THEN 0 ELSE level[2]) + 1
    <2>1. 1 \in 1..q /\ queue[1] = Pop
      BY <1>1, <1>2
    <2>2. level[1] = (IF 1 = q THEN 0 ELSE level[1 + 1]) + (IF queue[1] = Pop THEN 1 ELSE 0)
      BY <1>6, <2>1
    <2>3. level[1] = k /\ level \in [1..q -> Nat]
      BY <1>6
    <2>4. q # 1 => level[2] \in Nat
      <3>1. q # 1 => 2 \in 1..q
        BY <1>2
      <3> QED
        BY <2>3, <3>1
    <2> HIDE DEF k, q
    <2> QED
      BY <2>1, <2>2, <2>3, <2>4
  <1>8. k >= 1 /\ (q = 1 => k = 1) /\ \A n \in 2..q : level[n] \in Nat /\ level[n] <= k - 1
    <2>1. q # 1 => 2 \in 1..q /\ level[2] \in Nat /\ k = level[2] + 1
      <3> SUFFICES ASSUME q # 1
                   PROVE  2 \in 1..q /\ level[2] \in Nat /\ k = level[2] + 1
        OBVIOUS
      <3>1. 2 \in 1..q
        BY <1>2
      <3>2. level \in [1..q -> Nat]
        BY <1>6
      <3>3. level[2] \in Nat
        BY <3>1, <3>2
      <3> QED
        BY <1>7, <3>1, <3>3
    <2>2. ASSUME NEW n \in 2..q
          PROVE  level[n] \in Nat /\ level[n] <= k - 1
      <3>1. n \in 1..q /\ q # 1 /\ 2 <= n
        BY <1>2
      <3>2. level[n] \in Nat /\ level[n] <= level[2]
        BY <1>6, <2>1, <3>1
      <3> QED
        BY <2>1, <3>1, <3>2
    <2>3. k >= 1 /\ (q = 1 => k = 1)
      BY <1>7, <2>1
    <2> QED
      BY <2>2, <2>3
  <1>9. stack' \in Seq(wires) /\ Len(stack') = k - 1 /\ DOMAIN stack' = 1..(k - 1) /\ \A n \in 1..(k - 1) : stack'[n] = stack[n]
    BY <1>1, <1>2, <1>5, <1>8 DEF Front
  <1>10. queue' \in Seq(wires \cup {Pop}) /\ Len(queue') = q - 1 /\ DOMAIN queue' = 1..(q - 1) /\ \A n \in 1..(q - 1) : queue'[n] = queue[n + 1]
    BY <1>1, <1>2, <1>5
  <1>11. \A c : IsPipelineReg(c)' <=> IsPipelineReg(c)
    BY <1>1 DEF IsPipelineReg, Is
  <1>12. Pop \notin wires
    BY WiresJoin
  <1>13. \A n \in 1..k : /\ n # 1 => stack[n][1][1] = Target(n - 1)
                         /\ IsPipelineReg(Target(n)) => n = k
                         /\ ~IsPipelineReg(Target(n)) =>
                              /\ \A m \in 1..n : stack[m][1][1] # Target(n)
                              /\ \A w \in wires : w[1][1] = Target(n) => w \in seen
    BY <1>2 DEF Path
  <1> HIDE DEF k, q, T
  <1>14. Path'
    <2>1. ASSUME NEW n \in 1..(k - 1)
          PROVE  /\ n # 1 => stack'[n][1][1] = Target(n - 1)'
                 /\ ~IsPipelineReg(Target(n))'
                 /\ \A m \in 1..n : stack'[m][1][1] # Target(n)'
                 /\ \A w \in wires' : w[1][1] = Target(n)' => w \in seen'
      <3>1. Target(n)' = Target(n) /\ n \in 1..k /\ n # k
        BY <1>2, <1>9 DEF Target
      <3>2. n # 1 => Target(n - 1)' = Target(n - 1)
        <4>1. n # 1 => n - 1 \in 1..(k - 1)
          BY <1>2
        <4> QED
          BY <1>9, <4>1 DEF Target
      <3>3. \A m \in 1..n : m \in 1..(k - 1)
        BY <1>2
      <3> QED
        BY <1>1, <1>9, <1>11, <1>13, <3>1, <3>2, <3>3
    <2>2. stack' \in Seq(wires') /\ queue' \in Seq(wires' \cup {Pop})
      BY <1>1, <1>9, <1>10
    <2> QED
      BY <1>9, <2>1, <2>2 DEF Path
  <1>15. \E l : Levels(l)'
    <2>1. PICK l : l = [i \in 1..(q - 1) |-> level[i + 1]]
      OBVIOUS
    <2>2. \A i \in 1..(q - 1) : i + 1 \in 1..q /\ i + 1 \in 2..q
      BY <1>2
    <2>3. l \in [DOMAIN queue' -> Nat]
      BY <1>6, <1>10, <2>1, <2>2
    <2>4. queue' = <<>> => stack' = <<>>
      <3>1. queue' = <<>> => q = 1
        BY <1>2, <1>10
      <3> QED
        BY <1>8, <1>9, <3>1
    <2>5. queue' # <<>> => l[1] = Len(stack')
      <3>1. queue' # <<>> => 1 \in 1..(q - 1) /\ q # 1
        BY <1>2, <1>10
      <3>2. l[1] = level[2] \/ queue' = <<>>
        BY <2>1, <3>1
      <3>3. q # 1 => level[2] \in Nat /\ k = level[2] + 1
        BY <1>2, <1>7, <1>8
      <3> QED
        BY <1>9, <3>1, <3>2, <3>3
    <2>6. \A m, n \in DOMAIN queue' : m <= n => l[n] <= l[m]
      <3> SUFFICES ASSUME NEW m \in 1..(q - 1), NEW n \in 1..(q - 1), m <= n
                   PROVE  l[n] <= l[m]
        BY <1>10
      <3>1. m + 1 <= n + 1
        BY <1>2
      <3> QED
        BY <1>6, <2>1, <2>2, <3>1
    <2>7. ASSUME NEW n \in DOMAIN queue'
          PROVE  /\ l[n] = (IF n = Len(queue') THEN 0 ELSE l[n + 1]) + (IF queue'[n] = Pop THEN 1 ELSE 0)
                 /\ queue'[n] # Pop => IF l[n] = 0 THEN Len(queue') = 1
                                       ELSE queue'[n][1][1] = stack'[l[n]][2][1]
      <3>1. n \in 1..(q - 1) /\ l[n] = level[n + 1] /\ queue'[n] = queue[n + 1] /\ n + 1 \in 1..q /\ n + 1 \in 2..q
        BY <1>10, <2>1, <2>2
      <3>2. n = Len(queue') <=> n + 1 = q
        BY <1>2, <1>10, <3>1
      <3>3. n # Len(queue') => l[n + 1] = level[(n + 1) + 1]
        <4>1. n # Len(queue') => n + 1 \in 1..(q - 1)
          BY <1>2, <1>10, <3>1
        <4> QED
          BY <2>1, <4>1
      <3>4. level[n + 1] = (IF n + 1 = q THEN 0 ELSE level[(n + 1) + 1]) + (IF queue[n + 1] = Pop THEN 1 ELSE 0)
        BY <1>6, <3>1
      <3>5. queue[n + 1] # Pop => level[n + 1] # 0 /\ queue[n + 1][1][1] = stack[level[n + 1]][2][1]
        <4>1. q # 1
          BY <1>2, <3>1
        <4> QED
          BY <1>6, <3>1, <4>1
      <3>6. level[n + 1] # 0 => level[n + 1] \in 1..(k - 1)
        BY <1>2, <1>8, <3>1
      <3> QED
        BY <1>9, <3>1, <3>2, <3>3, <3>4, <3>5, <3>6
    <2> QED
      BY <2>3, <2>4, <2>5, <2>6, <2>7 DEF Levels
  <1>16. D \in SUBSET Plain /\ Acyclic(D)
    BY <1>4 DEF Left
  <1>17. \A w \in seen \cup (Starts \ todo) :
           \/ IsPipelineReg(w[2][1]) \/ w[2][1] \in D
           \/ w \in Range(queue) \/ w \in Range(stack)
    BY <1>4 DEF Left
  <1>18. k \in 1..k /\ stack[k] \in wires /\ T = stack[k][2][1]
    BY <1>2, <1>8 DEF Target, T
  <1>19. T \in DOMAIN blocks
    BY <1>18, WiresJoin
  <1> DEFINE E == IF IsPipelineReg(T) THEN D ELSE D \cup {T}
  <1>20. E \in SUBSET Plain
    BY <1>16, <1>19 DEF Plain
  <1>21. Acyclic(E)
    <2>1. CASE IsPipelineReg(T) \/ T \in D
      <3>1. E = D
        BY <2>1
      <3> QED
        BY <1>16, <3>1
    <2>2. CASE ~IsPipelineReg(T) /\ T \notin D
      <3>1. ASSUME NEW w \in wires, w[1][1] = T, ~IsPipelineReg(w[2][1])
            PROVE  w[2][1] \in D
        <4>1. w \in seen
          BY <1>13, <1>18, <2>2, <3>1 DEF T
        <4>2. w \notin Range(stack)
          <5> SUFFICES ASSUME NEW m \in 1..k, w = stack[m]
                       PROVE  FALSE
            BY <1>2 DEF Range, k
          <5> QED
            BY <1>13, <1>18, <2>2, <3>1 DEF T
        <4>3. w \notin Range(queue)
          <5> SUFFICES ASSUME NEW n \in 1..q, w = queue[n]
                       PROVE  FALSE
            BY <1>2 DEF Range, q
          <5>1. queue[n] # Pop /\ n \in 2..q /\ q # 1
            BY <1>1, <1>2, <1>12
          <5>2. level[n] \in 1..(k - 1) /\ w[1][1] = stack[level[n]][2][1]
            BY <1>2, <1>6, <1>8, <5>1
          <5>3. PICK m \in 1..(k - 1) : m = level[n]
            BY <5>2
          <5>4. m + 1 \in 1..k /\ m + 1 # 1 /\ (m + 1) - 1 = m
            BY <1>2
          <5>5. stack[m + 1][1][1] = Target(m)
            BY <1>13, <5>4
          <5>6. Target(m) = T
            BY <3>1, <5>2, <5>3 DEF Target
          <5>7. stack[m + 1][1][1] # Target(k)
            BY <1>13, <1>18, <2>2, <5>4 DEF T
          <5> QED
            BY <5>5, <5>6, <5>7 DEF T
        <4> QED
          BY <1>17, <3>1, <4>1, <4>2, <4>3
      <3>2. Successors(T) \subseteq D
        BY <3>1 DEF Successors
      <3>3. Closed(D)
        <4> SUFFICES ASSUME NEW c \in D
                     PROVE  Successors(c) \subseteq D
          BY DEF Closed
        <4>1. PICK S \in SUBSET (D \ {c}) : Successors(c) \subseteq S
          BY <1>16 DEF Acyclic
        <4> QED
          BY <4>1
      <3>4. D \subseteq E \ {T} /\ E = D \cup {T}
        BY <2>2
      <3> HIDE DEF E
      <3>5. ASSUME NEW b \in E
            PROVE  \E S \in SUBSET (E \ {b}) : Successors(b) \subseteq S /\ Closed(S)
        <4>1. CASE b \in D
          <5>1. PICK S \in SUBSET (D \ {b}) : Successors(b) \subseteq S /\ Closed(S)
            BY <1>16, <4>1 DEF Acyclic
          <5>2. S \in SUBSET (E \ {b})
            BY <3>4
          <5> QED
            BY <5>1, <5>2
        <4>2. CASE b = T
          <5>1. D \in SUBSET (E \ {b})
            BY <3>4, <4>2
          <5> QED
            BY <3>2, <3>3, <4>2, <5>1
        <4> QED
          BY <3>4, <4>1, <4>2
      <3> QED
        BY <3>5 DEF Acyclic
    <2> QED
      BY <2>1, <2>2
  <1>22. PICK F : F = E
    OBVIOUS
  <1>23. Left(F)'
    <2>1. Plain' = Plain /\ Acyclic(F)' = Acyclic(F) /\ Starts' = Starts
      BY <1>1 DEF Plain, Acyclic, Closed, Successors, Starts, IsPipelineReg, Is
    <2>2. \A w \in wires : w \in Range(queue) => w \in Range(queue')
      <3> TAKE w \in wires
      <3> HAVE w \in Range(queue)
      <3>1. PICK n \in 1..q : w = queue[n]
        BY <1>2 DEF Range, q
      <3>2. n # 1
        BY <1>1, <1>2, <1>12, <3>1
      <3>3. n - 1 \in 1..(q - 1) /\ (n - 1) + 1 = n
        BY <1>2, <3>2
      <3>4. queue'[n - 1] = queue[n]
        BY <1>10, <3>3
      <3> QED
        BY <1>10, <3>1, <3>3, <3>4 DEF Range
    <2>3. \A w \in Range(stack) : w \in Range(stack') \/ w = stack[k]
      <3> TAKE w \in Range(stack)
      <3>1. PICK n \in 1..k : w = stack[n]
        BY <1>2 DEF Range, k
      <3>2. n = k \/ n \in 1..(k - 1)
        BY <1>2
      <3> QED
        BY <1>9, <3>1, <3>2 DEF Range
    <2>4. D \subseteq F /\ (IsPipelineReg(T) \/ T \in F)
      BY <1>22
    <2>5. seen \cup (Starts \ todo) \subseteq wires
      BY <1>2 DEF Starts
    <2>6. \A w \in seen' \cup (Starts' \ todo') :
            \/ IsPipelineReg(w[2][1])' \/ w[2][1] \in F
            \/ w \in Range(queue') \/ w \in Range(stack')
      BY <1>1, <1>11, <1>17, <1>18, <2>1, <2>2, <2>3, <2>4, <2>5
    <2> QED
      BY <1>20, <1>21, <1>22, <2>1, <2>6 DEF Left
  <1>24. todo' \subseteq Starts' /\ seen' \subseteq wires' /\ cycle' = {} /\ pass' = "cycles"
    BY <1>1, <1>2 DEF Starts, IsPipelineReg, Is
  <1> QED
    BY <1>14, <1>15, <1>23, <1>24 DEF SearchInv

\* A search from the beginning.
LEMMA SearchStarts ==
  ASSUME pass' = "cycles", queue' = <<>>, stack' = <<>>, cycle' = {}, seen' = {}, todo' = Starts'
  PROVE  SearchInv'
  <1>1. Path'
    <2>1. <<>> \in Seq(wires') /\ <<>> \in Seq(wires' \cup {Pop}) /\ DOMAIN <<>> = {}
      OBVIOUS
    <2> QED
      BY <2>1 DEF Path
  <1>2. PICK l : l = [n \in {} |-> 0]
    OBVIOUS
  <1>3. Levels(l)'
    <2>1. DOMAIN queue' = {}
      OBVIOUS
    <2> QED
      BY <1>2, <2>1 DEF Levels
  <1>4. Left({})'
    BY DEF Left, Acyclic
  <1> QED
    BY <1>1, <1>3, <1>4 DEF SearchInv

\* What each step does to the invariant of the search.
LEMMA SearchInvKeeps ==
  ASSUME NetInv, SearchInv, [Next]_vars
  PROVE  SearchInv'
  <1>1. CASE NextPass
    <2>1. pass # "cycles" => queue' = <<>> /\ stack' = <<>> /\ cycle' = {} /\ seen' = {}
      BY <1>1, Following DEF SearchInv
    <2>2. pass = "cycles" => queue' = <<>> /\ stack' = <<>> /\ cycle' = {} /\ seen' = {}
      <3> SUFFICES ASSUME pass = "cycles"
                   PROVE  queue' = <<>> /\ stack' = <<>> /\ cycle' = {} /\ seen' = {}
        OBVIOUS
      <3>1. queue = <<>> /\ cycle = {} /\ UNCHANGED <<queue, stack, cycle>> /\ seen' = {}
        BY <1>1, Following
      <3>2. \E level : Levels(level)
        BY <3>1 DEF SearchInv
      <3>3. stack = <<>>
        BY <3>1, <3>2 DEF Levels
      <3> QED
        BY <3>1, <3>3
    <2>3. pass' # "cycles"
      BY <1>1, Following
    <2> QED
      BY <2>1, <2>2, <2>3 DEF SearchInv
  <1>2. ASSUME NEW x \in todo,
               \/ SplitToExtracts(x) \/ JoinDependents(x) \/ LatchUntied(x)
               \/ SynthesizeFork(x) \/ Recombine(x) \/ CheckConnection(x)
        PROVE  SearchInv'
    <2>1. pass # "cycles" /\ pass' = pass /\ UNCHANGED <<queue, seen, stack, cycle>>
      BY <1>2, Visited DEF SplitToExtracts, JoinDependents, LatchUntied, SynthesizeFork, Recombine, CheckConnection
    <2> QED
      BY <2>1 DEF SearchInv
  <1>3. ASSUME NEW x \in todo, StartPath(x)
        PROVE  SearchInv'
    BY <1>3, StartPathKeeps
  <1>4. CASE PipelineFrequency
    <2>1. pass = "frequency" /\ pass' = "cycles" /\ todo' = Starts' /\ UNCHANGED <<queue, seen, stack, cycle>>
      BY <1>4 DEF PipelineFrequency, search
    <2> QED
      BY <2>1, SearchStarts DEF SearchInv
  <1>5. CASE VisitWire
    BY <1>5, VisitWireKeeps
  <1>6. CASE PopWire
    BY <1>6, PopWireKeeps
  <1>7. CASE BreakCycle
    <2>1. cycle # {} /\ todo' = Starts' /\ cycle' = {} /\ UNCHANGED <<pass, queue, seen, stack>>
      BY <1>7 DEF BreakCycle
    <2>2. pass = "cycles"
      BY <2>1 DEF SearchInv
    <2>3. queue = <<>> /\ stack = <<>> /\ seen = {}
      BY <2>1, <2>2 DEF SearchInv
    <2> QED
      BY <2>1, <2>2, <2>3, SearchStarts
  <1>8. CASE Done \/ UNCHANGED vars
    <2>1. UNCHANGED <<blocks, wires, pass, todo, queue, seen, stack, cycle>>
      BY <1>8 DEF Done, vars, net, search
    <2>2. /\ Plain' = Plain /\ Starts' = Starts /\ Path' = Path
          /\ \A c : IsPipelineReg(c)' = IsPipelineReg(c)
          /\ \A D : Acyclic(D)' = Acyclic(D)
          /\ \A level : Levels(level)' = Levels(level)
      BY <2>1 DEF Plain, Acyclic, Closed, Successors, Starts, Path, Levels, Target, IsPipelineReg, Is
    <2>3. \A D : Left(D)' = Left(D)
      BY <2>1, <2>2 DEF Left
    <2> QED
      BY <2>1, <2>2, <2>3 DEF SearchInv
  <1> QED
    BY <1>1, <1>2, <1>3, <1>4, <1>5, <1>6, <1>7, <1>8 DEF Next

-----------------------------------------------------------------------------
(* Cycles fed from outside                                                 *)

\* The new netlist is the old one with blocks put between: each block stands
\* for one of the old netlist, its owner, and the blocks of an owner have an
\* order, in which the wires between them lead.
Projects(owner, rank) ==
  /\ \A c \in DOMAIN blocks' : rank[c] \in 0..3
  /\ \A w \in wires' :
       \/ owner[w[1][1]] = owner[w[2][1]] /\ rank[w[1][1]] < rank[w[2][1]]
       \/ \E v \in wires : v[1][1] = owner[w[1][1]] /\ v[2][1] = owner[w[2][1]]
  /\ \A U \in SUBSET {b \in DOMAIN blocks' : blocks'[b].class \notin {"Input", "PipelineRegister"}} :
       (\A w \in wires' : w[2][1] \in U => w[1][1] \in U) =>
          \A u \in U : /\ owner[u] \in DOMAIN blocks
                       /\ blocks[owner[u]].class \notin {"Input", "PipelineRegister"}
                       /\ \A v \in wires : v[2][1] = owner[u] => \E x \in U : owner[x] = v[1][1]

\* An edit keeps the loops fed from outside if each new block belongs to a block
\* that was there, and the wires among those of one owner go one way.
LEMMA FedKept ==
  ASSUME FedFromOutside(blocks, wires), NEW owner, NEW rank, Projects(owner, rank)
  PROVE  FedFromOutside(blocks, wires)'
  <1> SUFFICES ASSUME NEW U \in SUBSET {b \in DOMAIN blocks' : blocks'[b].class \notin {"Input", "PipelineRegister"}},
                      \A w \in wires' : w[2][1] \in U => w[1][1] \in U,
                      NEW C \in (SUBSET U) \ {{}}
               PROVE  \E c \in C : \A w \in wires' : w[2][1] = c => w[1][1] \notin C
    BY DEF FedFromOutside
  <1> DEFINE V == {owner[u] : u \in U}
             B == {owner[c] : c \in C}
  <1>1. /\ \A c \in DOMAIN blocks' : rank[c] \in 0..3
        /\ \A w \in wires' :
             \/ owner[w[1][1]] = owner[w[2][1]] /\ rank[w[1][1]] < rank[w[2][1]]
             \/ \E v \in wires : v[1][1] = owner[w[1][1]] /\ v[2][1] = owner[w[2][1]]
        /\ \A u \in U : /\ owner[u] \in DOMAIN blocks
                        /\ blocks[owner[u]].class \notin {"Input", "PipelineRegister"}
                        /\ \A v \in wires : v[2][1] = owner[u] => \E x \in U : owner[x] = v[1][1]
    BY DEF Projects
  <1>2. V \in SUBSET {b \in DOMAIN blocks : blocks[b].class \notin {"Input", "PipelineRegister"}}
    BY <1>1
  <1>3. \A v \in wires : v[2][1] \in V => v[1][1] \in V
    BY <1>1
  <1>4. B \in (SUBSET V) \ {{}}
    OBVIOUS
  <1>5. PICK b \in B : \A v \in wires : v[2][1] = b => v[1][1] \notin B
    <2> HIDE DEF V, B
    <2> QED
      BY <1>2, <1>3, <1>4 DEF FedFromOutside
  <1>6. \E c \in C : owner[c] = b /\ \A d \in C : owner[d] = b => ~(rank[d] < rank[c])
    <2>1. PICK c \in C : owner[c] = b
      OBVIOUS
    <2>2. \A d \in C : rank[d] \in 0..3
      BY <1>1
    <2> DEFINE Lowest(m) == \E d \in C : owner[d] = b /\ rank[d] = m
    <2>3. CASE Lowest(0)
      BY <2>2, <2>3
    <2>4. CASE Lowest(1) /\ ~Lowest(0)
      BY <2>2, <2>4
    <2>5. CASE Lowest(2) /\ ~Lowest(1) /\ ~Lowest(0)
      BY <2>2, <2>5
    <2>6. CASE ~Lowest(2) /\ ~Lowest(1) /\ ~Lowest(0)
      <3>1. \A d \in C : owner[d] = b => rank[d] = 3
        BY <2>2, <2>6
      <3> QED
        BY <2>1, <3>1
    <2> QED
      BY <2>3, <2>4, <2>5, <2>6
  <1>7. PICK c \in C : owner[c] = b /\ \A d \in C : owner[d] = b => ~(rank[d] < rank[c])
    BY <1>6
  <1>8. ASSUME NEW w \in wires', w[2][1] = c, w[1][1] \in C
        PROVE  FALSE
    BY <1>1, <1>5, <1>7, <1>8
  <1> QED
    BY <1>8

\* A register or a latch belongs to the block it was inserted behind.
LEMMA InsertFed ==
  ASSUME NetOK, FedFromOutside(blocks, wires), NEW class \in {"PipelineRegister", "Latch"},
         NEW r \in {"reg", "latch", "late"}, NEW os, CanInsert(r, os), Effect(class, r, os)
  PROVE  FedFromOutside(blocks, wires)'
  <1>1. PICK owner : owner = [b \in DOMAIN blocks' |-> IF b \in DOMAIN blocks THEN b ELSE b[2][1]]
    OBVIOUS
  <1>2. PICK rank : rank = [b \in DOMAIN blocks' |-> IF b \in DOMAIN blocks THEN 0 ELSE 1]
    OBVIOUS
  <1>3. /\ DOMAIN blocks' = DOMAIN blocks \cup {<<r, o>> : o \in os}
        /\ \A b \in DOMAIN blocks : blocks'[b] = blocks[b]
        /\ \A w \in wires' :
             \/ w \in wires /\ w[1] \notin os
             \/ \E v \in wires : v[1] \in os /\ w = <<<<<<r, v[1]>>, 1>>, v[2]>>
             \/ w[1] \in os /\ w = <<w[1], <<<<r, w[1]>>, 1>>>>
        /\ \A w \in wires : IF w[1] \in os THEN <<<<<<r, w[1]>>, 1>>, w[2]>> \in wires' ELSE w \in wires'
        /\ \A o \in os : <<o, <<<<r, o>>, 1>>>> \in wires'
    BY DEF Effect
  <1>4. \A o \in os : /\ o[1] \in DOMAIN blocks /\ <<r, o>> \notin DOMAIN blocks /\ <<r, o>> \in DOMAIN blocks'
    BY <1>3 DEF CanInsert, IsOutput
  <1>5. \A w \in wires : w[1][1] \in DOMAIN blocks /\ w[2][1] \in DOMAIN blocks
    BY DEF NetOK, Joined
  <1>6. \A b \in DOMAIN blocks : owner[b] = b /\ rank[b] = 0
    BY <1>1, <1>2, <1>3
  <1>7. \A o \in os : owner[<<r, o>>] = o[1] /\ rank[<<r, o>>] = 1
    BY <1>1, <1>2, <1>4
  <1>8. \A c \in DOMAIN blocks' : rank[c] \in 0..3
    BY <1>2
  <1>9. ASSUME NEW w \in wires'
        PROVE  \/ owner[w[1][1]] = owner[w[2][1]] /\ rank[w[1][1]] < rank[w[2][1]]
               \/ \E v \in wires : v[1][1] = owner[w[1][1]] /\ v[2][1] = owner[w[2][1]]
    <2>1. CASE w \in wires
      BY <1>5, <1>6, <2>1
    <2>2. ASSUME NEW v \in wires, v[1] \in os, w = <<<<<<r, v[1]>>, 1>>, v[2]>>
          PROVE  v[1][1] = owner[w[1][1]] /\ v[2][1] = owner[w[2][1]]
      BY <1>5, <1>6, <1>7, <2>2
    <2>3. CASE w[1] \in os /\ w = <<w[1], <<<<r, w[1]>>, 1>>>>
      <3>1. w[1][1] \in DOMAIN blocks /\ w[2][1] = <<r, w[1]>>
        BY <1>4, <2>3
      <3>2. owner[w[1][1]] = w[1][1] /\ rank[w[1][1]] = 0 /\ owner[w[2][1]] = w[1][1] /\ rank[w[2][1]] = 1
        BY <1>6, <1>7, <2>3, <3>1
      <3> QED
        BY <3>2
    <2> QED
      BY <1>3, <2>1, <2>2, <2>3
  <1>10. ASSUME NEW U \in SUBSET {b \in DOMAIN blocks' : blocks'[b].class \notin {"Input", "PipelineRegister"}},
                \A w \in wires' : w[2][1] \in U => w[1][1] \in U,
                NEW u \in U
         PROVE  /\ owner[u] \in DOMAIN blocks
                /\ blocks[owner[u]].class \notin {"Input", "PipelineRegister"}
                /\ \A v \in wires : v[2][1] = owner[u] => \E x \in U : owner[x] = v[1][1]
    <2>1. owner[u] \in U /\ owner[u] \in DOMAIN blocks
      <3>1. CASE u \in DOMAIN blocks
        BY <1>6, <3>1
      <3>2. CASE u \notin DOMAIN blocks
        <4>1. PICK o \in os : u = <<r, o>>
          BY <1>3, <3>2
        <4>2. <<o, <<u, 1>>>> \in wires'
          BY <1>3, <4>1
        <4>3. o[1] \in U
          BY <1>10, <4>2
        <4> QED
          BY <1>4, <1>7, <4>1, <4>3
      <3> QED
        BY <3>1, <3>2
    <2>2. ASSUME NEW v \in wires, v[2][1] = owner[u]
          PROVE  \E x \in U : owner[x] = v[1][1]
      <3>1. CASE v[1] \in os
        <4>1. <<<<<<r, v[1]>>, 1>>, v[2]>> \in wires'
          BY <1>3, <3>1
        <4>2. <<r, v[1]>> \in U
          BY <1>10, <2>1, <2>2, <4>1
        <4> QED
          BY <1>7, <3>1, <4>2
      <3>2. CASE v[1] \notin os
        <4>1. v \in wires'
          BY <1>3, <3>2
        <4>2. v[1][1] \in U
          BY <1>10, <2>1, <2>2, <4>1
        <4> QED
          BY <1>5, <1>6, <4>2
      <3> QED
        BY <3>1, <3>2
    <2> QED
      BY <1>3, <2>1, <2>2
  <1>11. Projects(owner, rank)
    BY <1>8, <1>9, <1>10 DEF Projects
  <1> QED
    BY <1>11, FedKept

\* So do a fork and its register.
LEMMA ForkFed ==
  ASSUME NetInv, FedFromOutside(blocks, wires), NEW o, SynthesizeFork(o)
  PROVE  FedFromOutside(blocks, wires)'
  <1> DEFINE fork == <<"fork", o>>
             reg == <<"reg", o>>
  <1>1. IsOutput(o) /\ fork \notin DOMAIN blocks /\ reg \notin DOMAIN blocks
    BY Forked
  <1>2. PICK virt \in BOOLEAN, registered \in BOOLEAN : \E sinks : ForkEffect(o, virt, registered, sinks)
    BY Forked
  <1>3. PICK sinks : ForkEffect(o, virt, registered, sinks)
    BY <1>2
  <1>4. fork # reg
    OBVIOUS
  <1> HIDE DEF fork, reg
  <1>5. /\ DOMAIN blocks' = DOMAIN blocks \cup {fork} \cup (IF registered THEN {reg} ELSE {})
        /\ \A b \in DOMAIN blocks : blocks'[b] = blocks[b]
        /\ registered => blocks'[reg] = Block("PipelineRegister", 1, 1)
        /\ \A w \in wires' :
           \/ w \in wires /\ w[1] # o
           \/ \E k \in 1..Len(sinks) : w = <<<<fork, k>>, sinks[k]>>
           \/ registered /\ (w = <<o, <<reg, 1>>>> \/ w = <<<<reg, 1>>, <<fork, 1>>>>)
           \/ ~registered /\ w = <<o, <<fork, 1>>>>
        /\ \A w \in wires : w[1] # o => w \in wires'
        /\ \A k \in 1..Len(sinks) : <<<<fork, k>>, sinks[k]>> \in wires'
        /\ IF registered THEN <<o, <<reg, 1>>>> \in wires' /\ <<<<reg, 1>>, <<fork, 1>>>> \in wires'
                         ELSE <<o, <<fork, 1>>>> \in wires'
        /\ \A k \in 1..Len(sinks) : \E v \in wires : v[1] = o /\ v[2] = sinks[k]
        /\ \A v \in wires : v[1] = o => \E k \in 1..Len(sinks) : sinks[k] = v[2]
    BY <1>3 DEF ForkEffect, fork, reg
  <1>6. PICK owner : owner = [b \in DOMAIN blocks' |-> IF b \in DOMAIN blocks THEN b ELSE o[1]]
    OBVIOUS
  <1>7. PICK rank : rank = [b \in DOMAIN blocks' |-> IF b \in DOMAIN blocks THEN 0 ELSE IF b = reg THEN 1 ELSE 2]
    OBVIOUS
  <1>8. o[1] \in DOMAIN blocks
    BY <1>1 DEF IsOutput
  <1>9. \A w \in wires : w[1][1] \in DOMAIN blocks /\ w[2][1] \in DOMAIN blocks
    BY DEF NetInv, NetOK, Joined
  <1>10. /\ \A b \in DOMAIN blocks : owner[b] = b /\ rank[b] = 0
         /\ owner[fork] = o[1] /\ rank[fork] = 2
         /\ registered => owner[reg] = o[1] /\ rank[reg] = 1
    BY <1>1, <1>4, <1>5, <1>6, <1>7
  <1>11. \A c \in DOMAIN blocks' : rank[c] \in 0..3
    BY <1>7
  <1>12. ASSUME NEW w \in wires'
         PROVE  \/ owner[w[1][1]] = owner[w[2][1]] /\ rank[w[1][1]] < rank[w[2][1]]
                \/ \E v \in wires : v[1][1] = owner[w[1][1]] /\ v[2][1] = owner[w[2][1]]
    <2>1. CASE w \in wires
      BY <1>9, <1>10, <2>1
    <2>2. ASSUME NEW k \in 1..Len(sinks), w = <<<<fork, k>>, sinks[k]>>
          PROVE  \E v \in wires : v[1][1] = owner[w[1][1]] /\ v[2][1] = owner[w[2][1]]
      <3>1. PICK v \in wires : v[1] = o /\ v[2] = sinks[k]
        BY <1>5
      <3>2. owner[w[1][1]] = o[1] /\ owner[w[2][1]] = v[2][1]
        BY <1>9, <1>10, <2>2, <3>1
      <3> QED
        BY <3>1, <3>2
    <2>3. CASE registered /\ w = <<o, <<reg, 1>>>>
      BY <1>8, <1>10, <2>3
    <2>4. CASE registered /\ w = <<<<reg, 1>>, <<fork, 1>>>>
      BY <1>10, <2>4
    <2>5. CASE w = <<o, <<fork, 1>>>>
      BY <1>8, <1>10, <2>5
    <2> QED
      BY <1>5, <2>1, <2>2, <2>3, <2>4, <2>5
  <1>13. ASSUME NEW U \in SUBSET {b \in DOMAIN blocks' : blocks'[b].class \notin {"Input", "PipelineRegister"}},
                \A w \in wires' : w[2][1] \in U => w[1][1] \in U,
                NEW u \in U
         PROVE  /\ owner[u] \in DOMAIN blocks
                /\ blocks[owner[u]].class \notin {"Input", "PipelineRegister"}
                /\ \A v \in wires : v[2][1] = owner[u] => \E x \in U : owner[x] = v[1][1]
    <2>1. registered => reg \notin U
      BY <1>5 DEF Block
    <2>2. fork \in U => ~registered /\ o[1] \in U
      BY <1>5, <1>13, <2>1
    <2>3. owner[u] \in U /\ owner[u] \in DOMAIN blocks
      BY <1>5, <1>8, <1>10, <2>1, <2>2
    <2>4. ASSUME NEW v \in wires, v[2][1] = owner[u]
          PROVE  \E x \in U : owner[x] = v[1][1]
      <3>1. CASE v[1] = o
        <4>1. PICK k \in 1..Len(sinks) : sinks[k] = v[2]
          BY <1>5, <3>1
        <4>2. <<<<fork, k>>, sinks[k]>> \in wires'
          BY <1>5
        <4>3. fork \in U
          BY <1>13, <2>3, <2>4, <4>1, <4>2
        <4> QED
          BY <1>10, <3>1, <4>3
      <3>2. CASE v[1] # o
        <4>1. v[1][1] \in U
          BY <1>5, <1>13, <2>3, <2>4, <3>2
        <4> QED
          BY <1>9, <1>10, <4>1
      <3> QED
        BY <3>1, <3>2
    <2> QED
      BY <1>5, <2>3, <2>4
  <1>14. Projects(owner, rank)
    BY <1>11, <1>12, <1>13 DEF Projects
  <1> QED
    BY <1>14, FedKept

\* And so do a join, its fork and the extracts.
LEMMA RebuiltFed ==
  ASSUME NetInv, FedFromOutside(blocks, wires), NEW b \in DOMAIN blocks, NEW K, NEW N, Rebuilt(b, K, N),
         N \cap DOMAIN blocks = {}
  PROVE  FedFromOutside(blocks, wires)'
  <1>1. /\ K \subseteq DOMAIN blocks /\ DOMAIN blocks \ {b} \subseteq K
        /\ DOMAIN blocks' = K \cup N
        /\ \A c \in K : blocks'[c] = blocks[c]
        /\ \A k \in 1..blocks[b].outs : <<"extract", b, k>> \in N
        /\ \A w \in wires' : w[2][1] \notin N => \E v \in wires : v[2][1] \in K /\ w = Moved(b, v)
        /\ \A v \in wires : v[2][1] \in K => Moved(b, v) \in wires'
    BY DEF Rebuilt
  <1>2. \A w \in wires' : w[2][1] \in N =>
          \/ w[1][1] = b /\ b \in K
          \/ w[1][1] \in N /\ Stage(w[1][1]) < Stage(w[2][1])
          \/ \E v \in wires : v[2][1] = b /\ v[1] = w[1] /\ w[1][1] \in K
    BY DEF Rebuilt
  <1>3. \A U : (U \cap N # {} /\ \A w \in wires' : w[2][1] \in U => w[1][1] \in U) =>
          IF b \in K THEN b \in U
          ELSE blocks[b].class = "Split" /\ \A v \in wires : v[2][1] = b => v[1][1] \in U
    BY DEF Rebuilt
  <1>4. PICK owner : owner = [c \in DOMAIN blocks' |-> IF c \in N THEN b ELSE c]
    OBVIOUS
  <1>5. PICK rank : rank = [c \in DOMAIN blocks' |-> IF c \in N THEN Stage(c) ELSE 0]
    OBVIOUS
  <1>6. \A c \in K : c \notin N /\ owner[c] = c /\ rank[c] = 0
    BY <1>1, <1>4, <1>5
  <1>7. \A c \in N : owner[c] = b /\ rank[c] = Stage(c) /\ Stage(c) \in 1..3
    BY <1>1, <1>4, <1>5 DEF Stage
  <1>8. \A w \in wires : /\ w[1][1] \in DOMAIN blocks /\ w[1][2] \in 1..blocks[w[1][1]].outs
                         /\ w[2][1] \in DOMAIN blocks
    BY DEF NetInv, NetOK, Joined
  <1>9. \A c \in DOMAIN blocks' : rank[c] \in 0..3
    BY <1>1, <1>6, <1>7
  <1>10. ASSUME NEW v \in wires, v[2][1] \in K
         PROVE  owner[Moved(b, v)[1][1]] = v[1][1] /\ Moved(b, v)[2] = v[2]
    <2>1. CASE v[1][1] = b
      <3>1. Moved(b, v)[1][1] = <<"extract", b, v[1][2]>> /\ Moved(b, v)[2] = v[2]
        BY <2>1 DEF Moved
      <3>2. <<"extract", b, v[1][2]>> \in N
        BY <1>1, <1>8, <2>1
      <3> QED
        BY <1>7, <2>1, <3>1, <3>2
    <2>2. CASE v[1][1] # b
      BY <1>1, <1>6, <1>8, <2>2 DEF Moved
    <2> QED
      BY <2>1, <2>2
  <1>11. ASSUME NEW w \in wires'
         PROVE  \/ owner[w[1][1]] = owner[w[2][1]] /\ rank[w[1][1]] < rank[w[2][1]]
                \/ \E v \in wires : v[1][1] = owner[w[1][1]] /\ v[2][1] = owner[w[2][1]]
    <2>1. CASE w[2][1] \notin N
      <3>1. PICK v \in wires : v[2][1] \in K /\ w = Moved(b, v)
        BY <1>1, <2>1
      <3> QED
        BY <1>6, <1>10, <3>1
    <2>2. CASE w[2][1] \in N
      <3>1. CASE w[1][1] = b /\ b \in K
        BY <1>6, <1>7, <2>2, <3>1
      <3>2. CASE w[1][1] \in N /\ Stage(w[1][1]) < Stage(w[2][1])
        BY <1>7, <2>2, <3>2
      <3>3. CASE \E v \in wires : v[2][1] = b /\ v[1] = w[1] /\ w[1][1] \in K
        BY <1>6, <1>7, <2>2, <3>3
      <3> QED
        BY <1>2, <2>2, <3>1, <3>2, <3>3
    <2> QED
      BY <2>1, <2>2
  <1>12. ASSUME NEW U \in SUBSET {c \in DOMAIN blocks' : blocks'[c].class \notin {"Input", "PipelineRegister"}},
                \A w \in wires' : w[2][1] \in U => w[1][1] \in U,
                NEW u \in U
         PROVE  /\ owner[u] \in DOMAIN blocks
                /\ blocks[owner[u]].class \notin {"Input", "PipelineRegister"}
                /\ \A v \in wires : v[2][1] = owner[u] => \E x \in U : owner[x] = v[1][1]
    <2>1. ASSUME NEW c \in U, c \in K
          PROVE  /\ c \in DOMAIN blocks
                 /\ blocks[c].class \notin {"Input", "PipelineRegister"}
                 /\ \A v \in wires : v[2][1] = c => \E x \in U : owner[x] = v[1][1]
      <3>1. ASSUME NEW v \in wires, v[2][1] = c
            PROVE  \E x \in U : owner[x] = v[1][1]
        <4>1. Moved(b, v) \in wires' /\ Moved(b, v)[2][1] \in U
          BY <1>1, <1>10, <2>1, <3>1
        <4>2. Moved(b, v)[1][1] \in U
          BY <1>12, <4>1
        <4> QED
          BY <1>10, <2>1, <3>1, <4>2
      <3> QED
        BY <1>1, <2>1, <3>1
    <2>2. CASE u \in K
      BY <1>6, <2>1, <2>2
    <2>3. CASE u \in N /\ b \in K
      <3>1. b \in U
        BY <1>3, <1>12, <2>3
      <3> QED
        BY <1>7, <2>1, <2>3, <3>1
    <2>4. CASE u \in N /\ b \notin K
      <3>1. blocks[b].class = "Split" /\ \A v \in wires : v[2][1] = b => v[1][1] \in U
        BY <1>3, <1>12, <2>4
      <3>2. \A v \in wires : v[2][1] = b => owner[v[1][1]] = v[1][1]
        <4> SUFFICES ASSUME NEW v \in wires, v[2][1] = b
                     PROVE  v[1][1] \in K
          BY <1>6
        <4> v[1][1] \in U /\ v[1][1] \in K \cup N
          BY <1>1, <3>1
        <4> QED
          BY <1>8
      <3> QED
        BY <1>7, <2>4, <3>1, <3>2
    <2> QED
      BY <1>1, <2>2, <2>3, <2>4
  <1>13. Projects(owner, rank)
    BY <1>9, <1>11, <1>12 DEF Projects
  <1> QED
    BY <1>13, FedKept

\* Up to the search, the loops are fed from outside.
FedInv == pass \notin {"connections", "done"} => FedFromOutside(blocks, wires)

\* After it, there are none.
LoopInv == pass \in {"connections", "done"} => NoLoops

\* A search that ends without a cycle has left every block that an input or a
\* register feeds, and no other block is on a cycle.
LEMMA SearchEnds ==
  ASSUME NetInv, FedFromOutside(blocks, wires), todo = {}, queue = <<>>, stack = <<>>,
         NEW D, Left(D)
  PROVE  NoLoops
  <1>1. D \in SUBSET Plain /\ Acyclic(D)
    BY DEF Left
  <1>2. \A w \in Starts : IsPipelineReg(w[2][1]) \/ w[2][1] \in D
    <2>1. Range(queue) = {} /\ Range(stack) = {}
      BY DEF Range
    <2> QED
      BY <2>1 DEF Left
  <1>3. \A w \in wires : /\ w[1][1] \in DOMAIN blocks
                         /\ w[2][1] \in DOMAIN blocks /\ w[2][2] \in 1..blocks[w[2][1]].ins
    BY DEF NetInv, NetOK, Joined
  <1> DEFINE U == {b \in Plain : b \notin D /\ ~Is(b, "Input")}
  <1>4. U \in SUBSET {b \in DOMAIN blocks : blocks[b].class \notin {"Input", "PipelineRegister"}}
    BY DEF Plain, IsPipelineReg, Is
  <1>5. ASSUME NEW w \in wires, w[2][1] \in U
        PROVE  w[1][1] \in U
    <2>1. w \notin Starts
      BY <1>2, <1>5 DEF Plain
    <2>2. ~Is(w[1][1], "Input") /\ w[1][1] \in Plain
      BY <1>3, <2>1 DEF Starts, Plain
    <2>3. w[1][1] \notin D
      <3> SUFFICES ASSUME w[1][1] \in D
                   PROVE  FALSE
        OBVIOUS
      <3>1. PICK S \in SUBSET (D \ {w[1][1]}) : Successors(w[1][1]) \subseteq S
        BY <1>1 DEF Acyclic
      <3>2. w[2][1] \in Successors(w[1][1])
        BY <1>5 DEF Successors, Plain
      <3> QED
        BY <1>5, <3>1, <3>2
    <2> QED
      BY <2>2, <2>3
  <1>6. ASSUME NEW C \in (SUBSET U) \ {{}}
        PROVE  \E c \in C : \A w \in wires : w[2][1] = c => w[1][1] \notin C
    <2> HIDE DEF U
    <2> QED
      BY <1>4, <1>5, <1>6 DEF FedFromOutside
  <1> SUFFICES ASSUME NEW b \in Plain
               PROVE  \E S \in SUBSET Plain : Successors(b) \subseteq S /\ Closed(S) /\ b \notin S
    BY DEF NoLoops
  <1>7. CASE b \in D
    <2>1. PICK S \in SUBSET (D \ {b}) : Successors(b) \subseteq S /\ Closed(S)
      BY <1>1, <1>7 DEF Acyclic
    <2> QED
      BY <1>1, <2>1
  <1>8. CASE b \notin D
    <2> DEFINE F == {T \in SUBSET Plain : Successors(b) \subseteq T /\ Closed(T)}
               S == {c \in Plain : \A T \in F : c \in T}
    <2>1. \A c : Successors(c) \subseteq Plain
      BY <1>3 DEF Successors, Plain
    <2>2. S \in F
      <3>1. Successors(b) \subseteq S
        BY <2>1
      <3>2. Closed(S)
        BY <2>1 DEF Closed
      <3> QED
        BY <3>1, <3>2
    <2>3. SUFFICES ASSUME b \in S
                   PROVE  FALSE
      BY <2>2
    <2>4. ASSUME NEW c \in S
          PROVE  \E p \in S : c \in Successors(p)
      <3> SUFFICES ASSUME \A p \in S : c \notin Successors(p)
                   PROVE  FALSE
        OBVIOUS
      <3>1. S \ {c} \in F
        <4>1. Successors(b) \subseteq S \ {c}
          BY <2>2, <2>3
        <4>2. Closed(S \ {c})
          BY <2>2 DEF Closed
        <4> QED
          BY <4>1, <4>2
      <3>2. c \in S \ {c}
        BY <2>4, <3>1
      <3> QED
        BY <3>2
    <2> HIDE DEF S, F
    <2>5. S \subseteq Plain
      BY DEF S
    <2>6. \A c \in S : c \in U => \E p \in S : p \in U /\ \E w \in wires : w[1][1] = p /\ w[2][1] = c
      <3> TAKE c \in S
      <3> HAVE c \in U
      <3>1. PICK p \in S : c \in Successors(p)
        BY <2>4
      <3>2. PICK w \in wires : w[1][1] = p /\ w[2][1] = c
        BY <3>1 DEF Successors
      <3>3. p \in U
        BY <1>5, <3>2
      <3> QED
        BY <3>2, <3>3
    <2>7. b \in U
      <3>1. PICK p \in S : b \in Successors(p)
        BY <2>3, <2>4
      <3>2. PICK w \in wires : w[2][1] = b
        BY <3>1 DEF Successors
      <3>3. w[2][2] \in 1..blocks[b].ins
        BY <1>3, <3>2
      <3>4. ~Is(b, "Input")
        <4> SUFFICES ASSUME Is(b, "Input")
                     PROVE  FALSE
          OBVIOUS
        <4>1. blocks[b].ins = 0
          BY DEF NetInv, NetOK, Ports, Is, Plain
        <4> QED
          BY <3>3, <4>1
      <3> QED
        BY <1>8, <3>4
    <2> DEFINE C == S \cap U
    <2>8. C \in (SUBSET U) \ {{}}
      BY <2>3, <2>7
    <2>9. PICK c \in C : \A w \in wires : w[2][1] = c => w[1][1] \notin C
      BY <1>6, <2>8
    <2> HIDE DEF U
    <2> QED
      BY <2>6, <2>9
  <1> QED
    BY <1>7, <1>8

\* A source that never has a token is on no cycle.
LEMMA CheckConnectionLoops ==
  ASSUME NetInv, NoLoops, NEW i, CheckConnection(i)
  PROVE  NoLoops'
  <1> DEFINE never == <<"never", i>>
  <1>1. pass = "connections" /\ i \in todo /\ wires' = wires \cup {<<<<never, 1>>, i>>}
    BY Visited DEF CheckConnection
  <1>2. never \notin DOMAIN blocks
    <2>1. Role(never) = "never" /\ never[2] = i
      BY Roles
    <2> QED
      BY <1>1, <2>1 DEF NetInv, Fresh, RolesOf
  <1>3. /\ DOMAIN blocks' = DOMAIN blocks \cup {never}
        /\ \A b \in DOMAIN blocks : blocks'[b] = blocks[b]
        /\ blocks'[never] = Block("Never", 0, 1)
    BY <1>2 DEF CheckConnection, With
  <1>4. i[1] \in DOMAIN blocks
    BY <1>1 DEF NetInv, ToVisit
  <1>5. \A w \in wires : w[1][1] \in DOMAIN blocks /\ w[2][1] \in DOMAIN blocks
    BY DEF NetInv, NetOK, Joined
  <1> HIDE DEF never
  <1>6. /\ \A b \in DOMAIN blocks : IsPipelineReg(b)' <=> IsPipelineReg(b)
        /\ ~IsPipelineReg(never)'
    BY <1>3 DEF IsPipelineReg, Is, Block
  <1>7. Plain' = Plain \cup {never}
    BY <1>3, <1>6 DEF Plain
  <1>8. \A b \in Plain : Successors(b)' = Successors(b)
    BY <1>1, <1>2, <1>5, <1>6 DEF Successors, Plain
  <1>9. Successors(never)' \subseteq {i[1]} \cap Plain
    BY <1>1, <1>2, <1>4, <1>5, <1>6 DEF Successors, Plain
  <1>10. \A S \in SUBSET Plain : Closed(S)' <=> Closed(S)
    BY <1>8 DEF Closed
  <1>11. ASSUME NEW b \in Plain'
         PROVE  \E S \in SUBSET Plain' : Successors(b)' \subseteq S /\ Closed(S)' /\ b \notin S
    <2>1. CASE b \in Plain
      <3>1. PICK S \in SUBSET Plain : Successors(b) \subseteq S /\ Closed(S) /\ b \notin S
        BY <2>1 DEF NoLoops
      <3> QED
        BY <1>7, <1>8, <1>10, <2>1, <3>1
    <2>2. CASE b = never
      <3>1. Plain \in SUBSET Plain' /\ never \notin Plain
        BY <1>2, <1>7 DEF Plain
      <3>2. Closed(Plain)
        BY <1>5 DEF Closed, Successors, Plain
      <3>4. PICK S : S = Plain
        OBVIOUS
      <3>5. Closed(S)' /\ Successors(never)' \subseteq S /\ S \in SUBSET Plain' /\ never \notin S
        BY <1>9, <1>10, <3>1, <3>2, <3>4
      <3> QED
        BY <2>2, <3>5
    <2> QED
      BY <1>7, <2>1, <2>2
  <1> QED
    BY <1>11 DEF NoLoops

\* What each step does to the cycles.
LEMMA LoopsKept ==
  ASSUME NetInv, SearchInv, FedInv, LoopInv, [Next]_vars
  PROVE  FedInv' /\ LoopInv'
  <1>1. CASE NextPass
    <2>1. /\ todo = {} /\ queue = <<>> /\ cycle = {} /\ UNCHANGED <<blocks, wires>>
          /\ pass' # pass
          /\ pass' = "connections" => pass = "cycles"
          /\ pass' = "done" => pass = "connections"
          /\ pass \in {"connections", "done"} => pass' \in {"connections", "done"}
      BY <1>1, Following
    <2>2. pass' \notin {"connections", "done"} => FedFromOutside(blocks, wires)'
      BY <2>1 DEF FedInv, FedFromOutside
    <2>3. ASSUME pass = "cycles"
          PROVE  NoLoops
      <3>1. PICK D : Left(D)
        BY <2>1, <2>3 DEF SearchInv
      <3>2. stack = <<>>
        <4>1. \E level : Levels(level)
          BY <2>1, <2>3 DEF SearchInv
        <4> QED
          BY <2>1, <4>1 DEF Levels
      <3> QED
        BY <2>1, <2>3, <3>1, <3>2, SearchEnds DEF FedInv
    <2>4. NoLoops' <=> NoLoops
      BY <2>1 DEF NoLoops, Plain, Successors, Closed, IsPipelineReg, Is
    <2> QED
      BY <2>1, <2>2, <2>3, <2>4 DEF FedInv, LoopInv
  <1>2. ASSUME NEW b \in todo, SplitToExtracts(b) \/ JoinDependents(b)
        PROVE  FedInv' /\ LoopInv'
    <2>1. pass = "dependents" /\ pass' = "dependents" /\ todo' = todo \ {b} /\ clocked' = clocked
      BY <1>2, Visited DEF SplitToExtracts, JoinDependents
    <2>2. PICK K, N : Rebuilt(b, K, N)
      BY <1>2, SplitRebuilds, JoinRebuilds
    <2>3. N \cap DOMAIN blocks = {}
      BY <2>1, <2>2, DependentsKeep
    <2>4. b \in DOMAIN blocks
      BY <2>1 DEF NetInv, ToVisit
    <2>5. FedFromOutside(blocks, wires)'
      BY <2>1, <2>2, <2>3, <2>4, RebuiltFed DEF FedInv
    <2> QED
      BY <2>1, <2>5 DEF FedInv, LoopInv
  <1>3. ASSUME NEW o \in todo, SynthesizeFork(o)
        PROVE  FedInv' /\ LoopInv'
    <2>1. pass = "forks" /\ pass' = "forks"
      BY <1>3, Visited DEF SynthesizeFork
    <2>2. FedFromOutside(blocks, wires)'
      BY <1>3, <2>1, ForkFed DEF FedInv
    <2> QED
      BY <2>1, <2>2 DEF FedInv, LoopInv
  <1>4. ASSUME Inserts, pass \notin {"connections", "done"}, pass' \notin {"connections", "done"}
        PROVE  FedInv' /\ LoopInv'
    <2>0. PICK class \in {"PipelineRegister", "Latch"}, r \in {"reg", "latch", "late"} :
            \E os : CanInsert(r, os) /\ InsertAfter(class, Behind(r, os))
      BY <1>4 DEF Inserts
    <2>3. PICK os : CanInsert(r, os) /\ InsertAfter(class, Behind(r, os))
      BY <2>0
    <2>1. Effect(class, r, os)
      BY <2>3, InsertedBehind DEF NetInv
    <2>2. FedFromOutside(blocks, wires)'
      BY <1>4, <2>1, <2>3, InsertFed DEF NetInv, FedInv
    <2> QED
      BY <1>4, <2>2 DEF FedInv, LoopInv
  <1>5. ASSUME NEW o \in todo, LatchUntied(o)
        PROVE  FedInv' /\ LoopInv'
    <2>1. pass = "latches" /\ pass' = "latches"
      BY <1>5, Visited DEF LatchUntied
    <2>2. Inserts
      BY <1>5, LatchUntiedKeeps
    <2> QED
      BY <1>4, <2>1, <2>2
  <1>6. ASSUME NEW f \in todo, Recombine(f)
        PROVE  FedInv' /\ LoopInv'
    <2>1. pass = "recombine" /\ pass' = "recombine"
      BY <1>6, Visited DEF Recombine
    <2>2. Inserts
      BY <1>6, RecombineKeeps
    <2> QED
      BY <1>4, <2>1, <2>2
  <1>7. CASE PipelineFrequency
    <2>1. pass = "frequency" /\ pass' = "cycles"
      BY <1>7 DEF PipelineFrequency
    <2>2. Inserts
      BY <1>7, PipelineFrequencyKeeps
    <2> QED
      BY <1>4, <2>1, <2>2
  <1>8. CASE BreakCycle
    <2>1. pass = "cycles" /\ pass' = "cycles"
      BY <1>8 DEF BreakCycle, SearchInv
    <2>2. Inserts
      BY <1>8, BreakCycleKeeps
    <2> QED
      BY <1>4, <2>1, <2>2
  <1>9. ASSUME NEW i \in todo, CheckConnection(i)
        PROVE  FedInv' /\ LoopInv'
    <2>1. pass = "connections" /\ pass' = "connections"
      BY <1>9, Visited DEF CheckConnection
    <2>2. NoLoops'
      BY <1>9, <2>1, CheckConnectionLoops DEF LoopInv
    <2> QED
      BY <2>1, <2>2 DEF FedInv, LoopInv
  <1>10. ASSUME UNCHANGED <<blocks, wires, pass>>
         PROVE  FedInv' /\ LoopInv'
    <2>1. NoLoops' <=> NoLoops
      BY <1>10 DEF NoLoops, Plain, Successors, Closed, IsPipelineReg, Is
    <2>2. FedFromOutside(blocks, wires)' <=> FedFromOutside(blocks, wires)
      BY <1>10
    <2> QED
      BY <1>10, <2>1, <2>2 DEF FedInv, LoopInv
  <1>11. CASE VisitWire \/ PopWire \/ Done \/ UNCHANGED vars \/ \E x \in todo : StartPath(x)
    <2>1. UNCHANGED <<blocks, wires, pass>>
      BY <1>11 DEF VisitWire, PopWire, Done, StartPath, vars, net
    <2> QED
      BY <1>10, <2>1
  <1> QED
    BY <1>1, <1>2, <1>3, <1>5, <1>6, <1>7, <1>8, <1>9, <1>11 DEF Next

-----------------------------------------------------------------------------
(* What the invariants are for                                             *)

\* The invariants give the types.
LEMMA TypesHold ==
  ASSUME NetInv, SearchInv
  PROVE  TypeOK
  <1>1. ASSUME NEW w \in wires
        PROVE  w \in AllOutputs \X AllInputs
    <2>1. Joined(w)
      BY DEF NetInv, NetOK
    <2>2. w[1] = <<w[1][1], w[1][2]>> /\ w[2] = <<w[2][1], w[2][2]>> /\ w = <<w[1], w[2]>>
      BY WiresJoin
    <2>3. w[1] \in AllOutputs
      BY <2>1, <2>2 DEF Joined, AllOutputs, Outputs
    <2>4. w[2] \in AllInputs
      BY <2>1, <2>2 DEF Joined, AllInputs, Inputs
    <2> QED
      BY <2>2, <2>3, <2>4
  <1>2. ASSUME NEW n \in 2..Len(stack)
        PROVE  stack[n][1] \in Deps(stack[n - 1][2])
    <2>1. stack # <<>>
      BY <1>2
    <2>2. Path
      BY <2>1 DEF SearchInv
    <2>3. stack \in Seq(wires) /\ n \in DOMAIN stack /\ n - 1 \in DOMAIN stack /\ n # 1
      BY <1>2, <2>2 DEF Path
    <2>4. stack[n][1][1] = stack[n - 1][2][1] /\ stack[n] \in wires
      BY <2>2, <2>3 DEF Path, Target
    <2>5. Joined(stack[n])
      BY <2>4 DEF NetInv, NetOK
    <2>6. stack[n][1] = <<stack[n][1][1], stack[n][1][2]>>
      BY <2>4, WiresJoin
    <2> QED
      BY <2>4, <2>5, <2>6 DEF Joined, Deps, Outputs
  <1> QED
    BY <1>1, <1>2 DEF TypeOK, NetInv, NetOK

\* Every state of the passes satisfies the invariants.
LEMMA Invariants == Spec => [](NetInv /\ SearchInv)
  <1>1. Init => NetInv /\ SearchInv
    <2>1. Init => SearchInv
      BY DEF Init, SearchInv
    <2> QED
      BY <2>1, NetStarts
  <1>2. NetInv /\ SearchInv /\ [Next]_vars => NetInv' /\ SearchInv'
    BY NetKeeps, SearchInvKeeps
  <1> QED
    BY <1>1, <1>2, PTL DEF Spec

\* The passes keep a netlist whose wires join ports that exist, with one driver
\* for each input, and the search for a cycle keeps a path.
THEOREM TypeCorrect == Spec => []TypeOK
  <1>1. NetInv /\ SearchInv => TypeOK
    BY TypesHold
  <1> QED
    BY <1>1, Invariants, PTL

\* No output has two consumers once SynthesizeForksPass has made its forks,
\* whatever the registers that the later passes insert.
THEOREM OneConsumerEach == Spec => []OneConsumer
  <1>1. NetInv => OneConsumer
    BY DEF NetInv, Consumers, OneConsumer
  <1> QED
    BY <1>1, Invariants, PTL

\* Induction up to a bound.
LEMMA Induction ==
  ASSUME NEW L \in Nat, NEW T, 0 \in T, \A n \in 1..L : n - 1 \in T => n \in T
  PROVE  0..L \subseteq T
  <1> DEFINE Below(n) == {k \in 0..L : k < n}
             R == StrictSubsetOrdering(0..L)
             U == {Below(n) : n \in (0..L) \ T}
  <1> SUFFICES ASSUME NEW z \in (0..L) \ T
               PROVE  FALSE
    OBVIOUS
  <1>1. IsFiniteSet(0..L)
    BY FS_Interval
  <1>2. FiniteSubsetsOf(0..L) = SUBSET (0..L)
    BY <1>1, FS_FiniteSubsetsOfFinite
  <1>3. IsWellFoundedOn(R, SUBSET (0..L))
    BY <1>2, FS_StrictSubsetOrderingWellFounded
  <1>4. U # {} /\ U \subseteq SUBSET (0..L)
    OBVIOUS
  <1>5. \E S \in U : \A V \in U : <<V, S>> \notin R
    <2> HIDE DEF R, U
    <2> QED BY <1>3, <1>4, WFMin
  <1>6. PICK n \in (0..L) \ T : \A m \in (0..L) \ T : <<Below(m), Below(n)>> \notin R
    BY <1>5
  <1>7. n \in 1..L /\ n - 1 \in (0..L) \ T
    BY <1>6
  <1>8. <<Below(n - 1), Below(n)>> \in R
    <2>1. n - 1 \in Below(n) /\ n - 1 \notin Below(n - 1)
      BY <1>7
    <2>2. Below(n - 1) \subseteq Below(n)
      BY <1>7
    <2> HIDE DEF Below
    <2>3. Below(n - 1) # Below(n)
      BY <2>1
    <2>4. Below(n - 1) \in SUBSET (0..L) /\ Below(n) \in SUBSET (0..L)
      BY DEF Below
    <2> QED
      BY <2>2, <2>3, <2>4 DEF StrictSubsetOrdering
  <1> QED
    BY <1>6, <1>7, <1>8


\* What Closure adds in a step.
Spread(next, S) == UNION {IF x \in DOMAIN next THEN {x} \cup next[x] ELSE {x} : x \in S}

\* reach gives what can be reached in up to m steps.
Reaches(next, from, m, reach) ==
  reach = [n \in 0..m |-> IF n = 0 THEN from ELSE Spread(next, reach[n - 1])]

\* The function that Closure builds exists.
LEMMA ReachExists ==
  ASSUME NEW next, NEW from, NEW L \in Nat
  PROVE  \E reach : Reaches(next, from, L, reach)
  <1> DEFINE T == {m \in 0..L : \E reach : Reaches(next, from, m, reach)}
  <1>1. 0 \in T
    <2>1. PICK g : g = [n \in 0..0 |-> from]
      OBVIOUS
    <2>2. Reaches(next, from, 0, g)
      BY <2>1 DEF Reaches
    <2> QED
      BY <2>2
  <1>2. ASSUME NEW m \in 1..L, m - 1 \in T
        PROVE  m \in T
    <2>1. PICK g : Reaches(next, from, m - 1, g)
      BY <1>2
    <2>2. PICK h : h = [n \in 0..m |-> IF n = m THEN Spread(next, g[m - 1]) ELSE g[n]]
      OBVIOUS
    <2>3. ASSUME NEW n \in 0..m
          PROVE  h[n] = IF n = 0 THEN from ELSE Spread(next, h[n - 1])
      <3>1. CASE n = m
        <4>1. h[n] = Spread(next, g[m - 1]) /\ h[n - 1] = g[m - 1]
          BY <1>2, <2>2, <3>1
        <4> QED
          BY <1>2, <3>1, <4>1
      <3>2. CASE n # m
        <4>1. n \in 0..(m - 1) /\ (n # 0 => n - 1 \in 0..m /\ n - 1 # m)
          BY <1>2, <3>2
        <4>2. h[n] = g[n] /\ (n # 0 => h[n - 1] = g[n - 1])
          BY <2>2, <3>2, <4>1
        <4>3. g[n] = IF n = 0 THEN from ELSE Spread(next, g[n - 1])
          BY <2>1, <4>1 DEF Reaches
        <4> QED
          BY <4>2, <4>3
      <3> QED
        BY <3>1, <3>2
    <2>4. h = [n \in 0..m |-> h[n]]
      BY <2>2
    <2>5. Reaches(next, from, m, h)
      BY <2>3, <2>4 DEF Reaches
    <2> QED
      BY <1>2, <2>5
  <1> HIDE DEF T
  <1>3. L \in T
    BY <1>1, <1>2, Induction
  <1> QED
    BY <1>3 DEF T

\* Closure stays in a set that holds where it starts and is closed under next.
LEMMA ClosureWithin ==
  ASSUME NEW next, IsFiniteSet(DOMAIN next), NEW S, NEW from \in SUBSET S,
         \A x \in S : x \in DOMAIN next => next[x] \subseteq S
  PROVE  Closure(next, from) \subseteq S
  <1> DEFINE L == Cardinality(DOMAIN next)
             reach == CHOOSE g : Reaches(next, from, L, g)
             T == {m \in 0..L : reach[m] \subseteq S}
  <1>1. L \in Nat
    BY FS_CardinalityType
  <1>2. Closure(next, from) = reach[L]
    BY DEF Closure, Reaches, Spread
  <1> HIDE DEF L
  <1>3. Reaches(next, from, L, reach)
    BY <1>1, ReachExists
  <1> HIDE DEF reach
  <1>4. 0 \in T
    BY <1>1, <1>3 DEF Reaches
  <1>5. ASSUME NEW m \in 1..L, m - 1 \in T
        PROVE  m \in T
    <2>1. reach[m] = Spread(next, reach[m - 1])
      BY <1>1, <1>3, <1>5 DEF Reaches
    <2>2. reach[m - 1] \subseteq S
      BY <1>5
    <2>3. reach[m] \subseteq S
      BY <2>1, <2>2 DEF Spread
    <2> QED
      BY <1>5, <2>3
  <1> HIDE DEF T
  <1>6. L \in T
    BY <1>1, <1>4, <1>5, Induction
  <1> QED
    BY <1>2, <1>6 DEF T

\* Without loops, no block is in the closure of what it feeds.
LEMMA NoLoopsMeans ==
  ASSUME NetInv, LoopInv
  PROVE  EveryCycleBroken
  <1> DEFINE feeders == {w[1][1] : w \in {x \in wires : ~IsPipelineReg(x[1][1])}}
             onward == [b \in feeders |-> Successors(b)]
  <1> SUFFICES ASSUME pass = "done", NEW b \in feeders
               PROVE  b \notin Closure(onward, onward[b])
    BY DEF EveryCycleBroken
  <1>1. IsFiniteSet(feeders)
    <2> DEFINE plain == {x \in wires : ~IsPipelineReg(x[1][1])}
               f == [w \in plain |-> w[1][1]]
    <2>1. IsFiniteSet(plain)
      BY FS_Subset DEF NetInv, NetOK
    <2>2. feeders = {f[w] : w \in plain}
      OBVIOUS
    <2> HIDE DEF plain, f, feeders
    <2> QED
      BY <2>1, <2>2, FiniteImage
  <1>2. feeders \subseteq Plain
    BY WiresJoin DEF Plain, NetInv, NetOK, Joined
  <1> HIDE DEF feeders
  <1>3. PICK S \in SUBSET Plain : Successors(b) \subseteq S /\ Closed(S) /\ b \notin S
    BY <1>2 DEF LoopInv, NoLoops
  <1>4. \A x \in S : x \in DOMAIN onward => onward[x] \subseteq S
    BY <1>3 DEF Closed
  <1>5. IsFiniteSet(DOMAIN onward) /\ onward[b] \in SUBSET S
    BY <1>1, <1>3
  <1> HIDE DEF onward
  <1>6. Closure(onward, onward[b]) \subseteq S
    BY <1>4, <1>5, ClosureWithin
  <1> QED
    BY <1>3, <1>6

\* Where every loop of the module is fed from outside, PipelineCyclesPass leaves
\* a register in every cycle, and CheckConnectionsPass makes no new one.
THEOREM CyclesBroken ==
  ASSUME \A n \in Netlists : FedFromOutside(n.blocks, n.wires)
  PROVE  Spec => []EveryCycleBroken
  <1>1. Init => FedInv /\ LoopInv
    BY DEF Init, FedInv, LoopInv
  <1>2. NetInv /\ SearchInv /\ FedInv /\ LoopInv /\ [Next]_vars => FedInv' /\ LoopInv'
    BY LoopsKept
  <1>3. NetInv /\ LoopInv => EveryCycleBroken
    BY NoLoopsMeans
  <1> QED
    BY <1>1, <1>2, <1>3, Invariants, PTL DEF Spec

-----------------------------------------------------------------------------
(* The outputs that fire together                                          *)

\* A block that cannot give one output without the others.
Dependent(b) == ~OutputsSeparate(b) /\ blocks[b].outs > 1

\* S has what o feeds, and what the registers of S feed.
Through(o, S) == \A w \in wires : w[1] = o \/ (w[1][1] \in S /\ IsPipelineReg(w[1][1])) => w[2][1] \in S

\* Through registers, o feeds j and nothing but j.
MeetsAt(o, j) ==
  /\ \A S \in SUBSET DOMAIN blocks : Through(o, S) => j \in S
  /\ \E S \in SUBSET DOMAIN blocks : Through(o, S) /\ \A c \in S : IsPipelineReg(c) \/ c = j

\* Dependent outputs are joined by PipelineDependentsPass, which no pass visits
\* again, and still meet behind the registers of the last passes.
MeetInv ==
  /\ \A b \in DOMAIN blocks : Dependent(b) =>
       IF pass \in {"cycles", "connections", "done"}
         THEN /\ <<"join", b>> \in DOMAIN blocks /\ Is(<<"join", b>>, "Join")
              /\ \A o \in Outputs(b) : MeetsAt(o, <<"join", b>>)
         ELSE /\ (pass = "dependents" /\ b \in todo) \/ Joins(b)
              /\ pass \in {"latches", "forks"} => Outputs(b) \cap todo = {}
  /\ pass = "recombine" => \A f \in todo : Is(f, "Fork")

\* Where the outputs of b are joined, they meet.
LEMMA JoinedMeet ==
  ASSUME NetInv, NEW b \in DOMAIN blocks, Joins(b), NEW o \in Outputs(b)
  PROVE  Is(<<"join", b>>, "Join") /\ MeetsAt(o, <<"join", b>>)
  <1> DEFINE j == <<"join", b>>
  <1>1. /\ j \in DOMAIN blocks /\ blocks[j] = Block("Join", blocks[b].outs, 1)
        /\ \A k \in 1..blocks[b].outs : <<<<b, k>>, <<j, k>>>> \in wires
        /\ \A w \in wires : w[1][1] = b => w = <<w[1], <<j, w[1][2]>>>>
    BY DEF Joins
  <1>2. PICK k \in 1..blocks[b].outs : o = <<b, k>>
    BY DEF Outputs
  <1> HIDE DEF j
  <1>3. Is(j, "Join") /\ ~IsPipelineReg(j)
    BY <1>1 DEF Is, IsPipelineReg, Block
  <1>4. ASSUME NEW S, Through(o, S)
        PROVE  j \in S
    <2>1. <<o, <<j, k>>>> \in wires
      BY <1>1, <1>2
    <2> QED
      BY <1>4, <2>1 DEF Through
  <1>5. Through(o, {j})
    BY <1>1, <1>2, <1>3 DEF Through
  <1>6. {j} \in SUBSET DOMAIN blocks
    BY <1>1
  <1>7. MeetsAt(o, j)
    BY <1>4, <1>5, <1>6 DEF MeetsAt
  <1> QED
    BY <1>3, <1>7 DEF j

\* Registers keep outputs together.
LEMMA InsertMeets ==
  ASSUME NetInv, NEW r \in {"reg", "late"}, NEW os, CanInsert(r, os), Effect("PipelineRegister", r, os),
         NEW o, IsOutput(o), NEW j, MeetsAt(o, j)
  PROVE  MeetsAt(o, j)'
  <1>1. /\ DOMAIN blocks' = DOMAIN blocks \cup {<<r, q>> : q \in os}
        /\ \A b \in DOMAIN blocks : blocks'[b] = blocks[b]
        /\ \A q \in os : blocks'[<<r, q>>] = Block("PipelineRegister", 1, 1)
        /\ \A w \in wires' :
             \/ w \in wires /\ w[1] \notin os
             \/ \E v \in wires : v[1] \in os /\ w = <<<<<<r, v[1]>>, 1>>, v[2]>>
             \/ w[1] \in os /\ w = <<w[1], <<<<r, w[1]>>, 1>>>>
        /\ \A w \in wires : IF w[1] \in os THEN <<<<<<r, w[1]>>, 1>>, w[2]>> \in wires' ELSE w \in wires'
        /\ \A q \in os : <<q, <<<<r, q>>, 1>>>> \in wires'
    BY DEF Effect
  <1>2. \A q \in os : <<r, q>> \notin DOMAIN blocks /\ q[1] \in DOMAIN blocks
    BY DEF CanInsert, IsOutput
  <1>3. \A w \in wires : w[1][1] \in DOMAIN blocks /\ w[2][1] \in DOMAIN blocks
    BY WiresJoin
  <1>4. /\ \A b \in DOMAIN blocks : IsPipelineReg(b)' <=> IsPipelineReg(b)
        /\ \A q \in os : IsPipelineReg(<<r, q>>)'
    BY <1>1 DEF IsPipelineReg, Is, Block
  <1>5. o[1] \in DOMAIN blocks
    BY DEF IsOutput
  <1>6. ASSUME NEW S \in SUBSET DOMAIN blocks', Through(o, S)'
        PROVE  j \in S
    <2> DEFINE T == S \cap DOMAIN blocks
    <2>0. \A w \in wires' : w[1] = o \/ (w[1][1] \in S /\ IsPipelineReg(w[1][1])') => w[2][1] \in S
      BY <1>6 DEF Through
    <2>1. ASSUME NEW w \in wires, w[1] = o \/ (w[1][1] \in T /\ IsPipelineReg(w[1][1]))
          PROVE  w[2][1] \in T
      <3>1. w[1] = o \/ (w[1][1] \in S /\ IsPipelineReg(w[1][1])')
        BY <1>4, <2>1
      <3>2. CASE w[1] \notin os
        BY <1>1, <1>3, <2>0, <3>1, <3>2
      <3>3. CASE w[1] \in os
        <4>1. <<w[1], <<<<r, w[1]>>, 1>>>> \in wires' /\ <<<<<<r, w[1]>>, 1>>, w[2]>> \in wires'
          BY <1>1, <3>3
        <4>2. <<r, w[1]>> \in S
          BY <2>0, <3>1, <4>1
        <4>3. IsPipelineReg(<<r, w[1]>>)'
          BY <1>4, <3>3
        <4>4. w[2][1] \in S
          BY <2>0, <4>1, <4>2, <4>3
        <4> QED
          BY <1>3, <4>4
      <3> QED
        BY <3>2, <3>3
    <2>2. Through(o, T) /\ T \in SUBSET DOMAIN blocks
      BY <2>1 DEF Through
    <2> HIDE DEF T
    <2>3. j \in T
      BY <2>2 DEF MeetsAt
    <2> QED
      BY <2>3 DEF T
  <1>7. \E S \in SUBSET DOMAIN blocks' : Through(o, S)' /\ \A c \in S : IsPipelineReg(c)' \/ c = j
    <2>1. PICK S \in SUBSET DOMAIN blocks : Through(o, S) /\ \A c \in S : IsPipelineReg(c) \/ c = j
      BY DEF MeetsAt
    <2>2. \A w \in wires : w[1] = o \/ (w[1][1] \in S /\ IsPipelineReg(w[1][1])) => w[2][1] \in S
      BY <2>1 DEF Through
    <2>a. PICK qs : qs = {q \in os : q = o \/ (q[1] \in S /\ IsPipelineReg(q[1]))}
      OBVIOUS
    <2>b. PICK T : T = S \cup {<<r, q>> : q \in qs}
      OBVIOUS
    <2>3. T \in SUBSET DOMAIN blocks' /\ \A c \in T : IsPipelineReg(c)' \/ c = j
      BY <1>1, <1>4, <2>1, <2>a, <2>b
    <2>4. \A q \in os : <<r, q>> \in T => q \in qs
      <3> TAKE q \in os
      <3>1. <<r, q>> \notin S
        BY <1>2
      <3>2. ASSUME NEW p \in qs, <<r, q>> = <<r, p>>
            PROVE  q = p
        BY <3>2
      <3> QED
        BY <2>b, <3>1, <3>2
    <2>5. \A b \in DOMAIN blocks : b \in T => b \in S
      BY <1>2, <2>a, <2>b
    <2>6. ASSUME NEW w \in wires', w[1] = o \/ (w[1][1] \in T /\ IsPipelineReg(w[1][1])')
          PROVE  w[2][1] \in T
      <3>1. CASE w \in wires /\ w[1] \notin os
        BY <1>3, <1>4, <2>2, <2>5, <2>6, <2>b, <3>1
      <3>2. ASSUME NEW v \in wires, v[1] \in os, w = <<<<<<r, v[1]>>, 1>>, v[2]>>
            PROVE  w[2][1] \in T
        <4>1. w[1][1] = <<r, v[1]>> /\ w[2] = v[2]
          BY <3>2
        <4>2. w[1] # o
          BY <1>2, <1>5, <3>2, <4>1
        <4>3. v[1] \in qs
          BY <2>4, <2>6, <3>2, <4>1, <4>2
        <4> QED
          BY <2>2, <2>a, <2>b, <4>1, <4>3
      <3>3. ASSUME w[1] \in os, w[2][1] = <<r, w[1]>>
            PROVE  w[2][1] \in T
        <4>1. w[1] \in qs
          BY <1>2, <1>4, <2>5, <2>6, <2>a, <3>3
        <4> QED
          BY <2>b, <3>3, <4>1
      <3>4. \/ w \in wires /\ w[1] \notin os
            \/ \E v \in wires : v[1] \in os /\ w = <<<<<<r, v[1]>>, 1>>, v[2]>>
            \/ w[1] \in os /\ w[2][1] = <<r, w[1]>>
        <4>1. w = <<w[1], <<<<r, w[1]>>, 1>>>> => w[2][1] = <<r, w[1]>>
          OBVIOUS
        <4> QED
          BY <1>1, <2>6, <4>1
      <3> QED
        BY <3>1, <3>2, <3>3, <3>4
    <2>7. Through(o, T)'
      BY <2>6 DEF Through
    <2> QED
      BY <2>3, <2>7
  <1> QED
    BY <1>6, <1>7 DEF MeetsAt

\* An edit that leaves the outputs of b and the join alone.
LEMMA JoinsKept ==
  ASSUME NEW b, Joins(b),
         \A c \in {b, <<"join", b>>} : blocks'[c] = blocks[c],
         <<"join", b>> \in DOMAIN blocks',
         \A w \in wires : w[1][1] = b => w \in wires', \A w \in wires' : w[1][1] = b => w \in wires
  PROVE  Joins(b)'
  <1>1. \A k \in 1..blocks[b].outs : <<<<b, k>>, <<<<"join", b>>, k>>>> \in wires'
    <2> TAKE k \in 1..blocks[b].outs
    <2>1. <<<<b, k>>, <<<<"join", b>>, k>>>> \in wires
      BY DEF Joins
    <2>2. <<<<b, k>>, <<<<"join", b>>, k>>>>[1][1] = b
      OBVIOUS
    <2> QED
      BY <2>1, <2>2
  <1>2. \A w \in wires' : w[1][1] = b => w = <<w[1], <<<<"join", b>>, w[1][2]>>>>
    BY DEF Joins
  <1> QED
    BY <1>1, <1>2 DEF Joins

\* PipelineDependentsPass joins what it visits.
LEMMA DependentsMeet ==
  ASSUME NetInv, MeetInv, NEW b, pass = "dependents", pass' = "dependents", b \in todo, todo' = todo \ {b},
         clocked' = clocked, NEW K, NEW N, Rebuilt(b, K, N), b \notin DOMAIN blocks' \/ Joins(b)'
  PROVE  MeetInv'
  <1>1. /\ K \subseteq DOMAIN blocks /\ DOMAIN blocks \ {b} \subseteq K
        /\ DOMAIN blocks' = K \cup N
        /\ \A c \in K : blocks'[c] = blocks[c]
        /\ \A c \in N : blocks'[c].class = "Fork" \/ blocks'[c].outs = 1
        /\ \A k \in 1..blocks[b].outs : <<"extract", b, k>> \in N
    BY DEF Rebuilt
  <1>2. /\ \A w \in wires' : IF w[2][1] \in N THEN Joined(w)' ELSE \E v \in wires : v[2][1] \in K /\ w = Moved(b, v)
        /\ \A v \in wires : v[2][1] \in K => Moved(b, v) \in wires'
        /\ \A w \in wires' : w[2][1] \in N =>
             \/ w[1][1] = b /\ b \in K
             \/ w[1][1] \in N /\ Stage(w[1][1]) < Stage(w[2][1])
             \/ \E v \in wires : v[2][1] = b /\ v[1] = w[1] /\ w[1][1] \in K
    BY DEF Rebuilt
  <1>3. N \cap DOMAIN blocks = {}
    BY DependentsKeep
  <1>4. b \in DOMAIN blocks /\ blocks[b].outs > 1
    BY DEF NetInv, ToVisit
  <1>5. ASSUME NEW c \in DOMAIN blocks', Dependent(c)', c \notin todo'
        PROVE  Joins(c)'
    <2>1. c \notin N
      BY <1>1, <1>5 DEF Dependent, OutputsSeparate
    <2>2. CASE c = b
      BY <1>5, <2>2
    <2>3. CASE c # b
      <3>1. c \in K /\ c \in DOMAIN blocks /\ blocks'[c] = blocks[c] /\ c \notin todo
        BY <1>1, <1>5, <2>1, <2>3
      <3>2. Joins(c)
        <4>1. Dependent(c)
          BY <1>5, <3>1 DEF Dependent, OutputsSeparate
        <4> QED
          BY <3>1, <4>1 DEF MeetInv
      <3>3. PICK j : j = <<"join", c>>
        OBVIOUS
      <3>4. j \in DOMAIN blocks /\ j # b /\ \A w \in wires : w[1][1] = c => w[2][1] = j
        <4>1. blocks[j].outs = 1 /\ j \in DOMAIN blocks /\ \A w \in wires : w[1][1] = c => w = <<w[1], <<j, w[1][2]>>>>
          BY <3>2, <3>3 DEF Joins, Block
        <4>2. ASSUME NEW w \in wires, w[1][1] = c
              PROVE  w[2][1] = j
          <5>1. w = <<w[1], <<j, w[1][2]>>>>
            BY <4>1, <4>2
          <5> QED
            BY <5>1
        <4> QED
          BY <1>4, <4>1, <4>2
      <3>5. j \in K /\ j \in DOMAIN blocks' /\ blocks'[j] = blocks[j]
        BY <1>1, <3>4
      <3>6. ASSUME NEW w \in wires, w[1][1] = c
            PROVE  w \in wires'
        <4>1. Moved(b, w) = w /\ w[2][1] \in K
          BY <2>3, <3>4, <3>5, <3>6 DEF Moved
        <4> QED
          BY <1>2, <4>1
      <3>7. ASSUME NEW w \in wires', w[1][1] = c
            PROVE  w \in wires
        <4>1. CASE w[2][1] \in N
          <5>1. PICK v \in wires : v[2][1] = b /\ v[1] = w[1]
            BY <1>2, <2>1, <2>3, <3>7, <4>1
          <5> QED
            BY <3>4, <3>7, <5>1
        <4>2. CASE w[2][1] \notin N
          <5>1. PICK v \in wires : w = Moved(b, v)
            BY <1>2, <4>2
          <5>2. CASE v[1][1] = b
            <6>1. w[1][1] = <<"extract", b, v[1][2]>> /\ v[1][2] \in 1..blocks[b].outs
              BY <5>1, <5>2, WiresJoin DEF Moved
            <6> QED
              BY <1>1, <2>1, <3>7, <6>1
          <5>3. CASE v[1][1] # b
            BY <5>1, <5>3 DEF Moved
          <5> QED
            BY <5>2, <5>3
        <4> QED
          BY <4>1, <4>2
      <3> QED
        BY <1>1, <3>1, <3>2, <3>3, <3>5, <3>6, <3>7, JoinsKept
    <2> QED
      BY <2>2, <2>3
  <1>6. "dependents" \notin {"cycles", "connections", "done", "latches", "forks", "recombine"}
    OBVIOUS
  <1> QED
    BY <1>5, <1>6 DEF MeetInv

\* An insertion behind outputs that stand alone leaves the joins.
LEMMA InsertJoins ==
  ASSUME NetInv, NEW class, NEW r, NEW os, Effect(class, r, os),
         \A q \in os : <<r, q>> \notin DOMAIN blocks,
         NEW b, b \in DOMAIN blocks, Joins(b), \A q \in os : q[1] # b
  PROVE  Joins(b)'
  <1>1. /\ DOMAIN blocks' = DOMAIN blocks \cup {<<r, o>> : o \in os}
        /\ \A c \in DOMAIN blocks : blocks'[c] = blocks[c]
        /\ \A w \in wires' :
             \/ w \in wires /\ w[1] \notin os
             \/ \E v \in wires : v[1] \in os /\ w = <<<<<<r, v[1]>>, 1>>, v[2]>>
             \/ w[1] \in os /\ w = <<w[1], <<<<r, w[1]>>, 1>>>>
        /\ \A w \in wires : IF w[1] \in os THEN <<<<<<r, w[1]>>, 1>>, w[2]>> \in wires' ELSE w \in wires'
    BY DEF Effect
  <1>2. \A w \in wires : w[1][1] = b => w \in wires'
    BY <1>1
  <1>3. ASSUME NEW w \in wires', w[1][1] = b
        PROVE  w \in wires
    <2>1. ASSUME NEW v \in wires, v[1] \in os, w = <<<<<<r, v[1]>>, 1>>, v[2]>>
          PROVE  FALSE
      <3>1. w[1][1] = <<r, v[1]>>
        BY <2>1
      <3> QED
        BY <1>3, <2>1, <3>1
    <2> QED
      BY <1>1, <1>3, <2>1
  <1>4. <<"join", b>> \in DOMAIN blocks
    BY DEF Joins
  <1> QED
    BY <1>1, <1>2, <1>3, <1>4, JoinsKept

\* Where dependent outputs are joined directly, insertions behind others leave
\* the joins.
LEMMA InsertKeepsJoins ==
  ASSUME NetInv, MeetInv, NEW class \in {"PipelineRegister", "Latch"}, NEW r, NEW os, CanInsert(r, os), Effect(class, r, os),
         pass \in {"latches", "recombine"}, pass' = pass, todo' \subseteq todo,
         \A b \in DOMAIN blocks : Dependent(b) => \A q \in os : q[1] # b
  PROVE  MeetInv'
  <1>1. /\ DOMAIN blocks' = DOMAIN blocks \cup {<<r, o>> : o \in os}
        /\ \A c \in DOMAIN blocks : blocks'[c] = blocks[c]
        /\ \A o \in os : blocks'[<<r, o>>].outs = 1
    BY DEF Effect, Block
  <1>2. ASSUME NEW b \in DOMAIN blocks', Dependent(b)'
        PROVE  Joins(b)' /\ (pass = "latches" => Outputs(b)' \cap todo' = {})
    <2>1. b \in DOMAIN blocks
      BY <1>1, <1>2 DEF Dependent
    <2>2. blocks'[b] = blocks[b] /\ Outputs(b)' = Outputs(b)
      BY <1>1, <2>1 DEF Outputs
    <2>3. Dependent(b)
      BY <1>2, <2>2 DEF Dependent, OutputsSeparate
    <2>4. Joins(b) /\ (pass = "latches" => Outputs(b) \cap todo = {})
      BY <2>1, <2>3 DEF MeetInv
    <2>5. Joins(b)'
      BY <2>1, <2>3, <2>4, InsertJoins DEF CanInsert
    <2> QED
      BY <2>2, <2>4, <2>5
  <1>3. pass' = "recombine" => \A f \in todo' : Is(f, "Fork")'
    BY <1>1 DEF MeetInv, Is, NetInv, ToVisit
  <1> QED
    BY <1>2, <1>3 DEF MeetInv

\* LatchUntiedOutputs only visits outputs that do not depend on each other.
LEMMA LatchesMeet ==
  ASSUME NetInv, MeetInv, NEW o, LatchUntied(o)
  PROVE  MeetInv'
  <1>1. pass = "latches" /\ pass' = "latches" /\ o \in todo /\ todo' = todo \ {o}
    BY Visited DEF LatchUntied
  <1>2. PICK class \in {"PipelineRegister", "Latch"}, r \in {"reg", "latch"} : CanInsert(r, {o}) /\ Effect(class, r, {o})
    BY LatchUntiedKeeps
  <1>3. IsOutput(o)
    BY <1>2 DEF CanInsert
  <1>4. ASSUME NEW b \in DOMAIN blocks, Dependent(b), NEW q \in {o}, q[1] = b
        PROVE  FALSE
    <2>1. o \in Outputs(b)
      BY <1>3, <1>4, OutputsAre
    <2> QED
      BY <1>1, <1>4, <2>1 DEF MeetInv
  <1> QED
    BY <1>1, <1>2, <1>4, InsertKeepsJoins

\* The outputs of a Fork do not depend on each other.
LEMMA RecombineMeets ==
  ASSUME NetInv, MeetInv, NEW f, Recombine(f)
  PROVE  MeetInv'
  <1>1. pass = "recombine" /\ pass' = "recombine" /\ f \in todo /\ todo' = todo \ {f}
    BY Visited DEF Recombine
  <1>2. PICK r \in {"reg", "late"}, os \in SUBSET Outputs(f) :
          CanInsert(r, os) /\ InsertAfter("PipelineRegister", Behind(r, os))
    BY RecombineKeeps DEF Registers
  <1>3. Effect("PipelineRegister", r, os)
    BY <1>2, InsertedBehind DEF NetInv
  <1>4. ~Dependent(f)
    BY <1>1 DEF MeetInv, Is, Dependent, OutputsSeparate
  <1>5. \A q \in os : q[1] = f
    BY DEF Outputs
  <1> QED
    BY <1>1, <1>2, <1>3, <1>4, <1>5, InsertKeepsJoins

\* The registers of PipelineFrequencyPass and PipelineCyclesPass.
LEMMA RegistersMeet ==
  ASSUME NetInv, MeetInv, Registers(AllOutputs), pass \in {"frequency", "cycles"}, pass' = "cycles"
  PROVE  MeetInv'
  <1>1. PICK r \in {"reg", "late"}, os \in SUBSET AllOutputs :
          CanInsert(r, os) /\ InsertAfter("PipelineRegister", Behind(r, os))
    BY DEF Registers
  <1>2. Effect("PipelineRegister", r, os)
    BY <1>1, InsertedBehind DEF NetInv
  <1>3. /\ DOMAIN blocks' = DOMAIN blocks \cup {<<r, o>> : o \in os}
        /\ \A c \in DOMAIN blocks : blocks'[c] = blocks[c]
        /\ \A o \in os : blocks'[<<r, o>>].outs = 1
    BY <1>2 DEF Effect, Block
  <1>4. ASSUME NEW b \in DOMAIN blocks', Dependent(b)'
        PROVE  /\ <<"join", b>> \in DOMAIN blocks' /\ Is(<<"join", b>>, "Join")'
               /\ \A o \in Outputs(b)' : MeetsAt(o, <<"join", b>>)'
    <2>1. b \in DOMAIN blocks
      BY <1>3, <1>4 DEF Dependent
    <2>2. blocks'[b] = blocks[b] /\ Outputs(b)' = Outputs(b)
      BY <1>3, <2>1 DEF Outputs
    <2>3. Dependent(b)
      BY <1>4, <2>2 DEF Dependent, OutputsSeparate
    <2>4. PICK j : j = <<"join", b>>
      OBVIOUS
    <2>5. j \in DOMAIN blocks /\ Is(j, "Join") /\ \A o \in Outputs(b) : MeetsAt(o, j)
      <3>1. CASE pass = "cycles"
        BY <2>1, <2>3, <2>4, <3>1 DEF MeetInv
      <3>2. CASE pass = "frequency"
        <4>1. Joins(b)
          BY <2>1, <2>3, <3>2 DEF MeetInv
        <4>2. j \in DOMAIN blocks /\ blocks[j] = Block("Join", blocks[b].outs, 1)
          BY <2>4, <4>1 DEF Joins
        <4>3. \A o \in Outputs(b) : MeetsAt(o, j)
          BY <2>1, <2>4, <4>1, JoinedMeet
        <4> QED
          BY <4>2, <4>3 DEF Is, Block
      <3> QED
        BY <3>1, <3>2
    <2>6. \A o \in Outputs(b) : MeetsAt(o, j)'
      <3> TAKE o \in Outputs(b)
      <3>1. IsOutput(o)
        BY <2>1, OutputsAre
      <3> QED
        BY <1>1, <1>2, <2>5, <3>1, InsertMeets
    <2> QED
      BY <1>3, <2>2, <2>4, <2>5, <2>6 DEF Is
  <1> QED
    BY <1>4 DEF MeetInv

\* SynthesizeForksPass has no fork to make for an output that is joined.
LEMMA ForksMeet ==
  ASSUME NetInv, MeetInv, NEW o, SynthesizeFork(o)
  PROVE  MeetInv'
  <1>1. /\ pass = "forks" /\ pass' = "forks" /\ o \in todo /\ todo' = todo \ {o}
        /\ IsOutput(o) /\ <<"fork", o>> \notin DOMAIN blocks /\ <<"reg", o>> \notin DOMAIN blocks
    BY Forked
  <1>0. PICK virt \in BOOLEAN, registered \in BOOLEAN : \E sinks : ForkEffect(o, virt, registered, sinks)
    BY Forked
  <1>2. PICK sinks : ForkEffect(o, virt, registered, sinks)
    BY <1>0
  <1>3. PICK fork, reg : fork = <<"fork", o>> /\ reg = <<"reg", o>>
    OBVIOUS
  <1>4. /\ DOMAIN blocks' = DOMAIN blocks \cup {fork} \cup (IF registered THEN {reg} ELSE {})
        /\ \A b \in DOMAIN blocks : blocks'[b] = blocks[b]
        /\ blocks'[fork] = Block(IF virt THEN "VirtualFork" ELSE "Fork", 1, Len(sinks))
        /\ registered => blocks'[reg] = Block("PipelineRegister", 1, 1)
        /\ \A w \in wires' :
             \/ w \in wires /\ w[1] # o
             \/ w[1][1] = fork \/ w[1][1] = reg \/ w[1] = o
        /\ \A w \in wires : w[1] # o => w \in wires'
    <2>1. /\ DOMAIN blocks' = DOMAIN blocks \cup {fork} \cup (IF registered THEN {reg} ELSE {})
          /\ \A b \in DOMAIN blocks : blocks'[b] = blocks[b]
          /\ blocks'[fork] = Block(IF virt THEN "VirtualFork" ELSE "Fork", 1, Len(sinks))
          /\ registered => blocks'[reg] = Block("PipelineRegister", 1, 1)
          /\ \A w \in wires : w[1] # o => w \in wires'
      BY <1>2, <1>3 DEF ForkEffect
    <2>2. \A w \in wires' :
           \/ w \in wires /\ w[1] # o
           \/ \E k \in 1..Len(sinks) : w = <<<<fork, k>>, sinks[k]>>
           \/ registered /\ (w = <<o, <<reg, 1>>>> \/ w = <<<<reg, 1>>, <<fork, 1>>>>)
           \/ ~registered /\ w = <<o, <<fork, 1>>>>
      BY <1>2, <1>3 DEF ForkEffect
    <2>3. \A w \in wires' : (w \in wires /\ w[1] # o) \/ w[1][1] = fork \/ w[1][1] = reg \/ w[1] = o
      <3> TAKE w \in wires'
      <3>1. ASSUME NEW k, w = <<<<fork, k>>, sinks[k]>>
            PROVE  w[1][1] = fork
        BY <3>1
      <3> QED
        BY <2>2, <3>1
    <2> QED
      BY <2>1, <2>3
  <1>5. ASSUME NEW b \in DOMAIN blocks', Dependent(b)'
        PROVE  Joins(b)' /\ Outputs(b)' \cap todo' = {}
    <2>1. b \in DOMAIN blocks
      BY <1>4, <1>5 DEF Dependent, OutputsSeparate, Block
    <2>2. blocks'[b] = blocks[b] /\ Outputs(b)' = Outputs(b)
      BY <1>4, <2>1 DEF Outputs
    <2>3. Dependent(b)
      BY <1>5, <2>2 DEF Dependent, OutputsSeparate
    <2>4. Joins(b) /\ Outputs(b) \cap todo = {}
      BY <1>1, <2>1, <2>3 DEF MeetInv
    <2>5. b # o[1] /\ b # fork /\ b # reg
      BY <1>1, <1>3, <2>1, <2>4, OutputsAre
    <2>6. \A w \in wires : w[1][1] = b => w \in wires'
      BY <1>4, <2>5
    <2>7. \A w \in wires' : w[1][1] = b => w \in wires
      BY <1>4, <2>5
    <2>8. <<"join", b>> \in DOMAIN blocks
      BY <2>4 DEF Joins
    <2>9. Joins(b)'
      BY <1>4, <2>2, <2>4, <2>6, <2>7, <2>8, JoinsKept
    <2> QED
      BY <1>1, <2>2, <2>4, <2>9
  <1> QED
    BY <1>1, <1>5 DEF MeetInv

\* CheckConnectionsPass feeds inputs that nothing fed.
LEMMA ConnectionsMeet ==
  ASSUME NetInv, MeetInv, NEW i, CheckConnection(i)
  PROVE  MeetInv'
  <1>1. PICK never : never = <<"never", i>>
    OBVIOUS
  <1>2. pass = "connections" /\ pass' = "connections" /\ i \in todo /\ wires' = wires \cup {<<<<never, 1>>, i>>}
    BY <1>1, Visited DEF CheckConnection
  <1>3. never \notin DOMAIN blocks
    <2>1. Role(never) = "never" /\ never[2] = i
      BY <1>1, Roles
    <2> QED
      BY <1>2, <2>1 DEF NetInv, Fresh, RolesOf
  <1>4. /\ DOMAIN blocks' = DOMAIN blocks \cup {never}
        /\ \A b \in DOMAIN blocks : blocks'[b] = blocks[b]
        /\ blocks'[never] = Block("Never", 0, 1)
    BY <1>1, <1>3 DEF CheckConnection, With
  <1>5. \A w \in wires : w[1][1] \in DOMAIN blocks /\ w[2][1] \in DOMAIN blocks
    BY WiresJoin
  <1>6. \A b \in DOMAIN blocks : IsPipelineReg(b)' <=> IsPipelineReg(b)
    BY <1>4 DEF IsPipelineReg, Is
  <1>7. ASSUME NEW o, o[1] \in DOMAIN blocks, NEW j, MeetsAt(o, j)
        PROVE  MeetsAt(o, j)'
    <2>1. ASSUME NEW S \in SUBSET DOMAIN blocks', Through(o, S)'
          PROVE  j \in S
      <3>1. Through(o, S \cap DOMAIN blocks)
        BY <1>2, <1>5, <1>6, <2>1 DEF Through
      <3>2. j \in S \cap DOMAIN blocks
        BY <3>1, <1>7 DEF MeetsAt
      <3> QED
        BY <3>2
    <2>2. PICK S \in SUBSET DOMAIN blocks : Through(o, S) /\ \A c \in S : IsPipelineReg(c) \/ c = j
      BY <1>7 DEF MeetsAt
    <2>3. Through(o, S)'
      <3>1. \A w \in wires' : w \in wires \/ w = <<<<never, 1>>, i>>
        BY <1>2
      <3>2. o # <<never, 1>> /\ never \notin S
        BY <1>3, <1>7
      <3> QED
        BY <1>5, <1>6, <2>2, <3>1, <3>2 DEF Through
    <2>4. S \in SUBSET DOMAIN blocks' /\ \A c \in S : IsPipelineReg(c)' \/ c = j
      BY <1>4, <1>6, <2>2
    <2> QED
      BY <2>1, <2>3, <2>4 DEF MeetsAt
  <1>8. ASSUME NEW b \in DOMAIN blocks', Dependent(b)'
        PROVE  /\ <<"join", b>> \in DOMAIN blocks' /\ Is(<<"join", b>>, "Join")'
               /\ \A o \in Outputs(b)' : MeetsAt(o, <<"join", b>>)'
    <2>1. b \in DOMAIN blocks
      BY <1>4, <1>8 DEF Dependent, Block
    <2>2. blocks'[b] = blocks[b] /\ Outputs(b)' = Outputs(b)
      BY <1>4, <2>1 DEF Outputs
    <2>3. Dependent(b)
      BY <1>8, <2>2 DEF Dependent, OutputsSeparate
    <2>4. PICK j : j = <<"join", b>>
      OBVIOUS
    <2>5. j \in DOMAIN blocks /\ Is(j, "Join") /\ \A o \in Outputs(b) : MeetsAt(o, j)
      BY <1>2, <2>1, <2>3, <2>4 DEF MeetInv
    <2>6. \A o \in Outputs(b) : o[1] \in DOMAIN blocks
      BY <2>1 DEF Outputs
    <2> QED
      BY <1>4, <1>7, <2>2, <2>4, <2>5, <2>6 DEF Is
  <1> QED
    BY <1>2, <1>8 DEF MeetInv

\* The next pass has nothing to visit among joined outputs.
LEMMA NextPassMeets ==
  ASSUME NetInv, MeetInv, NextPass
  PROVE  MeetInv'
  <1>1. /\ todo = {} /\ UNCHANGED <<blocks, wires>> /\ todo' = Work(pass')
        /\ \/ pass = "dependents"  /\ pass' = "latches"
           \/ pass = "latches"     /\ pass' = "forks"
           \/ pass = "forks"       /\ pass' = "recombine"
           \/ pass = "recombine"   /\ pass' = "frequency"
           \/ pass = "cycles"      /\ pass' = "connections"
           \/ pass = "connections" /\ pass' = "done"
    BY Following
  <1>2. /\ \A b : Dependent(b)' <=> Dependent(b)
        /\ \A b : Joins(b)' <=> Joins(b)
        /\ \A b : Outputs(b)' = Outputs(b)
        /\ \A o, j : MeetsAt(o, j)' <=> MeetsAt(o, j)
        /\ \A b, c : Is(b, c)' <=> Is(b, c)
    BY <1>1 DEF Dependent, OutputsSeparate, Joins, Outputs, MeetsAt, Through, IsPipelineReg, Is
  <1>3. ASSUME NEW b \in DOMAIN blocks, Joins(b), Dependent(b), pass' = "latches"
        PROVE  Outputs(b) \cap todo' = {}
    <2>1. todo' = UNION {Outputs(c) : c \in {d \in DOMAIN blocks : ~OutputsTied(d)}}
      BY <1>1, <1>3 DEF Work, Outputs, OutputsTied, Is
    <2>2. \A o \in todo' : Is(o[1], "Router")
      BY <2>1 DEF Outputs, OutputsTied
    <2>3. ~Is(b, "Router")
      BY <1>3 DEF Dependent, OutputsSeparate, Is
    <2> QED
      BY <2>2, <2>3 DEF Outputs
  <1>4. ASSUME NEW b \in DOMAIN blocks, Joins(b), pass' = "forks", NEW o \in Outputs(b)
        PROVE  o \notin todo'
    <2>1. todo' = {q \in AllOutputs : Cardinality(Sinks(q)) > 1}
      BY <1>1, <1>4 DEF Work, AllOutputs, Outputs, Sinks
    <2>2. PICK k : o = <<b, k>>
      BY <1>4 DEF Outputs
    <2>3. ASSUME NEW x \in Sinks(o)
          PROVE  x = <<<<"join", b>>, k>>
      <3>1. PICK w \in wires : w[1] = o /\ x = w[2]
        BY DEF Sinks
      <3>2. w = <<w[1], <<<<"join", b>>, w[1][2]>>>>
        BY <1>4, <2>2, <3>1 DEF Joins
      <3>3. w[2] = <<<<"join", b>>, w[1][2]>>
        BY <3>2
      <3> QED
        BY <2>2, <3>1, <3>3
    <2>4. Sinks(o) = {} \/ Sinks(o) = {<<<<"join", b>>, k>>}
      BY <2>3
    <2>5. Cardinality(Sinks(o)) = 0 \/ Cardinality(Sinks(o)) = 1
      BY <2>4, FS_EmptySet, FS_Singleton
    <2> QED
      BY <2>1, <2>5
  <1>5. pass' = "recombine" => \A f \in todo' : Is(f, "Fork")
    BY <1>1, <1>2 DEF Work, Is
  <1>6. ASSUME NEW b \in DOMAIN blocks, Dependent(b)
        PROVE  IF pass \in {"cycles", "connections", "done"}
                 THEN /\ <<"join", b>> \in DOMAIN blocks /\ Is(<<"join", b>>, "Join")
                      /\ \A o \in Outputs(b) : MeetsAt(o, <<"join", b>>)
                 ELSE Joins(b)
    BY <1>1, <1>6 DEF MeetInv
  <1>7. ASSUME NEW b \in DOMAIN blocks', Dependent(b)'
        PROVE  IF pass' \in {"cycles", "connections", "done"}
                 THEN /\ <<"join", b>> \in DOMAIN blocks' /\ Is(<<"join", b>>, "Join")'
                      /\ \A o \in Outputs(b)' : MeetsAt(o, <<"join", b>>)'
                 ELSE /\ Joins(b)'
                      /\ pass' \in {"latches", "forks"} => Outputs(b)' \cap todo' = {}
    <2>1. b \in DOMAIN blocks /\ Dependent(b)
      BY <1>1, <1>2, <1>7
    <2>2. CASE pass \in {"cycles", "connections"}
      BY <1>1, <1>2, <1>6, <2>1, <2>2
    <2>3. CASE pass \notin {"cycles", "connections"}
      <3>1. Joins(b) /\ pass' \notin {"cycles", "connections", "done"}
        BY <1>1, <1>6, <2>1, <2>3
      <3>2. pass' \in {"latches", "forks"} => Outputs(b) \cap todo' = {}
        BY <1>3, <1>4, <2>1, <3>1
      <3> QED
        BY <1>2, <3>1, <3>2
    <2> QED
      BY <2>2, <2>3
  <1>8. pass' = "recombine" => \A f \in todo' : Is(f, "Fork")'
    BY <1>2, <1>5
  <1> QED
    BY <1>7, <1>8 DEF MeetInv

\* What each step does to the outputs that meet.
LEMMA MeetKept ==
  ASSUME NetInv, SearchInv, MeetInv, [Next]_vars
  PROVE  MeetInv'
  <1>1. CASE NextPass
    BY <1>1, NextPassMeets
  <1>2. ASSUME NEW b \in todo, SplitToExtracts(b) \/ JoinDependents(b)
        PROVE  MeetInv'
    <2>1. pass = "dependents" /\ pass' = "dependents" /\ todo' = todo \ {b} /\ clocked' = clocked
      BY <1>2, Visited DEF SplitToExtracts, JoinDependents
    <2>2. CASE SplitToExtracts(b)
      <3>1. PICK K, N : K = DOMAIN blocks \ {b} /\ N = {<<"depfork", b>>} \cup Extracts(b)
        OBVIOUS
      <3>2. Rebuilt(b, K, N)
        BY <2>2, <3>1, SplitRebuilds
      <3>3. b \notin DOMAIN blocks'
        <4>1. DOMAIN blocks' = K \cup N
          BY <3>2 DEF Rebuilt
        <4>2. N \cap DOMAIN blocks = {}
          BY <2>1, <3>2, DependentsKeep
        <4>3. b \in DOMAIN blocks
          BY <2>1 DEF NetInv, ToVisit
        <4> QED
          BY <3>1, <4>1, <4>2, <4>3
      <3> QED
        BY <2>1, <3>2, <3>3, DependentsMeet
    <2>3. CASE JoinDependents(b)
      <3>1. Joins(b)' /\ \E K, N : Rebuilt(b, K, N)
        BY <2>3, JoinRebuilds
      <3> QED
        BY <2>1, <3>1, DependentsMeet
    <2> QED
      BY <1>2, <2>2, <2>3
  <1>3. ASSUME NEW x \in todo, LatchUntied(x) \/ SynthesizeFork(x) \/ Recombine(x) \/ CheckConnection(x)
        PROVE  MeetInv'
    BY <1>3, LatchesMeet, ForksMeet, RecombineMeets, ConnectionsMeet
  <1>4. CASE PipelineFrequency
    <2>1. pass = "frequency" /\ pass' = "cycles"
      BY <1>4 DEF PipelineFrequency
    <2> QED
      BY <1>4, <2>1, PipelineFrequencyKeeps, RegistersMeet
  <1>5. CASE BreakCycle
    <2>1. pass = "cycles" /\ pass' = "cycles"
      BY <1>5 DEF BreakCycle, SearchInv
    <2> QED
      BY <1>5, <2>1, BreakCycleKeeps, RegistersMeet
  <1>6. CASE VisitWire \/ PopWire \/ Done \/ UNCHANGED vars \/ \E x \in todo : StartPath(x)
    <2>1. UNCHANGED <<blocks, wires, pass>>
      BY <1>6 DEF VisitWire, PopWire, Done, StartPath, vars, net
    <2>2. todo' = todo \/ pass = "cycles"
      BY <1>6 DEF VisitWire, PopWire, Done, StartPath, vars, net, SearchInv
    <2>3. /\ \A b : Dependent(b)' <=> Dependent(b)
          /\ \A b : Joins(b)' <=> Joins(b)
          /\ \A b : Outputs(b)' = Outputs(b)
          /\ \A o, j : MeetsAt(o, j)' <=> MeetsAt(o, j)
          /\ \A b, c : Is(b, c)' <=> Is(b, c)
      BY <2>1 DEF Dependent, OutputsSeparate, Joins, Outputs, MeetsAt, Through, IsPipelineReg, Is
    <2> QED
      BY <2>1, <2>2, <2>3 DEF MeetInv
  <1> QED
    BY <1>1, <1>2, <1>3, <1>4, <1>5, <1>6 DEF Next

\* Closure has where it starts, and is closed under next.
LEMMA ClosureClosed ==
  ASSUME NEW next, IsFiniteSet(DOMAIN next), NEW from
  PROVE  /\ from \subseteq Closure(next, from)
         /\ \A x \in Closure(next, from) : x \in DOMAIN next => next[x] \subseteq Closure(next, from)
  <1> DEFINE D == DOMAIN next
             L == Cardinality(D)
             reach == CHOOSE g : Reaches(next, from, L, g)
             Complete(m) == \A x \in reach[m] : x \in D => next[x] \subseteq reach[m]
             T == {m \in 0..L : from \subseteq reach[m] /\ (Complete(m) \/ Cardinality(D \cap reach[m]) > m)}
  <1>1. L \in Nat
    BY FS_CardinalityType
  <1>2. Closure(next, from) = reach[L]
    BY DEF Closure, Reaches, Spread
  <1> HIDE DEF L
  <1>3. Reaches(next, from, L, reach)
    BY <1>1, ReachExists
  <1> HIDE DEF reach
  <1>4. \A m \in 0..L : IsFiniteSet(D \cap reach[m]) /\ Cardinality(D \cap reach[m]) \in Nat /\ Cardinality(D \cap reach[m]) <= L
    BY FS_Subset, FS_CardinalityType DEF L
  <1>5. 0 \in T
    <2>1. reach[0] = from
      BY <1>1, <1>3 DEF Reaches
    <2>2. CASE D \cap from = {}
      BY <1>1, <2>1, <2>2
    <2>3. CASE D \cap from # {}
      <3>1. Cardinality(D \cap reach[0]) # 0 /\ Cardinality(D \cap reach[0]) \in Nat
        BY <1>1, <1>4, <2>1, <2>3, FS_EmptySet
      <3> QED
        BY <1>1, <2>1, <3>1
    <2> QED
      BY <2>2, <2>3
  <1>6. ASSUME NEW m \in 1..L, m - 1 \in T
        PROVE  m \in T
    <2>1. reach[m] = Spread(next, reach[m - 1])
      BY <1>1, <1>3, <1>6 DEF Reaches
    <2>2. m - 1 \in 0..L /\ m \in 0..L
      BY <1>1
    <2>3. reach[m - 1] \subseteq reach[m] /\ \A x \in reach[m - 1] : x \in D => next[x] \subseteq reach[m]
      BY <2>1 DEF Spread
    <2>4. CASE Complete(m - 1)
      <3>1. \A y \in reach[m] : y \in reach[m - 1]
        BY <2>1, <2>4 DEF Spread
      <3>2. reach[m] = reach[m - 1]
        BY <2>3, <3>1
      <3> QED
        BY <1>6, <2>2, <2>4, <3>2
    <2>5. CASE Cardinality(D \cap reach[m - 1]) > m - 1
      <3>1. CASE D \cap reach[m] = D \cap reach[m - 1]
        <4>1. Complete(m)
          BY <2>3, <3>1
        <4> QED
          BY <1>6, <2>2, <2>3, <4>1
      <3>2. CASE D \cap reach[m] # D \cap reach[m - 1]
        <4>1. Cardinality(D \cap reach[m - 1]) < Cardinality(D \cap reach[m])
          <5>1. D \cap reach[m - 1] \subseteq D \cap reach[m]
            BY <2>3
          <5>2. IsFiniteSet(D \cap reach[m])
            BY <1>4, <2>2
          <5>3. /\ Cardinality(D \cap reach[m - 1]) <= Cardinality(D \cap reach[m])
                /\ Cardinality(D \cap reach[m - 1]) = Cardinality(D \cap reach[m]) => D \cap reach[m - 1] = D \cap reach[m]
            BY <5>1, <5>2, FS_Subset
          <5> QED
            BY <1>4, <2>2, <3>2, <5>3
        <4>2. Cardinality(D \cap reach[m]) > m
          BY <1>4, <2>2, <2>5, <4>1
        <4> QED
          BY <1>6, <2>2, <2>3, <4>2
      <3> QED
        BY <3>1, <3>2
    <2> QED
      BY <1>6, <2>4, <2>5
  <1> HIDE DEF T
  <1>7. L \in T
    BY <1>1, <1>5, <1>6, Induction
  <1>8. from \subseteq reach[L] /\ Complete(L)
    BY <1>1, <1>4, <1>7 DEF T
  <1> QED
    BY <1>2, <1>8

\* Outputs that meet through registers end in one join.
LEMMA MeetMeans ==
  ASSUME NetInv, MeetInv
  PROVE  DependentOutputsMeet
  <1> DEFINE registers == {w[1][1] : w \in {x \in wires : IsPipelineReg(x[1][1])}}
             fed == [b \in registers |-> {i[1] : i \in UNION {Sinks(o) : o \in Outputs(b)}}]
             Ends(o) == {b \in Closure(fed, {i[1] : i \in Sinks(o)}) : ~IsPipelineReg(b)}
  <1> SUFFICES ASSUME pass = "done", NEW b \in DOMAIN blocks, Dependent(b)
               PROVE  \E j \in DOMAIN blocks : Is(j, "Join") /\ \A o \in Outputs(b) : Ends(o) = {j}
    BY DEF DependentOutputsMeet, Dependent
  <1>1. PICK j : j \in DOMAIN blocks /\ Is(j, "Join") /\ \A o \in Outputs(b) : MeetsAt(o, j)
    BY DEF MeetInv
  <1>2. IsFiniteSet(registers)
    <2> DEFINE driven == {x \in wires : IsPipelineReg(x[1][1])}
               f == [w \in driven |-> w[1][1]]
    <2>1. IsFiniteSet(driven)
      BY FS_Subset DEF NetInv, NetOK
    <2>2. registers = {f[w] : w \in driven}
      OBVIOUS
    <2> HIDE DEF driven, f, registers
    <2> QED
      BY <2>1, <2>2, FiniteImage
  <1>3. /\ \A x \in registers : IsPipelineReg(x)
        /\ \A w \in wires : IsPipelineReg(w[1][1]) => w[1][1] \in registers
    OBVIOUS
  <1> HIDE DEF registers
  <1>4. DOMAIN fed = registers /\ \A x \in registers : \A y : y \in fed[x] <=> \E w \in wires : w[1][1] = x /\ w[2][1] = y
    <2> SUFFICES ASSUME NEW x \in registers, NEW y
                 PROVE  y \in fed[x] <=> \E w \in wires : w[1][1] = x /\ w[2][1] = y
      OBVIOUS
    <2>1. y \in fed[x] <=> \E w \in wires : w[1] \in Outputs(x) /\ w[2][1] = y
      BY DEF Sinks
    <2>2. \A w \in wires : w[1] \in Outputs(x) <=> w[1][1] = x
      <3> TAKE w \in wires
      <3>1. w[1] = <<w[1][1], w[1][2]>> /\ w[1][2] \in 1..blocks[w[1][1]].outs
        BY WiresJoin
      <3> QED
        BY <3>1 DEF Outputs
    <2> QED
      BY <2>1, <2>2
  <1> HIDE DEF fed
  <1>5. ASSUME NEW o \in Outputs(b)
        PROVE  Ends(o) = {j}
    <2> DEFINE C == Closure(fed, {i[1] : i \in Sinks(o)})
    <2>0. \A y : y \in {i[1] : i \in Sinks(o)} <=> \E w \in wires : w[1] = o /\ w[2][1] = y
      BY DEF Sinks
    <2>1. PICK S \in SUBSET DOMAIN blocks : Through(o, S) /\ \A c \in S : IsPipelineReg(c) \/ c = j
      BY <1>1, <1>5 DEF MeetsAt
    <2>2. C \subseteq S
      <3>1. {i[1] : i \in Sinks(o)} \in SUBSET S
        BY <2>0, <2>1 DEF Through
      <3>2. \A x \in S : x \in DOMAIN fed => fed[x] \subseteq S
        BY <1>3, <1>4, <2>1 DEF Through
      <3> QED
        BY <1>2, <1>4, <3>1, <3>2, ClosureWithin
    <2>3. Through(o, C)
      <3>1. {i[1] : i \in Sinks(o)} \subseteq C /\ \A x \in C : x \in DOMAIN fed => fed[x] \subseteq C
        BY <1>2, <1>4, ClosureClosed
      <3>2. \A w \in wires : w[1] = o => w[2][1] \in {i[1] : i \in Sinks(o)}
        BY <2>0
      <3> HIDE DEF C
      <3>3. ASSUME NEW w \in wires, w[1][1] \in C, IsPipelineReg(w[1][1])
            PROVE  w[2][1] \in C
        <4>1. w[1][1] \in registers /\ w[2][1] \in fed[w[1][1]]
          BY <1>3, <1>4, <3>3
        <4> QED
          BY <1>4, <3>1, <3>3, <4>1
      <3>4. \A w \in wires : w[1] = o => w[2][1] \in C
        BY <3>1, <3>2
      <3> QED
        BY <3>3, <3>4 DEF Through
    <2>4. j \in C
      BY <1>1, <1>5, <2>1, <2>2, <2>3 DEF MeetsAt
    <2>5. ~IsPipelineReg(j)
      BY <1>1 DEF Is, IsPipelineReg
    <2> HIDE DEF C
    <2>6. {c \in C : ~IsPipelineReg(c)} = {j}
      BY <2>1, <2>2, <2>4, <2>5
    <2> QED
      BY <2>6 DEF C
  <1> QED
    BY <1>1, <1>5

\* The outputs of a block that fire together always meet again in one join,
\* whatever latches, forks and registers the later passes insert.
THEOREM OutputsMeet == Spec => []DependentOutputsMeet
  <1>1. Init => MeetInv
    <2> SUFFICES ASSUME Init
                 PROVE  MeetInv
      OBVIOUS
    <2>1. pass = "dependents" /\ todo = {b \in DOMAIN blocks : ~OutputsSeparate(b) /\ blocks[b].outs > 1}
      BY DEF Init, Work
    <2> QED
      BY <2>1 DEF MeetInv, Dependent
  <1>2. NetInv /\ SearchInv /\ MeetInv /\ [Next]_vars => MeetInv'
    BY MeetKept
  <1>3. NetInv /\ MeetInv => DependentOutputsMeet
    BY MeetMeans
  <1> QED
    BY <1>1, <1>2, <1>3, Invariants, PTL DEF Spec
-----------------------------------------------------------------------------
(* The values of a netlist                                                 *)

\* What f gives at the drivers of the inputs of block c.
Reads(f, ws, c) == [k \in Nat |-> f[(CHOOSE w \in ws : w[2] = <<c, k>>)[1]]]

\* f gives each output what its block makes of what f gives its inputs.
Solves(f, bs, ws) == f = [o \in (DOMAIN bs) \X Nat |-> Gives(bs[o[1]], o, Reads(f, ws, o[1]))]

\* What the values need of a netlist: wires have their form, and inputs one source.
Shape(bs, ws) ==
  /\ \A v, w \in ws : v[2] = w[2] => v = w
  /\ \A w \in ws : w[1] = <<w[1][1], w[1][2]>> /\ w[1][1] \in DOMAIN bs /\ w[1][2] \in Nat
  /\ \A c \in DOMAIN bs : bs[c].ins \in Nat

\* The inputs that a block uses are numbers, and all that it gives depends on.
LEMMA GivesSame ==
  ASSUME NEW b, NEW o, NEW f, NEW g, \A k \in Uses(b) : f[k] = g[k]
  PROVE  Gives(b, o, f) = Gives(b, o, g)
  <1> DEFINE Single == {"PipelineRegister", "Latch", "Fork", "VirtualFork", "Extract", "Split"}
  <1>1. CASE b.class \in Single
    <2>1. f[1] = g[1]
      BY <1>1 DEF Uses
    <2> QED
      BY <1>1, <2>1 DEF Gives
  <1>2. CASE b.class = "Join"
    <2>1. [k \in 1..b.ins |-> f[k]] = [k \in 1..b.ins |-> g[k]]
      BY <1>2 DEF Uses
    <2> QED
      BY <1>2, <2>1 DEF Gives
  <1>3. CASE b.class \notin Single /\ b.class # "Join"
    BY <1>3 DEF Gives
  <1> QED
    BY <1>1, <1>2, <1>3

\* The inputs that a block uses have numbers.
LEMMA UsesNat ==
  ASSUME NEW b, b.ins \in Nat
  PROVE  Uses(b) \subseteq Nat
  BY DEF Uses

\* An input reads its driver.
LEMMA ReadsDriver ==
  ASSUME NEW bs, NEW ws, Shape(bs, ws), NEW f, NEW c, NEW k \in Nat, NEW w \in ws, w[2] = <<c, k>>
  PROVE  Reads(f, ws, c)[k] = f[w[1]]
  <1>1. (CHOOSE x \in ws : x[2] = <<c, k>>) = w
    BY DEF Shape
  <1> QED
    BY <1>1 DEF Reads

\* Values of a part of the netlist that takes nothing from the rest.
Partial(S, f, bs, ws) ==
  /\ S \in SUBSET DOMAIN bs
  /\ f = [o \in S \X Nat |-> Gives(bs[o[1]], o, Reads(f, ws, o[1]))]
  /\ \A c \in S : \A k \in Uses(bs[c]) : \E w \in ws : w[2] = <<c, k>> /\ w[1][1] \in S

\* Where parts overlap they agree.
LEMMA PartsAgree ==
  ASSUME NEW n, Shape(n.blocks, n.wires), Grounded(n),
         NEW S, NEW f, Partial(S, f, n.blocks, n.wires), NEW T, NEW g, Partial(T, g, n.blocks, n.wires),
         NEW c \in S \cap T, NEW m \in Nat
  PROVE  f[<<c, m>>] = g[<<c, m>>]
  <1> DEFINE C == {x \in S \cap T : \E i \in Nat : f[<<x, i>>] # g[<<x, i>>]}
  <1> SUFFICES ASSUME C # {}
               PROVE  FALSE
    OBVIOUS
  <1>1. C \in (SUBSET DOMAIN n.blocks) \ {{}}
    BY DEF Partial
  <1> HIDE DEF C
  <1>2. PICK x \in C : \A k \in Uses(n.blocks[x]) : \E w \in n.wires : w[2] = <<x, k>> /\ w[1][1] \notin C
    BY <1>1 DEF Grounded
  <1>3. x \in S /\ x \in T
    BY DEF C
  <1>4. ASSUME NEW k \in Uses(n.blocks[x])
        PROVE  Reads(f, n.wires, x)[k] = Reads(g, n.wires, x)[k]
    <2>1. k \in Nat
      BY <1>1, UsesNat DEF Shape
    <2>2. PICK w \in n.wires : w[2] = <<x, k>> /\ w[1][1] \notin C
      BY <1>2
    <2>3. w[1][1] \in S /\ w[1][1] \in T
      <3>1. PICK u \in n.wires : u[2] = <<x, k>> /\ u[1][1] \in S
        BY <1>3 DEF Partial
      <3>2. PICK v \in n.wires : v[2] = <<x, k>> /\ v[1][1] \in T
        BY <1>3 DEF Partial
      <3> QED
        BY <2>2, <3>1, <3>2 DEF Shape
    <2>4. f[w[1]] = g[w[1]]
      BY <2>2, <2>3 DEF C, Shape
    <2> QED
      BY <2>1, <2>2, <2>4, ReadsDriver
  <1>5. ASSUME NEW i \in Nat
        PROVE  f[<<x, i>>] = g[<<x, i>>]
    <2>1. f[<<x, i>>] = Gives(n.blocks[x], <<x, i>>, Reads(f, n.wires, x))
      BY <1>3 DEF Partial
    <2>2. g[<<x, i>>] = Gives(n.blocks[x], <<x, i>>, Reads(g, n.wires, x))
      BY <1>3 DEF Partial
    <2> QED
      BY <1>4, <2>1, <2>2, GivesSame
  <1> QED
    BY <1>5 DEF C

\* There is one way to give values.
Unique(n) == \E f : \A g : Solves(g, n.blocks, n.wires) <=> g = f

\* Every value comes from somewhere, so there is one way to give them.
LEMMA OneSolution ==
  ASSUME NEW n, Shape(n.blocks, n.wires), Grounded(n)
  PROVE  Unique(n)
  <1> DEFINE P(S, f) == Partial(S, f, n.blocks, n.wires)
             D == DOMAIN n.blocks
  <1>1. PICK U : U = {c \in D : \E S, f : P(S, f) /\ c \in S}
    OBVIOUS
  <1>2. PICK f : f = [o \in U \X Nat |-> CHOOSE v : \E S, g : P(S, g) /\ o[1] \in S /\ v = g[o]]
    OBVIOUS
  <1>3. ASSUME NEW S, NEW g, P(S, g), NEW c \in S, NEW m \in Nat
        PROVE  c \in U /\ f[<<c, m>>] = g[<<c, m>>]
    <2>1. c \in U
      BY <1>1, <1>3 DEF Partial
    <2>2. f[<<c, m>>] = CHOOSE v : \E T, h : P(T, h) /\ c \in T /\ v = h[<<c, m>>]
      BY <1>2, <2>1
    <2>3. \E v : \E T, h : P(T, h) /\ c \in T /\ v = h[<<c, m>>]
      BY <1>3
    <2>4. PICK T, h : P(T, h) /\ c \in T /\ f[<<c, m>>] = h[<<c, m>>]
      BY <2>2, <2>3
    <2>5. h[<<c, m>>] = g[<<c, m>>]
      BY <1>3, <2>4, PartsAgree
    <2> QED
      BY <2>1, <2>4, <2>5
  <1>4. \A c \in U : \A k \in Uses(n.blocks[c]) : \E w \in n.wires : w[2] = <<c, k>> /\ w[1][1] \in U
    <2> TAKE c \in U
    <2>1. PICK S, g : P(S, g) /\ c \in S
      BY <1>1
    <2>2. \A k \in Uses(n.blocks[c]) : \E w \in n.wires : w[2] = <<c, k>> /\ w[1][1] \in S
      BY <2>1 DEF Partial
    <2>3. S \subseteq U
      BY <1>3, <2>1
    <2> QED
      BY <2>2, <2>3
  <1>5. ASSUME NEW o \in U \X Nat
        PROVE  f[o] = Gives(n.blocks[o[1]], o, Reads(f, n.wires, o[1]))
    <2>1. PICK c, m : c \in U /\ m \in Nat /\ o = <<c, m>>
      OBVIOUS
    <2>2. PICK S, g : P(S, g) /\ c \in S
      BY <1>1, <2>1
    <2>3. f[o] = g[o] /\ c \in D
      <3>1. c \in D
        BY <2>2 DEF Partial
      <3> QED
        BY <1>3, <2>1, <2>2, <3>1
    <2>4. g[o] = Gives(n.blocks[c], o, Reads(g, n.wires, c))
      BY <2>1, <2>2 DEF Partial
    <2>5. ASSUME NEW k \in Uses(n.blocks[c])
          PROVE  Reads(f, n.wires, c)[k] = Reads(g, n.wires, c)[k]
      <3>1. PICK w \in n.wires : w[2] = <<c, k>> /\ w[1][1] \in S
        BY <2>2 DEF Partial
      <3>2. f[w[1]] = g[w[1]]
        BY <1>3, <2>2, <3>1 DEF Shape
      <3>3. k \in Nat
        BY <2>3, UsesNat DEF Shape
      <3> QED
        BY <3>1, <3>2, <3>3, ReadsDriver
    <2> QED
      BY <2>1, <2>3, <2>4, <2>5, GivesSame
  <1>6. U = D
    <2> SUFFICES ASSUME D \ U # {}
                 PROVE  FALSE
      BY <1>1
    <2>1. PICK c \in D \ U : \A k \in Uses(n.blocks[c]) : \E w \in n.wires : w[2] = <<c, k>> /\ w[1][1] \notin D \ U
      BY DEF Grounded
    <2>2. \A k \in Uses(n.blocks[c]) : \E w \in n.wires : w[2] = <<c, k>> /\ w[1][1] \in U
      BY <2>1 DEF Shape
    <2>3. PICK S : S = U \cup {c}
      OBVIOUS
    <2>4. PICK p : p = [o \in S \X Nat |-> IF o[1] \in U THEN f[o] ELSE Gives(n.blocks[c], o, Reads(f, n.wires, c))]
      OBVIOUS
    <2>5. ASSUME NEW o \in S \X Nat
          PROVE  p[o] = Gives(n.blocks[o[1]], o, Reads(p, n.wires, o[1]))
      <3>1. PICK d, m : d \in S /\ m \in Nat /\ o = <<d, m>>
        OBVIOUS
      <3>2. p[o] = Gives(n.blocks[d], o, Reads(f, n.wires, d))
        <4>1. CASE d \in U
          BY <1>5, <2>4, <3>1, <4>1
        <4>2. CASE d \notin U
          BY <2>3, <2>4, <3>1, <4>2
        <4> QED
          BY <4>1, <4>2
      <3>3. ASSUME NEW k \in Uses(n.blocks[d])
            PROVE  Reads(f, n.wires, d)[k] = Reads(p, n.wires, d)[k]
        <4>1. PICK w \in n.wires : w[2] = <<d, k>> /\ w[1][1] \in U
          BY <1>4, <2>2, <2>3, <3>1
        <4>2. f[w[1]] = p[w[1]]
          BY <2>3, <2>4, <4>1 DEF Shape
        <4>3. d \in D
          BY <1>1, <2>3, <3>1
        <4>4. k \in Nat
          BY <4>3, UsesNat DEF Shape
        <4> QED
          BY <4>1, <4>2, <4>4, ReadsDriver
      <3> QED
        BY <3>1, <3>2, <3>3, GivesSame
    <2>6. \A d \in S : \A k \in Uses(n.blocks[d]) : \E w \in n.wires : w[2] = <<d, k>> /\ w[1][1] \in S
      BY <1>4, <2>2, <2>3
    <2>7. p = [o \in S \X Nat |-> Gives(n.blocks[o[1]], o, Reads(p, n.wires, o[1]))]
      <3>1. p = [o \in S \X Nat |-> p[o]]
        BY <2>4
      <3> QED
        BY <2>5, <3>1
    <2>8. P(S, p)
      BY <1>1, <2>3, <2>6, <2>7 DEF Partial
    <2> QED
      BY <1>1, <2>3, <2>8
  <1>7. Solves(f, n.blocks, n.wires)
    <2>1. f = [o \in U \X Nat |-> f[o]]
      BY <1>2
    <2> QED
      BY <1>5, <1>6, <2>1 DEF Solves
  <1>8. ASSUME NEW g, Solves(g, n.blocks, n.wires)
        PROVE  g = f
    <2>1. P(D, g) /\ P(D, f)
      BY <1>4, <1>6, <1>7, <1>8 DEF Partial, Solves
    <2>2. ASSUME NEW o \in D \X Nat
          PROVE  g[o] = f[o]
      <3>1. PICK c, m : c \in D /\ m \in Nat /\ o = <<c, m>>
        OBVIOUS
      <3> HIDE DEF D
      <3>2. g[<<c, m>>] = f[<<c, m>>]
        BY <2>1, <3>1, PartsAgree
      <3> QED
        BY <3>1, <3>2
    <2>3. g = [o \in D \X Nat |-> g[o]] /\ f = [o \in D \X Nat |-> f[o]]
      BY <1>7, <1>8 DEF Solves
    <2>4. [o \in D \X Nat |-> g[o]] = [o \in D \X Nat |-> f[o]]
      BY <2>2
    <2> HIDE DEF D
    <2> QED
      BY <2>3, <2>4
  <1> QED
    BY <1>7, <1>8 DEF Unique

\* f gives what it should at the outputs of c.
GivesAt(f, bs, ws, c) == \A m \in Nat : f[<<c, m>>] = Gives(bs[c], <<c, m>>, Reads(f, ws, c))

\* f is a function over the outputs of the blocks bs.
Over(f, bs) == f = [o \in (DOMAIN bs) \X Nat |-> f[o]]

\* A solution is one at each block.
LEMMA SolvesMeans ==
  ASSUME NEW bs, NEW ws, NEW f
  PROVE  Solves(f, bs, ws) <=> Over(f, bs) /\ \A c \in DOMAIN bs : GivesAt(f, bs, ws, c)
  <1>1. ASSUME Solves(f, bs, ws)
        PROVE  Over(f, bs) /\ \A c \in DOMAIN bs : GivesAt(f, bs, ws, c)
    <2>1. \A o \in (DOMAIN bs) \X Nat : f[o] = Gives(bs[o[1]], o, Reads(f, ws, o[1]))
      BY <1>1 DEF Solves
    <2>2. Over(f, bs)
      BY <1>1 DEF Solves, Over
    <2> QED
      BY <2>1, <2>2 DEF GivesAt
  <1>2. ASSUME Over(f, bs), \A c \in DOMAIN bs : GivesAt(f, bs, ws, c)
        PROVE  Solves(f, bs, ws)
    <2>1. ASSUME NEW o \in (DOMAIN bs) \X Nat
          PROVE  f[o] = Gives(bs[o[1]], o, Reads(f, ws, o[1]))
      <3>1. PICK c, m : c \in DOMAIN bs /\ m \in Nat /\ o = <<c, m>>
        OBVIOUS
      <3> QED
        BY <1>2, <3>1 DEF GivesAt
    <2> QED
      BY <1>2, <2>1 DEF Solves, Over
  <1> QED
    BY <1>1, <1>2

\* Two functions that agree on the outputs are one.
LEMMA OverSame ==
  ASSUME NEW bs, NEW f, NEW g, Over(f, bs), Over(g, bs), \A c \in DOMAIN bs : \A m \in Nat : f[<<c, m>>] = g[<<c, m>>]
  PROVE  f = g
  <1>1. ASSUME NEW o \in (DOMAIN bs) \X Nat
        PROVE  f[o] = g[o]
    <2>1. PICK c, m : c \in DOMAIN bs /\ m \in Nat /\ o = <<c, m>>
      OBVIOUS
    <2> QED
      BY <2>1
  <1>2. [o \in (DOMAIN bs) \X Nat |-> f[o]] = [o \in (DOMAIN bs) \X Nat |-> g[o]]
    BY <1>1
  <1> QED
    BY <1>2 DEF Over

\* Block c reads from f in the netlist of bs and ws what it reads from g in the
\* one of cs and xs.
ReadsSame(c, bs, ws, f, cs, xs, g) ==
  /\ Shape(bs, ws) /\ Shape(cs, xs) /\ c \in DOMAIN bs /\ cs[c] = bs[c]
  /\ \A k \in Uses(bs[c]) : \E w \in ws : w[2] = <<c, k>>
  /\ \A v \in ws : v[2][1] = c => \E w \in xs : w[2] = v[2] /\ g[w[1]] = f[v[1]]

\* A block that reads the same values gives the same.
LEMMA Transferred ==
  ASSUME NEW bs, NEW ws, NEW cs, NEW xs, NEW f, NEW g, NEW c, ReadsSame(c, bs, ws, f, cs, xs, g)
  PROVE  \A o : Gives(cs[c], o, Reads(g, xs, c)) = Gives(bs[c], o, Reads(f, ws, c))
  <1>0. /\ Shape(bs, ws) /\ Shape(cs, xs) /\ c \in DOMAIN bs /\ cs[c] = bs[c]
        /\ \A k \in Uses(bs[c]) : \E w \in ws : w[2] = <<c, k>>
        /\ \A v \in ws : v[2][1] = c => \E w \in xs : w[2] = v[2] /\ g[w[1]] = f[v[1]]
    BY DEF ReadsSame
  <1>1. ASSUME NEW k \in Uses(bs[c])
        PROVE  Reads(g, xs, c)[k] = Reads(f, ws, c)[k]
    <2>1. k \in Nat
      BY <1>0, UsesNat DEF Shape
    <2>2. PICK v \in ws : v[2] = <<c, k>>
      BY <1>0
    <2>3. PICK w \in xs : w[2] = v[2] /\ g[w[1]] = f[v[1]]
      BY <1>0, <2>2
    <2>4. Reads(f, ws, c)[k] = f[v[1]]
      BY <1>0, <2>1, <2>2, ReadsDriver
    <2>5. Reads(g, xs, c)[k] = g[w[1]]
      BY <1>0, <2>1, <2>2, <2>3, ReadsDriver
    <2> QED
      BY <2>3, <2>4, <2>5
  <1> QED
    BY <1>0, <1>1, GivesSame

\* The inputs that count have a driver.
Driven == \A c \in DOMAIN blocks : \A k \in Uses(blocks[c]) : \E w \in wires : w[2] = <<c, k>>

\* The netlist gives its values in one way, and those that the inputs got
\* before the passes are still what they get.
ValueInv ==
  /\ original \in Netlists /\ Driven
  /\ \E f : /\ \A g : Solves(g, blocks, wires) <=> g = f
            /\ \A w \in original.wires : w[2][1] \in DOMAIN blocks =>
                 \E v \in wires : v[2] = w[2] /\ f[v[1]] = Value(original)[w[1]]

\* h gives at the blocks of K what f gave there, and to their inputs what f gave
\* them before the step.
Extends(f, h, K) ==
  /\ \A c \in K : \A m \in Nat : h[<<c, m>>] = f[<<c, m>>]
  /\ \A v \in wires : v[2][1] \in K => \E w \in wires' : w[2] = v[2] /\ h[w[1]] = f[v[1]]

\* h extends f to the new blocks N, and whatever solves the new netlist is such
\* an extension of what solves the old one.
Remodels(f, h, K, N) ==
  /\ Over(h, blocks') /\ Extends(f, h, K)
  /\ \A c \in N : GivesAt(h, blocks', wires', c)
  /\ \A g : Solves(g, blocks', wires') =>
       \E p : /\ Over(p, blocks) /\ Extends(p, g, K)
              /\ \A c \in DOMAIN blocks \ K : GivesAt(p, blocks, wires, c)
              /\ p = f => \A c \in N : \A m \in Nat : g[<<c, m>>] = h[<<c, m>>]

\* A well-formed netlist has the shape.
LEMMA NetShape ==
  ASSUME NEW bs, NEW ws, \A b \in DOMAIN bs : bs[b].ins \in Nat /\ bs[b].outs \in Nat,
         \A w \in ws : /\ w = <<<<w[1][1], w[1][2]>>, <<w[2][1], w[2][2]>>>>
                       /\ w[1][1] \in DOMAIN bs /\ w[1][2] \in 1..bs[w[1][1]].outs,
         \A v, w \in ws : v[2] = w[2] => v = w
  PROVE  Shape(bs, ws)
  <1>1. ASSUME NEW w \in ws
        PROVE  w[1] = <<w[1][1], w[1][2]>> /\ w[1][1] \in DOMAIN bs /\ w[1][2] \in Nat
    <2>1. w = <<<<w[1][1], w[1][2]>>, <<w[2][1], w[2][2]>>>>
      OBVIOUS
    <2>2. w[1] = <<w[1][1], w[1][2]>>
      BY <2>1
    <2> QED
      BY <2>2
  <1> QED
    BY <1>1 DEF Shape

\* What a step does to the values, if it remodels them.
LEMMA Remodeled ==
  ASSUME NetOK, NetOK', ValueInv, original' = original,
         NEW K, NEW N, K \subseteq DOMAIN blocks, DOMAIN blocks' = K \cup N, N \cap DOMAIN blocks = {},
         \A c \in K : blocks'[c] = blocks[c], \A c \in N : Role(c) # "module",
         \A c \in N : \A k \in Uses(blocks'[c]) : \E w \in wires' : w[2] = <<c, k>>,
         \A f : Solves(f, blocks, wires) => \E h : Remodels(f, h, K, N)
  PROVE  ValueInv'
  <1>1. PICK f : /\ \A g : Solves(g, blocks, wires) <=> g = f
                 /\ \A w \in original.wires : w[2][1] \in DOMAIN blocks =>
                      \E v \in wires : v[2] = w[2] /\ f[v[1]] = Value(original)[w[1]]
    BY DEF ValueInv
  <1>2. PICK h : Remodels(f, h, K, N)
    BY <1>1
  <1>3. Shape(blocks, wires) /\ Shape(blocks', wires')
    <2>1. Shape(blocks, wires)
      BY NetShape DEF NetOK, Joined, Ports
    <2>2. Shape(blocks', wires')
      BY NetShape DEF NetOK, Joined, Ports
    <2> QED
      BY <2>1, <2>2
  <1>4. \A c \in K : \A k \in Uses(blocks[c]) : \E w \in wires : w[2] = <<c, k>>
    BY DEF ValueInv, Driven
  <1>5. ASSUME NEW p, NEW g, Extends(p, g, K), NEW c \in K
        PROVE  GivesAt(g, blocks', wires', c) <=> GivesAt(p, blocks, wires, c)
    <2>1. \A v \in wires : v[2][1] = c => \E w \in wires' : w[2] = v[2] /\ g[w[1]] = p[v[1]]
      BY <1>5 DEF Extends
    <2>2. ReadsSame(c, blocks, wires, p, blocks', wires', g)
      BY <1>3, <1>4, <2>1 DEF ReadsSame
    <2>4. \A o : Gives(blocks'[c], o, Reads(g, wires', c)) = Gives(blocks[c], o, Reads(p, wires, c))
      BY <2>2, Transferred
    <2>3. \A m \in Nat : g[<<c, m>>] = p[<<c, m>>]
      BY <1>5 DEF Extends
    <2> QED
      BY <2>3, <2>4 DEF GivesAt
  <1>6. Solves(h, blocks', wires')
    <2>1. \A c \in DOMAIN blocks : GivesAt(f, blocks, wires, c)
      BY <1>1, SolvesMeans
    <2>2. \A c \in K : GivesAt(h, blocks', wires', c)
      BY <1>2, <1>5, <2>1 DEF Remodels
    <2>3. Over(h, blocks') /\ \A c \in DOMAIN blocks' : GivesAt(h, blocks', wires', c)
      BY <1>2, <2>2 DEF Remodels
    <2> QED
      BY <2>3, SolvesMeans
  <1>7. ASSUME NEW g, Solves(g, blocks', wires')
        PROVE  g = h
    <2>1. PICK p : /\ Over(p, blocks) /\ Extends(p, g, K)
                   /\ \A c \in DOMAIN blocks \ K : GivesAt(p, blocks, wires, c)
                   /\ p = f => \A c \in N : \A m \in Nat : g[<<c, m>>] = h[<<c, m>>]
      BY <1>2, <1>7 DEF Remodels
    <2>2. Over(g, blocks') /\ \A c \in DOMAIN blocks' : GivesAt(g, blocks', wires', c)
      BY <1>7, SolvesMeans
    <2>3. \A c \in K : GivesAt(p, blocks, wires, c)
      BY <1>5, <2>1, <2>2
    <2>4. p = f
      <3>1. \A c \in DOMAIN blocks : GivesAt(p, blocks, wires, c)
        BY <2>1, <2>3
      <3>2. Solves(p, blocks, wires)
        BY <2>1, <3>1, SolvesMeans
      <3> QED
        BY <1>1, <3>2
    <2>5. \A c \in K : \A m \in Nat : g[<<c, m>>] = h[<<c, m>>]
      <3>1. \A c \in K : \A m \in Nat : g[<<c, m>>] = f[<<c, m>>]
        <4>1. Extends(f, g, K)
          BY <1>2, <2>1, <2>4
        <4> QED
          BY <4>1 DEF Extends
      <3>2. \A c \in K : \A m \in Nat : h[<<c, m>>] = f[<<c, m>>]
        BY <1>2 DEF Remodels, Extends
      <3> QED
        BY <3>1, <3>2
    <2>6. \A c \in DOMAIN blocks' : \A m \in Nat : g[<<c, m>>] = h[<<c, m>>]
      BY <2>1, <2>4, <2>5
    <2>7. Over(h, blocks')
      BY <1>2 DEF Remodels
    <2> QED
      BY <2>2, <2>6, <2>7, OverSame
  <1>8. ASSUME NEW w \in original.wires, w[2][1] \in DOMAIN blocks'
        PROVE  \E v \in wires' : v[2] = w[2] /\ h[v[1]] = Value(original)[w[1]]
    <2>1. w[2][1] \in K
      <3>1. Role(w[2][1]) = "module"
        BY NetlistsOK DEF ValueInv, WellFormed, Role
      <3> QED
        BY <1>8, <3>1
    <2>2. PICK v \in wires : v[2] = w[2] /\ f[v[1]] = Value(original)[w[1]]
      BY <1>1, <2>1
    <2>3. PICK u \in wires' : u[2] = v[2] /\ h[u[1]] = f[v[1]]
      BY <1>2, <2>1, <2>2 DEF Remodels, Extends
    <2> QED
      BY <2>2, <2>3
  <1>9. Driven'
    <2>1. ASSUME NEW c \in K, NEW k \in Uses(blocks[c])
          PROVE  \E w \in wires' : w[2] = <<c, k>>
      <3>1. PICK v \in wires : v[2] = <<c, k>>
        BY <1>4
      <3> QED
        BY <1>2, <3>1 DEF Remodels, Extends
    <2>2. \A c \in DOMAIN blocks' : \A k \in Uses(blocks'[c]) : \E w \in wires' : w[2] = <<c, k>>
      BY <2>1
    <2> QED
      BY <2>2 DEF Driven
  <1>10. \A g : Solves(g, blocks', wires') <=> g = h
    BY <1>6, <1>7
  <1>11. original' \in Netlists
    BY DEF ValueInv
  <1>12. \A w \in original'.wires : w[2][1] \in DOMAIN blocks' =>
           \E v \in wires' : v[2] = w[2] /\ h[v[1]] = Value(original')[w[1]]
    BY <1>8
  <1> QED
    BY <1>9, <1>10, <1>11, <1>12 DEF ValueInv

\* The values f at the blocks K, and others at the rest.
Mixes(h, bs, K, f, val) ==
  Over(h, bs) /\ \A c \in DOMAIN bs : \A m \in Nat : h[<<c, m>>] = IF c \in K THEN f[<<c, m>>] ELSE val[<<c, m>>]

\* There are such values.
LEMMA Extended ==
  ASSUME NEW bs, NEW K, NEW f, NEW val
  PROVE  \E h : Mixes(h, bs, K, f, val)
  <1>1. PICK h : h = [o \in (DOMAIN bs) \X Nat |-> IF o[1] \in K THEN f[o] ELSE val[o]]
    OBVIOUS
  <1>2. ASSUME NEW c \in DOMAIN bs, NEW m \in Nat
        PROVE  h[<<c, m>>] = IF c \in K THEN f[<<c, m>>] ELSE val[<<c, m>>]
    <2>1. <<c, m>> \in (DOMAIN bs) \X Nat
      OBVIOUS
    <2>2. h[<<c, m>>] = IF <<c, m>>[1] \in K THEN f[<<c, m>>] ELSE val[<<c, m>>]
      BY <1>1, <2>1
    <2> QED
      BY <2>2
  <1>3. Over(h, bs)
    BY <1>1 DEF Over
  <1> QED
    BY <1>2, <1>3 DEF Mixes

\* The classes of the blocks that give what they get.
Passing == {"PipelineRegister", "Latch", "Fork", "VirtualFork"}

\* w comes from o, or from a new block of N that passes on o.
Brings(w, o, N, src) == w[1] = o \/ \E y \in N, m \in Nat : w[1] = <<y, m>> /\ src[y] = o

\* The new blocks N pass on the outputs src; the old ones stay and get what they got.
PassedOn(N, src) ==
  /\ DOMAIN blocks' = DOMAIN blocks \cup N /\ N \cap DOMAIN blocks = {}
  /\ \A c \in DOMAIN blocks : blocks'[c] = blocks[c]
  /\ \A c \in N : /\ Role(c) # "module" /\ blocks'[c].class \in Passing /\ IsOutput(src[c])
                  /\ \E w \in wires' : w[2] = <<c, 1>> /\ Brings(w, src[c], {y \in N : <<src[c], <<y, 1>>>> \in wires'}, src)
  /\ \A v \in wires : \E w \in wires' : w[2] = v[2] /\ Brings(w, v[1], N, src)

\* A block that passes on gives what its driver gives.
LEMMA GivesDriver ==
  ASSUME NEW bs, NEW ws, Shape(bs, ws), NEW f, NEW c \in DOMAIN bs, bs[c].class \in Passing,
         NEW w \in ws, w[2] = <<c, 1>>
  PROVE  GivesAt(f, bs, ws, c) <=> \A m \in Nat : f[<<c, m>>] = f[w[1]]
  <1>1. Reads(f, ws, c)[1] = f[w[1]]
    BY ReadsDriver
  <1>2. \A o : Gives(bs[c], o, Reads(f, ws, c)) = Reads(f, ws, c)[1]
    BY DEF Gives, Passing
  <1> QED
    BY <1>1, <1>2 DEF GivesAt

\* A block that passes on uses its one input.
LEMMA PassingUses ==
  ASSUME NEW b, b.class \in Passing
  PROVE  Uses(b) = {1}
  BY DEF Uses, Passing

\* Shapes, before and after a step.
LEMMA Shapes ==
  ASSUME NetOK, NetOK'
  PROVE  Shape(blocks, wires) /\ Shape(blocks', wires')
  <1>1. Shape(blocks, wires)
    BY NetShape DEF NetOK, Joined, Ports
  <1>2. Shape(blocks', wires')
    BY NetShape DEF NetOK, Joined, Ports
  <1> QED
    BY <1>1, <1>2

\* Blocks that pass on change no value.
LEMMA PassedOnKeeps ==
  ASSUME NetOK, NetOK', ValueInv, original' = original, NEW N, NEW src, PassedOn(N, src)
  PROVE  ValueInv'
  <1>0. /\ DOMAIN blocks' = DOMAIN blocks \cup N /\ N \cap DOMAIN blocks = {}
        /\ \A c \in DOMAIN blocks : blocks'[c] = blocks[c]
        /\ \A c \in N : /\ Role(c) # "module" /\ blocks'[c].class \in Passing /\ IsOutput(src[c])
                        /\ \E w \in wires' : w[2] = <<c, 1>> /\ Brings(w, src[c], {y \in N : <<src[c], <<y, 1>>>> \in wires'}, src)
        /\ \A v \in wires : \E w \in wires' : w[2] = v[2] /\ Brings(w, v[1], N, src)
    BY DEF PassedOn
  <1>1. Shape(blocks, wires) /\ Shape(blocks', wires')
    BY Shapes
  <1>2. \A c \in N : \A k \in Uses(blocks'[c]) : \E w \in wires' : w[2] = <<c, k>>
    <2>1. ASSUME NEW c \in N, NEW k \in Uses(blocks'[c])
          PROVE  \E w \in wires' : w[2] = <<c, k>>
      <3>1. blocks'[c].class \in Passing /\ \E w \in wires' : w[2] = <<c, 1>>
        BY <1>0
      <3>2. Uses(blocks'[c]) = {1}
        BY <3>1, PassingUses
      <3> QED
        BY <3>1, <3>2
    <2> QED
      BY <2>1
  <1>3. \A c \in N : src[c] = <<src[c][1], src[c][2]>> /\ src[c][1] \in DOMAIN blocks /\ src[c][2] \in Nat
    <2>1. \A c \in DOMAIN blocks : blocks[c].outs \in Nat
      BY DEF NetOK, Ports
    <2> QED
      BY <1>0, <2>1 DEF IsOutput
  <1>4. ASSUME NEW g, NEW p, \A c \in DOMAIN blocks : \A m \in Nat : g[<<c, m>>] = p[<<c, m>>]
        PROVE  \A c \in N : g[src[c]] = p[src[c]]
    <2> TAKE c \in N
    <2>1. PICK d \in DOMAIN blocks, m \in Nat : src[c] = <<d, m>>
      BY <1>3
    <2> QED
      BY <1>4, <2>1
  \* Whatever gives at N what is behind it extends its values before.
  <1>5. ASSUME NEW g, NEW p, \A c \in DOMAIN blocks : \A m \in Nat : g[<<c, m>>] = p[<<c, m>>],
               \A c \in N : \A m \in Nat : g[<<c, m>>] = p[src[c]]
        PROVE  Extends(p, g, DOMAIN blocks)
    <2>1. ASSUME NEW v \in wires
          PROVE  \E w \in wires' : w[2] = v[2] /\ g[w[1]] = p[v[1]]
      <3>1. PICK w \in wires' : w[2] = v[2] /\ Brings(w, v[1], N, src)
        BY <1>0
      <3>2. CASE w[1] = v[1]
        <4>1. v[1] = <<v[1][1], v[1][2]>> /\ v[1][1] \in DOMAIN blocks /\ v[1][2] \in Nat
          BY <1>1 DEF Shape
        <4>2. g[<<v[1][1], v[1][2]>>] = p[<<v[1][1], v[1][2]>>]
          BY <1>5, <4>1
        <4>3. g[v[1]] = p[v[1]]
          BY <4>1, <4>2
        <4> QED
          BY <3>1, <3>2, <4>3
      <3>3. CASE \E y \in N, m \in Nat : w[1] = <<y, m>> /\ src[y] = v[1]
        BY <1>5, <3>1, <3>3
      <3> QED
        BY <3>1, <3>2, <3>3 DEF Brings
    <2> QED
      BY <1>5, <2>1 DEF Extends
  <1>6. ASSUME NEW f
        PROVE  \E h : Remodels(f, h, DOMAIN blocks, N)
    <2>1. PICK val : val = [o \in N \X Nat |-> f[src[o[1]]]]
      OBVIOUS
    <2>2. PICK h : Mixes(h, blocks', DOMAIN blocks, f, val)
      BY Extended
    <2>3. \A c \in DOMAIN blocks : \A m \in Nat : h[<<c, m>>] = f[<<c, m>>]
      BY <1>0, <2>2 DEF Mixes
    <2>4. ASSUME NEW c \in N, NEW m \in Nat
          PROVE  h[<<c, m>>] = f[src[c]]
      <3>1. h[<<c, m>>] = val[<<c, m>>]
        BY <1>0, <2>2 DEF Mixes
      <3> QED
        BY <2>1, <3>1
    <2>5. \A c \in N : h[src[c]] = f[src[c]]
      BY <1>4, <2>3
    <2>6. ASSUME NEW c \in N
          PROVE  GivesAt(h, blocks', wires', c)
      <3>1. PICK w \in wires' : w[2] = <<c, 1>> /\ Brings(w, src[c], {y \in N : <<src[c], <<y, 1>>>> \in wires'}, src)
        BY <1>0
      <3>2. h[w[1]] = f[src[c]]
        <4>1. CASE w[1] = src[c]
          BY <2>5, <4>1
        <4>2. CASE \E y \in N, m \in Nat : w[1] = <<y, m>> /\ src[y] = src[c]
          BY <2>4, <4>2
        <4> QED
          BY <3>1, <4>1, <4>2 DEF Brings
      <3> QED
        BY <1>0, <1>1, <2>4, <3>1, <3>2, GivesDriver
    <2>7. Extends(f, h, DOMAIN blocks)
      BY <1>5, <2>3, <2>4
    <2>8. ASSUME NEW g, Solves(g, blocks', wires')
          PROVE  \E p : /\ Over(p, blocks) /\ Extends(p, g, DOMAIN blocks)
                        /\ \A c \in DOMAIN blocks \ DOMAIN blocks : GivesAt(p, blocks, wires, c)
                        /\ p = f => \A c \in N : \A m \in Nat : g[<<c, m>>] = h[<<c, m>>]
      <3>1. \A c \in N : GivesAt(g, blocks', wires', c)
        BY <1>0, <2>8, SolvesMeans
      <3>2. ASSUME NEW c \in N, NEW w \in wires', w[2] = <<c, 1>>, NEW m \in Nat
            PROVE  g[<<c, m>>] = g[w[1]]
        BY <1>0, <1>1, <3>1, <3>2, GivesDriver
      <3>3. ASSUME NEW c \in N, NEW m \in Nat
            PROVE  g[<<c, m>>] = g[src[c]]
        <4>1. PICK w \in wires' : w[2] = <<c, 1>> /\ Brings(w, src[c], {y \in N : <<src[c], <<y, 1>>>> \in wires'}, src)
          BY <1>0
        <4>2. g[<<c, m>>] = g[w[1]]
          BY <3>2, <4>1
        <4>3. CASE w[1] = src[c]
          BY <4>2, <4>3
        <4>4. ASSUME NEW y \in N, NEW k \in Nat, w[1] = <<y, k>>, <<src[c], <<y, 1>>>> \in wires'
              PROVE  g[<<c, m>>] = g[src[c]]
          <5>1. PICK u \in wires' : u = <<src[c], <<y, 1>>>>
            BY <4>4
          <5>2. u[1] = src[c] /\ u[2] = <<y, 1>>
            BY <5>1
          <5>3. g[<<y, k>>] = g[u[1]]
            BY <3>2, <5>2
          <5> QED
            BY <4>2, <4>4, <5>2, <5>3
        <4> QED
          BY <4>1, <4>3, <4>4 DEF Brings
      <3>4. PICK p : Over(p, blocks) /\ \A c \in DOMAIN blocks : \A m \in Nat : p[<<c, m>>] = g[<<c, m>>]
        <4>1. PICK p : Mixes(p, blocks, DOMAIN blocks, g, g)
          BY Extended
        <4> QED
          BY <4>1 DEF Mixes
      <3>5. \A c \in N : p[src[c]] = g[src[c]]
        BY <1>4, <3>4
      <3>6. Extends(p, g, DOMAIN blocks)
        <4>1. \A c \in DOMAIN blocks : \A m \in Nat : g[<<c, m>>] = p[<<c, m>>]
          BY <3>4
        <4>2. \A c \in N : \A m \in Nat : g[<<c, m>>] = p[src[c]]
          BY <3>3, <3>5
        <4> QED
          BY <1>5, <4>1, <4>2
      <3>7. p = f => \A c \in N : \A m \in Nat : g[<<c, m>>] = h[<<c, m>>]
        <4> SUFFICES ASSUME p = f, NEW c \in N, NEW m \in Nat
                     PROVE  g[<<c, m>>] = h[<<c, m>>]
          OBVIOUS
        <4>1. g[<<c, m>>] = p[src[c]]
          BY <3>3, <3>5
        <4>2. h[<<c, m>>] = f[src[c]]
          BY <2>4
        <4> QED
          BY <4>1, <4>2
      <3> QED
        BY <3>4, <3>6, <3>7
    <2> QED
      BY <2>2, <2>6, <2>7, <2>8 DEF Remodels, Mixes
  <1>7. \A f : Solves(f, blocks, wires) => \E h : Remodels(f, h, DOMAIN blocks, N)
    BY <1>6
  <1>8. \A c \in N : Role(c) # "module"
    BY <1>0
  <1> QED
    BY <1>0, <1>2, <1>7, <1>8, Remodeled

\* Registers and latches pass on what they are put behind.
LEMMA InsertionPasses ==
  ASSUME NetOK, NEW class \in {"PipelineRegister", "Latch"}, NEW r \in {"reg", "latch", "late"}, NEW os,
         CanInsert(r, os), Effect(class, r, os)
  PROVE  \E N, src : PassedOn(N, src)
  <1>1. PICK N : N = {<<r, o>> : o \in os}
    OBVIOUS
  <1>2. PICK src : src = [c \in N |-> c[2]]
    OBVIOUS
  <1>3. \A o \in os : <<r, o>> \in N /\ src[<<r, o>>] = o
    BY <1>1, <1>2
  <1>4. DOMAIN blocks' = DOMAIN blocks \cup N /\ N \cap DOMAIN blocks = {} /\ \A c \in DOMAIN blocks : blocks'[c] = blocks[c]
    BY <1>1 DEF Effect, CanInsert
  <1>5. ASSUME NEW c \in N
        PROVE  /\ Role(c) # "module" /\ blocks'[c].class \in Passing /\ IsOutput(src[c])
               /\ \E w \in wires' : w[2] = <<c, 1>> /\ Brings(w, src[c], {y \in N : <<src[c], <<y, 1>>>> \in wires'}, src)
    <2>1. PICK o \in os : c = <<r, o>>
      BY <1>1
    <2>2. src[c] = o /\ IsOutput(o)
      BY <1>3, <2>1 DEF CanInsert
    <2>3. blocks'[c] = Block(class, 1, 1) /\ <<o, <<c, 1>>>> \in wires'
      BY <2>1 DEF Effect
    <2>4. Role(c) # "module"
      BY <2>1, Roles
    <2>5. PICK w \in wires' : w = <<o, <<c, 1>>>>
      BY <2>3
    <2>6. w[1] = src[c] /\ w[2] = <<c, 1>>
      BY <2>2, <2>5
    <2>7. blocks'[c].class \in Passing
      BY <2>3 DEF Block, Passing
    <2> QED
      BY <2>2, <2>4, <2>6, <2>7 DEF Brings
  <1>6. ASSUME NEW v \in wires
        PROVE  \E w \in wires' : w[2] = v[2] /\ Brings(w, v[1], N, src)
    <2>1. CASE v[1] \in os
      <3>1. PICK w \in wires' : w = <<<<<<r, v[1]>>, 1>>, v[2]>>
        BY <2>1 DEF Effect
      <3>2. w[1] = <<<<r, v[1]>>, 1>> /\ w[2] = v[2]
        BY <3>1
      <3> QED
        BY <1>3, <2>1, <3>2 DEF Brings
    <2>2. CASE v[1] \notin os
      BY <2>2 DEF Effect, Brings
    <2> QED
      BY <2>1, <2>2
  <1>7. PassedOn(N, src)
    BY <1>4, <1>5, <1>6 DEF PassedOn
  <1> QED
    BY <1>7

\* A fork passes on its output, with a register in front or without.
LEMMA ForkPasses ==
  ASSUME NetInv, NEW o, SynthesizeFork(o)
  PROVE  \E N, src : PassedOn(N, src)
  <1>1. /\ IsOutput(o) /\ <<"fork", o>> \notin DOMAIN blocks /\ <<"reg", o>> \notin DOMAIN blocks
        /\ \E virt, registered \in BOOLEAN : \E sinks : ForkEffect(o, virt, registered, sinks)
    BY Forked
  <1>2. PICK virt, registered \in BOOLEAN : \E sinks : ForkEffect(o, virt, registered, sinks)
    BY <1>1
  <1>3. PICK sinks : ForkEffect(o, virt, registered, sinks)
    BY <1>2
  <1>4. PICK fork, reg : fork = <<"fork", o>> /\ reg = <<"reg", o>>
    OBVIOUS
  <1>5. PICK N : N = {fork} \cup (IF registered THEN {reg} ELSE {})
    OBVIOUS
  <1>6. PICK src : src = [c \in N |-> o]
    OBVIOUS
  <1>7. /\ DOMAIN blocks' = DOMAIN blocks \cup N /\ N \cap DOMAIN blocks = {}
        /\ \A c \in DOMAIN blocks : blocks'[c] = blocks[c]
    <2>1. DOMAIN blocks' = DOMAIN blocks \cup {fork} \cup (IF registered THEN {reg} ELSE {})
      BY <1>3, <1>4 DEF ForkEffect
    <2>2. \A c \in DOMAIN blocks : blocks'[c] = blocks[c]
      BY <1>3 DEF ForkEffect
    <2>3. fork \notin DOMAIN blocks /\ reg \notin DOMAIN blocks
      BY <1>1, <1>4
    <2> QED
      BY <1>5, <2>1, <2>2, <2>3
  <1>8. Role(fork) # "module" /\ Role(reg) # "module"
    BY <1>4, Roles
  <1>9. blocks'[fork].class \in Passing /\ (registered => blocks'[reg].class \in Passing)
    BY <1>3, <1>4 DEF ForkEffect, Block, Passing
  <1>10. IF registered THEN <<o, <<reg, 1>>>> \in wires' /\ <<<<reg, 1>>, <<fork, 1>>>> \in wires'
                       ELSE <<o, <<fork, 1>>>> \in wires'
    BY <1>3, <1>4 DEF ForkEffect
  <1>11. ASSUME NEW c \in N
         PROVE  \E w \in wires' : w[2] = <<c, 1>> /\ Brings(w, src[c], {y \in N : <<src[c], <<y, 1>>>> \in wires'}, src)
    <2>1. CASE <<o, <<c, 1>>>> \in wires'
      <3>1. PICK w \in wires' : w = <<o, <<c, 1>>>>
        BY <2>1
      <3>2. w[1] = src[c] /\ w[2] = <<c, 1>>
        BY <1>6, <3>1
      <3> QED
        BY <3>2 DEF Brings
    <2>2. CASE registered /\ c = fork
      <3>1. PICK w \in wires' : w = <<<<reg, 1>>, <<fork, 1>>>>
        BY <1>10, <2>2
      <3>2. w[1] = <<reg, 1>> /\ w[2] = <<c, 1>>
        BY <2>2, <3>1
      <3>3. reg \in N /\ src[reg] = src[c] /\ <<src[c], <<reg, 1>>>> \in wires'
        BY <1>5, <1>6, <1>10, <2>2
      <3> QED
        BY <3>2, <3>3 DEF Brings
    <2> QED
      BY <1>5, <1>10, <2>1, <2>2
  <1>12. ASSUME NEW v \in wires
         PROVE  \E w \in wires' : w[2] = v[2] /\ Brings(w, v[1], N, src)
    <2>1. CASE v[1] = o
      <3>1. Len(sinks) \in Nat /\ \E k \in 1..Len(sinks) : sinks[k] = v[2] /\ <<<<fork, k>>, sinks[k]>> \in wires'
        BY <1>3, <1>4, <2>1 DEF ForkEffect
      <3>2. PICK k \in 1..Len(sinks) : sinks[k] = v[2] /\ <<<<fork, k>>, sinks[k]>> \in wires'
        BY <3>1
      <3>3. PICK w \in wires' : w = <<<<fork, k>>, v[2]>>
        BY <3>2
      <3>4. w[1] = <<fork, k>> /\ w[2] = v[2] /\ k \in Nat
        BY <3>1, <3>3
      <3>5. fork \in N /\ src[fork] = v[1]
        BY <1>5, <1>6, <2>1
      <3> QED
        BY <3>4, <3>5 DEF Brings
    <2>2. CASE v[1] # o
      BY <1>3, <2>2 DEF ForkEffect, Brings
    <2> QED
      BY <2>1, <2>2
  <1>13. \A c \in N : src[c] = o
    BY <1>6
  <1>14. \A c \in N : Role(c) # "module" /\ blocks'[c].class \in Passing /\ IsOutput(src[c])
    BY <1>1, <1>5, <1>8, <1>9, <1>13
  <1>15. PassedOn(N, src)
    BY <1>7, <1>11, <1>12, <1>14 DEF PassedOn
  <1> QED
    BY <1>15

\* A driver that never gives anything changes no value.
LEMMA CheckConnectionValue ==
  ASSUME NetInv, NetOK', ValueInv, NEW i, CheckConnection(i)
  PROVE  ValueInv'
  <1>1. PICK never : never = <<"never", i>>
    OBVIOUS
  <1>2. pass = "connections" /\ i \in todo /\ original' = original /\ wires' = wires \cup {<<<<never, 1>>, i>>}
    BY <1>1, Visited DEF CheckConnection
  <1>3. Role(never) = "never" /\ never[2] = i
    BY <1>1, Roles
  <1>4. never \notin DOMAIN blocks
    BY <1>2, <1>3 DEF NetInv, Fresh, RolesOf
  <1>5. /\ DOMAIN blocks' = DOMAIN blocks \cup {never}
        /\ \A b \in DOMAIN blocks : blocks'[b] = blocks[b]
        /\ blocks'[never] = Block("Never", 0, 1)
    BY <1>1, <1>4 DEF CheckConnection, With
  <1>6. Uses(blocks'[never]) = {} /\ \A o, from : Gives(blocks'[never], o, from) = <<"output", o>>
    BY <1>5 DEF Block, Uses, Gives
  <1>7. NetOK /\ Shape(blocks, wires)
    BY Shapes DEF NetInv
  <1>8. ASSUME NEW f, NEW h, \A c \in DOMAIN blocks : \A m \in Nat : h[<<c, m>>] = f[<<c, m>>]
        PROVE  Extends(f, h, DOMAIN blocks)
    <2>1. ASSUME NEW v \in wires
          PROVE  v \in wires' /\ h[v[1]] = f[v[1]]
      <3>1. v[1] = <<v[1][1], v[1][2]>> /\ v[1][1] \in DOMAIN blocks /\ v[1][2] \in Nat
        BY <1>7 DEF Shape
      <3>2. h[<<v[1][1], v[1][2]>>] = f[<<v[1][1], v[1][2]>>]
        BY <1>8, <3>1
      <3>3. h[v[1]] = f[v[1]]
        BY <3>1, <3>2
      <3> QED
        BY <1>2, <3>3
    <2> QED
      BY <1>8, <2>1 DEF Extends
  <1>9. ASSUME NEW f
        PROVE  \E h : Remodels(f, h, DOMAIN blocks, {never})
    <2>1. PICK val : val = [o \in {never} \X Nat |-> <<"output", o>>]
      OBVIOUS
    <2>2. PICK h : Mixes(h, blocks', DOMAIN blocks, f, val)
      BY Extended
    <2>3. \A c \in DOMAIN blocks : \A m \in Nat : h[<<c, m>>] = f[<<c, m>>]
      BY <1>5, <2>2 DEF Mixes
    <2>4. ASSUME NEW m \in Nat
          PROVE  h[<<never, m>>] = <<"output", <<never, m>>>>
      <3>1. h[<<never, m>>] = val[<<never, m>>]
        BY <1>4, <1>5, <2>2 DEF Mixes
      <3> QED
        BY <2>1, <3>1
    <2>5. GivesAt(h, blocks', wires', never)
      BY <1>6, <2>4 DEF GivesAt
    <2>6. Extends(f, h, DOMAIN blocks)
      BY <1>8, <2>3
    <2>7. ASSUME NEW g, Solves(g, blocks', wires')
          PROVE  \E p : /\ Over(p, blocks) /\ Extends(p, g, DOMAIN blocks)
                        /\ \A c \in DOMAIN blocks \ DOMAIN blocks : GivesAt(p, blocks, wires, c)
                        /\ p = f => \A c \in {never} : \A m \in Nat : g[<<c, m>>] = h[<<c, m>>]
      <3>1. GivesAt(g, blocks', wires', never)
        BY <1>5, <2>7, SolvesMeans
      <3>2. \A m \in Nat : g[<<never, m>>] = <<"output", <<never, m>>>>
        BY <1>6, <3>1 DEF GivesAt
      <3>3. PICK p : Mixes(p, blocks, DOMAIN blocks, g, g)
        BY Extended
      <3>4. \A c \in DOMAIN blocks : \A m \in Nat : g[<<c, m>>] = p[<<c, m>>]
        BY <3>3 DEF Mixes
      <3>5. Extends(p, g, DOMAIN blocks)
        BY <1>8, <3>4
      <3>6. \A m \in Nat : g[<<never, m>>] = h[<<never, m>>]
        BY <2>4, <3>2
      <3> QED
        BY <3>3, <3>5, <3>6 DEF Mixes
    <2> QED
      BY <2>2, <2>5, <2>6, <2>7 DEF Remodels, Mixes
  <1>10. \A f : Solves(f, blocks, wires) => \E h : Remodels(f, h, DOMAIN blocks, {never})
    BY <1>9
  <1>11. PICK N : N = {never}
    OBVIOUS
  <1>12. N \cap DOMAIN blocks = {} /\ DOMAIN blocks' = DOMAIN blocks \cup N /\ \A c \in N : Role(c) # "module"
    BY <1>3, <1>4, <1>5, <1>11
  <1>13. \A c \in N : \A k \in Uses(blocks'[c]) : \E w \in wires' : w[2] = <<c, k>>
    BY <1>6, <1>11
  <1>14. \A f : Solves(f, blocks, wires) => \E h : Remodels(f, h, DOMAIN blocks, N)
    BY <1>10, <1>11
  <1> QED
    BY <1>2, <1>5, <1>7, <1>12, <1>13, <1>14, Remodeled

\* The field of a record that a join makes is what the join got there.
LEMMA JoinField ==
  ASSUME NEW n \in Nat, NEW f, NEW k \in 1..n
  PROVE  Field(<<"join">> \o [j \in 1..n |-> f[j]], k) = f[k]
  <1> DEFINE S == {"join"} \cup {f[j] : j \in 1..n}
             s == [j \in 1..n |-> f[j]]
  <1>1. s \in Seq(S) /\ Len(s) = n /\ s[k] = f[k]
    OBVIOUS
  <1>2. <<"join">> \in Seq(S) /\ Len(<<"join">>) = 1 /\ <<"join">>[1] = "join"
    OBVIOUS
  <1> HIDE DEF S, s
  <1>3. (<<"join">> \o s)[1] = "join" /\ (<<"join">> \o s)[k + 1] = s[k]
    BY <1>1, <1>2
  <1>4. Field(<<"join">> \o s, k) = f[k]
    BY <1>1, <1>3 DEF Field
  <1> QED
    BY <1>4 DEF s

\* The fork behind o gives what o gives.
LEMMA ForkGives ==
  ASSUME Shape(blocks', wires'), NEW b, NEW o, Fans(b, o), NEW g
  PROVE  GivesAt(g, blocks', wires', <<"depfork", b>>) <=> \A m \in Nat : g[<<<<"depfork", b>>, m>>] = g[o]
  <1>1. PICK fork : fork = <<"depfork", b>>
    OBVIOUS
  <1>2. fork \in DOMAIN blocks' /\ blocks'[fork].class \in Passing /\ <<o, <<fork, 1>>>> \in wires'
    BY <1>1 DEF Fans, Passing
  <1>3. PICK w \in wires' : w = <<o, <<fork, 1>>>>
    BY <1>2
  <1>4. w[1] = o /\ w[2] = <<fork, 1>>
    BY <1>3
  <1>5. GivesAt(g, blocks', wires', fork) <=> \A m \in Nat : g[<<fork, m>>] = g[o]
    BY <1>2, <1>4, GivesDriver
  <1> QED
    BY <1>1, <1>5

\* What an extract behind that fork gives.
LEMMA ExtractGives ==
  ASSUME Shape(blocks', wires'), NEW b, NEW o, Fans(b, o), NEW g, NEW k \in 1..blocks[b].outs, blocks[b].outs \in Nat,
         \A m \in Nat : g[<<<<"depfork", b>>, m>>] = g[o]
  PROVE  GivesAt(g, blocks', wires', <<"extract", b, k>>)
           <=> \A m \in Nat : g[<<<<"extract", b, k>>, m>>] = Field(g[o], k)
  <1>1. PICK c, fork : c = <<"extract", b, k>> /\ fork = <<"depfork", b>>
    OBVIOUS
  <1>2. c \in DOMAIN blocks' /\ blocks'[c] = Extract(k) /\ <<<<fork, k>>, <<c, 1>>>> \in wires'
    BY <1>1 DEF Fans
  <1>3. PICK w \in wires' : w = <<<<fork, k>>, <<c, 1>>>>
    BY <1>2
  <1>4. w[1] = <<fork, k>> /\ w[2] = <<c, 1>>
    BY <1>3
  <1>5. Reads(g, wires', c)[1] = g[w[1]]
    BY <1>4, ReadsDriver
  <1>6. g[w[1]] = g[o]
    BY <1>1, <1>4
  <1>7. \A m, from : Gives(Extract(k), m, from) = Field(from[1], k)
    BY DEF Gives, Extract
  <1>8. \A m : Gives(blocks'[c], m, Reads(g, wires', c)) = Field(g[o], k)
    BY <1>2, <1>5, <1>6, <1>7
  <1> QED
    BY <1>1, <1>8 DEF GivesAt

\* The inputs of a fork and its extracts are driven.
LEMMA FansDriven ==
  ASSUME NEW b, NEW o, Fans(b, o), NEW c \in {<<"depfork", b>>} \cup Extracts(b), NEW k \in Uses(blocks'[c])
  PROVE  \E w \in wires' : w[2] = <<c, k>>
  <1>1. CASE c = <<"depfork", b>>
    <2>1. Uses(blocks'[c]) = {1}
      BY <1>1 DEF Fans, Uses
    <2>2. <<o, <<c, 1>>>> \in wires'
      BY <1>1 DEF Fans
    <2>3. PICK w \in wires' : w = <<o, <<c, 1>>>>
      BY <2>2
    <2>4. w[2] = <<c, 1>>
      BY <2>3
    <2> QED
      BY <2>1, <2>4
  <1>2. CASE c \in Extracts(b)
    <2>1. PICK j \in 1..blocks[b].outs : c = <<"extract", b, j>>
      BY <1>2 DEF Extracts
    <2>2. blocks'[c] = Extract(j) /\ <<<<<<"depfork", b>>, j>>, <<c, 1>>>> \in wires'
      BY <2>1 DEF Fans
    <2>3. Uses(blocks'[c]) = {1}
      BY <2>2 DEF Extract, Uses
    <2>4. PICK w \in wires' : w = <<<<<<"depfork", b>>, j>>, <<c, 1>>>>
      BY <2>2
    <2>5. w[2] = <<c, 1>>
      BY <2>4
    <2> QED
      BY <2>3, <2>5
  <1> QED
    BY <1>1, <1>2

\* An input that b fed gets from an extract what it got from b, and the others
\* what they got.
LEMMA MovedExtends ==
  ASSUME NetOK, NEW b, NEW K, NEW N, Rebuilt(b, K, N), NEW p, NEW g,
         \A c \in K : \A m \in Nat : g[<<c, m>>] = p[<<c, m>>],
         \A k \in 1..blocks[b].outs : g[<<<<"extract", b, k>>, 1>>] = p[<<b, k>>]
  PROVE  Extends(p, g, K)
  <1>1. ASSUME NEW v \in wires, v[2][1] \in K
        PROVE  \E w \in wires' : w[2] = v[2] /\ g[w[1]] = p[v[1]]
    <2>0. v[1] = <<v[1][1], v[1][2]>> /\ v[1][2] \in 1..blocks[v[1][1]].outs /\ blocks[v[1][1]].outs \in Nat
      <3>1. Joined(v) /\ v[1][1] \in DOMAIN blocks
        BY DEF NetOK, Joined
      <3>2. v[1] = <<v[1][1], v[1][2]>>
        <4>1. v = <<<<v[1][1], v[1][2]>>, <<v[2][1], v[2][2]>>>>
          BY <3>1 DEF Joined
        <4> QED
          BY <4>1
      <3> QED
        BY <3>1, <3>2 DEF NetOK, Ports, Joined
    <2>1. Moved(b, v) \in wires'
      BY <1>1 DEF Rebuilt
    <2>2. CASE v[1][1] = b
      <3>1. PICK w \in wires' : w = <<<<<<"extract", b, v[1][2]>>, 1>>, v[2]>>
        BY <2>1, <2>2 DEF Moved
      <3>2. w[1] = <<<<"extract", b, v[1][2]>>, 1>> /\ w[2] = v[2]
        BY <3>1
      <3>3. g[<<<<"extract", b, v[1][2]>>, 1>>] = p[<<b, v[1][2]>>]
        BY <2>0, <2>2
      <3>4. <<b, v[1][2]>> = v[1]
        BY <2>0, <2>2
      <3> QED
        BY <3>2, <3>3, <3>4
    <2>3. CASE v[1][1] # b
      <3>1. v \in wires' /\ v[1][1] \in K /\ v[1][2] \in Nat
        BY <2>0, <2>1, <2>3 DEF Moved, Rebuilt, NetOK, Joined
      <3>2. g[<<v[1][1], v[1][2]>>] = p[<<v[1][1], v[1][2]>>]
        BY <3>1
      <3>3. g[v[1]] = p[v[1]]
        BY <2>0, <3>2
      <3> QED
        BY <3>1, <3>3
    <2> QED
      BY <2>2, <2>3
  <1> QED
    BY <1>1 DEF Extends

\* What joins the outputs of b, by the values g.
Record(g, b) == <<"join">> \o [k \in 1..blocks[b].outs |-> g[<<b, k>>]]

\* The record depends on the outputs of b alone.
LEMMA RecordSame ==
  ASSUME NEW b, NEW f, NEW g, \A k \in 1..blocks[b].outs : f[<<b, k>>] = g[<<b, k>>]
  PROVE  Record(f, b) = Record(g, b)
  <1>1. [k \in 1..blocks[b].outs |-> f[<<b, k>>]] = [k \in 1..blocks[b].outs |-> g[<<b, k>>]]
    OBVIOUS
  <1> QED
    BY <1>1 DEF Record

\* Each field of the record is the output it was made of.
LEMMA RecordField ==
  ASSUME NEW b, blocks[b].outs \in Nat, NEW f, NEW k \in 1..blocks[b].outs
  PROVE  Field(Record(f, b), k) = f[<<b, k>>]
  <1>1. PICK e : e = [j \in 1..blocks[b].outs |-> f[<<b, j>>]]
    OBVIOUS
  <1>2. [j \in 1..blocks[b].outs |-> e[j]] = e
    BY <1>1
  <1>3. Field(<<"join">> \o [j \in 1..blocks[b].outs |-> e[j]], k) = e[k]
    BY JoinField
  <1>4. Record(f, b) = <<"join">> \o e
    BY <1>1 DEF Record
  <1> QED
    BY <1>1, <1>2, <1>3, <1>4

\* The join of b is made, and takes what it gives.
JoinMade(b) ==
  LET join == <<"join", b>>
  IN  /\ join \in DOMAIN blocks' /\ blocks'[join] = Block("Join", blocks[b].outs, 1)
      /\ \A k \in 1..blocks[b].outs : <<<<b, k>>, <<join, k>>>> \in wires'

\* The join gives the record.
LEMMA JoinGives ==
  ASSUME Shape(blocks', wires'), NEW b, blocks[b].outs \in Nat, JoinMade(b), NEW g
  PROVE  GivesAt(g, blocks', wires', <<"join", b>>) <=> \A m \in Nat : g[<<<<"join", b>>, m>>] = Record(g, b)
  <1>1. PICK join : join = <<"join", b>>
    OBVIOUS
  <1>2. PICK n : n = blocks[b].outs
    OBVIOUS
  <1>3. /\ join \in DOMAIN blocks' /\ blocks'[join] = Block("Join", n, 1)
        /\ \A k \in 1..n : <<<<b, k>>, <<join, k>>>> \in wires'
    BY <1>1, <1>2 DEF JoinMade
  <1>4. PICK from : from = Reads(g, wires', join)
    OBVIOUS
  <1>5. ASSUME NEW k \in 1..n
        PROVE  from[k] = g[<<b, k>>]
    <2>1. PICK w \in wires' : w = <<<<b, k>>, <<join, k>>>>
      BY <1>3
    <2>2. w[1] = <<b, k>> /\ w[2] = <<join, k>>
      BY <2>1
    <2>3. k \in Nat
      BY <1>2
    <2>4. Reads(g, wires', join)[k] = g[w[1]]
      BY <2>2, <2>3, ReadsDriver
    <2> QED
      BY <1>4, <2>2, <2>4
  <1>6. [k \in 1..n |-> from[k]] = [k \in 1..n |-> g[<<b, k>>]]
    BY <1>5
  <1>7. \A o : Gives(blocks'[join], o, from) = <<"join">> \o [k \in 1..n |-> from[k]]
    <2>1. blocks'[join].class = "Join" /\ blocks'[join].ins = n
      BY <1>3 DEF Block
    <2> QED
      BY <2>1 DEF Gives
  <1>8. \A o : Gives(blocks'[join], o, from) = Record(g, b)
    BY <1>2, <1>6, <1>7 DEF Record
  <1> QED
    BY <1>1, <1>4, <1>8 DEF GivesAt

\* What the new blocks behind b give, once their inputs count.
JoinFits(g, b) ==
  /\ \A m \in Nat : g[<<<<"join", b>>, m>>] = Record(g, b)
  /\ \A m \in Nat : g[<<<<"depfork", b>>, m>>] = Record(g, b)
  /\ \A k \in 1..blocks[b].outs, m \in Nat : g[<<<<"extract", b, k>>, m>>] = g[<<b, k>>]

JoinBlocks(b) == {<<"join", b>>, <<"depfork", b>>} \cup Extracts(b)

\* That is what they give where their classes are heeded.
LEMMA JoinSolved ==
  ASSUME Shape(blocks', wires'), NEW b, blocks[b].outs \in Nat, JoinMade(b), Fans(b, <<<<"join", b>>, 1>>), NEW g
  PROVE  (\A c \in JoinBlocks(b) : GivesAt(g, blocks', wires', c)) <=> JoinFits(g, b)
  <1>1. PICK o : o = <<<<"join", b>>, 1>>
    OBVIOUS
  <1>2. PICK join, fork : join = <<"join", b>> /\ fork = <<"depfork", b>>
    OBVIOUS
  <1>3. GivesAt(g, blocks', wires', join) <=> \A m \in Nat : g[<<join, m>>] = Record(g, b)
    BY <1>2, JoinGives
  <1>4. Fans(b, o)
    BY <1>1
  <1>5. GivesAt(g, blocks', wires', fork) <=> \A m \in Nat : g[<<fork, m>>] = g[o]
    <2>1. GivesAt(g, blocks', wires', <<"depfork", b>>) <=> \A m \in Nat : g[<<<<"depfork", b>>, m>>] = g[o]
      BY <1>4, ForkGives
    <2> QED
      BY <1>2, <2>1
  <1>6. ASSUME \A m \in Nat : g[<<fork, m>>] = g[o], g[o] = Record(g, b), NEW k \in 1..blocks[b].outs
        PROVE  GivesAt(g, blocks', wires', <<"extract", b, k>>)
                 <=> \A m \in Nat : g[<<<<"extract", b, k>>, m>>] = g[<<b, k>>]
    <2>1. GivesAt(g, blocks', wires', <<"extract", b, k>>)
            <=> \A m \in Nat : g[<<<<"extract", b, k>>, m>>] = Field(g[o], k)
      <3>1. \A m \in Nat : g[<<<<"depfork", b>>, m>>] = g[o]
        BY <1>2, <1>6
      <3> QED
        BY <1>4, <3>1, ExtractGives
    <2>2. Field(g[o], k) = g[<<b, k>>]
      BY <1>6, RecordField
    <2> QED
      BY <2>1, <2>2
  <1>7. (\A m \in Nat : g[<<join, m>>] = Record(g, b)) => g[o] = Record(g, b)
    BY <1>1, <1>2
  <1>8. \A c : c \in JoinBlocks(b) <=> c = join \/ c = fork \/ \E k \in 1..blocks[b].outs : c = <<"extract", b, k>>
    BY <1>2 DEF JoinBlocks, Extracts
  <1>9. ASSUME \A c \in JoinBlocks(b) : GivesAt(g, blocks', wires', c)
        PROVE  JoinFits(g, b)
    <2>1. GivesAt(g, blocks', wires', join) /\ GivesAt(g, blocks', wires', fork)
      BY <1>8, <1>9
    <2>2. \A m \in Nat : g[<<join, m>>] = Record(g, b)
      BY <1>3, <2>1
    <2>3. g[o] = Record(g, b) /\ \A m \in Nat : g[<<fork, m>>] = g[o]
      BY <1>5, <1>7, <2>1, <2>2
    <2>4. ASSUME NEW k \in 1..blocks[b].outs
          PROVE  \A m \in Nat : g[<<<<"extract", b, k>>, m>>] = g[<<b, k>>]
      <3>1. GivesAt(g, blocks', wires', <<"extract", b, k>>)
        BY <1>8, <1>9
      <3> QED
        BY <1>6, <2>3, <3>1
    <2> QED
      BY <1>2, <2>2, <2>3, <2>4 DEF JoinFits
  <1>10. ASSUME JoinFits(g, b), NEW c \in JoinBlocks(b)
         PROVE  GivesAt(g, blocks', wires', c)
    <2>1. \A m \in Nat : g[<<join, m>>] = Record(g, b)
      BY <1>2, <1>10 DEF JoinFits
    <2>2. g[o] = Record(g, b) /\ \A m \in Nat : g[<<fork, m>>] = g[o]
      BY <1>2, <1>7, <1>10, <2>1 DEF JoinFits
    <2>3. CASE c = join
      BY <1>3, <2>1, <2>3
    <2>4. CASE c = fork
      BY <1>5, <2>2, <2>4
    <2>5. ASSUME NEW k \in 1..blocks[b].outs, c = <<"extract", b, k>>
          PROVE  GivesAt(g, blocks', wires', c)
      <3>1. \A m \in Nat : g[<<<<"extract", b, k>>, m>>] = g[<<b, k>>]
        BY <1>10 DEF JoinFits
      <3> QED
        BY <1>6, <2>2, <2>5, <3>1
    <2> QED
      BY <1>8, <2>3, <2>4, <2>5
  <1> QED
    BY <1>9, <1>10

\* Joining and taking apart again changes no value.
LEMMA JoinDependentsValue ==
  ASSUME NetInv, NetOK', ValueInv, NEW b, JoinDependents(b)
  PROVE  ValueInv'
  <1> DEFINE K == DOMAIN blocks
             N == JoinBlocks(b)
  <1>1. pass = "dependents" /\ b \in todo /\ original' = original
    BY Visited DEF JoinDependents
  <1>2. /\ b \in DOMAIN blocks /\ blocks[b].outs \in Nat
        /\ \A k : <<"extract", b, k>> \notin DOMAIN blocks
        /\ <<"depfork", b>> \notin DOMAIN blocks /\ <<"join", b>> \notin DOMAIN blocks
        /\ <<"depfork", b>> # <<"join", b>>
        /\ \A k : <<"extract", b, k>> # <<"depfork", b>> /\ <<"extract", b, k>> # <<"join", b>>
    BY <1>1, Names
  <1>3. Rebuilt(b, K, N) /\ Joins(b)' /\ Fans(b, <<<<"join", b>>, 1>>)
    BY JoinRebuilds DEF JoinBlocks
  <1>4. /\ DOMAIN blocks' = K \cup N /\ N \cap DOMAIN blocks = {}
        /\ \A c \in K : blocks'[c] = blocks[c]
        /\ \A c \in N : Role(c) # "module"
    <2>1. N \cap DOMAIN blocks = {}
      BY <1>2 DEF JoinBlocks, Extracts
    <2> HIDE DEF N, K
    <2> QED
      BY <1>3, <2>1 DEF Rebuilt, K
  <1>5. JoinMade(b)
    <2>1. blocks'[b] = blocks[b]
      BY <1>2, <1>4
    <2> QED
      BY <1>3, <2>1 DEF Joins, JoinMade
  <1>6. NetOK /\ Shape(blocks', wires')
    BY Shapes DEF NetInv
  <1>7. \A c \in N : \A k \in Uses(blocks'[c]) : \E w \in wires' : w[2] = <<c, k>>
    <2>1. ASSUME NEW k \in Uses(blocks'[<<"join", b>>])
          PROVE  \E w \in wires' : w[2] = <<<<"join", b>>, k>>
      <3>1. k \in 1..blocks[b].outs
        BY <1>5 DEF JoinMade, Block, Uses
      <3>2. PICK w \in wires' : w = <<<<b, k>>, <<<<"join", b>>, k>>>>
        BY <1>5, <3>1 DEF JoinMade
      <3>3. w[2] = <<<<"join", b>>, k>>
        BY <3>2
      <3> QED
        BY <3>3
    <2> QED
      BY <1>3, <2>1, FansDriven DEF JoinBlocks
  <1> HIDE DEF N
  \* Values that fit the new blocks extend those of the old ones.
  <1>8. ASSUME NEW p, NEW g, \A c \in K : \A m \in Nat : g[<<c, m>>] = p[<<c, m>>], JoinFits(g, b)
        PROVE  Extends(p, g, K)
    <2>1. ASSUME NEW k \in 1..blocks[b].outs
          PROVE  g[<<<<"extract", b, k>>, 1>>] = p[<<b, k>>]
      <3>1. g[<<<<"extract", b, k>>, 1>>] = g[<<b, k>>]
        BY <1>8 DEF JoinFits
      <3>2. k \in Nat
        BY <1>2
      <3> QED
        BY <1>2, <1>8, <3>1, <3>2
    <2> QED
      BY <1>3, <1>6, <1>8, <2>1, MovedExtends
  <1>9. ASSUME NEW p, NEW g, \A c \in K : \A m \in Nat : g[<<c, m>>] = p[<<c, m>>]
        PROVE  Record(g, b) = Record(p, b) /\ \A k \in 1..blocks[b].outs : g[<<b, k>>] = p[<<b, k>>]
    <2>1. \A k \in 1..blocks[b].outs : g[<<b, k>>] = p[<<b, k>>]
      BY <1>2, <1>9
    <2> QED
      BY <2>1, RecordSame
  <1>10. ASSUME NEW f
         PROVE  \E h : Remodels(f, h, K, N)
    <2>1. PICK val : val = [o \in N \X Nat |-> IF o[1] \in {<<"join", b>>, <<"depfork", b>>} THEN Record(f, b)
                                              ELSE f[<<b, o[1][3]>>]]
      OBVIOUS
    <2>2. PICK h : Mixes(h, blocks', K, f, val)
      BY Extended
    <2>3. \A c \in K : \A m \in Nat : h[<<c, m>>] = f[<<c, m>>]
      BY <1>4, <2>2 DEF Mixes
    <2>4. \A c \in N : \A m \in Nat : h[<<c, m>>] = val[<<c, m>>]
      BY <1>4, <2>2 DEF Mixes
    <2>5. Record(h, b) = Record(f, b) /\ \A k \in 1..blocks[b].outs : h[<<b, k>>] = f[<<b, k>>]
      BY <1>9, <2>3
    <2>6. JoinFits(h, b)
      <3>1. ASSUME NEW c \in {<<"join", b>>, <<"depfork", b>>}, NEW m \in Nat
            PROVE  h[<<c, m>>] = Record(h, b)
        <4>1. c \in N
          BY DEF N, JoinBlocks
        <4>2. val[<<c, m>>] = Record(f, b)
          BY <2>1, <4>1
        <4> QED
          BY <2>4, <2>5, <4>1, <4>2
      <3>2. ASSUME NEW k \in 1..blocks[b].outs, NEW m \in Nat
            PROVE  h[<<<<"extract", b, k>>, m>>] = h[<<b, k>>]
        <4>1. PICK c : c = <<"extract", b, k>>
          OBVIOUS
        <4>2. c \in N /\ c \notin {<<"join", b>>, <<"depfork", b>>} /\ c[3] = k
          BY <1>2, <4>1 DEF N, JoinBlocks, Extracts
        <4>3. val[<<c, m>>] = f[<<b, k>>]
          BY <2>1, <4>2
        <4> QED
          BY <2>4, <2>5, <4>1, <4>2, <4>3
      <3> QED
        BY <3>1, <3>2 DEF JoinFits
    <2>7. \A c \in N : GivesAt(h, blocks', wires', c)
      BY <1>2, <1>3, <1>5, <1>6, <2>6, JoinSolved DEF N
    <2>8. Extends(f, h, K)
      BY <1>8, <2>3, <2>6
    <2>9. ASSUME NEW g, Solves(g, blocks', wires')
          PROVE  \E p : /\ Over(p, blocks) /\ Extends(p, g, K)
                        /\ \A c \in DOMAIN blocks \ K : GivesAt(p, blocks, wires, c)
                        /\ p = f => \A c \in N : \A m \in Nat : g[<<c, m>>] = h[<<c, m>>]
      <3>1. \A c \in N : GivesAt(g, blocks', wires', c)
        BY <1>4, <2>9, SolvesMeans
      <3>2. JoinFits(g, b)
        BY <1>2, <1>3, <1>5, <1>6, <3>1, JoinSolved DEF N
      <3>3. PICK p : Mixes(p, blocks, K, g, g)
        BY Extended
      <3>4. \A c \in K : \A m \in Nat : g[<<c, m>>] = p[<<c, m>>]
        BY <3>3 DEF Mixes
      <3>5. Extends(p, g, K)
        BY <1>8, <3>2, <3>4
      <3>6. ASSUME p = f, NEW c \in N, NEW m \in Nat
            PROVE  g[<<c, m>>] = h[<<c, m>>]
        <4>1. Record(g, b) = Record(h, b) /\ \A k \in 1..blocks[b].outs : g[<<b, k>>] = h[<<b, k>>]
          BY <1>9, <2>5, <3>4, <3>6
        <4>2. c \in {<<"join", b>>, <<"depfork", b>>} \/ \E k \in 1..blocks[b].outs : c = <<"extract", b, k>>
          BY DEF N, JoinBlocks, Extracts
        <4>3. CASE c \in {<<"join", b>>, <<"depfork", b>>}
          BY <2>6, <3>2, <4>1, <4>3 DEF JoinFits
        <4>4. ASSUME NEW k \in 1..blocks[b].outs, c = <<"extract", b, k>>
              PROVE  g[<<c, m>>] = h[<<c, m>>]
          BY <2>6, <3>2, <4>1, <4>4 DEF JoinFits
        <4> QED
          BY <4>2, <4>3, <4>4
      <3>7. Over(p, blocks)
        BY <3>3 DEF Mixes
      <3> QED
        BY <3>5, <3>6, <3>7
    <2>10. Over(h, blocks')
      BY <2>2 DEF Mixes
    <2> QED
      BY <2>7, <2>8, <2>9, <2>10 DEF Remodels
  <1>11. \A f : Solves(f, blocks, wires) => \E h : Remodels(f, h, K, N)
    BY <1>10
  <1> QED
    BY <1>1, <1>4, <1>6, <1>7, <1>11, Remodeled

\* What the fork and the extracts in the place of b give behind o.
ForkFits(g, b, o) ==
  /\ \A m \in Nat : g[<<<<"depfork", b>>, m>>] = g[o]
  /\ \A k \in 1..blocks[b].outs, m \in Nat : g[<<<<"extract", b, k>>, m>>] = Field(g[o], k)

SplitBlocks(b) == {<<"depfork", b>>} \cup Extracts(b)

\* That is what they give where their classes are heeded.
LEMMA SplitSolved ==
  ASSUME Shape(blocks', wires'), NEW b, blocks[b].outs \in Nat, NEW o, Fans(b, o), NEW g
  PROVE  (\A c \in SplitBlocks(b) : GivesAt(g, blocks', wires', c)) <=> ForkFits(g, b, o)
  <1>1. GivesAt(g, blocks', wires', <<"depfork", b>>) <=> \A m \in Nat : g[<<<<"depfork", b>>, m>>] = g[o]
    BY ForkGives
  <1>2. ASSUME \A m \in Nat : g[<<<<"depfork", b>>, m>>] = g[o], NEW k \in 1..blocks[b].outs
        PROVE  GivesAt(g, blocks', wires', <<"extract", b, k>>)
                 <=> \A m \in Nat : g[<<<<"extract", b, k>>, m>>] = Field(g[o], k)
    BY <1>2, ExtractGives
  <1>3. ASSUME \A c \in SplitBlocks(b) : GivesAt(g, blocks', wires', c)
        PROVE  ForkFits(g, b, o)
    <2>1. \A m \in Nat : g[<<<<"depfork", b>>, m>>] = g[o]
      BY <1>1, <1>3 DEF SplitBlocks
    <2>2. ASSUME NEW k \in 1..blocks[b].outs
          PROVE  \A m \in Nat : g[<<<<"extract", b, k>>, m>>] = Field(g[o], k)
      <3>1. GivesAt(g, blocks', wires', <<"extract", b, k>>)
        BY <1>3 DEF SplitBlocks, Extracts
      <3> QED
        BY <1>2, <2>1, <3>1
    <2> QED
      BY <2>1, <2>2 DEF ForkFits
  <1>4. ASSUME ForkFits(g, b, o), NEW c \in SplitBlocks(b)
        PROVE  GivesAt(g, blocks', wires', c)
    <2>1. \A m \in Nat : g[<<<<"depfork", b>>, m>>] = g[o]
      BY <1>4 DEF ForkFits
    <2>2. CASE c = <<"depfork", b>>
      BY <1>1, <2>1, <2>2
    <2>3. ASSUME NEW k \in 1..blocks[b].outs, c = <<"extract", b, k>>
          PROVE  GivesAt(g, blocks', wires', c)
      <3>1. \A m \in Nat : g[<<<<"extract", b, k>>, m>>] = Field(g[o], k)
        BY <1>4 DEF ForkFits
      <3> QED
        BY <1>2, <2>1, <2>3, <3>1
    <2> QED
      BY <2>2, <2>3 DEF SplitBlocks, Extracts
  <1> QED
    BY <1>3, <1>4

\* What a Split gives.
LEMMA SplitGives ==
  ASSUME Shape(blocks, wires), NEW b \in DOMAIN blocks, Is(b, "Split"), NEW o, DrivesIt(o, b), NEW f
  PROVE  GivesAt(f, blocks, wires, b) <=> \A m \in Nat : f[<<b, m>>] = Field(f[o], m)
  <1>1. PICK w \in wires : w = <<o, <<b, 1>>>>
    BY DEF DrivesIt
  <1>2. w[1] = o /\ w[2] = <<b, 1>>
    BY <1>1
  <1>3. Reads(f, wires, b)[1] = f[o]
    BY <1>2, ReadsDriver
  <1>4. \A m : Gives(blocks[b], <<b, m>>, Reads(f, wires, b)) = Field(Reads(f, wires, b)[1], m)
    BY DEF Gives, Is
  <1> QED
    BY <1>3, <1>4 DEF GivesAt

\* A fork and extracts in the place of a Split change no value.
LEMMA SplitToExtractsValue ==
  ASSUME NetInv, NetOK', ValueInv, NEW b, SplitToExtracts(b)
  PROVE  ValueInv'
  <1> DEFINE K == DOMAIN blocks \ {b}
             N == SplitBlocks(b)
  <1>1. pass = "dependents" /\ b \in todo /\ original' = original /\ Is(b, "Split")
    BY Visited DEF SplitToExtracts
  <1>2. /\ b \in DOMAIN blocks /\ blocks[b].outs \in Nat
        /\ \A k : <<"extract", b, k>> \notin DOMAIN blocks
        /\ <<"depfork", b>> \notin DOMAIN blocks
        /\ \A k : <<"extract", b, k>> # <<"depfork", b>>
    BY <1>1, Names
  <1>3. Rebuilt(b, K, N) /\ \E o : DrivesIt(o, b) /\ Fans(b, o)
    BY SplitRebuilds DEF SplitBlocks
  <1>4. /\ DOMAIN blocks' = K \cup N /\ N \cap DOMAIN blocks = {} /\ K \subseteq DOMAIN blocks
        /\ \A c \in K : blocks'[c] = blocks[c]
        /\ \A c \in N : Role(c) # "module"
    <2>1. N \cap DOMAIN blocks = {} /\ K \subseteq DOMAIN blocks
      BY <1>2 DEF SplitBlocks, Extracts
    <2> HIDE DEF N, K
    <2> QED
      BY <1>3, <2>1 DEF Rebuilt
  <1>5. PICK o : DrivesIt(o, b) /\ Fans(b, o)
    BY <1>3
  <1>6. NetOK /\ Shape(blocks, wires) /\ Shape(blocks', wires')
    BY Shapes DEF NetInv
  <1>7. \A c \in N : \A k \in Uses(blocks'[c]) : \E w \in wires' : w[2] = <<c, k>>
    BY <1>5, FansDriven DEF SplitBlocks
  <1>8. ASSUME NEW p, NEW g, \A c \in K : \A m \in Nat : g[<<c, m>>] = p[<<c, m>>]
        PROVE  g[o] = p[o]
    <2>1. o = <<o[1], o[2]>> /\ o[1] \in K /\ o[2] \in Nat
      BY <1>5, <1>6 DEF DrivesIt, IsOutput, NetOK, Ports
    <2>2. g[<<o[1], o[2]>>] = p[<<o[1], o[2]>>]
      BY <1>8, <2>1
    <2> QED
      BY <2>1, <2>2
  <1> HIDE DEF N
  \* Values that fit the new blocks extend those that fit the Split.
  <1>9. ASSUME NEW p, NEW g, \A c \in K : \A m \in Nat : g[<<c, m>>] = p[<<c, m>>], ForkFits(g, b, o),
               \A m \in Nat : p[<<b, m>>] = Field(p[o], m)
        PROVE  Extends(p, g, K)
    <2>1. ASSUME NEW k \in 1..blocks[b].outs
          PROVE  g[<<<<"extract", b, k>>, 1>>] = p[<<b, k>>]
      <3>1. g[<<<<"extract", b, k>>, 1>>] = Field(g[o], k)
        BY <1>9 DEF ForkFits
      <3>2. k \in Nat
        BY <1>2
      <3>3. g[o] = p[o]
        BY <1>8, <1>9
      <3> QED
        BY <1>9, <3>1, <3>2, <3>3
    <2> HIDE DEF K
    <2> QED
      BY <1>3, <1>6, <1>9, <2>1, MovedExtends
  <1>10. ASSUME NEW f, Solves(f, blocks, wires)
         PROVE  \E h : Remodels(f, h, K, N)
    <2>0. \A m \in Nat : f[<<b, m>>] = Field(f[o], m)
      <3>1. GivesAt(f, blocks, wires, b)
        BY <1>2, <1>10, SolvesMeans
      <3> QED
        BY <1>1, <1>2, <1>5, <1>6, <3>1, SplitGives
    <2>1. PICK val : val = [q \in N \X Nat |-> IF q[1] = <<"depfork", b>> THEN f[o] ELSE Field(f[o], q[1][3])]
      OBVIOUS
    <2>2. PICK h : Mixes(h, blocks', K, f, val)
      BY Extended
    <2>3. \A c \in K : \A m \in Nat : h[<<c, m>>] = f[<<c, m>>]
      BY <1>4, <2>2 DEF Mixes
    <2>4. \A c \in N : \A m \in Nat : h[<<c, m>>] = val[<<c, m>>]
      BY <1>4, <2>2 DEF Mixes
    <2>5. h[o] = f[o]
      BY <1>8, <2>3
    <2>6. ForkFits(h, b, o)
      <3>1. ASSUME NEW m \in Nat
            PROVE  h[<<<<"depfork", b>>, m>>] = h[o]
        <4>1. PICK c : c = <<"depfork", b>>
          OBVIOUS
        <4>2. c \in N
          BY <4>1 DEF N, SplitBlocks
        <4>3. val[<<c, m>>] = f[o]
          BY <2>1, <4>1, <4>2
        <4> QED
          BY <2>4, <2>5, <4>1, <4>2, <4>3
      <3>2. ASSUME NEW k \in 1..blocks[b].outs, NEW m \in Nat
            PROVE  h[<<<<"extract", b, k>>, m>>] = Field(h[o], k)
        <4>1. PICK c : c = <<"extract", b, k>>
          OBVIOUS
        <4>2. c \in N /\ c # <<"depfork", b>> /\ c[3] = k
          BY <1>2, <4>1 DEF N, SplitBlocks, Extracts
        <4>3. val[<<c, m>>] = Field(f[o], k)
          BY <2>1, <4>2
        <4> QED
          BY <2>4, <2>5, <4>1, <4>2, <4>3
      <3> QED
        BY <3>1, <3>2 DEF ForkFits
    <2>7. \A c \in N : GivesAt(h, blocks', wires', c)
      BY <1>2, <1>5, <1>6, <2>6, SplitSolved DEF N
    <2>8. Extends(f, h, K)
      BY <1>9, <2>0, <2>3, <2>6
    <2>9. ASSUME NEW g, Solves(g, blocks', wires')
          PROVE  \E p : /\ Over(p, blocks) /\ Extends(p, g, K)
                        /\ \A c \in DOMAIN blocks \ K : GivesAt(p, blocks, wires, c)
                        /\ p = f => \A c \in N : \A m \in Nat : g[<<c, m>>] = h[<<c, m>>]
      <3>1. \A c \in N : GivesAt(g, blocks', wires', c)
        BY <1>4, <2>9, SolvesMeans
      <3>2. ForkFits(g, b, o)
        BY <1>2, <1>5, <1>6, <3>1, SplitSolved DEF N
      <3>3. PICK fields : fields = [q \in {b} \X Nat |-> Field(g[o], q[2])]
        OBVIOUS
      <3>4. PICK p : Mixes(p, blocks, K, g, fields)
        BY Extended
      <3>5. \A c \in K : \A m \in Nat : g[<<c, m>>] = p[<<c, m>>]
        BY <1>4, <3>4 DEF Mixes
      <3>6. g[o] = p[o]
        BY <1>8, <3>5
      <3>7. \A m \in Nat : p[<<b, m>>] = Field(p[o], m)
        <4>1. \A m \in Nat : fields[<<b, m>>] = Field(g[o], m)
          BY <3>3
        <4>2. \A m \in Nat : p[<<b, m>>] = fields[<<b, m>>]
          BY <1>2, <3>4 DEF Mixes
        <4> QED
          BY <3>6, <4>1, <4>2
      <3>8. Extends(p, g, K)
        BY <1>9, <3>2, <3>5, <3>7
      <3>9. \A c \in DOMAIN blocks \ K : GivesAt(p, blocks, wires, c)
        <4>1. GivesAt(p, blocks, wires, b)
          BY <1>1, <1>2, <1>5, <1>6, <3>7, SplitGives
        <4> QED
          BY <4>1
      <3>10. ASSUME p = f, NEW c \in N, NEW m \in Nat
             PROVE  g[<<c, m>>] = h[<<c, m>>]
        <4>1. g[o] = h[o]
          BY <2>5, <3>6, <3>10
        <4>2. CASE c = <<"depfork", b>>
          BY <2>6, <3>2, <4>1, <4>2 DEF ForkFits
        <4>3. ASSUME NEW k \in 1..blocks[b].outs, c = <<"extract", b, k>>
              PROVE  g[<<c, m>>] = h[<<c, m>>]
          BY <2>6, <3>2, <4>1, <4>3 DEF ForkFits
        <4> QED
          BY <4>2, <4>3 DEF N, SplitBlocks, Extracts
      <3>11. Over(p, blocks)
        BY <3>4 DEF Mixes
      <3> QED
        BY <3>8, <3>9, <3>10, <3>11
    <2>10. Over(h, blocks')
      BY <2>2 DEF Mixes
    <2> QED
      BY <2>7, <2>8, <2>9, <2>10 DEF Remodels
  <1>11. \A f : Solves(f, blocks, wires) => \E h : Remodels(f, h, K, N)
    BY <1>10
  <1> HIDE DEF K
  <1> QED
    BY <1>1, <1>4, <1>6, <1>7, <1>11, Remodeled

\* The values before the passes.
LEMMA ValueStarts ==
  ASSUME Init, \A n \in Netlists : Grounded(n)
  PROVE  ValueInv
  <1>1. PICK n : n = original
    OBVIOUS
  <1>2. n \in Netlists /\ blocks = n.blocks /\ wires = n.wires /\ Grounded(n) /\ WellFormed(n)
    BY <1>1, NetlistsOK DEF Init
  <1>3. Shape(n.blocks, n.wires)
    <2>1. /\ \A b \in DOMAIN n.blocks : n.blocks[b].ins \in Nat /\ n.blocks[b].outs \in Nat
          /\ \A w \in n.wires : /\ w = <<<<w[1][1], w[1][2]>>, <<w[2][1], w[2][2]>>>>
                                /\ w[1][1] \in DOMAIN n.blocks /\ w[1][2] \in 1..n.blocks[w[1][1]].outs
          /\ \A v, w \in n.wires : v[2] = w[2] => v = w
      BY <1>2 DEF WellFormed
    <2> QED
      BY <2>1, NetShape
  <1>4. PICK f : \A g : Solves(g, n.blocks, n.wires) <=> g = f
    <2>1. Grounded(n)
      BY <1>2
    <2>2. Unique(n)
      BY <1>3, <2>1, OneSolution
    <2> QED
      BY <2>2 DEF Unique
  <1>5. Value(n) = CHOOSE g : Solves(g, n.blocks, n.wires)
    BY DEF Value, Solves, Reads
  <1>6. Value(n) = f
    BY <1>4, <1>5
  <1>7. Driven
    <2>1. ASSUME NEW c \in DOMAIN blocks, NEW k \in Uses(blocks[c])
          PROVE  \E w \in wires : w[2] = <<c, k>>
      <3>1. {c} \in (SUBSET DOMAIN n.blocks) \ {{}}
        BY <1>2
      <3>2. \A j \in Uses(n.blocks[c]) : \E w \in n.wires : w[2] = <<c, j>>
        <4>1. PICK x \in {c} : \A j \in Uses(n.blocks[x]) : \E w \in n.wires : w[2] = <<x, j>> /\ w[1][1] \notin {c}
          <5>1. Grounded(n)
            BY <1>2
          <5> QED
            BY <3>1, <5>1 DEF Grounded
        <4> QED
          BY <4>1
      <3> QED
        BY <1>2, <3>2
    <2> QED
      BY <2>1 DEF Driven
  <1> QED
    BY <1>1, <1>2, <1>4, <1>6, <1>7 DEF ValueInv

\* Registers put in behind some outputs change no value.
LEMMA RegistersValue ==
  ASSUME NetOK, ValueInv, NEW outputs, Registers(outputs), original' = original
  PROVE  ValueInv'
  <1>1. PICK r \in {"reg", "late"} : \E os \in SUBSET outputs :
               CanInsert(r, os) /\ InsertAfter("PipelineRegister", Behind(r, os))
    BY DEF Registers
  <1>2. PICK os : CanInsert(r, os) /\ InsertAfter("PipelineRegister", Behind(r, os))
    BY <1>1
  <1>3. NetOK' /\ Effect("PipelineRegister", r, os)
    BY <1>2, InsertedBehind
  <1>4. \E N, src : PassedOn(N, src)
    BY <1>2, <1>3, InsertionPasses
  <1> QED
    BY <1>3, <1>4, PassedOnKeeps

\* No step changes a value that an input gets.
LEMMA ValueKept ==
  ASSUME NetInv, NetInv', SearchInv, ValueInv, [Next]_vars
  PROVE  ValueInv'
  <1>0. NetOK /\ NetOK'
    BY DEF NetInv
  <1>1. ASSUME UNCHANGED <<original, blocks, wires>>
        PROVE  ValueInv'
    <2>1. PICK f : /\ \A g : Solves(g, blocks, wires) <=> g = f
                   /\ \A w \in original.wires : w[2][1] \in DOMAIN blocks =>
                        \E v \in wires : v[2] = w[2] /\ f[v[1]] = Value(original)[w[1]]
      BY DEF ValueInv
    <2>2. blocks' = blocks /\ wires' = wires /\ original' = original
      BY <1>1
    <2>3. Driven' /\ original' \in Netlists
      BY <2>2 DEF ValueInv, Driven
    <2>4. \A g : Solves(g, blocks', wires') <=> g = f
      BY <2>1, <2>2
    <2>5. \A w \in original'.wires : w[2][1] \in DOMAIN blocks' =>
            \E v \in wires' : v[2] = w[2] /\ f[v[1]] = Value(original')[w[1]]
      BY <2>1, <2>2
    <2> QED
      BY <2>3, <2>4, <2>5 DEF ValueInv
  <1>2. CASE NextPass
    BY <1>1, <1>2, Following
  <1>3. ASSUME NEW x \in todo, SplitToExtracts(x) \/ JoinDependents(x) \/ CheckConnection(x)
        PROVE  ValueInv'
    BY <1>0, <1>3, SplitToExtractsValue, JoinDependentsValue, CheckConnectionValue
  <1>4. ASSUME NEW x \in todo, LatchUntied(x)
        PROVE  ValueInv'
    <2>1. original' = original
      BY <1>4, Visited DEF LatchUntied
    <2>2. PICK class \in {"PipelineRegister", "Latch"}, r \in {"reg", "latch"} : CanInsert(r, {x}) /\ Effect(class, r, {x})
      BY <1>4, LatchUntiedKeeps
    <2>3. \E N, src : PassedOn(N, src)
      BY <1>0, <2>2, InsertionPasses
    <2> QED
      BY <1>0, <2>1, <2>3, PassedOnKeeps
  <1>5. ASSUME NEW x \in todo, SynthesizeFork(x)
        PROVE  ValueInv'
    <2>1. original' = original
      BY <1>5, Visited DEF SynthesizeFork
    <2>2. \E N, src : PassedOn(N, src)
      BY <1>5, ForkPasses
    <2> QED
      BY <1>0, <2>1, <2>2, PassedOnKeeps
  <1>6. ASSUME NEW x \in todo, Recombine(x)
        PROVE  ValueInv'
    <2>1. original' = original
      BY <1>6, Visited DEF Recombine
    <2> QED
      BY <1>0, <1>6, <2>1, RecombineKeeps, RegistersValue
  <1>7. CASE PipelineFrequency
    <2>1. original' = original
      BY <1>7 DEF PipelineFrequency
    <2> QED
      BY <1>0, <1>7, <2>1, PipelineFrequencyKeeps, RegistersValue
  <1>8. CASE BreakCycle
    <2>1. original' = original
      BY <1>8 DEF BreakCycle
    <2> QED
      BY <1>0, <1>8, <2>1, BreakCycleKeeps, RegistersValue
  <1>9. CASE VisitWire \/ PopWire \/ Done \/ UNCHANGED vars \/ \E x \in todo : StartPath(x)
    <2>1. UNCHANGED <<original, blocks, wires>>
      BY <1>9 DEF VisitWire, PopWire, Done, StartPath, vars, net
    <2> QED
      BY <1>1, <2>1
  <1> QED
    BY <1>2, <1>3, <1>4, <1>5, <1>6, <1>7, <1>8, <1>9 DEF Next

\* The invariant says what the property says.
LEMMA ValueMeans ==
  ASSUME ValueInv
  PROVE  DataflowKept
  <1>1. PICK f : /\ \A g : Solves(g, blocks, wires) <=> g = f
                 /\ \A w \in original.wires : w[2][1] \in DOMAIN blocks =>
                      \E v \in wires : v[2] = w[2] /\ f[v[1]] = Value(original)[w[1]]
    BY DEF ValueInv
  <1>2. PICK n : n = [blocks |-> blocks, wires |-> wires]
    OBVIOUS
  <1>3. Value(n) = f
    <2>1. Value(n) = CHOOSE g : Solves(g, n.blocks, n.wires)
      BY DEF Value, Solves, Reads
    <2>2. n.blocks = blocks /\ n.wires = wires
      BY <1>2
    <2>3. \A g : Solves(g, n.blocks, n.wires) <=> g = f
      BY <1>1, <2>2
    <2> QED
      BY <2>1, <2>3
  <1>4. ASSUME NEW w \in original.wires, w[2][1] \in DOMAIN blocks
        PROVE  \E o \in Drivers(w[2]) : Value(n)[o] = Value(original)[w[1]]
    <2>1. PICK v \in wires : v[2] = w[2] /\ f[v[1]] = Value(original)[w[1]]
      BY <1>1, <1>4
    <2>2. v[1] \in Drivers(w[2])
      BY <2>1 DEF Drivers
    <2> QED
      BY <1>3, <2>1, <2>2
  <1> QED
    BY <1>2, <1>4 DEF DataflowKept

\* Every input that had a driver gets the same value before and after every
\* step of every pass, if each value of the netlist comes from somewhere.
THEOREM ValuesKept ==
  ASSUME \A n \in Netlists : Grounded(n)
  PROVE  Spec => []DataflowKept
  <1>1. Init => ValueInv
    BY ValueStarts
  <1>2. NetInv /\ SearchInv /\ NetInv' /\ ValueInv /\ [Next]_vars => ValueInv'
    BY ValueKept
  <1>3. ValueInv => DataflowKept
    BY ValueMeans
  <1> QED
    BY <1>1, <1>2, <1>3, Invariants, PTL DEF Spec
=============================================================================
