------------------------ MODULE LLVMFunction_proofs -------------------------
(***************************************************************************)
(* Every block ends with LLVM's live values as its inputs, the compiler     *)
(* gives up for the shape of the flow graph only, and the network follows   *)
(* LLVM's execution: for any function that LLVM's verifier accepts, every   *)
(* order in which its blocks are visited, any number of calls, any room     *)
(* between the blocks and any way the tokens of several calls overtake.     *)
(***************************************************************************)
EXTENDS Integers, LLVMFunction, TLAPS, FiniteSetTheorems, SequenceTheorems, WellFoundedInduction

InputFields == [phi : BOOLEAN, value : Names(fn)]
ToDos == [do : {"operand", "input", "output"}, at : Blocks(fn), value : Names(fn)]

BuildType ==
  /\ fn \in Functions
  /\ phase \in {"requests", "construct", "run", "aborted"}
  /\ pending \subseteq Blocks(fn)
  /\ current \in Blocks(fn) /\ next \in 1..Len(fn.code[current]) + 1
  /\ calls \in Seq(ToDos)
  /\ inputs \in [Blocks(fn) -> Seq(InputFields)]
  /\ outputs \in [Blocks(fn) -> Seq(Names(fn))]

\* buildRequests has come past the nth instruction of b.
HasRead(b, n) == phase # "requests" \/ (b \notin pending /\ (b = current => n < next))

Takeable(b, v) == NonPhi(v) \in Range(inputs[b])
Offered(b, v)  == v \in Range(outputs[b])
Asked(do, b, v) == ToDo(do, b, v) \in Range(calls)

\* Nothing is asked for that is not live.
OnlyLive ==
  /\ \A b \in Blocks(fn), v \in Names(fn) :
       /\ Takeable(b, v) \/ Asked("input", b, v) => v \in LiveIn(fn, b)
       /\ Asked("output", b, v) /\ Through(fn, b, v) => v \in LiveIn(fn, b)
       /\ Asked("operand", b, v) => Takes(fn, b, v)

\* Each PHI that was read has its input, and no other.
PhisRead ==
  \A b \in Blocks(fn), v \in Names(fn) :
    Phi(v) \in Range(inputs[b]) <=>
      \E n \in DOMAIN fn.code[b] :
        IsPhi(fn.code[b][n]) /\ fn.code[b][n].id = v /\ HasRead(b, n)

InputsOnce == \A b \in Blocks(fn) : IsInjective(inputs[b])

\* The kth operand of an instruction is there, or will be.
OperandAnswered(b, n, k) ==
  LET ins == fn.code[b][n]
      v == ins.args[k]
  IN  IF IsPhi(ins)
      THEN Offered(ins.from[k], v) \/ Asked("output", ins.from[k], v)
      ELSE Through(fn, b, v) => Takeable(b, v) \/ Asked("input", b, v) \/ Asked("operand", b, v)

\* What was asked for is there, or a call under way will ask for it.
Answered ==
  /\ \A b \in Blocks(fn), v \in Names(fn) :
       /\ Takeable(b, v) =>
            \A p \in Predecessors(fn, b) : Offered(p, v) \/ Asked("output", p, v)
       /\ Offered(b, v) /\ Through(fn, b, v) => Takeable(b, v) \/ Asked("input", b, v)
  /\ \A b \in Blocks(fn) : \A n \in DOMAIN fn.code[b] : HasRead(b, n) =>
       \A k \in DOMAIN fn.code[b][n].args : OperandAnswered(b, n, k)

TerminatorFirst ==
  \A b \in Blocks(fn) : outputs[b] # << >> /\ outputs[b][1] = Terminator(fn, b).id

CallsReturn == phase # "requests" => calls = << >>

\* A block whose turn is to come is not being read.
Begun == current \in pending => next = Len(fn.code[current]) + 1

Requested == OnlyLive /\ PhisRead /\ InputsOnce /\ Answered /\ TerminatorFirst

BuildInv == BuildType /\ Begun /\ (phase # "aborted" => Requested /\ CallsReturn)

\* An edge carries what its successor expects.
EdgeWired(b, i) ==
  LET s == fn.succs[b][i]
  IN  /\ <<b, i>> \in DOMAIN carried
      /\ DOMAIN carried[<<b, i>>] = DOMAIN inputs[s]
      /\ \A n \in DOMAIN inputs[s] :
           carried[<<b, i>>][n] = IndexOf(outputs[b], Expected(s, n, b))

EntryWired ==
  /\ \A n \in DOMAIN inputs[fn.entry] :
       ~inputs[fn.entry][n].phi /\ inputs[fn.entry][n].value \in Range(fn.args)
  /\ DOMAIN carried[Entry] = DOMAIN inputs[fn.entry]
  /\ \A n \in DOMAIN inputs[fn.entry] :
       carried[Entry][n] = IndexOf(fn.args, inputs[fn.entry][n].value)

Wired ==
  /\ phase \in {"construct", "run"} =>
       \A b \in Blocks(fn) : phase = "run" \/ b \notin pending =>
         IsInjective(fn.succs[b]) /\ \A i \in DOMAIN fn.succs[b] : EdgeWired(b, i)
  /\ phase = "run" => EntryWired

Env(c) == llvm[c].env
InputValues(b) == {inputs[b][n].value : n \in DOMAIN inputs[b]}

InCallOf(token, b) ==
  /\ token.call \in 1..Len(llvm)
  /\ llvm[token.call].at = b
  /\ InputValues(b) \subseteq DOMAIN Env(token.call)
  /\ DOMAIN token.record = DOMAIN inputs[b]
  /\ \A n \in DOMAIN inputs[b] : token.record[n] = Env(token.call)[inputs[b][n].value]

RunType ==
  /\ llvm \in Seq(Range(llvm)) /\ answers \in Seq(Range(answers))
  /\ queue \in [Edges(fn) -> Range(queue)]
  /\ \A e \in Edges(fn) : queue[e] \in Seq(Range(queue[e]))

Idle == phase # "run" =>
          llvm = << >> /\ answers = << >> /\ \A e \in Edges(fn) : queue[e] = << >>

ConstantsKept ==
  \A c \in 1..Len(llvm) : \A v \in DOMAIN fn.consts :
    v \in DOMAIN Env(c) /\ Env(c)[v] = fn.consts[v]

TokensFollow == \A e \in Edges(fn) : \A k \in 1..Len(queue[e]) : InCallOf(queue[e][k], Target(fn, e))

\* A call has one token, and none when it was answered.
OneToken ==
  \A e \in Edges(fn) : \A k \in 1..Len(queue[e]) :
    /\ \A d \in Edges(fn) : \A j \in 1..Len(queue[d]) :
         queue[d][j].call = queue[e][k].call => d = e /\ j = k
    /\ \A j \in 1..Len(answers) : answers[j][1] # queue[e][k].call

AnswersFollow ==
  \A j \in 1..Len(answers) :
    /\ answers[j][1] \in 1..Len(llvm)
    /\ answers[j][2] = Env(answers[j][1])[Terminator(fn, llvm[answers[j][1]].at).id]

RunInv == RunType /\ Idle /\ ConstantsKept /\ TokensFollow /\ OneToken /\ AnswersFollow

-----------------------------------------------------------------------------
(* What the verifier grants, and what it means to be live                  *)

\* The code and the successors of a block are sequences, the code not empty.
LEMMA Shape ==
  ASSUME NEW f \in Functions, NEW b \in Blocks(f)
  PROVE  /\ f.code[b] \in Seq(Instructions(f)) /\ DOMAIN f.code[b] = 1..Len(f.code[b])
         /\ Len(f.code[b]) \in Nat \ {0}
         /\ f.succs[b] \in Seq(Blocks(f)) /\ DOMAIN f.succs[b] = 1..Len(f.succs[b])
         /\ Range(f.succs[b]) \subseteq Blocks(f) \ {f.entry}
  <1>1. WellFormedBlock(f, b)
    BY Verified DEF WellFormed
  <1> QED
    BY <1>1, LenProperties, EmptySeq DEF WellFormedBlock, Range

\* What an instruction is made of, and that its name is its own in the block.
LEMMA InstructionType ==
  ASSUME NEW f \in Functions, NEW b \in Blocks(f), NEW n \in DOMAIN f.code[b]
  PROVE  LET ins == f.code[b][n]
         IN  /\ ins \in Instructions(f) /\ ins.id \in Names(f)
             /\ ins.args \in Seq(Names(f)) /\ DOMAIN ins.args = 1..Len(ins.args)
             /\ \A k \in DOMAIN ins.args : ins.args[k] \in Names(f)
             /\ ins.from \in Seq(Blocks(f)) /\ DOMAIN ins.from = 1..Len(ins.from)
             /\ \A k \in DOMAIN ins.from : ins.from[k] \in Blocks(f)
             /\ IsPhi(ins) => DOMAIN ins.from = DOMAIN ins.args /\ Range(ins.from) = Predecessors(f, b)
             /\ IsLocal(f, b, ins.id)
             /\ \A m \in DOMAIN f.code[b] : f.code[b][m].id = ins.id => m = n
  <1> DEFINE ins == f.code[b][n]
  <1>1. WellFormedBlock(f, b)
    BY Verified DEF WellFormed
  <1>2. WellFormedInstruction(f, b, n)
    BY <1>1 DEF WellFormedBlock
  <1>3. ins \in Instructions(f)
    BY Shape
  <1>4. /\ ins.id \in Names(f) /\ ins.args \in Seq(Names(f)) /\ ins.from \in Seq(Blocks(f))
    BY <1>3 DEF Instructions
  <1>5. /\ DOMAIN ins.args = 1..Len(ins.args) /\ \A k \in DOMAIN ins.args : ins.args[k] \in Names(f)
        /\ DOMAIN ins.from = 1..Len(ins.from) /\ \A k \in DOMAIN ins.from : ins.from[k] \in Blocks(f)
    BY <1>4
  <1>6. IsPhi(ins) => DOMAIN ins.from = DOMAIN ins.args /\ Range(ins.from) = Predecessors(f, b)
    BY <1>2, <1>5 DEF WellFormedInstruction
  <1>7. IsLocal(f, b, ins.id)
    BY DEF IsLocal
  <1>8. \A m \in DOMAIN f.code[b] : f.code[b][m].id = ins.id => m = n
    BY <1>2 DEF WellFormedInstruction
  <1> QED
    BY <1>3, <1>4, <1>5, <1>6, <1>7, <1>8

\* No instruction has the name of a constant.
LEMMA NoConstant ==
  ASSUME NEW f \in Functions, NEW b \in Blocks(f), NEW n \in DOMAIN f.code[b]
  PROVE  f.code[b][n].id \notin DOMAIN f.consts
  <1>1. WellFormedInstruction(f, b, n)
    BY Verified DEF WellFormed, WellFormedBlock
  <1>2. PICK ins : ins = f.code[b][n]
    OBVIOUS
  <1> QED
    BY <1>1, <1>2 DEF WellFormedInstruction

\* The predecessors of a block are finitely many blocks.
LEMMA PredecessorsFinite ==
  ASSUME NEW f \in Functions, NEW b \in Blocks(f)
  PROVE  IsFiniteSet(Predecessors(f, b)) /\ Predecessors(f, b) \subseteq Blocks(f)
  <1>1. IsFiniteSet(Blocks(f))
    BY Verified DEF WellFormed
  <1>2. Predecessors(f, b) \in SUBSET Blocks(f)
    BY DEF Predecessors
  <1> QED
    BY <1>1, <1>2, FS_Subset

\* A value that is live at the start of a block is not the block's own.
LEMMA LiveThrough ==
  ASSUME NEW f, NEW b \in Blocks(f), NEW v \in LiveIn(f, b)
  PROVE  Through(f, b, v)
  <1> DEFINE S == {c \in Blocks(f) : Through(f, c, v)}
  <1>1. S \in SUBSET Blocks(f) /\ LiveAt(f, v, S)
    BY DEF LiveAt
  <1> QED
    BY <1>1 DEF LiveIn

\* Values that a block takes or gives to a PHI are live, and so they are before.
LEMMA LiveClosed ==
  ASSUME NEW f, NEW b \in Blocks(f), NEW v \in Names(f), Through(f, b, v),
         Takes(f, b, v) \/ Gives(f, b, v) \/ \E s \in Range(f.succs[b]) : v \in LiveIn(f, s)
  PROVE  v \in LiveIn(f, b)
  <1> SUFFICES ASSUME NEW S \in SUBSET Blocks(f), LiveAt(f, v, S)
               PROVE  b \in S
    BY DEF LiveIn
  <1>1. \A s : v \in LiveIn(f, s) => s \in S
    BY DEF LiveIn
  <1> QED
    BY <1>1 DEF LiveAt

\* A set with every block that takes v, or before which it is taken, has all the
\* blocks at which v is live.
LEMMA LiveLeast ==
  ASSUME NEW f, NEW v, NEW S \in SUBSET Blocks(f), LiveAt(f, v, S),
         NEW b, v \in LiveIn(f, b)
  PROVE  b \in S
  BY DEF LiveIn

\* The first block needs arguments only.
LEMMA EntryNeeds ==
  ASSUME NEW f \in Functions, NEW v \in LiveIn(f, f.entry)
  PROVE  v \in Range(f.args)
  <1> SUFFICES ASSUME v \notin Range(f.args)
               PROVE  FALSE
    OBVIOUS
  <1>1. v \in Names(f)
    BY DEF LiveIn
  <1>2. Dominated(f, v)
    BY <1>1, Verified DEF WellFormed
  <1>3. PICK S \in SUBSET Blocks(f) :
          /\ f.entry \in S
          /\ \A b \in S : Through(f, b, v) =>
               ~Takes(f, b, v) /\ ~Gives(f, b, v) /\ Range(f.succs[b]) \subseteq S
    BY <1>2 DEF Dominated
  <1>4. LiveAt(f, v, Blocks(f) \ S)
    BY <1>3 DEF LiveAt
  <1> QED
    BY <1>3, <1>4, LiveLeast

-----------------------------------------------------------------------------
(* Calls and records as sets                                               *)

\* What Append adds.
LEMMA RangeAppend ==
  ASSUME NEW T, NEW s \in Seq(T), NEW x
  PROVE  /\ Range(Append(s, x)) = Range(s) \cup {x}
         /\ Append(s, x) \in Seq(T \cup {x})
         /\ x \in T => Append(s, x) \in Seq(T)
  <1>1. /\ Len(s) \in Nat /\ Len(Append(s, x)) = Len(s) + 1
        /\ \A n \in 1..Len(s) : Append(s, x)[n] = s[n]
        /\ Append(s, x)[Len(s) + 1] = x
        /\ DOMAIN s = 1..Len(s) /\ DOMAIN Append(s, x) = 1..Len(s) + 1
    OBVIOUS
  <1>2. x \in Range(Append(s, x)) /\ Range(s) \subseteq Range(Append(s, x))
    BY <1>1 DEF Range
  <1>3. Range(Append(s, x)) \subseteq Range(s) \cup {x}
    BY <1>1 DEF Range
  <1>4. Append(s, x) \in Seq(T \cup {x}) /\ (x \in T => Append(s, x) \in Seq(T))
    OBVIOUS
  <1> QED
    BY <1>2, <1>3, <1>4

\* Appending what is not there repeats nothing.
LEMMA InjectiveAppend ==
  ASSUME NEW T, NEW s \in Seq(T), NEW x, IsInjective(s), x \notin Range(s)
  PROVE  IsInjective(Append(s, x))
  BY DEF Range, IsInjective

\* A sequence holds its head and what its tail holds.
LEMMA RangeTail ==
  ASSUME NEW T, NEW s \in Seq(T), s # << >>
  PROVE  /\ Head(s) \in T /\ Tail(s) \in Seq(T)
         /\ Range(s) = {Head(s)} \cup Range(Tail(s))
  <1>1. /\ Head(s) \in T /\ Tail(s) \in Seq(T) /\ Len(Tail(s)) = Len(s) - 1 /\ Len(s) \in Nat \ {0}
        /\ \A n \in 1..Len(Tail(s)) : Tail(s)[n] = s[n + 1]
        /\ Head(s) = s[1]
    BY HeadTailProperties
  <1>2. ASSUME NEW x \in Range(s)
        PROVE  x = Head(s) \/ x \in Range(Tail(s))
    <2>1. PICK n \in 1..Len(s) : x = s[n]
      BY DEF Range
    <2>2. CASE n = 1
      BY <1>1, <2>1, <2>2
    <2>3. CASE n # 1
      <3>1. n - 1 \in DOMAIN Tail(s) /\ Tail(s)[n - 1] = x
        BY <1>1, <2>1, <2>3
      <3> QED
        BY <3>1 DEF Range
    <2> QED
      BY <2>2, <2>3
  <1>3. Head(s) \in Range(s)
    BY <1>1 DEF Range
  <1>4. Range(Tail(s)) \subseteq Range(s)
    BY <1>1 DEF Range
  <1> QED
    BY <1>1, <1>2, <1>3, <1>4

\* SetToSeq lists a finite set.
LEMMA SetToSeqLists ==
  ASSUME NEW S, IsFiniteSet(S)
  PROVE  SetToSeq(S) \in Seq(S) /\ Range(SetToSeq(S)) = S
  <1> DEFINE D == 1..Cardinality(S)
             q == SetToSeq(S)
  <1>1. Cardinality(S) \in Nat /\ ExistsBijection(D, S)
    BY FS_CardinalityType
  <1>2. \E g \in [D -> S] : IsInjective(g)
    BY <1>1 DEF ExistsBijection, Bijection, Injection, IsInjective
  <1>3. q \in [D -> S] /\ IsInjective(q)
    BY <1>2 DEF SetToSeq
  <1>4. q \in Injection(D, S)
    BY <1>3 DEF Injection, IsInjective
  <1>5. IsFiniteSet(D) /\ Cardinality(D) = Cardinality(S)
    BY <1>1, FS_Interval
  <1>6. q \in Surjection(D, S)
    BY <1>4, <1>5, FS_Injection
  <1>7. q \in Seq(S)
    BY <1>1, <1>3
  <1> QED
    BY <1>3, <1>6, <1>7 DEF Surjection, Range

\* AskAll asks each block for its value, and nothing else.
LEMMA AskAllIs ==
  ASSUME fn \in Functions, NEW bs \in Seq(Blocks(fn)), NEW vs, DOMAIN vs = DOMAIN bs,
         \A n \in DOMAIN vs : vs[n] \in Names(fn)
  PROVE  /\ AskAll(bs, vs) \in Seq(ToDos)
         /\ \A c : c \in Range(AskAll(bs, vs)) <=>
                     \E n \in DOMAIN bs : c = ToDo("output", bs[n], vs[n])
  <1>1. DOMAIN bs = 1..Len(bs) /\ Len(bs) \in Nat /\ \A n \in DOMAIN bs : bs[n] \in Blocks(fn)
    OBVIOUS
  <1>2. \A n \in DOMAIN bs : ToDo("output", bs[n], vs[n]) \in ToDos
    BY <1>1 DEF ToDo, ToDos
  <1>3. AskAll(bs, vs) = [n \in 1..Len(bs) |-> ToDo("output", bs[n], vs[n])]
    BY <1>1 DEF AskAll
  <1>4. AskAll(bs, vs) \in Seq(ToDos)
    BY <1>1, <1>2, <1>3
  <1> QED
    BY <1>1, <1>3, <1>4 DEF Range

\* The innermost call ends and makes others.
LEMMA CallEnds ==
  ASSUME BuildType, calls # << >>, NEW new \in Seq(ToDos), calls' = new \o Tail(calls)
  PROVE  /\ calls' \in Seq(ToDos)
         /\ Head(calls) \in ToDos
         /\ Head(calls) \in Range(calls)
         /\ \A c : c \in Range(new) => c \in Range(calls')
         /\ \A c : c \in Range(calls) => c = Head(calls) \/ c \in Range(calls')
         /\ \A c : c \in Range(calls') => c \in Range(calls) \/ c \in Range(new)
  <1>1. calls \in Seq(ToDos)
    BY DEF BuildType
  <1>2. /\ Head(calls) \in ToDos /\ Tail(calls) \in Seq(ToDos)
        /\ Range(calls) = {Head(calls)} \cup Range(Tail(calls))
    BY <1>1, RangeTail
  <1>t. PICK t : t = Tail(calls)
    OBVIOUS
  <1>3. /\ calls' \in Seq(ToDos)
        /\ Range(calls') = Range(new) \cup Range(t)
    <2>1. t \in Seq(ToDos) /\ calls' = new \o t
      BY <1>2, <1>t
    <2>2. new \o t \in Seq(ToDos)
      BY <2>1, ConcatProperties, Zenon
    <2>3. Range(new \o t) = Range(new) \cup Range(t)
      <3>1. PICK S : new \in Seq(S) /\ t \in Seq(S)
        BY <2>1
      <3> QED
        BY <3>1, RangeConcatenation
    <2> QED
      BY <2>1, <2>2, <2>3, Zenon
  <1> QED
    BY <1>2, <1>3, <1>t

\* Calls and inputs are equal when their parts are.
LEMMA ToDoEqual ==
  /\ \A do, b, v, to, c, w : ToDo(do, b, v) = ToDo(to, c, w) <=> do = to /\ b = c /\ v = w
  /\ \A v, w : (NonPhi(v) = NonPhi(w) <=> v = w) /\ (Phi(v) = Phi(w) <=> v = w) /\ Phi(v) # NonPhi(w)
  BY DEF ToDo, NonPhi, Phi

\* Without calls under way nothing is asked.
LEMMA NoCalls ==
  ASSUME calls = << >>
  PROVE  \A do, b, v : ~Asked(do, b, v)
  BY DEF Asked, Range

\* The parts of a call.
LEMMA CallFields ==
  ASSUME NEW c \in ToDos
  PROVE  /\ c.do \in {"operand", "input", "output"} /\ c.at \in Blocks(fn) /\ c.value \in Names(fn)
         /\ c = ToDo(c.do, c.at, c.value)
  BY DEF ToDos, ToDo

\* A new input joins those of its block.
LEMMA InputAdded ==
  ASSUME BuildType, NEW b \in Blocks(fn), NEW x \in InputFields, fn' = fn,
         inputs' = [inputs EXCEPT ![b] = Append(@, x)]
  PROVE  /\ inputs' \in [Blocks(fn) -> Seq(InputFields)]
         /\ \A c \in Blocks(fn) : \A y :
              y \in Range(inputs'[c]) <=> y \in Range(inputs[c]) \/ (c = b /\ y = x)
         /\ InputsOnce /\ x \notin Range(inputs[b]) => InputsOnce'
  <1>1. inputs \in [Blocks(fn) -> Seq(InputFields)]
    BY DEF BuildType
  <1>2. inputs[b] \in Seq(InputFields)
    BY <1>1
  <1>3. /\ Range(Append(inputs[b], x)) = Range(inputs[b]) \cup {x}
        /\ Append(inputs[b], x) \in Seq(InputFields)
        /\ IsInjective(inputs[b]) /\ x \notin Range(inputs[b]) => IsInjective(Append(inputs[b], x))
    BY <1>2, RangeAppend, InjectiveAppend
  <1>4. \A c \in Blocks(fn) : inputs'[c] = IF c = b THEN Append(inputs[b], x) ELSE inputs[c]
    BY <1>1
  <1>5. inputs' \in [Blocks(fn) -> Seq(InputFields)]
    BY <1>1, <1>3
  <1>6. InputsOnce /\ x \notin Range(inputs[b]) => InputsOnce'
    BY <1>3, <1>4 DEF InputsOnce
  <1> QED
    BY <1>3, <1>4, <1>5, <1>6

\* A new output joins those of its block, after the terminator.
LEMMA OutputAdded ==
  ASSUME BuildType, TerminatorFirst, NEW b \in Blocks(fn), NEW v \in Names(fn), fn' = fn,
         outputs' = [outputs EXCEPT ![b] = Append(@, v)]
  PROVE  /\ outputs' \in [Blocks(fn) -> Seq(Names(fn))]
         /\ \A c \in Blocks(fn) : \A y :
              y \in Range(outputs'[c]) <=> y \in Range(outputs[c]) \/ (c = b /\ y = v)
         /\ TerminatorFirst'
  <1>1. outputs \in [Blocks(fn) -> Seq(Names(fn))]
    BY DEF BuildType
  <1>2. outputs[b] \in Seq(Names(fn)) /\ outputs[b] # << >>
    BY <1>1 DEF TerminatorFirst
  <1>3. /\ Range(Append(outputs[b], v)) = Range(outputs[b]) \cup {v}
        /\ Append(outputs[b], v) \in Seq(Names(fn))
        /\ Append(outputs[b], v)[1] = outputs[b][1] /\ Append(outputs[b], v) # << >>
    BY <1>2, RangeAppend
  <1>4. \A c \in Blocks(fn) : outputs'[c] = IF c = b THEN Append(outputs[b], v) ELSE outputs[c]
    BY <1>1
  <1>5. outputs' \in [Blocks(fn) -> Seq(Names(fn))]
    BY <1>1, <1>3
  <1>6. TerminatorFirst'
    BY <1>3, <1>4 DEF TerminatorFirst
  <1> QED
    BY <1>3, <1>4, <1>5, <1>6

\* A step that asks for nothing and reads nothing.
LEMMA SameRequests ==
  ASSUME Requested, UNCHANGED <<fn, calls, inputs, outputs>>,
         \A b \in Blocks(fn) : \A n \in DOMAIN fn.code[b] : HasRead(b, n)' <=> HasRead(b, n)
  PROVE  Requested'
  <1> USE DEF Takeable, Offered, Asked
  <1>1. OnlyLive' BY DEF Requested, OnlyLive
  <1>2. PhisRead' BY DEF Requested, PhisRead
  <1>3. InputsOnce' BY DEF Requested, InputsOnce
  <1>4. TerminatorFirst' BY DEF Requested, TerminatorFirst
  <1>5. Answered' BY DEF Requested, Answered, OperandAnswered
  <1> QED BY <1>1, <1>2, <1>3, <1>4, <1>5 DEF Requested

\* buildRequests starts with a block: nothing is read yet.
LEMMA BuildRequestsKeeps ==
  ASSUME BuildInv, NEW b \in Blocks(fn), BuildRequests(b)
  PROVE  BuildInv'
  <1>1. BuildType'
    <2>1. 1 \in 1..Len(fn.code[b]) + 1
      BY Shape DEF BuildInv, BuildType
    <2> QED
      BY <2>1 DEF BuildInv, BuildType, BuildRequests, Building, compiled, InputFields, ToDos
  <1>2. \A c \in Blocks(fn) : \A n \in DOMAIN fn.code[c] : HasRead(c, n)' <=> HasRead(c, n)
    <2> SUFFICES ASSUME NEW c \in Blocks(fn), NEW n \in DOMAIN fn.code[c]
                 PROVE  HasRead(c, n)' <=> HasRead(c, n)
      OBVIOUS
    <2>1. n \in 1..Len(fn.code[c]) /\ Len(fn.code[c]) \in Nat
      BY Shape DEF BuildInv, BuildType
    <2>2. c = current => n < next
      BY <2>1 DEF BuildRequests, ReadAll, BuildInv, BuildType
    <2> QED
      BY <2>1, <2>2 DEF BuildRequests, ReadAll, HasRead
  <1>3. Requested'
    BY <1>2, SameRequests DEF BuildInv, BuildRequests, ReadAll, compiled, Building
  <1>4. Begun' /\ CallsReturn'
    BY DEF BuildRequests, ReadAll, Begun, CallsReturn
  <1> QED
    BY <1>1, <1>3, <1>4 DEF BuildInv

\* The last block was read, and nothing is under way.
LEMMA EndRequestsKeeps ==
  ASSUME BuildInv, EndRequests
  PROVE  BuildInv'
  <1>1. BuildType'
    BY DEF BuildInv, BuildType, EndRequests, Building, compiled, InputFields, ToDos
  <1>2. \A c \in Blocks(fn) : \A n \in DOMAIN fn.code[c] : HasRead(c, n)' <=> HasRead(c, n)
    <2> SUFFICES ASSUME NEW c \in Blocks(fn), NEW n \in DOMAIN fn.code[c]
                 PROVE  HasRead(c, n)' <=> HasRead(c, n)
      OBVIOUS
    <2>1. n \in 1..Len(fn.code[c]) /\ Len(fn.code[c]) \in Nat
      BY Shape DEF BuildInv, BuildType
    <2>2. c = current => n < next
      BY <2>1 DEF EndRequests, ReadAll, BuildInv, BuildType
    <2> QED
      BY <2>1, <2>2 DEF EndRequests, ReadAll, HasRead
  <1>3. Requested'
    BY <1>2, SameRequests DEF BuildInv, EndRequests, ReadAll, compiled, Building
  <1>4. Begun' /\ CallsReturn'
    <2>1. next = Len(fn.code[current]) + 1
      BY Shape DEF EndRequests, ReadAll, BuildInv, BuildType
    <2> QED
      BY <2>1 DEF EndRequests, ReadAll, Begun, CallsReturn, Building
  <1> QED
    BY <1>1, <1>3, <1>4 DEF BuildInv

\* The instruction at hand.
LEMMA AtInstruction ==
  ASSUME BuildInv, Reading, NEW b, NEW n, b = current, n = next, phase' = phase, pending' = pending, current' = current,
         next' = next + 1, fn' = fn
  PROVE  /\ b \in Blocks(fn) /\ n \in DOMAIN fn.code[b]
         /\ next' \in 1..Len(fn.code[b]) + 1
         /\ \A do, c, v : ~Asked(do, c, v)
         /\ ~HasRead(b, n) /\ HasRead(b, n)'
         /\ \A c \in Blocks(fn) : \A m \in DOMAIN fn.code[c] :
              c # b \/ m # n => (HasRead(c, m)' <=> HasRead(c, m))
         /\ Begun' /\ phase' = "requests"
  <1>1. current \in Blocks(fn) /\ next \in 1..Len(fn.code[current]) /\ Len(fn.code[current]) \in Nat
    BY Shape DEF Reading, BuildInv, BuildType
  <1>2. next \in DOMAIN fn.code[current] /\ next' \in 1..Len(fn.code[current]) + 1
    BY <1>1, Shape DEF BuildInv, BuildType
  <1>3. current \notin pending
    BY <1>1 DEF BuildInv, Begun
  <1>4. ~HasRead(b, n) /\ HasRead(b, n)'
    BY <1>1, <1>3 DEF HasRead, Reading
  <1>5. \A c \in Blocks(fn) : \A m \in DOMAIN fn.code[c] :
          c # b \/ m # n => (HasRead(c, m)' <=> HasRead(c, m))
    <2> SUFFICES ASSUME NEW c \in Blocks(fn), NEW m \in DOMAIN fn.code[c], c # b \/ m # n
                 PROVE  HasRead(c, m)' <=> HasRead(c, m)
      OBVIOUS
    <2>1. m \in Nat
      BY Shape DEF BuildInv, BuildType
    <2> QED
      BY <1>1, <2>1 DEF HasRead, Reading
  <1>6. \A do, c, v : ~Asked(do, c, v)
    BY NoCalls DEF Reading
  <1> QED
    BY <1>1, <1>2, <1>3, <1>4, <1>5, <1>6 DEF Begun, Reading

\* A PHI takes an input of its own, and its predecessors are asked for its values.
LEMMA RequestPhiKeeps ==
  ASSUME BuildInv, RequestPhi
  PROVE  BuildInv'
  <1>b. PICK b : b = current
    OBVIOUS
  <1>n. PICK n : n = next
    OBVIOUS
  <1>p. PICK phi : phi = fn.code[b][n]
    OBVIOUS
  <1>1. /\ IsPhi(phi) /\ inputs' = [inputs EXCEPT ![b] = Append(@, Phi(phi.id))]
        /\ calls' = AskAll(phi.from, phi.args)
        /\ Reading /\ UNCHANGED <<fn, phase, pending, current, outputs>> /\ next' = next + 1
    BY <1>b, <1>n, <1>p DEF RequestPhi, Building
  <1>2. /\ b \in Blocks(fn) /\ n \in DOMAIN fn.code[b]
        /\ next' \in 1..Len(fn.code[b]) + 1
        /\ \A do, c, v : ~Asked(do, c, v)
        /\ ~HasRead(b, n) /\ HasRead(b, n)'
        /\ \A c \in Blocks(fn) : \A m \in DOMAIN fn.code[c] :
              c # b \/ m # n => (HasRead(c, m)' <=> HasRead(c, m))
        /\ Begun' /\ phase' = "requests"
    BY <1>1, <1>b, <1>n, AtInstruction
  <1>3. fn \in Functions /\ BuildType /\ Requested
    BY <1>1, <1>2 DEF BuildInv, BuildType, Reading
  <1>4. /\ phi \in Instructions(fn) /\ phi.id \in Names(fn)
        /\ phi.args \in Seq(Names(fn)) /\ phi.from \in Seq(Blocks(fn))
        /\ DOMAIN phi.from = DOMAIN phi.args /\ \A k \in DOMAIN phi.args : phi.args[k] \in Names(fn)
        /\ \A k \in DOMAIN phi.from : phi.from[k] \in Blocks(fn)
        /\ \A m \in DOMAIN fn.code[b] : fn.code[b][m].id = phi.id => m = n
    BY <1>1, <1>2, <1>3, <1>p, InstructionType
  <1>5. /\ calls' \in Seq(ToDos)
        /\ \A do, c, v : Asked(do, c, v)' <=>
              do = "output" /\ \E k \in DOMAIN phi.from : c = phi.from[k] /\ v = phi.args[k]
    <2>1. /\ AskAll(phi.from, phi.args) \in Seq(ToDos)
          /\ \A c : c \in Range(AskAll(phi.from, phi.args)) <=>
               \E k \in DOMAIN phi.from : c = ToDo("output", phi.from[k], phi.args[k])
      BY <1>3, <1>4, AskAllIs
    <2> QED
      BY <1>1, <2>1, ToDoEqual DEF Asked
  <1>6. Phi(phi.id) \in InputFields
    BY <1>4 DEF Phi, InputFields
  <1>7. Phi(phi.id) \notin Range(inputs[b])
    BY <1>2, <1>3, <1>4, <1>p DEF Requested, PhisRead
  <1>8. /\ inputs' \in [Blocks(fn) -> Seq(InputFields)]
        /\ \A c \in Blocks(fn) : \A y :
             y \in Range(inputs'[c]) <=> y \in Range(inputs[c]) \/ (c = b /\ y = Phi(phi.id))
        /\ InputsOnce'
    <2> QED
      BY <1>1, <1>2, <1>3, <1>6, <1>7, InputAdded DEF Requested
  <1>9. \A c \in Blocks(fn) : \A v : Takeable(c, v)' <=> Takeable(c, v)
    BY <1>8, ToDoEqual DEF Takeable
  <1>10. BuildType'
    BY <1>b, <1>1, <1>2, <1>3, <1>5, <1>8 DEF BuildType, InputFields, ToDos
  <1>11. OnlyLive'
    <2>1. ASSUME NEW c \in Blocks(fn), NEW v \in Names(fn), Asked("output", c, v)'
          PROVE  Gives(fn, c, v)
      <3>1. PICK k \in DOMAIN phi.from : c = phi.from[k] /\ v = phi.args[k]
        BY <1>5, <2>1
      <3>2. IsPhi(fn.code[b][n]) /\ k \in DOMAIN fn.code[b][n].args
        BY <1>1, <1>4, <1>p, <3>1
      <3>3. fn.code[b][n].from[k] = c /\ fn.code[b][n].args[k] = v
        BY <1>p, <3>1
      <3> QED
        BY <1>2, <3>2, <3>3 DEF Gives
    <2> QED
      BY <1>1, <1>3, <1>5, <1>9, <2>1, LiveClosed DEF Requested, OnlyLive
  <1>12. PhisRead'
    <2> SUFFICES ASSUME NEW c \in Blocks(fn), NEW v \in Names(fn)
                 PROVE  Phi(v) \in Range(inputs'[c]) <=>
                          \E m \in DOMAIN fn.code[c] :
                            IsPhi(fn.code[c][m]) /\ fn.code[c][m].id = v /\ HasRead(c, m)'
      BY <1>1 DEF PhisRead
    <2>1. Phi(v) \in Range(inputs[c]) <=>
            \E m \in DOMAIN fn.code[c] :
              IsPhi(fn.code[c][m]) /\ fn.code[c][m].id = v /\ HasRead(c, m)
      BY <1>3 DEF Requested, PhisRead
    <2>2. CASE c = b /\ v = phi.id
      BY <1>1, <1>2, <1>8, <1>p, <2>2
    <2>3. CASE c # b \/ v # phi.id
      <3>1. Phi(v) \in Range(inputs'[c]) <=> Phi(v) \in Range(inputs[c])
        BY <1>8, <2>3, ToDoEqual
      <3>2. \A m \in DOMAIN fn.code[c] : fn.code[c][m].id = v => c # b \/ m # n
        BY <1>p, <2>3
      <3> QED
        BY <1>2, <2>1, <3>1, <3>2
    <2> QED
      BY <2>2, <2>3
  <1>13. Answered'
    <2>1. /\ \A c \in Blocks(fn), v \in Names(fn) :
               /\ Takeable(c, v) => \A p \in Predecessors(fn, c) : Offered(p, v)
               /\ Offered(c, v) /\ Through(fn, c, v) => Takeable(c, v)
          /\ \A c \in Blocks(fn) : \A m \in DOMAIN fn.code[c] : HasRead(c, m) =>
               \A k \in DOMAIN fn.code[c][m].args : OperandAnswered(c, m, k)
      BY <1>2, <1>3 DEF Requested, Answered
    <2>2. \A c, v : Offered(c, v)' <=> Offered(c, v)
      BY <1>1 DEF Offered
    <2>3. ASSUME NEW k \in DOMAIN phi.args
          PROVE  OperandAnswered(b, n, k)'
      BY <1>1, <1>4, <1>5, <1>p DEF OperandAnswered, Asked
    <2>4. ASSUME NEW c \in Blocks(fn), NEW m \in DOMAIN fn.code[c], c # b \/ m # n, HasRead(c, m)',
                 NEW k \in DOMAIN fn.code[c][m].args
          PROVE  OperandAnswered(c, m, k)'
      <3>1. OperandAnswered(c, m, k)
        BY <1>2, <2>1, <2>4
      <3> QED
        BY <1>1, <1>2, <1>9, <2>2, <3>1 DEF OperandAnswered
    <2> QED
      BY <1>1, <1>p, <1>9, <2>1, <2>2, <2>3, <2>4 DEF Answered
  <1>14. TerminatorFirst' /\ CallsReturn'
    BY <1>1, <1>2, <1>3 DEF Requested, TerminatorFirst, CallsReturn
  <1> QED
    BY <1>2, <1>8, <1>10, <1>11, <1>12, <1>13, <1>14 DEF BuildInv, Requested

\* The operands of an instruction are going to be looked at.
LEMMA RequestOperandsKeeps ==
  ASSUME BuildInv, RequestOperands
  PROVE  BuildInv'
  <1>b. PICK b : b = current
    OBVIOUS
  <1>n. PICK n : n = next
    OBVIOUS
  <1>p. PICK ins : ins = fn.code[b][n]
    OBVIOUS
  <1>1. /\ ~IsPhi(ins)
        /\ calls' = [k \in DOMAIN ins.args |-> ToDo("operand", b, ins.args[k])]
                       \o (IF IsVoid(ins) THEN <<ToDo("output", b, ins.id)>> ELSE << >>)
        /\ Reading /\ UNCHANGED <<fn, phase, pending, current, inputs, outputs>> /\ next' = next + 1
    BY <1>b, <1>n, <1>p DEF RequestOperands, Building, compiled
  <1>2. /\ b \in Blocks(fn) /\ n \in DOMAIN fn.code[b]
        /\ next' \in 1..Len(fn.code[b]) + 1
        /\ \A do, c, v : ~Asked(do, c, v)
        /\ \A c \in Blocks(fn) : \A m \in DOMAIN fn.code[c] :
              c # b \/ m # n => (HasRead(c, m)' <=> HasRead(c, m))
        /\ Begun' /\ phase' = "requests"
    BY <1>1, <1>b, <1>n, AtInstruction
  <1>3. fn \in Functions /\ BuildType /\ Requested
    BY <1>1, <1>2 DEF BuildInv, BuildType, Reading
  <1>4. /\ ins.id \in Names(fn) /\ IsLocal(fn, b, ins.id)
        /\ ins.args \in Seq(Names(fn))
        /\ \A k \in DOMAIN ins.args : ins.args[k] \in Names(fn)
    BY <1>2, <1>3, <1>p, InstructionType
  <1>5. /\ calls' \in Seq(ToDos)
        /\ \A do, c, v : Asked(do, c, v)' <=>
             \/ do = "operand" /\ c = b /\ \E k \in DOMAIN ins.args : v = ins.args[k]
             \/ do = "output" /\ c = b /\ IsVoid(ins) /\ v = ins.id
    <2> DEFINE operands == [k \in DOMAIN ins.args |-> ToDo("operand", b, ins.args[k])]
               void == IF IsVoid(ins) THEN <<ToDo("output", b, ins.id)>> ELSE << >>
    <2>1. \A k \in DOMAIN ins.args : ToDo("operand", b, ins.args[k]) \in ToDos
      BY <1>2, <1>4 DEF ToDo, ToDos
    <2>2. operands \in Seq(ToDos) /\ DOMAIN operands = DOMAIN ins.args
      BY <1>4, <2>1
    <2>3. \A x : x \in Range(operands) <=> \E k \in DOMAIN ins.args : x = ToDo("operand", b, ins.args[k])
      <3>1. \A k \in DOMAIN ins.args : operands[k] = ToDo("operand", b, ins.args[k])
        OBVIOUS
      <3> HIDE DEF operands
      <3>2. \A x : x \in Range(operands) <=> \E k \in DOMAIN operands : x = operands[k]
        BY DEF Range
      <3>3. DOMAIN operands = DOMAIN ins.args
        BY <2>2
      <3>4. ASSUME NEW x, NEW k \in DOMAIN operands, x = operands[k]
            PROVE  \E j \in DOMAIN ins.args : x = ToDo("operand", b, ins.args[j])
        BY <3>1, <3>3, <3>4
      <3>5. ASSUME NEW x, NEW k \in DOMAIN ins.args, x = ToDo("operand", b, ins.args[k])
            PROVE  \E j \in DOMAIN operands : x = operands[j]
        BY <3>1, <3>3, <3>5
      <3> QED
        BY <3>2, <3>4, <3>5
    <2>4. ToDo("output", b, ins.id) \in ToDos
      BY <1>2, <1>4 DEF ToDo, ToDos
    <2>5. void \in Seq(ToDos) /\ \A x : x \in Range(void) <=> IsVoid(ins) /\ x = ToDo("output", b, ins.id)
      BY <2>4 DEF Range
    <2> HIDE DEF operands, void
    <2>6. /\ operands \o void \in Seq(ToDos)
          /\ Range(operands \o void) = Range(operands) \cup Range(void)
      BY <2>2, <2>5, ConcatProperties, RangeConcatenation
    <2>7. calls' = operands \o void
      BY <1>1 DEF operands, void
    <2> QED
      BY <2>3, <2>5, <2>6, <2>7, ToDoEqual DEF Asked
  <1>6. BuildType'
    BY <1>b, <1>1, <1>2, <1>3, <1>5 DEF BuildType, InputFields, ToDos
  <1>7. OnlyLive'
    <2>1. ASSUME NEW v \in Names(fn), Asked("operand", b, v)'
          PROVE  Takes(fn, b, v)
      <3>1. PICK k \in DOMAIN ins.args : v = ins.args[k]
        BY <1>5, <2>1
      <3>2. v \in Range(fn.code[b][n].args)
        BY <1>p, <3>1 DEF Range
      <3> QED
        BY <1>1, <1>2, <1>p, <3>2 DEF Takes
    <2>2. ~Through(fn, b, ins.id)
      BY <1>4 DEF Through
    <2>3. \A c, v : Takeable(c, v)' <=> Takeable(c, v)
      BY <1>1 DEF Takeable
    <2> QED
      BY <1>1, <1>3, <1>5, <2>1, <2>2, <2>3 DEF Requested, OnlyLive
  <1>8. PhisRead'
    <2>1. ASSUME NEW c \in Blocks(fn), NEW m \in DOMAIN fn.code[c], IsPhi(fn.code[c][m])
          PROVE  HasRead(c, m)' <=> HasRead(c, m)
      BY <1>1, <1>2, <1>p, <2>1
    <2> QED
      BY <1>1, <1>3, <2>1 DEF Requested, PhisRead
  <1>9. Answered'
    <2>1. /\ \A c \in Blocks(fn), v \in Names(fn) :
               /\ Takeable(c, v) => \A p \in Predecessors(fn, c) : Offered(p, v)
               /\ Offered(c, v) /\ Through(fn, c, v) => Takeable(c, v)
          /\ \A c \in Blocks(fn) : \A m \in DOMAIN fn.code[c] : HasRead(c, m) =>
               \A k \in DOMAIN fn.code[c][m].args : OperandAnswered(c, m, k)
      BY <1>2, <1>3 DEF Requested, Answered
    <2>2. \A c, v : (Offered(c, v)' <=> Offered(c, v)) /\ (Takeable(c, v)' <=> Takeable(c, v))
      BY <1>1 DEF Offered, Takeable
    <2>3. ASSUME NEW k \in DOMAIN ins.args
          PROVE  OperandAnswered(b, n, k)'
      BY <1>1, <1>4, <1>5, <1>p DEF OperandAnswered, Asked
    <2>4. ASSUME NEW c \in Blocks(fn), NEW m \in DOMAIN fn.code[c], c # b \/ m # n, HasRead(c, m)',
                 NEW k \in DOMAIN fn.code[c][m].args
          PROVE  OperandAnswered(c, m, k)'
      <3>1. OperandAnswered(c, m, k)
        BY <1>2, <2>1, <2>4
      <3> QED
        BY <1>1, <1>2, <2>2, <3>1 DEF OperandAnswered
    <2> QED
      <3>1. \A c \in Blocks(fn) : \A m \in DOMAIN fn.code[c] : HasRead(c, m)' =>
              \A k \in DOMAIN fn.code[c][m].args : OperandAnswered(c, m, k)'
        BY <1>p, <2>3, <2>4
      <3> QED
        BY <1>1, <2>1, <2>2, <3>1 DEF Answered
  <1>10. InputsOnce' /\ TerminatorFirst' /\ CallsReturn'
    BY <1>1, <1>2, <1>3 DEF Requested, InputsOnce, TerminatorFirst, CallsReturn
  <1> QED
    BY <1>2, <1>6, <1>7, <1>8, <1>9, <1>10 DEF BuildInv, Requested

\* A call that ends leaves what it was for.
LEMMA AnsweredKept ==
  ASSUME Answered, UNCHANGED <<fn, phase, pending, current, next>>,
         \A b, v :
           /\ Offered(b, v) => Offered(b, v)'
           /\ Takeable(b, v) => Takeable(b, v)'
           /\ Asked("output", b, v) => Asked("output", b, v)' \/ Offered(b, v)'
           /\ Asked("input", b, v) => Asked("input", b, v)' \/ Takeable(b, v)'
           /\ Asked("operand", b, v) => Asked("operand", b, v)' \/ ~Through(fn, b, v) \/ Asked("input", b, v)',
         \A b \in Blocks(fn), v \in Names(fn) :
           /\ Takeable(b, v)' => Takeable(b, v) \/ \A p \in Predecessors(fn, b) : Asked("output", p, v)'
           /\ Offered(b, v)' /\ Through(fn, b, v) => Offered(b, v) \/ Asked("input", b, v)'
  PROVE  Answered'
  <1>1. \A b, n, k : OperandAnswered(b, n, k) => OperandAnswered(b, n, k)'
    BY DEF OperandAnswered
  <1>2. \A b, n : HasRead(b, n)' <=> HasRead(b, n)
    BY DEF HasRead
  <1> QED
    BY <1>1, <1>2 DEF Answered

\* An operand that the block does not have becomes an input.
LEMMA RequestOperandKeeps ==
  ASSUME BuildInv, RequestOperand
  PROVE  BuildInv'
  <1>c. PICK c : c = Head(calls)
    OBVIOUS
  <1>1. PICK new : new = (IF Through(fn, c.at, c.value) THEN <<ToDo("input", c.at, c.value)>> ELSE << >>)
    OBVIOUS
  <1>2. /\ c.do = "operand" /\ calls # << >> /\ calls' = new \o Tail(calls) /\ phase = "requests"
        /\ UNCHANGED <<fn, phase, pending, current, next, inputs, outputs>>
    BY <1>c, <1>1 DEF RequestOperand, InCall, Building, compiled
  <1>3. BuildType /\ Requested
    BY <1>2 DEF BuildInv
  <1>4. c \in ToDos /\ c \in Range(calls)
    BY <1>c, <1>2, <1>3, RangeTail DEF BuildType
  <1>5. /\ c.at \in Blocks(fn) /\ c.value \in Names(fn) /\ c = ToDo("operand", c.at, c.value)
    BY <1>2, <1>4, CallFields
  <1>6. /\ new \in Seq(ToDos)
        /\ \A x : x \in Range(new) <=> Through(fn, c.at, c.value) /\ x = ToDo("input", c.at, c.value)
    <2>1. ToDo("input", c.at, c.value) \in ToDos
      BY <1>5 DEF ToDo, ToDos
    <2> QED
      BY <1>1, <2>1 DEF Range
  <1>7. /\ calls' \in Seq(ToDos)
        /\ \A x : x \in Range(new) => x \in Range(calls')
        /\ \A x : x \in Range(calls) => x = c \/ x \in Range(calls')
        /\ \A x : x \in Range(calls') => x \in Range(calls) \/ x \in Range(new)
    BY <1>c, <1>2, <1>3, <1>6, CallEnds
  <1>8. BuildType'
    BY <1>2, <1>3, <1>7 DEF BuildType, InputFields, ToDos
  <1>9. OnlyLive'
    <2>1. Takes(fn, c.at, c.value)
      BY <1>3, <1>4, <1>5 DEF Requested, OnlyLive, Asked
    <2>2. Through(fn, c.at, c.value) => c.value \in LiveIn(fn, c.at)
      BY <1>5, <2>1, LiveClosed
    <2> QED
      BY <1>2, <1>3, <1>6, <1>7, <2>2, ToDoEqual DEF Requested, OnlyLive, Asked, Takeable
  <1>10. Answered'
    <2>1. \A b, v : (Offered(b, v)' <=> Offered(b, v)) /\ (Takeable(b, v)' <=> Takeable(b, v))
      BY <1>2 DEF Offered, Takeable
    <2>2. \A b, v : /\ Asked("output", b, v) => Asked("output", b, v)'
                    /\ Asked("input", b, v) => Asked("input", b, v)'
                    /\ Asked("operand", b, v) => Asked("operand", b, v)' \/ ~Through(fn, b, v) \/ Asked("input", b, v)'
      BY <1>5, <1>6, <1>7, ToDoEqual DEF Asked
    <2> QED
      BY <1>2, <1>3, <2>1, <2>2, AnsweredKept DEF Requested
  <1>11. PhisRead' /\ InputsOnce' /\ TerminatorFirst' /\ CallsReturn' /\ Begun'
    BY <1>2, <1>3 DEF Requested, PhisRead, InputsOnce, TerminatorFirst, CallsReturn, Begun, HasRead, BuildInv
  <1> QED
    BY <1>8, <1>9, <1>10, <1>11 DEF BuildInv, Requested

\* An output that passes through the block becomes an input.
LEMMA RequestOutputKeeps ==
  ASSUME BuildInv, RequestOutput
  PROVE  BuildInv'
  <1>c. PICK c : c = Head(calls)
    OBVIOUS
  <1> DEFINE known == c.value \in Range(outputs[c.at])
  <1>1. PICK new : new = (IF ~known /\ Through(fn, c.at, c.value)
                          THEN <<ToDo("input", c.at, c.value)>> ELSE << >>)
    OBVIOUS
  <1>2. /\ c.do = "output" /\ calls # << >> /\ phase = "requests"
        /\ calls' = (IF ~known /\ Through(fn, c.at, c.value) THEN new \o Tail(calls) ELSE Tail(calls))
        /\ outputs' = IF known THEN outputs ELSE [outputs EXCEPT ![c.at] = Append(@, c.value)]
        /\ UNCHANGED <<fn, phase, pending, current, next, inputs>>
    BY <1>c, <1>1 DEF RequestOutput, InCall, Building
  <1>3. BuildType /\ Requested
    BY <1>2 DEF BuildInv
  <1>4. c \in ToDos /\ c \in Range(calls) /\ Tail(calls) \in Seq(ToDos)
    BY <1>c, <1>2, <1>3, RangeTail DEF BuildType
  <1>5. /\ c.at \in Blocks(fn) /\ c.value \in Names(fn) /\ c = ToDo("output", c.at, c.value)
    BY <1>2, <1>4, CallFields
  <1>6. /\ new \in Seq(ToDos)
        /\ \A x : x \in Range(new) <=>
             ~known /\ Through(fn, c.at, c.value) /\ x = ToDo("input", c.at, c.value)
    <2>1. ToDo("input", c.at, c.value) \in ToDos
      BY <1>5 DEF ToDo, ToDos
    <2> QED
      BY <1>1, <2>1 DEF Range
  <1>7. calls' = new \o Tail(calls)
    BY <1>1, <1>2, <1>4, ConcatEmptySeq
  <1>8. /\ calls' \in Seq(ToDos)
        /\ \A x : x \in Range(new) => x \in Range(calls')
        /\ \A x : x \in Range(calls) => x = c \/ x \in Range(calls')
        /\ \A x : x \in Range(calls') => x \in Range(calls) \/ x \in Range(new)
    BY <1>c, <1>2, <1>3, <1>6, <1>7, CallEnds
  <1>9. /\ outputs' \in [Blocks(fn) -> Seq(Names(fn))]
        /\ \A b \in Blocks(fn) : \A y :
              y \in Range(outputs'[b]) <=> y \in Range(outputs[b]) \/ (b = c.at /\ y = c.value)
        /\ TerminatorFirst'
    <2>1. CASE known
      <3>1. TerminatorFirst'
        BY <1>2, <1>3, <2>1 DEF Requested, TerminatorFirst
      <3> QED
        BY <1>2, <1>3, <2>1, <3>1 DEF BuildType
    <2>2. CASE ~known
      <3> HIDE DEF known
      <3> QED
        BY <1>2, <1>3, <1>5, <2>2, OutputAdded DEF Requested
    <2> QED
      BY <2>1, <2>2
  <1>10. BuildType'
    BY <1>2, <1>3, <1>8, <1>9 DEF BuildType, InputFields, ToDos
  <1>11. OnlyLive'
    <2>1. Through(fn, c.at, c.value) => c.value \in LiveIn(fn, c.at)
      BY <1>3, <1>4, <1>5 DEF Requested, OnlyLive, Asked
    <2> QED
      BY <1>2, <1>3, <1>6, <1>8, <2>1, ToDoEqual DEF Requested, OnlyLive, Asked, Takeable
  <1>12. Answered'
    <2>1. \A b, v : Takeable(b, v)' <=> Takeable(b, v)
      BY <1>2 DEF Takeable
    <2>2. \A b \in Blocks(fn) : \A v : Offered(b, v)' <=> Offered(b, v) \/ (b = c.at /\ v = c.value)
      BY <1>9 DEF Offered
    <2>3. \A b, v : Offered(b, v) => Offered(b, v)'
      <3>1. CASE known
        BY <1>2, <3>1 DEF Offered
      <3>2. CASE ~known
        <4>1. \A b : b \notin Blocks(fn) => outputs'[b] = outputs[b]
          BY <1>2, <1>3, <1>5, <3>2 DEF BuildType
        <4> QED
          BY <2>2, <4>1 DEF Offered
      <3> QED
        BY <3>1, <3>2
    <2>4. \A b, v : /\ Asked("output", b, v) => Asked("output", b, v)' \/ Offered(b, v)'
                    /\ Asked("input", b, v) => Asked("input", b, v)'
                    /\ Asked("operand", b, v) => Asked("operand", b, v)'
      BY <1>5, <1>8, <2>2, ToDoEqual DEF Asked
    <2>5. \A b \in Blocks(fn), v \in Names(fn) :
            Offered(b, v)' /\ Through(fn, b, v) => Offered(b, v) \/ Asked("input", b, v)'
      BY <1>6, <1>8, <2>2 DEF Asked, Offered
    <2> QED
      BY <1>2, <1>3, <2>1, <2>3, <2>4, <2>5, AnsweredKept DEF Requested
  <1>13. PhisRead' /\ InputsOnce' /\ CallsReturn' /\ Begun'
    BY <1>2, <1>3 DEF Requested, PhisRead, InputsOnce, CallsReturn, Begun, HasRead, BuildInv
  <1> QED
    BY <1>9, <1>10, <1>11, <1>12, <1>13 DEF BuildInv, Requested

\* A new input is live, and every predecessor is asked for it.
LEMMA AddInputKeeps ==
  ASSUME BuildInv, AddInput
  PROVE  BuildInv'
  <1>c. PICK c : c = Head(calls)
    OBVIOUS
  <1> DEFINE known == NonPhi(c.value) \in Range(inputs[c.at])
             ps == SetToSeq(Predecessors(fn, c.at))
             asks == AskAll(ps, [n \in DOMAIN ps |-> c.value])
  <1>1. PICK new : new = (IF known THEN << >> ELSE asks)
    OBVIOUS
  <1>2. /\ c.do = "input" /\ calls # << >> /\ phase = "requests"
        /\ calls' = (IF known THEN Tail(calls) ELSE new \o Tail(calls))
        /\ inputs' = IF known THEN inputs ELSE [inputs EXCEPT ![c.at] = Append(@, NonPhi(c.value))]
        /\ UNCHANGED <<fn, pending, current, next, outputs>>
        /\ phase' \in {phase, "aborted"}
    BY <1>c, <1>1 DEF AddInput, InCall, Building, Range
  <1>3. BuildType /\ Requested
    BY <1>2 DEF BuildInv
  <1>4. c \in ToDos /\ c \in Range(calls) /\ Tail(calls) \in Seq(ToDos)
    BY <1>c, <1>2, <1>3, RangeTail DEF BuildType
  <1>5. /\ c.at \in Blocks(fn) /\ c.value \in Names(fn) /\ c = ToDo("input", c.at, c.value)
    BY <1>2, <1>4, CallFields
  <1>6. /\ new \in Seq(ToDos)
        /\ \A x : x \in Range(new) <=>
             ~known /\ \E p \in Predecessors(fn, c.at) : x = ToDo("output", p, c.value)
    <2>1. fn \in Functions
      BY <1>3 DEF BuildType
    <2>2. /\ IsFiniteSet(Predecessors(fn, c.at)) /\ Predecessors(fn, c.at) \subseteq Blocks(fn)
      BY <1>5, <2>1, PredecessorsFinite
    <2>3. ps \in Seq(Predecessors(fn, c.at)) /\ Range(ps) = Predecessors(fn, c.at)
      BY <2>2, SetToSeqLists
    <2> HIDE DEF ps
    <2>4. ps \in Seq(Blocks(fn))
      BY <2>2, <2>3
    <2>5. PICK vs : vs = [n \in DOMAIN ps |-> c.value]
      OBVIOUS
    <2>6. /\ AskAll(ps, vs) \in Seq(ToDos)
          /\ \A x : x \in Range(AskAll(ps, vs)) <=> \E n \in DOMAIN ps : x = ToDo("output", ps[n], vs[n])
      BY <1>5, <2>1, <2>4, <2>5, AskAllIs
    <2>7. \A x : x \in Range(asks) <=> \E p \in Predecessors(fn, c.at) : x = ToDo("output", p, c.value)
      <3>1. Range(asks) = Range(AskAll(ps, vs))
        BY <2>5
      <3>2. \A n \in DOMAIN ps : vs[n] = c.value /\ ps[n] \in Predecessors(fn, c.at)
        BY <2>3, <2>5 DEF Range
      <3>3. \A p \in Predecessors(fn, c.at) : \E n \in DOMAIN ps : ps[n] = p
        BY <2>3 DEF Range
      <3> HIDE DEF asks
      <3> QED
        BY <2>6, <3>1, <3>2, <3>3
    <2>8. asks \in Seq(ToDos)
      BY <2>5, <2>6
    <2> HIDE DEF asks, known
    <2>9. << >> \in Seq(ToDos) /\ Range(<< >>) = {}
      BY DEF Range
    <2> QED
      BY <1>1, <2>7, <2>8, <2>9
  <1>7. calls' = new \o Tail(calls)
    BY <1>1, <1>2, <1>4, ConcatEmptySeq
  <1>8. /\ calls' \in Seq(ToDos)
        /\ \A x : x \in Range(new) => x \in Range(calls')
        /\ \A x : x \in Range(calls) => x = c \/ x \in Range(calls')
        /\ \A x : x \in Range(calls') => x \in Range(calls) \/ x \in Range(new)
    BY <1>c, <1>2, <1>3, <1>6, <1>7, CallEnds
  <1>9. /\ inputs' \in [Blocks(fn) -> Seq(InputFields)]
        /\ \A b \in Blocks(fn) : \A y :
              y \in Range(inputs'[b]) <=> y \in Range(inputs[b]) \/ (b = c.at /\ y = NonPhi(c.value))
        /\ InputsOnce'
    <2>1. CASE known
      <3>1. InputsOnce'
        BY <1>2, <1>3, <2>1 DEF Requested, InputsOnce
      <3> QED
        BY <1>2, <1>3, <2>1, <3>1 DEF BuildType
    <2>2. CASE ~known
      <3>1. NonPhi(c.value) \in InputFields
        BY <1>5 DEF NonPhi, InputFields
      <3>2. PICK x : x = NonPhi(c.value)
        OBVIOUS
      <3>3. x \notin Range(inputs[c.at]) /\ inputs' = [inputs EXCEPT ![c.at] = Append(@, x)]
        BY <1>2, <2>2, <3>2
      <3> HIDE DEF known
      <3> QED
        BY <1>2, <1>3, <1>5, <3>1, <3>2, <3>3, InputAdded DEF Requested
    <2> QED
      BY <2>1, <2>2
  <1>10. BuildType'
    BY <1>2, <1>3, <1>8, <1>9 DEF BuildType, InputFields, ToDos
  <1>11. Begun' /\ (CallsReturn' \/ phase' = "aborted")
    BY <1>2 DEF CallsReturn, Begun, BuildInv
  <1>12. CASE phase' = "aborted"
    BY <1>10, <1>11, <1>12 DEF BuildInv
  <1>13. CASE phase' = phase
    <2> HIDE DEF known, asks, ps
    <2>1. \A b \in Blocks(fn) : \A v : Takeable(b, v)' <=> Takeable(b, v) \/ (b = c.at /\ v = c.value)
      BY <1>9, ToDoEqual DEF Takeable
    <2>2. c.value \in LiveIn(fn, c.at)
      BY <1>3, <1>4, <1>5 DEF Requested, OnlyLive, Asked
    <2>3. OnlyLive'
      <3>1. ASSUME NEW p \in Predecessors(fn, c.at), Through(fn, p, c.value)
            PROVE  p \in Blocks(fn) /\ c.value \in LiveIn(fn, p)
        <4>1. p \in Blocks(fn) /\ c.at \in Range(fn.succs[p])
          BY DEF Predecessors
        <4> QED
          BY <1>5, <2>2, <3>1, <4>1, LiveClosed
      <3> QED
        BY <1>2, <1>3, <1>6, <1>8, <2>1, <2>2, <3>1, ToDoEqual DEF Requested, OnlyLive, Asked
    <2>4. Answered'
      <3>1. \A b, v : Offered(b, v)' <=> Offered(b, v)
        BY <1>2 DEF Offered
      <3>2. \A b, v : Takeable(b, v) => Takeable(b, v)'
        <4>1. CASE known
          BY <1>2, <4>1 DEF Takeable
        <4>2. CASE ~known
          <5>1. \A b : b \notin Blocks(fn) => inputs'[b] = inputs[b]
            BY <1>2, <1>3, <1>5, <4>2 DEF BuildType
          <5> QED
            BY <2>1, <5>1 DEF Takeable
        <4> QED
          BY <4>1, <4>2
      <3>3. \A b, v : /\ Asked("output", b, v) => Asked("output", b, v)'
                      /\ Asked("input", b, v) => Asked("input", b, v)' \/ Takeable(b, v)'
                      /\ Asked("operand", b, v) => Asked("operand", b, v)'
        BY <1>5, <1>8, <2>1, ToDoEqual DEF Asked
      <3>4. \A b \in Blocks(fn), v \in Names(fn) :
              Takeable(b, v)' => Takeable(b, v) \/ \A p \in Predecessors(fn, b) : Asked("output", p, v)'
        <4>1. ~known => \A p \in Predecessors(fn, c.at) : ToDo("output", p, c.value) \in Range(calls')
          BY <1>6, <1>8
        <4>2. known => Takeable(c.at, c.value)
          BY DEF known, Takeable
        <4> QED
          BY <2>1, <4>1, <4>2 DEF Asked
      <3> QED
        BY <1>2, <1>3, <1>13, <3>1, <3>2, <3>3, <3>4, AnsweredKept DEF Requested
    <2>5. PhisRead'
      <3>1. \A b, n : HasRead(b, n)' <=> HasRead(b, n)
        BY <1>2, <1>13 DEF HasRead
      <3>2. \A b \in Blocks(fn) : \A v : Phi(v) \in Range(inputs'[b]) <=> Phi(v) \in Range(inputs[b])
        BY <1>9, ToDoEqual
      <3> QED
        BY <1>2, <1>3, <3>1, <3>2 DEF Requested, PhisRead
    <2>6. TerminatorFirst'
      BY <1>2, <1>3 DEF Requested, TerminatorFirst
    <2>7. CallsReturn'
      BY <1>2, <1>13 DEF CallsReturn
    <2> QED
      BY <1>9, <1>10, <1>11, <1>13, <2>3, <2>4, <2>5, <2>6, <2>7, <1>2 DEF BuildInv, Requested
  <1> QED
    BY <1>2, <1>12, <1>13

\* construct asks for nothing.
LEMMA ConstructKeeps ==
  ASSUME BuildInv, NEW b \in Blocks(fn), Construct(b)
  PROVE  BuildInv'
  <1>1. /\ phase = "construct" /\ phase' \in {"construct", "aborted"}
        /\ pending' = pending \ {b}
        /\ UNCHANGED <<fn, current, next, calls, inputs, outputs>>
    BY DEF Construct, Building
  <1>2. BuildType' /\ Begun'
    BY <1>1 DEF BuildInv, BuildType, InputFields, ToDos, Begun
  <1>3. phase' # "aborted" => Requested' /\ CallsReturn'
    BY <1>1, SameRequests DEF BuildInv, HasRead, CallsReturn
  <1> QED
    BY <1>2, <1>3 DEF BuildInv

\* LLVMEntry asks for nothing.
LEMMA ConnectEntryKeeps ==
  ASSUME BuildInv, ConnectEntry
  PROVE  BuildInv'
  <1>1. /\ phase = "construct" /\ phase' \in {"run", "aborted"}
        /\ UNCHANGED <<fn, pending, current, next, calls, inputs, outputs>>
    BY DEF ConnectEntry, Building
  <1>2. BuildType' /\ Begun'
    BY <1>1 DEF BuildInv, BuildType, InputFields, ToDos, Begun
  <1>3. phase' # "aborted" => Requested' /\ CallsReturn'
    BY <1>1, SameRequests DEF BuildInv, HasRead, CallsReturn
  <1> QED
    BY <1>2, <1>3 DEF BuildInv

\* The network at work asks for nothing.
LEMMA RunKeeps ==
  ASSUME BuildInv, UNCHANGED <<fn, phase, pending, current, next, calls, inputs, outputs>>
  PROVE  BuildInv'
  <1>1. BuildType' /\ Begun'
    BY DEF BuildInv, BuildType, InputFields, ToDos, Begun
  <1>2. phase # "aborted" => Requested' /\ CallsReturn'
    BY SameRequests DEF BuildInv, HasRead, CallsReturn
  <1> QED
    BY <1>1, <1>2 DEF BuildInv

\* Before the requests every block offers its terminator only.
LEMMA InitBuildInv ==
  ASSUME Init
  PROVE  BuildInv
  <1>1. fn \in Functions /\ fn.entry \in Blocks(fn)
    BY Verified DEF Init, WellFormed
  <1>2. \A b \in Blocks(fn) : /\ Terminator(fn, b).id \in Names(fn)
                              /\ IsLocal(fn, b, Terminator(fn, b).id)
    <2>1. ASSUME NEW b \in Blocks(fn)
          PROVE  Len(fn.code[b]) \in DOMAIN fn.code[b]
      BY <1>1, Shape
    <2> QED
      BY <1>1, <2>1, InstructionType DEF Terminator
  <1>3. \A b \in Blocks(fn) : /\ <<Terminator(fn, b).id>> \in Seq(Names(fn))
                              /\ Range(<<Terminator(fn, b).id>>) = {Terminator(fn, b).id}
                              /\ << >> \in Seq(InputFields)
                              /\ Range(<< >>) = {} /\ IsInjective(<< >>)
    BY <1>2 DEF Range, IsInjective
  <1>4. BuildType
    <2>1. next \in 1..Len(fn.code[current]) + 1
      BY <1>1, Shape DEF Init
    <2> QED
      BY <1>1, <1>3, <2>1 DEF Init, BuildType
  <1>5. \A do, b, v : ~Asked(do, b, v)
    BY NoCalls DEF Init
  <1>6. \A b \in Blocks(fn) : \A n : ~HasRead(b, n)
    BY DEF Init, HasRead
  <1>7. \A b \in Blocks(fn) : inputs[b] = << >> /\ outputs[b] = <<Terminator(fn, b).id>>
    BY DEF Init
  <1>8. OnlyLive
    BY <1>3, <1>5, <1>7 DEF OnlyLive, Takeable
  <1>9. PhisRead
    BY <1>3, <1>6, <1>7 DEF PhisRead
  <1>10. InputsOnce
    BY <1>3, <1>7 DEF InputsOnce
  <1>11. Answered
    BY <1>2, <1>3, <1>6, <1>7 DEF Answered, Takeable, Offered, Through
  <1>12. TerminatorFirst
    BY <1>7 DEF TerminatorFirst
  <1>13. Begun /\ CallsReturn
    BY DEF Init, Begun, CallsReturn
  <1> QED
    BY <1>4, <1>8, <1>9, <1>10, <1>11, <1>12, <1>13 DEF BuildInv, Requested

\* The invariant of the requests is inductive.
LEMMA NextBuildInv ==
  ASSUME BuildInv, [Next]_vars
  PROVE  BuildInv'
  <1>1. ASSUME NEW b \in Blocks(fn), BuildRequests(b) \/ Construct(b)
        PROVE  BuildInv'
    BY <1>1, BuildRequestsKeeps, ConstructKeeps
  <1>2. CASE RequestPhi \/ RequestOperands \/ RequestOperand
    BY <1>2, RequestPhiKeeps, RequestOperandsKeeps, RequestOperandKeeps
  <1>3. CASE AddInput \/ RequestOutput \/ EndRequests \/ ConnectEntry
    BY <1>3, AddInputKeeps, RequestOutputKeeps, EndRequestsKeeps, ConnectEntryKeeps
  <1>4. ASSUME NEW args \in Samples, Call(args)
        PROVE  BuildInv'
    BY <1>4, RunKeeps DEF Call, compiled
  <1>5. ASSUME NEW e \in Edges(fn), Execute(e) \/ Return(e)
        PROVE  BuildInv'
    BY <1>5, RunKeeps DEF Execute, Return, compiled
  <1>6. CASE Finished \/ UNCHANGED vars
    BY <1>6, RunKeeps DEF Finished, vars, compiled
  <1> QED
    BY <1>1, <1>2, <1>3, <1>4, <1>5, <1>6 DEF Next, Build

\* A name that b has is one of the block's inputs, once the requests are over.
LEMMA RequestsOver ==
  ASSUME BuildInv, phase \in {"construct", "run"}
  PROVE  /\ \A b \in Blocks(fn), v \in Names(fn) :
              /\ Takeable(b, v) => \A p \in Predecessors(fn, b) : Offered(p, v)
              /\ Offered(b, v) /\ Through(fn, b, v) => Takeable(b, v)
              /\ Takeable(b, v) => v \in LiveIn(fn, b)
              /\ Phi(v) \in Range(inputs[b]) <=> IdOfPhi(fn, b, v)
         /\ \A b \in Blocks(fn) : \A n \in DOMAIN fn.code[b] : \A k \in DOMAIN fn.code[b][n].args :
              IF IsPhi(fn.code[b][n])
              THEN Offered(fn.code[b][n].from[k], fn.code[b][n].args[k])
              ELSE Through(fn, b, fn.code[b][n].args[k]) => Takeable(b, fn.code[b][n].args[k])
  <1>1. Requested /\ calls = << >> /\ \A b, n : HasRead(b, n)
    BY DEF BuildInv, CallsReturn, HasRead
  <1>2. \A do, b, v : ~Asked(do, b, v)
    BY <1>1, NoCalls
  <1>3. \A b \in Blocks(fn), v \in Names(fn) : Phi(v) \in Range(inputs[b]) <=> IdOfPhi(fn, b, v)
    BY <1>1 DEF Requested, PhisRead, IdOfPhi
  <1>4. \A b \in Blocks(fn), v \in Names(fn) :
          /\ Takeable(b, v) => \A p \in Predecessors(fn, b) : Offered(p, v)
          /\ Offered(b, v) /\ Through(fn, b, v) => Takeable(b, v)
          /\ Takeable(b, v) => v \in LiveIn(fn, b)
    BY <1>1, <1>2 DEF Requested, Answered, OnlyLive
  <1>5. \A b \in Blocks(fn) : \A n \in DOMAIN fn.code[b] : \A k \in DOMAIN fn.code[b][n].args :
          OperandAnswered(b, n, k)
    BY <1>1 DEF Requested, Answered
  <1> QED
    BY <1>2, <1>3, <1>4, <1>5 DEF OperandAnswered

\* Every input is a PHI or no PHI.
LEMMA InputIs ==
  ASSUME BuildInv, NEW b \in Blocks(fn), NEW x \in Range(inputs[b])
  PROVE  x.value \in Names(fn) /\ x = (IF x.phi THEN Phi(x.value) ELSE NonPhi(x.value))
  <1>1. inputs[b] \in Seq(InputFields)
    BY DEF BuildInv, BuildType
  <1>2. x \in InputFields
    BY <1>1, RangeOfSeq
  <1> QED
    BY <1>2 DEF InputFields, Phi, NonPhi

\* The requests end with LLVM's live values.
LEMMA LiveInputs ==
  ASSUME BuildInv
  PROVE  InputsAreTheLiveValues
  <1> SUFFICES ASSUME phase = "construct", NEW b \in Blocks(fn)
               PROVE  /\ IsInjective(inputs[b])
                      /\ Range(inputs[b]) = {NonPhi(v) : v \in LiveIn(fn, b)}
                              \cup {Phi(v) : v \in {w \in Names(fn) : IdOfPhi(fn, b, w)}}
    BY DEF InputsAreTheLiveValues
  <1>1. IsInjective(inputs[b])
    BY DEF BuildInv, Requested, InputsOnce
  <1>2. \A v \in Names(fn) : /\ Takeable(b, v) => v \in LiveIn(fn, b)
                             /\ Phi(v) \in Range(inputs[b]) <=> IdOfPhi(fn, b, v)
    BY RequestsOver
  <1>3. ASSUME NEW v \in LiveIn(fn, b)
        PROVE  NonPhi(v) \in Range(inputs[b])
    <2> DEFINE S == {c \in Blocks(fn) : Takeable(c, v)}
    <2>1. v \in Names(fn)
      BY DEF LiveIn
    <2>2. ASSUME NEW c \in Blocks(fn), Through(fn, c, v),
                 Takes(fn, c, v) \/ Gives(fn, c, v) \/ \E s \in Range(fn.succs[c]) : s \in S
          PROVE  Takeable(c, v)
      <3>1. CASE Takes(fn, c, v)
        <4>1. PICK n \in DOMAIN fn.code[c] : ~IsPhi(fn.code[c][n]) /\ v \in Range(fn.code[c][n].args)
          BY <3>1 DEF Takes
        <4>2. PICK k \in DOMAIN fn.code[c][n].args : v = fn.code[c][n].args[k]
          BY <4>1 DEF Range
        <4> QED
          BY <2>2, <4>1, <4>2, RequestsOver
      <3>2. CASE Gives(fn, c, v)
        <4>1. PICK s \in Blocks(fn) : \E n \in DOMAIN fn.code[s] :
                /\ IsPhi(fn.code[s][n])
                /\ \E k \in DOMAIN fn.code[s][n].args :
                     fn.code[s][n].from[k] = c /\ fn.code[s][n].args[k] = v
          BY <3>2 DEF Gives
        <4>2. Offered(c, v)
          BY <4>1, RequestsOver
        <4> QED
          BY <2>1, <2>2, <4>2, RequestsOver
      <3>3. ASSUME NEW s \in Range(fn.succs[c]), s \in S
            PROVE  Takeable(c, v)
        <4>1. s \in Blocks(fn) /\ c \in Predecessors(fn, s) /\ Takeable(s, v)
          BY <3>3 DEF Predecessors
        <4>2. Offered(c, v)
          BY <2>1, <4>1, RequestsOver
        <4> QED
          BY <2>1, <2>2, <4>2, RequestsOver
      <3> QED
        BY <2>2, <3>1, <3>2, <3>3
    <2>3. LiveAt(fn, v, S)
      BY <2>2 DEF LiveAt
    <2>4. b \in S
      <3> HIDE DEF S
      <3>1. S \in SUBSET Blocks(fn)
        BY DEF S
      <3> QED
        BY <2>3, <3>1, LiveLeast
    <2> QED
      BY <2>4 DEF Takeable
  <1>4. \A x \in Range(inputs[b]) : x.value \in Names(fn) /\ (x = Phi(x.value) \/ x = NonPhi(x.value))
    BY InputIs
  <1>5. \A v \in LiveIn(fn, b) : v \in Names(fn)
    BY DEF LiveIn
  <1> QED
    BY <1>1, <1>2, <1>3, <1>4, <1>5 DEF Takeable

\* When the requests end, whatever the order in which buildRequests visited the
\* blocks, each has one input for each PHI and for each value LLVM has live at its
\* start, and no other (LLVMBasicBlock::addInput, requestOutput, buildRequests).
THEOREM LiveValues == Spec => []InputsAreTheLiveValues
  <1>1. Init => BuildInv
    BY InitBuildInv
  <1>2. BuildInv /\ [Next]_vars => BuildInv'
    BY NextBuildInv
  <1>3. BuildInv => InputsAreTheLiveValues
    BY LiveInputs
  <1> QED
    BY <1>1, <1>2, <1>3, PTL DEF Spec

-----------------------------------------------------------------------------
(* The wires                                                               *)

\* The value a PHI takes from a predecessor is that of one of its pairs.
LEMMA IncomingIs ==
  ASSUME NEW f \in Functions, NEW b \in Blocks(f), NEW id, IdOfPhi(f, b, id),
         NEW p \in Predecessors(f, b)
  PROVE  \E n \in DOMAIN f.code[b] : \E k \in DOMAIN f.code[b][n].args :
           /\ IsPhi(f.code[b][n]) /\ f.code[b][n].id = id
           /\ f.code[b][n].from[k] = p /\ Incoming(f, b, id, p) = f.code[b][n].args[k]
  <1>1. PICK n \in DOMAIN f.code[b] : IsPhi(f.code[b][n]) /\ f.code[b][n].id = id
    BY DEF IdOfPhi
  <1>2. /\ \A m \in DOMAIN f.code[b] : f.code[b][m].id = id => m = n
        /\ DOMAIN f.code[b][n].from = DOMAIN f.code[b][n].args
        /\ Range(f.code[b][n].from) = Predecessors(f, b)
    BY <1>1, InstructionType
  <1>3. (CHOOSE m \in DOMAIN f.code[b] : f.code[b][m].id = id) = n
    BY <1>1, <1>2
  <1>4. PICK phi : phi = f.code[b][n]
    OBVIOUS
  <1>5. Incoming(f, b, id, p) = phi.args[IndexOf(phi.from, p)]
    BY <1>3, <1>4 DEF Incoming
  <1>6. \E k \in DOMAIN phi.from : phi.from[k] = p
    BY <1>2, <1>4 DEF Range
  <1>7. IndexOf(phi.from, p) \in DOMAIN phi.args /\ phi.from[IndexOf(phi.from, p)] = p
    BY <1>2, <1>4, <1>6 DEF IndexOf
  <1> QED
    BY <1>1, <1>4, <1>5, <1>7

\* A predecessor has an output for everything a block expects of it.
LEMMA ExpectedOffered ==
  ASSUME BuildInv, phase \in {"construct", "run"}, NEW b \in Blocks(fn), NEW p \in Predecessors(fn, b),
         NEW n \in DOMAIN inputs[b]
  PROVE  Offered(p, Expected(b, n, p))
  <1> DEFINE x == inputs[b][n]
  <1>1. x \in Range(inputs[b]) /\ fn \in Functions /\ p \in Blocks(fn)
    BY DEF Range, BuildInv, BuildType, Predecessors
  <1>2. x.value \in Names(fn) /\ x = (IF x.phi THEN Phi(x.value) ELSE NonPhi(x.value))
    BY <1>1, InputIs
  <1>3. CASE x.phi
    <2>1. IdOfPhi(fn, b, x.value) /\ Expected(b, n, p) = Incoming(fn, b, x.value, p)
      BY <1>1, <1>2, <1>3, RequestsOver DEF Expected
    <2>2. PICK m \in DOMAIN fn.code[b] : \E k \in DOMAIN fn.code[b][m].args :
            /\ IsPhi(fn.code[b][m]) /\ fn.code[b][m].from[k] = p
            /\ Incoming(fn, b, x.value, p) = fn.code[b][m].args[k]
      BY <1>1, <2>1, IncomingIs
    <2>3. PICK k \in DOMAIN fn.code[b][m].args :
            /\ IsPhi(fn.code[b][m]) /\ fn.code[b][m].from[k] = p
            /\ Incoming(fn, b, x.value, p) = fn.code[b][m].args[k]
      BY <2>2
    <2> QED
      BY <2>1, <2>3, RequestsOver
  <1>4. CASE ~x.phi
    <2>1. Takeable(b, x.value) /\ Expected(b, n, p) = x.value
      BY <1>1, <1>2, <1>4 DEF Takeable, Expected
    <2> QED
      BY <1>2, <2>1, RequestsOver
  <1> QED
    BY <1>3, <1>4

\* construct finds an output for all that an edge carries.
LEMMA EdgeOffered ==
  ASSUME BuildInv, phase \in {"construct", "run"}, NEW b \in Blocks(fn), NEW i \in DOMAIN fn.succs[b]
  PROVE  /\ fn.succs[b][i] \in Blocks(fn) /\ b \in Predecessors(fn, fn.succs[b][i])
         /\ Range(EdgeValues(b, i)) \subseteq Range(outputs[b])
  <1>1. fn.succs[b][i] \in Blocks(fn) /\ b \in Predecessors(fn, fn.succs[b][i])
    BY Shape DEF BuildInv, BuildType, Predecessors, Range
  <1>2. \A n \in DOMAIN inputs[fn.succs[b][i]] : Offered(b, Expected(fn.succs[b][i], n, b))
    BY <1>1, ExpectedOffered
  <1> QED
    BY <1>1, <1>2 DEF EdgeValues, Range, Offered

\* The first block takes arguments only, and no PHI.
LEMMA EntryInputs ==
  ASSUME BuildInv, phase \in {"construct", "run"}, NEW n \in DOMAIN inputs[fn.entry]
  PROVE  ~inputs[fn.entry][n].phi /\ inputs[fn.entry][n].value \in Range(fn.args)
  <1> DEFINE x == inputs[fn.entry][n]
  <1>1. fn \in Functions /\ fn.entry \in Blocks(fn) /\ x \in Range(inputs[fn.entry])
    BY Verified DEF BuildInv, BuildType, WellFormed, Range
  <1>2. x.value \in Names(fn) /\ x = (IF x.phi THEN Phi(x.value) ELSE NonPhi(x.value))
    BY <1>1, InputIs
  <1>3. ASSUME x.phi
        PROVE  FALSE
    <2>1. IdOfPhi(fn, fn.entry, x.value)
      BY <1>1, <1>2, <1>3, RequestsOver
    <2>2. PICK m \in DOMAIN fn.code[fn.entry] : IsPhi(fn.code[fn.entry][m])
      BY <2>1 DEF IdOfPhi
    <2>3. WellFormedInstruction(fn, fn.entry, m)
      BY <1>1, Verified DEF WellFormed, WellFormedBlock
    <2>4. PICK phi : phi = fn.code[fn.entry][m]
      OBVIOUS
    <2>5. phi.args # << >> /\ Len(phi.from) = Len(phi.args)
      BY <2>2, <2>3, <2>4 DEF WellFormedInstruction
    <2>6. phi.args \in Seq(Names(fn)) /\ DOMAIN phi.from = 1..Len(phi.from)
      BY <1>1, <2>4, InstructionType
    <2>7. 1 \in DOMAIN phi.from
      BY <2>5, <2>6, EmptySeq
    <2>8. phi.from[1] \in Predecessors(fn, fn.entry)
      BY <1>1, <2>2, <2>4, <2>7, InstructionType DEF Range
    <2>9. Predecessors(fn, fn.entry) = {}
      BY <1>1, Shape DEF Predecessors
    <2> QED
      BY <2>8, <2>9
  <1>4. Takeable(fn.entry, x.value)
    BY <1>1, <1>2, <1>3 DEF Takeable
  <1>5. x.value \in LiveIn(fn, fn.entry)
    BY <1>1, <1>2, <1>4, RequestsOver
  <1> QED
    BY <1>1, <1>3, <1>5, EntryNeeds

\* Without repeated successors each has the index of its edge.
LEMMA MapSuccessorIs ==
  ASSUME NEW b \in Blocks(fn), NEW i \in DOMAIN fn.succs[b], IsInjective(fn.succs[b]), fn \in Functions
  PROVE  MapSuccessor(b, fn.succs[b][i]) = i
  <1>1. DOMAIN fn.succs[b] \subseteq Nat
    BY Shape
  <1>2. \A j \in DOMAIN fn.succs[b] : fn.succs[b][j] = fn.succs[b][i] => j = i
    BY DEF IsInjective
  <1> QED
    BY <1>1, <1>2 DEF MapSuccessor

MapSuccessorInjective(b) == \A i \in DOMAIN fn.succs[b] : MapSuccessor(b, fn.succs[b][i]) = i

\* construct gives up when a successor is repeated.
LEMMA NoRepeatedSuccessor ==
  ASSUME NEW b, MapSuccessorInjective(b)
  PROVE  IsInjective(fn.succs[b])
  BY DEF MapSuccessorInjective, IsInjective

\* The compiler gives up for the shape of the flow graph only.
LEMMA AbortsKeeps ==
  ASSUME BuildInv, AbortsOnlyForTheFlowGraph, [Next]_vars
  PROVE  AbortsOnlyForTheFlowGraph'
  <1>1. fn' = fn
    BY DEF Next, Build, BuildRequests, RequestPhi, RequestOperands, RequestOperand, AddInput, RequestOutput,
           EndRequests, Construct, ConnectEntry, Call, Execute, Return, Finished, Building, vars
  <1> DEFINE Odd == \/ \E b \in Blocks(fn) : ~IsInjective(fn.succs[b])
                    \/ \A b \in Blocks(fn) : ~Returns(fn, b)
                    \/ \E b \in Blocks(fn) \ {fn.entry} : Predecessors(fn, b) = {}
  <1>2. fn \in Functions /\ fn.entry \in Blocks(fn)
    BY Verified DEF BuildInv, BuildType, WellFormed
  <1>3. ASSUME phase' = "aborted", AddInput, phase = "requests"
        PROVE  Odd
    <2>c. PICK c : c = Head(calls)
      OBVIOUS
    <2> DEFINE ps == SetToSeq(Predecessors(fn, c.at))
    <2>1. /\ c.do = "input" /\ calls # << >>
          /\ ~(ps # << >> \/ (c.at = fn.entry /\ c.value \in Range(fn.args)))
      BY <1>3, <2>c DEF AddInput, InCall
    <2>2. c \in ToDos /\ c \in Range(calls) /\ Requested
      BY <1>3, <2>c, <2>1, RangeTail DEF BuildInv, BuildType
    <2>3. c.at \in Blocks(fn) /\ c.value \in Names(fn) /\ c = ToDo("input", c.at, c.value)
      BY <2>1, <2>2, CallFields
    <2>4. c.value \in LiveIn(fn, c.at)
      BY <2>2, <2>3 DEF Requested, OnlyLive, Asked
    <2>5. c.at # fn.entry
      BY <1>2, <2>1, <2>4, EntryNeeds
    <2>6. Predecessors(fn, c.at) = {}
      <3>1. Range(ps) = Predecessors(fn, c.at)
        BY <1>2, <2>3, PredecessorsFinite, SetToSeqLists
      <3>2. Range(<< >>) = {}
        BY DEF Range
      <3> QED
        BY <2>1, <3>1, <3>2
    <2> QED
      BY <2>3, <2>5, <2>6
  <1>4. ASSUME NEW b \in Blocks(fn), Construct(b), phase' = "aborted"
        PROVE  Odd
    <2>1. phase = "construct"
      BY <1>4 DEF Construct
    <2>2. ~\A i \in DOMAIN fn.succs[b] : /\ MapSuccessor(b, fn.succs[b][i]) = i
                                         /\ Range(EdgeValues(b, i)) \subseteq Range(outputs[b])
      BY <1>4, <2>1 DEF Construct
    <2>3. PICK i \in DOMAIN fn.succs[b] : MapSuccessor(b, fn.succs[b][i]) # i
      BY <2>1, <2>2, EdgeOffered
    <2> QED
      BY <1>2, <2>3, MapSuccessorIs
  <1>5. ASSUME ConnectEntry, phase' = "aborted"
        PROVE  Odd
    <2>1. phase = "construct"
      BY <1>5 DEF ConnectEntry
    <2>2. \A n \in DOMAIN inputs[fn.entry] :
            ~inputs[fn.entry][n].phi /\ inputs[fn.entry][n].value \in Range(fn.args)
      BY <2>1, EntryInputs
    <2> QED
      BY <1>5, <2>1, <2>2 DEF ConnectEntry
  <1>6. phase' = "aborted" => phase = "aborted" \/ Odd
    <2> HIDE DEF Odd
    <2>1. CASE \E b \in Blocks(fn) : BuildRequests(b) \/ Construct(b)
      BY <1>4, <2>1 DEF BuildRequests
    <2>2. CASE RequestPhi \/ RequestOperands \/ RequestOperand \/ RequestOutput \/ EndRequests
      BY <2>2 DEF RequestPhi, RequestOperands, RequestOperand, RequestOutput, EndRequests
    <2>3. CASE AddInput \/ ConnectEntry
      BY <1>3, <1>5, <2>3 DEF AddInput, InCall
    <2>4. CASE \/ \E args \in Samples : Call(args)
               \/ \E e \in Edges(fn) : Execute(e) \/ Return(e)
               \/ Finished \/ UNCHANGED vars
      BY <2>4 DEF Call, Execute, Return, Finished, vars
    <2> QED
      BY <2>1, <2>2, <2>3, <2>4 DEF Next, Build
  <1> QED
    BY <1>1, <1>6 DEF AbortsOnlyForTheFlowGraph

\* No assert of addInput, construct or mapOutput fails for a value: the compiler
\* gives up only where a block has a successor twice, none returns, or nothing
\* leads to one that is not the first.
THEOREM AbortsForShape == Spec => []AbortsOnlyForTheFlowGraph
  <1>1. Init => BuildInv /\ AbortsOnlyForTheFlowGraph
    BY InitBuildInv DEF Init, AbortsOnlyForTheFlowGraph
  <1>2. BuildInv /\ AbortsOnlyForTheFlowGraph /\ [Next]_vars => (BuildInv /\ AbortsOnlyForTheFlowGraph)'
    BY NextBuildInv, AbortsKeeps
  <1> QED
    BY <1>1, <1>2, PTL DEF Spec

\* A wire stays.
LEMMA EdgeWiredKept ==
  ASSUME NEW c, NEW i, EdgeWired(c, i), UNCHANGED <<fn, inputs, outputs>>,
         <<c, i>> \in DOMAIN carried', carried'[<<c, i>>] = carried[<<c, i>>]
  PROVE  EdgeWired(c, i)'
  <1>1. \A s, n : Expected(s, n, c)' = Expected(s, n, c)
    BY DEF Expected
  <1> QED
    BY <1>1 DEF EdgeWired

\* A step that changes no wire.
LEMMA SameWires ==
  ASSUME Wired, UNCHANGED <<fn, inputs, outputs, carried, phase, pending>>
  PROVE  Wired'
  <1>1. \A b, i : EdgeWired(b, i) => EdgeWired(b, i)'
    BY EdgeWiredKept DEF EdgeWired
  <1>2. EntryWired => EntryWired'
    BY DEF EntryWired
  <1> QED
    BY <1>1, <1>2 DEF Wired

\* Over takes from the second what the first does not have.
LEMMA OverIs ==
  ASSUME NEW f, NEW g
  PROVE  /\ DOMAIN Over(f, g) = DOMAIN f \cup DOMAIN g
         /\ \A x \in DOMAIN f : Over(f, g)[x] = f[x]
         /\ \A x \in DOMAIN g \ DOMAIN f : Over(f, g)[x] = g[x]
  BY DEF Over

\* construct wires the edges of a block.
LEMMA ConstructWires ==
  ASSUME BuildInv, Wired, NEW b \in Blocks(fn), Construct(b)
  PROVE  Wired'
  <1> DEFINE new == [e \in {<<b, i>> : i \in DOMAIN fn.succs[b]} |->
                       [n \in DOMAIN EdgeValues(b, e[2]) |->
                          IndexOf(outputs[b], EdgeValues(b, e[2])[n])]]
             ok == \A i \in DOMAIN fn.succs[b] : /\ MapSuccessor(b, fn.succs[b][i]) = i
                                                 /\ Range(EdgeValues(b, i)) \subseteq Range(outputs[b])
  <1>1. /\ phase = "construct" /\ pending' = pending \ {b}
        /\ UNCHANGED <<fn, inputs, outputs>>
        /\ IF ok THEN carried' = Over(new, carried) /\ phase' = phase ELSE phase' = "aborted"
    BY DEF Construct, Building
  <1>2. CASE ~ok
    BY <1>1, <1>2 DEF Wired
  <1>3. CASE ok
    <2>1. IsInjective(fn.succs[b])
      BY <1>3, NoRepeatedSuccessor DEF MapSuccessorInjective
    <2>2. /\ DOMAIN new = {<<b, i>> : i \in DOMAIN fn.succs[b]}
          /\ \A i \in DOMAIN fn.succs[b] :
               new[<<b, i>>] = [n \in DOMAIN EdgeValues(b, i) |-> IndexOf(outputs[b], EdgeValues(b, i)[n])]
      OBVIOUS
    <2> HIDE DEF new
    <2>3. \A i \in DOMAIN fn.succs[b] :
            /\ DOMAIN new[<<b, i>>] = DOMAIN inputs[fn.succs[b][i]]
            /\ \A n \in DOMAIN inputs[fn.succs[b][i]] :
                 new[<<b, i>>][n] = IndexOf(outputs[b], Expected(fn.succs[b][i], n, b))
      BY <2>2 DEF EdgeValues
    <2>4. /\ DOMAIN carried' = DOMAIN new \cup DOMAIN carried
          /\ \A x \in DOMAIN new : carried'[x] = new[x]
          /\ \A x \in DOMAIN carried \ DOMAIN new : carried'[x] = carried[x]
      <3>1. carried' = Over(new, carried)
        BY <1>1, <1>3
      <3> QED
        BY <3>1 DEF Over
    <2>5. ASSUME NEW i \in DOMAIN fn.succs[b]
          PROVE  EdgeWired(b, i)'
      <3>1. \A s, n : Expected(s, n, b)' = Expected(s, n, b)
        BY <1>1 DEF Expected
      <3>2. <<b, i>> \in DOMAIN new
        BY <2>2
      <3>3. <<b, i>> \in DOMAIN carried' /\ carried'[<<b, i>>] = new[<<b, i>>]
        BY <2>4, <3>2
      <3> QED
        BY <1>1, <2>3, <3>1, <3>3 DEF EdgeWired
    <2>6. ASSUME NEW c \in Blocks(fn), c # b, NEW i, EdgeWired(c, i)
          PROVE  EdgeWired(c, i)'
      <3>1. <<c, i>> \in DOMAIN carried \ DOMAIN new
        BY <2>2, <2>6 DEF EdgeWired
      <3> QED
        BY <1>1, <2>4, <2>6, <3>1, EdgeWiredKept
    <2>7. \A c \in Blocks(fn) : c \notin pending' =>
            IsInjective(fn.succs[c]) /\ \A i \in DOMAIN fn.succs[c] : EdgeWired(c, i)'
      BY <1>1, <2>1, <2>5, <2>6 DEF Wired
    <2> QED
      BY <1>1, <1>3, <2>7 DEF Wired
  <1> QED
    BY <1>2, <1>3

\* LLVMEntry wires the first block.
LEMMA ConnectEntryWires ==
  ASSUME BuildInv, Wired, ConnectEntry
  PROVE  Wired'
  <1> DEFINE new == [e \in {Entry} |-> [n \in DOMAIN inputs[fn.entry] |->
                                          IndexOf(fn.args, inputs[fn.entry][n].value)]]
  <1>1. /\ phase = "construct" /\ pending = {} /\ UNCHANGED <<fn, pending, inputs, outputs>>
        /\ phase' \in {"run", "aborted"}
        /\ phase' = "run" => /\ carried' = Over(new, carried)
                             /\ \A n \in DOMAIN inputs[fn.entry] :
                                  /\ ~inputs[fn.entry][n].phi
                                  /\ inputs[fn.entry][n].value \in Range(fn.args)
    BY DEF ConnectEntry, Building
  <1>2. CASE phase' = "aborted"
    BY <1>2 DEF Wired
  <1>3. CASE phase' = "run"
    <2>1. DOMAIN new = {Entry} /\ new[Entry] = [n \in DOMAIN inputs[fn.entry] |->
                                                  IndexOf(fn.args, inputs[fn.entry][n].value)]
      OBVIOUS
    <2> HIDE DEF new
    <2>2. /\ DOMAIN carried' = DOMAIN new \cup DOMAIN carried
          /\ \A x \in DOMAIN new : carried'[x] = new[x]
          /\ \A x \in DOMAIN carried \ DOMAIN new : carried'[x] = carried[x]
      <3>1. carried' = Over(new, carried)
        BY <1>1, <1>3
      <3> QED
        BY <3>1 DEF Over
    <2>3. EntryWired'
      BY <1>1, <1>3, <2>1, <2>2 DEF EntryWired
    <2>4. ASSUME NEW c \in Blocks(fn), NEW i, EdgeWired(c, i)
          PROVE  EdgeWired(c, i)'
      <3>1. c # "call"
        BY Verified DEF BuildInv, BuildType, WellFormed
      <3>2. <<c, i>> \in DOMAIN carried \ DOMAIN new
        BY <2>1, <2>4, <3>1 DEF EdgeWired, Entry
      <3> QED
        BY <1>1, <2>2, <2>4, <3>2, EdgeWiredKept
    <2>5. \A c \in Blocks(fn) :
            IsInjective(fn.succs[c]) /\ \A i \in DOMAIN fn.succs[c] : EdgeWired(c, i)'
      BY <1>1, <2>4 DEF Wired
    <2> QED
      BY <1>1, <1>3, <2>3, <2>5 DEF Wired
  <1> QED
    BY <1>1, <1>2, <1>3

\* No step loses a wire.
LEMMA NextWired ==
  ASSUME BuildInv, Wired, [Next]_vars
  PROVE  Wired'
  <1>1. ASSUME NEW b \in Blocks(fn), BuildRequests(b)
        PROVE  Wired'
    BY <1>1 DEF BuildRequests, ReadAll, Wired
  <1>2. CASE RequestPhi \/ RequestOperands \/ RequestOperand \/ RequestOutput \/ AddInput
    <2>1. phase' \in {phase, "aborted"} /\ phase = "requests"
      <3>1. CASE RequestPhi \/ RequestOperands \/ RequestOperand
        BY <3>1 DEF RequestPhi, RequestOperands, RequestOperand, Reading, InCall
      <3>2. CASE RequestOutput
        BY <3>2 DEF RequestOutput, InCall
      <3>3. CASE AddInput
        BY <3>3 DEF AddInput, InCall
      <3> QED
        BY <1>2, <3>1, <3>2, <3>3
    <2> QED
      BY <2>1 DEF Wired
  <1>3. CASE EndRequests
    BY <1>3 DEF EndRequests, Building, Wired
  <1>4. ASSUME NEW args \in Samples, Call(args)
        PROVE  Wired'
    BY <1>4, SameWires DEF Call, compiled
  <1>5. ASSUME NEW e \in Edges(fn), Execute(e) \/ Return(e)
        PROVE  Wired'
    BY <1>5, SameWires DEF Execute, Return, compiled
  <1>6. CASE Finished \/ UNCHANGED vars
    BY <1>6, SameWires DEF Finished, vars, compiled
  <1> QED
    BY <1>1, <1>2, <1>3, <1>4, <1>5, <1>6, ConstructWires, ConnectEntryWires DEF Next, Build

-----------------------------------------------------------------------------
(* Evaluating a block                                                      *)

\* Induction up to a bound.
LEMMA Induction ==
  ASSUME NEW L \in Nat, NEW T, 0 \in T, \A n \in 1..L : n - 1 \in T => n \in T
  PROVE  0..L \subseteq T
  <1> DEFINE Below(n) == {k \in 0..L : k < n}
             R == StrictSubsetOrdering(0..L)
             U == {Below(n) : n \in (0..L) \ T}
  <1> SUFFICES ASSUME NEW z \in (0..L) \ T
               PROVE  FALSE
    OBVIOUS
  <1>1. IsFiniteSet(0..L)
    BY FS_Interval
  <1>2. FiniteSubsetsOf(0..L) = SUBSET (0..L)
    BY <1>1, FS_FiniteSubsetsOfFinite
  <1>3. IsWellFoundedOn(R, SUBSET (0..L))
    BY <1>2, FS_StrictSubsetOrderingWellFounded
  <1>4. U # {} /\ U \subseteq SUBSET (0..L)
    OBVIOUS
  <1>5. \E S \in U : \A V \in U : <<V, S>> \notin R
    <2> HIDE DEF R, U
    <2> QED BY <1>3, <1>4, WFMin
  <1>6. PICK n \in (0..L) \ T : \A m \in (0..L) \ T : <<Below(m), Below(n)>> \notin R
    BY <1>5
  <1>7. n \in 1..L /\ n - 1 \in (0..L) \ T
    BY <1>6
  <1>8. <<Below(n - 1), Below(n)>> \in R
    <2>1. n - 1 \in Below(n) /\ n - 1 \notin Below(n - 1)
      BY <1>7
    <2>2. Below(n - 1) \subseteq Below(n)
      BY <1>7
    <2> HIDE DEF Below
    <2>3. Below(n - 1) # Below(n)
      BY <2>1
    <2>4. Below(n - 1) \in SUBSET (0..L) /\ Below(n) \in SUBSET (0..L)
      BY DEF Below
    <2> QED
      BY <2>2, <2>3, <2>4 DEF StrictSubsetOrdering
  <1> QED
    BY <1>6, <1>7, <1>8

\* What the nth instruction makes of the values before it.
Instruct(f, b, n, before) ==
  LET ins == f.code[b][n]
  IN  IF IsPhi(ins) THEN before
      ELSE [x \in DOMAIN before \cup {ins.id} |->
              IF x = ins.id
              THEN Apply(ins.op, [k \in DOMAIN ins.args |-> before[ins.args[k]]])
              ELSE before[x]]

\* after is what Evaluate computes, up to the mth instruction.
Evaluates(f, b, env, m, after) ==
  after = [n \in 0..m |-> IF n = 0 THEN Over(env, f.consts) ELSE Instruct(f, b, n, after[n - 1])]

\* Evaluate's function exists.
LEMMA EvaluateExists ==
  ASSUME NEW f \in Functions, NEW b \in Blocks(f), NEW env
  PROVE  \E after : Evaluates(f, b, env, Len(f.code[b]), after)
  <1> DEFINE L == Len(f.code[b])
             T == {m \in 0..L : \E after : Evaluates(f, b, env, m, after)}
  <1>1. L \in Nat
    BY Shape
  <1>2. 0 \in T
    <2>1. PICK after : after = [n \in 0..0 |-> Over(env, f.consts)]
      OBVIOUS
    <2>2. Evaluates(f, b, env, 0, after)
      BY <2>1 DEF Evaluates
    <2> QED
      BY <1>1, <2>2
  <1>3. ASSUME NEW m \in 1..L, m - 1 \in T
        PROVE  m \in T
    <2>1. PICK g : Evaluates(f, b, env, m - 1, g)
      BY <1>3
    <2>2. PICK h : h = [n \in 0..m |-> IF n = m THEN Instruct(f, b, m, g[m - 1]) ELSE g[n]]
      OBVIOUS
    <2>3. ASSUME NEW n \in 0..m
          PROVE  h[n] = IF n = 0 THEN Over(env, f.consts) ELSE Instruct(f, b, n, h[n - 1])
      <3>1. CASE n = m
        <4>1. h[n] = Instruct(f, b, m, g[m - 1]) /\ h[n - 1] = g[m - 1]
          BY <1>1, <1>3, <2>2, <3>1
        <4> QED
          BY <1>3, <3>1, <4>1
      <3>2. CASE n # m
        <4>1. n \in 0..(m - 1) /\ (n # 0 => n - 1 \in 0..m /\ n - 1 # m)
          BY <1>3, <3>2
        <4>2. h[n] = g[n] /\ (n # 0 => h[n - 1] = g[n - 1])
          BY <2>2, <3>2, <4>1
        <4>3. g[n] = IF n = 0 THEN Over(env, f.consts) ELSE Instruct(f, b, n, g[n - 1])
          BY <2>1, <4>1 DEF Evaluates
        <4> QED
          BY <4>2, <4>3
      <3> QED
        BY <3>1, <3>2
    <2>4. h = [n \in 0..m |-> h[n]]
      BY <2>2
    <2>5. Evaluates(f, b, env, m, h)
      BY <2>3, <2>4 DEF Evaluates
    <2> QED
      BY <1>1, <1>3, <2>5
  <1> HIDE DEF T, L
  <1>4. L \in T
    BY <1>1, <1>2, <1>3, Induction
  <1> QED
    BY <1>4 DEF T, L

\* Evaluate takes the instructions one after the other.
LEMMA EvaluateIs ==
  ASSUME NEW f \in Functions, NEW b \in Blocks(f), NEW env
  PROVE  \E after : /\ Evaluates(f, b, env, Len(f.code[b]), after)
                    /\ Evaluate(f, b, env) = after[Len(f.code[b])]
  <1>1. PICK a : a = CHOOSE after : Evaluates(f, b, env, Len(f.code[b]), after)
    OBVIOUS
  <1>2. Evaluates(f, b, env, Len(f.code[b]), a)
    BY <1>1, EvaluateExists
  <1>3. Evaluate(f, b, env) = a[Len(f.code[b])]
    BY <1>1 DEF Evaluate, Evaluates, Instruct
  <1> QED
    BY <1>2, <1>3

\* The names that have a value after n instructions of b, when those of V have
\* one before: constants, V, and what the instructions define.
Known(f, b, V, n) ==
  DOMAIN f.consts \cup V
    \cup {f.code[b][m].id : m \in {j \in 1..n : j \in DOMAIN f.code[b] /\ ~IsPhi(f.code[b][j])}}

\* The operands of every instruction have a value before it.
OperandsKnown(f, b, V) ==
  \A n \in DOMAIN f.code[b] :
    ~IsPhi(f.code[b][n]) => Range(f.code[b][n].args) \subseteq Known(f, b, V, n - 1)

\* g and h give the known names the same values, and constants theirs.
Agree(f, K, g, h) ==
  /\ K \subseteq DOMAIN g /\ K \subseteq DOMAIN h
  /\ \A v \in K : g[v] = h[v]
  /\ \A v \in DOMAIN f.consts : v \in DOMAIN h /\ h[v] = f.consts[v]

\* An instruction makes the same of the same values.
LEMMA InstructAgrees ==
  ASSUME NEW f \in Functions, NEW b \in Blocks(f), NEW V, OperandsKnown(f, b, V),
         NEW n \in 1..Len(f.code[b]), NEW g, NEW h, Agree(f, Known(f, b, V, n - 1), g, h)
  PROVE  Agree(f, Known(f, b, V, n), Instruct(f, b, n, g), Instruct(f, b, n, h))
  <1>1. PICK ins : ins = f.code[b][n]
    OBVIOUS
  <1>2. n \in DOMAIN f.code[b] /\ DOMAIN f.code[b] = 1..Len(f.code[b]) /\ Len(f.code[b]) \in Nat
    BY Shape
  <1>3. ins.id \notin DOMAIN f.consts
    BY <1>1, <1>2, NoConstant
  <1>4. CASE IsPhi(ins)
    <2>1. Known(f, b, V, n) = Known(f, b, V, n - 1)
      <3>1. {j \in 1..n : j \in DOMAIN f.code[b] /\ ~IsPhi(f.code[b][j])}
              = {j \in 1..(n - 1) : j \in DOMAIN f.code[b] /\ ~IsPhi(f.code[b][j])}
        BY <1>1, <1>2, <1>4
      <3> QED
        BY <3>1 DEF Known
    <2> QED
      BY <1>1, <1>4, <2>1 DEF Instruct
  <1>5. CASE ~IsPhi(ins)
    <2>1. \A v : v \in Known(f, b, V, n) <=> v \in Known(f, b, V, n - 1) \/ v = ins.id
      BY <1>1, <1>2, <1>5 DEF Known
    <2>2. \A k \in DOMAIN ins.args : ins.args[k] \in Known(f, b, V, n - 1)
      BY <1>1, <1>2, <1>5 DEF OperandsKnown, Range
    <2>3. PICK x : x = [k \in DOMAIN ins.args |-> g[ins.args[k]]]
      OBVIOUS
    <2>4. x = [k \in DOMAIN ins.args |-> h[ins.args[k]]]
      BY <2>2, <2>3 DEF Agree
    <2>5. PICK y : y = Apply(ins.op, x)
      OBVIOUS
    <2>6. Instruct(f, b, n, g) = [v \in DOMAIN g \cup {ins.id} |-> IF v = ins.id THEN y ELSE g[v]]
      BY <1>1, <1>5, <2>3, <2>5 DEF Instruct
    <2>7. Instruct(f, b, n, h) = [v \in DOMAIN h \cup {ins.id} |-> IF v = ins.id THEN y ELSE h[v]]
      BY <1>1, <1>5, <2>4, <2>5 DEF Instruct
    <2> QED
      BY <1>3, <2>1, <2>6, <2>7 DEF Agree
  <1> QED
    BY <1>4, <1>5

\* A block gives the same values when it has the same inputs.
LEMMA EvaluateAgrees ==
  ASSUME NEW f \in Functions, NEW b \in Blocks(f), NEW V, OperandsKnown(f, b, V), NEW g, NEW h,
         DOMAIN g = V, Agree(f, V, g, h)
  PROVE  Agree(f, Known(f, b, V, Len(f.code[b])), Evaluate(f, b, g), Evaluate(f, b, h))
  <1> DEFINE L == Len(f.code[b])
  <1>1. L \in Nat
    BY Shape
  <1>2. PICK x : Evaluates(f, b, g, L, x) /\ Evaluate(f, b, g) = x[L]
    BY EvaluateIs
  <1>3. PICK y : Evaluates(f, b, h, L, y) /\ Evaluate(f, b, h) = y[L]
    BY EvaluateIs
  <1> HIDE DEF L
  <1> DEFINE T == {n \in 0..L : Agree(f, Known(f, b, V, n), x[n], y[n])}
  <1>4. 0 \in T
    <2>1. x[0] = Over(g, f.consts) /\ y[0] = Over(h, f.consts)
      BY <1>1, <1>2, <1>3 DEF Evaluates
    <2>2. \A v : v \in Known(f, b, V, 0) <=> v \in DOMAIN f.consts \cup V
      BY DEF Known
    <2>3. Agree(f, Known(f, b, V, 0), Over(g, f.consts), Over(h, f.consts))
      BY <2>2 DEF Agree, Over
    <2> QED
      BY <1>1, <2>1, <2>3
  <1>5. ASSUME NEW n \in 1..L, n - 1 \in T
        PROVE  n \in T
    <2>1. x[n] = Instruct(f, b, n, x[n - 1]) /\ y[n] = Instruct(f, b, n, y[n - 1])
      BY <1>1, <1>2, <1>3 DEF Evaluates
    <2>2. Agree(f, Known(f, b, V, n), Instruct(f, b, n, x[n - 1]), Instruct(f, b, n, y[n - 1]))
      BY <1>5, InstructAgrees DEF L
    <2> QED
      BY <1>1, <2>1, <2>2
  <1> HIDE DEF T
  <1>6. L \in T
    BY <1>1, <1>4, <1>5, Induction
  <1> QED
    BY <1>2, <1>3, <1>6 DEF T, L

\* The value of a terminator is that of its operation.
LEMMA TerminatorIs ==
  ASSUME NEW f \in Functions, NEW b \in Blocks(f), NEW env
  PROVE  /\ ~IsPhi(Terminator(f, b))
         /\ \E x : Evaluate(f, b, env)[Terminator(f, b).id] = Apply(Terminator(f, b).op, x)
  <1> DEFINE L == Len(f.code[b])
  <1>1. L \in Nat \ {0} /\ L \in DOMAIN f.code[b]
    BY Shape
  <1>2. PICK ins : ins = f.code[b][L]
    OBVIOUS
  <1>3. ~IsPhi(ins)
    <2>1. WellFormedInstruction(f, b, L)
      BY <1>1, Verified DEF WellFormed, WellFormedBlock
    <2> QED
      BY <1>2, <2>1 DEF WellFormedInstruction
  <1>4. PICK a : Evaluates(f, b, env, L, a) /\ Evaluate(f, b, env) = a[L]
    BY EvaluateIs
  <1> HIDE DEF L
  <1>5. PICK before : a[L] = Instruct(f, b, L, before)
    BY <1>1, <1>4 DEF Evaluates
  <1>6. PICK x : x = Apply(ins.op, [k \in DOMAIN ins.args |-> before[ins.args[k]]])
    OBVIOUS
  <1>7. Instruct(f, b, L, before)[ins.id] = x
    BY <1>2, <1>3, <1>6 DEF Instruct
  <1>8. ins = Terminator(f, b)
    BY <1>2 DEF Terminator, L
  <1> QED
    BY <1>3, <1>4, <1>5, <1>6, <1>7, <1>8

-----------------------------------------------------------------------------
(* The network at work                                                     *)

\* A sequence is one of what it holds.
LEMMA ListsItself ==
  ASSUME NEW T, NEW q \in Seq(T)
  PROVE  q \in Seq(Range(q))
  BY DEF Range

\* Append, Head and Tail of a sequence of anything.
LEMMA Listed ==
  ASSUME NEW s, s \in Seq(Range(s)), NEW x
  PROVE  /\ DOMAIN s = 1..Len(s) /\ Len(s) \in Nat
         /\ Append(s, x) \in Seq(Range(Append(s, x))) /\ Len(Append(s, x)) = Len(s) + 1
         /\ \A k \in 1..Len(s) : Append(s, x)[k] = s[k]
         /\ Append(s, x)[Len(s) + 1] = x
         /\ s # << >> => /\ 1 \in 1..Len(s) /\ Head(s) = s[1]
                         /\ Tail(s) \in Seq(Range(Tail(s))) /\ Len(Tail(s)) = Len(s) - 1
                         /\ \A k \in 1..Len(s) - 1 : Tail(s)[k] = s[k + 1]
  <1>2. Append(s, x) \in Seq(Range(Append(s, x)))
    BY ListsItself, RangeAppend
  <1>3. CASE s # << >>
    <2>1. Tail(s) \in Seq(Range(s))
      BY <1>3, RangeTail
    <2>2. Tail(s) \in Seq(Range(Tail(s)))
      BY <2>1, ListsItself
    <2>3. /\ Len(s) \in Nat \ {0} /\ Head(s) = s[1] /\ Len(Tail(s)) = Len(s) - 1
          /\ \A k \in 1..Len(Tail(s)) : Tail(s)[k] = s[k + 1]
      BY <1>3, HeadTailProperties
    <2> QED
      BY <1>2, <2>2, <2>3
  <1> QED
    BY <1>2, <1>3

\* Every name a block uses or gives has a value in it.
LEMMA BlockKnows ==
  ASSUME BuildInv, phase = "run", NEW b \in Blocks(fn)
  PROVE  /\ OperandsKnown(fn, b, InputValues(b))
         /\ Range(outputs[b]) \subseteq Known(fn, b, InputValues(b), Len(fn.code[b]))
         /\ DOMAIN outputs[b] = 1..Len(outputs[b]) /\ 1 \in DOMAIN outputs[b]
         /\ outputs[b][1] = Terminator(fn, b).id
  <1> DEFINE V == InputValues(b)
  <1>1. fn \in Functions /\ DOMAIN fn.code[b] = 1..Len(fn.code[b]) /\ Len(fn.code[b]) \in Nat
    BY Shape DEF BuildInv, BuildType
  <1>2. ASSUME NEW v \in Names(fn), Takeable(b, v) \/ IdOfPhi(fn, b, v)
        PROVE  v \in V
    <2>1. NonPhi(v) \in Range(inputs[b]) \/ Phi(v) \in Range(inputs[b])
      BY <1>2, RequestsOver DEF Takeable
    <2>2. PICK n \in DOMAIN inputs[b] : inputs[b][n] = NonPhi(v) \/ inputs[b][n] = Phi(v)
      BY <2>1 DEF Range
    <2> QED
      BY <2>2 DEF InputValues, NonPhi, Phi
  <1>3. ASSUME NEW n \in DOMAIN fn.code[b], ~IsPhi(fn.code[b][n]), NEW v \in Range(fn.code[b][n].args)
        PROVE  v \in Known(fn, b, V, n - 1)
    <2>1. PICK k \in DOMAIN fn.code[b][n].args : v = fn.code[b][n].args[k]
      BY DEF Range
    <2>2. v \in Names(fn)
      BY <1>1, <2>1, InstructionType
    <2>3. CASE IsConstant(fn, v)
      BY <2>3 DEF IsConstant, Known
    <2>4. CASE Through(fn, b, v)
      <3>1. Takeable(b, v)
        BY <1>3, <2>1, <2>4, RequestsOver
      <3> QED
        BY <1>2, <2>2, <3>1 DEF Known
    <2>5. CASE IsLocal(fn, b, v)
      <3>1. PICK m \in DOMAIN fn.code[b] : fn.code[b][m].id = v
        BY <2>5 DEF IsLocal
      <3>2. WellFormedInstruction(fn, b, n)
        BY <1>1, Verified DEF WellFormed, WellFormedBlock
      <3>3. m < n \/ IsPhi(fn.code[b][m])
        BY <1>3, <3>1, <3>2 DEF WellFormedInstruction
      <3>4. CASE IsPhi(fn.code[b][m])
        BY <1>2, <2>2, <3>1, <3>4 DEF IdOfPhi, Known
      <3>5. CASE ~IsPhi(fn.code[b][m])
        <4>1. m \in 1..(n - 1)
          BY <1>1, <3>3, <3>5
        <4> QED
          BY <3>1, <3>5, <4>1 DEF Known
      <3> QED
        BY <3>4, <3>5
    <2> QED
      BY <2>3, <2>4, <2>5 DEF Through
  <1>4. ASSUME NEW v \in Range(outputs[b])
        PROVE  v \in Known(fn, b, V, Len(fn.code[b]))
    <2>1. v \in Names(fn) /\ Offered(b, v)
      BY DEF BuildInv, BuildType, Offered, Range
    <2>2. CASE IsConstant(fn, v)
      BY <2>2 DEF IsConstant, Known
    <2>3. CASE Through(fn, b, v)
      BY <1>2, <2>1, <2>3, RequestsOver DEF Known
    <2>4. CASE IsLocal(fn, b, v)
      <3>1. PICK m \in DOMAIN fn.code[b] : fn.code[b][m].id = v
        BY <2>4 DEF IsLocal
      <3>2. CASE IsPhi(fn.code[b][m])
        BY <1>2, <2>1, <3>1, <3>2 DEF IdOfPhi, Known
      <3>3. CASE ~IsPhi(fn.code[b][m])
        BY <1>1, <3>1, <3>3 DEF Known
      <3> QED
        BY <3>2, <3>3
    <2> QED
      BY <2>2, <2>3, <2>4 DEF Through
  <1>5. outputs[b] \in Seq(Names(fn)) /\ outputs[b] # << >> /\ outputs[b][1] = Terminator(fn, b).id
    BY DEF BuildInv, BuildType, Requested, TerminatorFirst
  <1>6. DOMAIN outputs[b] = 1..Len(outputs[b]) /\ 1 \in DOMAIN outputs[b]
    BY <1>5, EmptySeq
  <1> QED
    BY <1>3, <1>4, <1>5, <1>6 DEF OperandsKnown

\* An edge leads to a block.
LEMMA TargetIs ==
  ASSUME NEW f \in Functions, NEW e \in Edges(f)
  PROVE  Target(f, e) \in Blocks(f)
  <1>1. f.entry \in Blocks(f)
    BY Verified DEF WellFormed
  <1>2. CASE e # Entry
    <2>1. e[1] \in Blocks(f) /\ e[2] \in DOMAIN f.succs[e[1]]
      BY <1>2 DEF Edges
    <2> QED
      BY <1>2, <2>1, Shape DEF Target
  <1> QED
    BY <1>1, <1>2 DEF Target

\* A block that takes a token gives the values LLVM gives.
LEMMA BlockFollows ==
  ASSUME BuildInv, RunInv, phase = "run", NEW b \in Blocks(fn), NEW token, InCallOf(token, b),
         NEW env, env = Evaluate(fn, b, Env(token.call)), NEW out, out = BlockOutput(b, token.record)
  PROVE  /\ DOMAIN out = DOMAIN outputs[b]
         /\ \A n \in DOMAIN outputs[b] : outputs[b][n] \in DOMAIN env /\ out[n] = env[outputs[b][n]]
         /\ \A v \in DOMAIN fn.consts : v \in DOMAIN env /\ env[v] = fn.consts[v]
         /\ out[1] = env[Terminator(fn, b).id]
  <1> DEFINE V == InputValues(b)
  <1>1. PICK named : named = [v \in V |-> token.record[CHOOSE n \in DOMAIN inputs[b] : inputs[b][n].value = v]]
    OBVIOUS
  <1>2. PICK before : before = Env(token.call)
    OBVIOUS
  <1>3. /\ V \subseteq DOMAIN before
        /\ \A n \in DOMAIN inputs[b] : token.record[n] = before[inputs[b][n].value]
        /\ \A v \in DOMAIN fn.consts : v \in DOMAIN before /\ before[v] = fn.consts[v]
    BY <1>2 DEF InCallOf, RunInv, ConstantsKept
  <1>4. \A v \in V : named[v] = before[v]
    <2> SUFFICES ASSUME NEW v \in V
                 PROVE  named[v] = before[v]
      OBVIOUS
    <2>1. \E n \in DOMAIN inputs[b] : inputs[b][n].value = v
      BY DEF InputValues
    <2>2. PICK m : m = CHOOSE n \in DOMAIN inputs[b] : inputs[b][n].value = v
      OBVIOUS
    <2>3. m \in DOMAIN inputs[b] /\ inputs[b][m].value = v
      BY <2>1, <2>2
    <2>4. named[v] = token.record[m]
      BY <1>1, <2>2
    <2> QED
      BY <1>3, <2>3, <2>4
  <1>5. fn \in Functions /\ DOMAIN named = V
    BY <1>1 DEF BuildInv, BuildType
  <1> HIDE DEF V
  <1>6. Agree(fn, V, named, before)
    BY <1>3, <1>4, <1>5 DEF Agree
  <1>7. OperandsKnown(fn, b, V) /\ Range(outputs[b]) \subseteq Known(fn, b, V, Len(fn.code[b]))
    BY BlockKnows DEF V
  <1>8. Agree(fn, Known(fn, b, V, Len(fn.code[b])), Evaluate(fn, b, named), Evaluate(fn, b, before))
    BY <1>5, <1>6, <1>7, EvaluateAgrees
  <1>9. PICK values : values = Evaluate(fn, b, named)
    OBVIOUS
  <1>10. out = [n \in DOMAIN outputs[b] |-> values[outputs[b][n]]]
    BY <1>1, <1>9 DEF BlockOutput, V, InputValues
  <1>11. \A n \in DOMAIN outputs[b] : outputs[b][n] \in Known(fn, b, V, Len(fn.code[b]))
    BY <1>7 DEF Range
  <1>12. /\ \A v \in Known(fn, b, V, Len(fn.code[b])) : v \in DOMAIN env /\ values[v] = env[v]
         /\ \A v \in DOMAIN fn.consts : v \in DOMAIN env /\ env[v] = fn.consts[v]
    BY <1>2, <1>8, <1>9 DEF Agree
  <1> QED
    BY <1>10, <1>11, <1>12, BlockKnows

\* The Router takes the way that LLVM takes.
LEMMA RouteIs ==
  ASSUME fn \in Functions, NEW b \in Blocks(fn), ~Returns(fn, b), NEW before,
         NEW env, env = Evaluate(fn, b, before), NEW out, out[1] = env[Terminator(fn, b).id]
  PROVE  /\ Routed(b, out) = Branch(fn, b, env)
         /\ Branch(fn, b, env) \in DOMAIN fn.succs[b]
         /\ <<b, Branch(fn, b, env)>> \in Edges(fn)
         /\ Target(fn, <<b, Branch(fn, b, env)>>) = fn.succs[b][Branch(fn, b, env)]
  <1>1. /\ DOMAIN fn.succs[b] = 1..Len(fn.succs[b])
        /\ Len(fn.succs[b]) = 1 \/ (Len(fn.succs[b]) = 2 /\ Terminator(fn, b).op = "cond")
    <2>1. WellFormedBlock(fn, b)
      BY Verified DEF WellFormed
    <2> QED
      BY <2>1, Shape DEF WellFormedBlock
  <1>2. Branch(fn, b, env) \in DOMAIN fn.succs[b] /\ Branch(fn, b, env) \in 1..2
    <2>1. CASE Len(fn.succs[b]) = 1
      BY <1>1, <2>1 DEF Branch
    <2>2. CASE Len(fn.succs[b]) = 2
      <3>1. Branch(fn, b, env) \in {1, 2}
        BY DEF Branch
      <3> QED
        BY <1>1, <2>2, <3>1
    <2> QED
      BY <1>1, <2>1, <2>2
  <1>3. b # "call"
    BY Verified DEF WellFormed
  <1>4. Routed(b, out) = Branch(fn, b, env)
    <2>1. CASE Len(fn.succs[b]) = 1
      BY <2>1 DEF Routed, Branch
    <2>2. CASE Len(fn.succs[b]) = 2 /\ Terminator(fn, b).op = "cond"
      <3>1. PICK x : env[Terminator(fn, b).id] = Apply("cond", x)
        BY <2>2, TerminatorIs
      <3>2. Apply("cond", x) \in {0, 1}
        BY DEF Apply
      <3>3. PICK i : i = CHOOSE k \in DOMAIN fn.succs[b] : (IF k = 1 THEN 1 ELSE 0) = out[1]
        OBVIOUS
      <3>4. Routed(b, out) = i
        BY <2>2, <3>3 DEF Routed
      <3>5. i = IF out[1] = 1 THEN 1 ELSE 2
        BY <1>1, <2>2, <3>1, <3>2, <3>3
      <3> QED
        BY <2>2, <3>4, <3>5 DEF Branch
    <2> QED
      BY <1>1, <2>1, <2>2
  <1> QED
    BY <1>2, <1>3, <1>4 DEF Edges, Target, Entry

\* The record has the inputs of s as LLVM has them after the branch.
Follows(s, record, after) ==
  /\ InputValues(s) \subseteq DOMAIN after
  /\ DOMAIN record = DOMAIN inputs[s]
  /\ \A n \in DOMAIN inputs[s] : record[n] = after[inputs[s][n].value]
  /\ \A v \in DOMAIN fn.consts : v \in DOMAIN after /\ after[v] = fn.consts[v]

\* What a block sends on an edge is what LLVM has at the start of the successor.
LEMMA EdgeFollows ==
  ASSUME BuildInv, Wired, phase = "run", NEW b \in Blocks(fn), NEW i \in DOMAIN fn.succs[b],
         NEW s, s = fn.succs[b][i],
         NEW env, NEW out, DOMAIN out = DOMAIN outputs[b],
         \A n \in DOMAIN outputs[b] : outputs[b][n] \in DOMAIN env /\ out[n] = env[outputs[b][n]],
         \A v \in DOMAIN fn.consts : v \in DOMAIN env /\ env[v] = fn.consts[v],
         NEW record, record = Twiddled(out, <<b, i>>), NEW after, after = Enter(fn, s, b, env)
  PROVE  Follows(s, record, after)
  <1>1. fn \in Functions /\ s \in Blocks(fn) /\ b \in Predecessors(fn, s)
    BY EdgeOffered DEF BuildInv, BuildType
  <1>2. /\ DOMAIN carried[<<b, i>>] = DOMAIN inputs[s]
        /\ \A n \in DOMAIN inputs[s] : carried[<<b, i>>][n] = IndexOf(outputs[b], Expected(s, n, b))
    BY DEF Wired, EdgeWired
  <1>3. \A n \in DOMAIN inputs[s] : /\ Expected(s, n, b) \in DOMAIN env
                                    /\ record[n] = env[Expected(s, n, b)]
    <2> SUFFICES ASSUME NEW n \in DOMAIN inputs[s]
                 PROVE  Expected(s, n, b) \in DOMAIN env /\ record[n] = env[Expected(s, n, b)]
      OBVIOUS
    <2>1. PICK x : x = Expected(s, n, b)
      OBVIOUS
    <2>2. \E k \in DOMAIN outputs[b] : outputs[b][k] = x
      BY <1>1, <2>1, ExpectedOffered DEF Offered, Range
    <2>3. IndexOf(outputs[b], x) \in DOMAIN outputs[b] /\ outputs[b][IndexOf(outputs[b], x)] = x
      BY <2>2 DEF IndexOf
    <2>4. record[n] = out[IndexOf(outputs[b], x)]
      BY <1>2, <2>1 DEF Twiddled
    <2> QED
      BY <2>1, <2>3, <2>4
  <1>4. DOMAIN record = DOMAIN inputs[s]
    BY <1>2 DEF Twiddled
  <1>5. PICK phis : phis = [id \in {v \in Names(fn) : IdOfPhi(fn, s, v)} |-> env[Incoming(fn, s, id, b)]]
    OBVIOUS
  <1>6. /\ DOMAIN after = {v \in Names(fn) : IdOfPhi(fn, s, v)} \cup DOMAIN env
        /\ \A v \in Names(fn) : IdOfPhi(fn, s, v) => after[v] = env[Incoming(fn, s, v, b)]
        /\ \A v \in DOMAIN env : ~(v \in Names(fn) /\ IdOfPhi(fn, s, v)) => after[v] = env[v]
    <2>1. after = Over(phis, env)
      BY <1>5 DEF Enter
    <2>2. /\ DOMAIN phis = {v \in Names(fn) : IdOfPhi(fn, s, v)}
          /\ \A v \in DOMAIN phis : phis[v] = env[Incoming(fn, s, v, b)]
      BY <1>5
    <2>3. /\ DOMAIN after = DOMAIN phis \cup DOMAIN env
          /\ \A v \in DOMAIN phis : after[v] = phis[v]
          /\ \A v \in DOMAIN env \ DOMAIN phis : after[v] = env[v]
      BY <2>1 DEF Over
    <2> QED
      BY <2>2, <2>3
  <1>7. ASSUME NEW n \in DOMAIN inputs[s]
        PROVE  inputs[s][n].value \in DOMAIN after /\ record[n] = after[inputs[s][n].value]
    <2>1. PICK x : x = inputs[s][n]
      OBVIOUS
    <2>2. x \in Range(inputs[s])
      BY <2>1 DEF Range
    <2>3. x.value \in Names(fn) /\ x = (IF x.phi THEN Phi(x.value) ELSE NonPhi(x.value))
      BY <1>1, <2>2, InputIs
    <2>4. CASE x.phi
      <3>1. IdOfPhi(fn, s, x.value)
        BY <1>1, <2>2, <2>3, <2>4, RequestsOver
      <3>2. Expected(s, n, b) = Incoming(fn, s, x.value, b)
        BY <2>1, <2>4 DEF Expected
      <3>3. after[x.value] = env[Incoming(fn, s, x.value, b)] /\ x.value \in DOMAIN after
        BY <1>6, <2>3, <3>1
      <3>4. record[n] = env[Expected(s, n, b)]
        BY <1>3
      <3> QED
        BY <2>1, <3>2, <3>3, <3>4
    <2>5. CASE ~x.phi
      <3>1. Expected(s, n, b) = x.value
        BY <2>1, <2>5 DEF Expected
      <3>2. x.value \in LiveIn(fn, s)
        BY <1>1, <2>2, <2>3, <2>5, RequestsOver DEF Takeable
      <3>3. ~IdOfPhi(fn, s, x.value)
        BY <1>1, <3>2, LiveThrough DEF Through, IsLocal, IdOfPhi
      <3>4. x.value \in DOMAIN env /\ record[n] = env[x.value]
        BY <1>3, <3>1
      <3>5. x.value \in DOMAIN after /\ after[x.value] = env[x.value]
        BY <1>6, <3>3, <3>4
      <3> QED
        BY <2>1, <3>4, <3>5
    <2> QED
      BY <2>4, <2>5
  <1>8. ASSUME NEW v \in DOMAIN fn.consts
        PROVE  v \in DOMAIN after /\ after[v] = fn.consts[v]
    <2>1. ~IdOfPhi(fn, s, v)
      <3>1. \A n \in DOMAIN fn.code[s] : fn.code[s][n].id # v
        BY <1>1, NoConstant
      <3> QED
        BY <3>1, Zenon DEF IdOfPhi
    <2>2. v \in DOMAIN env /\ env[v] = fn.consts[v]
      OBVIOUS
    <2> QED
      BY <1>6, <2>1, <2>2
  <1>9. InputValues(s) \subseteq DOMAIN after
    BY <1>7 DEF InputValues
  <1>10. \A n \in DOMAIN inputs[s] : record[n] = after[inputs[s][n].value]
    BY <1>7, Zenon
  <1>11. \A v \in DOMAIN fn.consts : v \in DOMAIN after /\ after[v] = fn.consts[v]
    BY <1>8, Zenon
  <1> QED
    BY <1>4, <1>9, <1>10, <1>11, Zenon DEF Follows

\* The call c, whose token is the first of e, goes on to x; the other calls,
\* their tokens and the answers stay.
Advances(e, c, x) ==
  /\ 1 \in 1..Len(queue[e]) /\ InCallOf(Head(queue[e]), Target(fn, e))
  /\ c \in 1..Len(llvm) /\ Len(llvm') = Len(llvm) /\ llvm' \in Seq(Range(llvm')) /\ llvm'[c] = x
  /\ \A a \in 1..Len(llvm) : a # c => llvm'[a] = llvm[a]
  /\ \A t, b : InCallOf(t, b) /\ t.call # c => InCallOf(t, b)'
  /\ \A d \in Edges(fn) : \A k \in 1..Len(queue[d]) : (d = e /\ k = 1) \/ queue[d][k].call # c
  /\ \A j \in 1..Len(answers) : answers[j][1] # c

\* Executing a block for a call leaves the other calls alone.
LEMMA CallAdvances ==
  ASSUME RunInv, fn \in Functions, NEW e \in Edges(fn), queue[e] # << >>, NEW c, c = Head(queue[e]).call, NEW x,
         llvm' = [llvm EXCEPT ![c] = x], fn' = fn, inputs' = inputs
  PROVE  Advances(e, c, x)
  <1>1. queue[e] \in Seq(Range(queue[e]))
    BY DEF RunInv, RunType
  <1>2. 1 \in 1..Len(queue[e]) /\ Head(queue[e]) = queue[e][1]
    BY <1>1, Listed
  <1>3. InCallOf(Head(queue[e]), Target(fn, e))
    BY <1>2 DEF RunInv, TokensFollow
  <1>4. c \in 1..Len(llvm)
    BY <1>3 DEF InCallOf
  <1>5. /\ Len(llvm') = Len(llvm) /\ llvm'[c] = x
        /\ \A a \in 1..Len(llvm) : a # c => llvm'[a] = llvm[a]
        /\ DOMAIN llvm' = 1..Len(llvm)
    BY <1>4 DEF RunInv, RunType
  <1>6. llvm' \in Seq(Range(llvm'))
    <2>1. PICK T : T = Range(llvm) \cup {x}
      OBVIOUS
    <2>2. llvm \in Seq(T) /\ x \in T
      BY <2>1 DEF RunInv, RunType
    <2>3. llvm' \in Seq(T)
      BY <1>4, <2>2
    <2> QED
      BY <2>3, ListsItself
  <1>7. \A t, b : InCallOf(t, b) /\ t.call # c => InCallOf(t, b)'
    <2> SUFFICES ASSUME NEW t, NEW b, InCallOf(t, b), t.call # c
                 PROVE  InCallOf(t, b)'
      OBVIOUS
    <2>1. t.call \in 1..Len(llvm) /\ llvm'[t.call] = llvm[t.call]
      BY <1>5 DEF InCallOf
    <2>2. InputValues(b)' = InputValues(b) /\ Env(t.call)' = Env(t.call)
      BY <2>1 DEF InputValues, Env
    <2> QED
      BY <1>5, <2>1, <2>2 DEF InCallOf
  <1>8. /\ \A d \in Edges(fn) : \A k \in 1..Len(queue[d]) : (d = e /\ k = 1) \/ queue[d][k].call # c
        /\ \A j \in 1..Len(answers) : answers[j][1] # c
    BY <1>2 DEF RunInv, OneToken
  <1> QED
    BY <1>2, <1>3, <1>4, <1>5, <1>6, <1>7, <1>8 DEF Advances

\* Where the jth token of d was before that of e was taken.
Before(d, e, j) == IF d = e THEN j + 1 ELSE j

\* The token d holds is one it held before.
Stays(d, j, e) ==
  /\ Before(d, e, j) \in 1..Len(queue[d]) /\ ~(d = e /\ Before(d, e, j) = 1)
  /\ queue'[d][j] = queue[d][Before(d, e, j)]

\* Every token stays, but that of c, which is the last of to.
TokensMove(e, c, to) ==
  \A d \in Edges(fn) : \A j \in 1..Len(queue'[d]) :
    \/ /\ d = to /\ j = Len(queue'[d]) /\ queue'[d][j].call = c
       /\ InCallOf(queue[d][j], Target(fn, d))'
    \/ Stays(d, j, e)

\* An answer is one that was there, or that of c, which is at x and on no edge.
AnswersCome(c, x, to) ==
  \A j \in 1..Len(answers') :
    \/ j \in 1..Len(answers) /\ answers'[j] = answers[j]
    \/ /\ answers'[j][1] = c /\ answers'[j][2] = x.env[Terminator(fn, x.at).id]
       /\ to \notin Edges(fn)

HasConstants(x) == \A v \in DOMAIN fn.consts : v \in DOMAIN x.env /\ x.env[v] = fn.consts[v]

\* A call goes on: its token leaves e, for to unless the call is answered.
LEMMA CallKeeps ==
  ASSUME BuildInv, RunInv, phase = "run", fn' = fn, phase' = phase, inputs' = inputs,
         NEW e \in Edges(fn), queue[e] # << >>, NEW c, c = Head(queue[e]).call,
         NEW x, llvm' = [llvm EXCEPT ![c] = x],
         HasConstants(x), RunType',
         NEW to, answers' = answers \/ to \notin Edges(fn), TokensMove(e, c, to), AnswersCome(c, x, to)
  PROVE  RunInv'
  <1>1. fn \in Functions
    BY DEF BuildInv, BuildType
  <1>a. Advances(e, c, x)
    BY <1>1, CallAdvances
  <1>2. /\ c \in 1..Len(llvm) /\ Len(llvm') = Len(llvm) /\ llvm'[c] = x
        /\ \A a \in 1..Len(llvm) : a # c => llvm'[a] = llvm[a]
        /\ \A t, b : InCallOf(t, b) /\ t.call # c => InCallOf(t, b)'
        /\ \A d \in Edges(fn) : \A k \in 1..Len(queue[d]) : (d = e /\ k = 1) \/ queue[d][k].call # c
        /\ \A j \in 1..Len(answers) : answers[j][1] # c
    BY <1>a DEF Advances
  <1>3. ASSUME NEW d \in Edges(fn), NEW j, Stays(d, j, e)
        PROVE  InCallOf(queue[d][j], Target(fn, d))' /\ queue'[d][j].call # c
    <2>1. PICK k : k = Before(d, e, j)
      OBVIOUS
    <2>2. k \in 1..Len(queue[d]) /\ ~(d = e /\ k = 1) /\ queue'[d][j] = queue[d][k]
      BY <1>3, <2>1 DEF Stays
    <2>3. InCallOf(queue[d][k], Target(fn, d)) /\ queue[d][k].call # c
      BY <1>2, <2>2 DEF RunInv, TokensFollow
    <2>4. PICK t : t = queue[d][k]
      OBVIOUS
    <2>5. PICK b : b = Target(fn, d)
      OBVIOUS
    <2>6. InCallOf(t, b)'
      BY <1>2, <2>3, <2>4, <2>5
    <2>7. t = queue'[d][j] /\ b = Target(fn', d)
      BY <2>2, <2>4, <2>5
    <2> QED
      BY <2>3, <2>4, <2>6, <2>7
  <1>b. \A d \in Edges(fn) : \A j \in 1..Len(queue'[d]) :
          \/ /\ d = to /\ j = Len(queue'[d]) /\ queue'[d][j].call = c
             /\ InCallOf(queue[d][j], Target(fn, d))'
          \/ Stays(d, j, e)
    BY DEF TokensMove
  <1>4. TokensFollow'
    BY <1>3, <1>b DEF TokensFollow
  <1>5. ConstantsKept'
    <2> SUFFICES ASSUME NEW a \in 1..Len(llvm), NEW v \in DOMAIN fn.consts
                 PROVE  v \in DOMAIN Env(a)' /\ Env(a)'[v] = fn.consts[v]
      BY <1>2 DEF ConstantsKept
    <2>1. CASE a = c
      BY <1>2, <2>1 DEF Env, HasConstants
    <2>2. CASE a # c
      BY <1>2, <2>2 DEF Env, RunInv, ConstantsKept
    <2> QED
      BY <2>1, <2>2
  <1>6. OneToken'
    <2>1. \A d \in Edges(fn) : \A j \in 1..Len(queue'[d]) :
            \/ d = to /\ j = Len(queue'[d]) /\ queue'[d][j].call = c
            \/ Stays(d, j, e) /\ queue'[d][j].call # c
      BY <1>3, <1>b
    <2>2. \A f, d \in Edges(fn) : \A i \in 1..Len(queue'[f]) : \A j \in 1..Len(queue'[d]) :
            queue'[d][j].call = queue'[f][i].call => d = f /\ j = i
      <3> SUFFICES ASSUME NEW f \in Edges(fn), NEW d \in Edges(fn),
                          NEW i \in 1..Len(queue'[f]), NEW j \in 1..Len(queue'[d]),
                          queue'[d][j].call = queue'[f][i].call
                   PROVE  d = f /\ j = i
        OBVIOUS
      <3>1. CASE queue'[d][j].call = c
        BY <2>1, <3>1
      <3>2. CASE queue'[d][j].call # c
        <4>1. Stays(d, j, e) /\ Stays(f, i, e)
          BY <2>1, <3>2
        <4>2. PICK k : k = Before(d, e, j)
          OBVIOUS
        <4>3. PICK l : l = Before(f, e, i)
          OBVIOUS
        <4>4. /\ k \in 1..Len(queue[d]) /\ l \in 1..Len(queue[f])
              /\ queue[d][k].call = queue[f][l].call
          BY <4>1, <4>2, <4>3 DEF Stays
        <4>5. d = f /\ k = l
          BY <4>4 DEF RunInv, OneToken
        <4>6. Len(queue'[d]) \in Nat /\ Len(queue'[f]) \in Nat
          BY DEF RunType
        <4> QED
          BY <4>2, <4>3, <4>5, <4>6 DEF Before
      <3> QED
        BY <3>1, <3>2
    <2>3. \A d \in Edges(fn) : \A i \in 1..Len(queue'[d]) : \A j \in 1..Len(answers') :
            answers'[j][1] # queue'[d][i].call
      <3> SUFFICES ASSUME NEW d \in Edges(fn), NEW i \in 1..Len(queue'[d]), NEW j \in 1..Len(answers')
                   PROVE  answers'[j][1] # queue'[d][i].call
        OBVIOUS
      <3>1. CASE Stays(d, i, e) /\ queue'[d][i].call # c
        <4>1. PICK k : k \in 1..Len(queue[d]) /\ queue'[d][i] = queue[d][k]
          BY <3>1 DEF Stays
        <4>2. \A m \in 1..Len(answers) : answers[m][1] # queue[d][k].call
          BY <4>1 DEF RunInv, OneToken
        <4> QED
          BY <3>1, <4>1, <4>2 DEF AnswersCome
      <3>2. CASE d = to /\ queue'[d][i].call = c
        BY <1>2, <3>2
      <3> QED
        BY <2>1, <3>1, <3>2
    <2> QED
      BY <2>2, <2>3 DEF OneToken
  <1>7. AnswersFollow'
    <2> SUFFICES ASSUME NEW j \in 1..Len(answers')
                 PROVE  /\ answers'[j][1] \in 1..Len(llvm)
                        /\ answers'[j][2] = llvm'[answers'[j][1]].env[Terminator(fn, llvm'[answers'[j][1]].at).id]
      BY <1>2 DEF AnswersFollow, Env
    <2>1. CASE j \in 1..Len(answers) /\ answers'[j] = answers[j]
      <3>1. /\ answers[j][1] \in 1..Len(llvm) /\ answers[j][1] # c
            /\ answers[j][2] = llvm[answers[j][1]].env[Terminator(fn, llvm[answers[j][1]].at).id]
        BY <1>2, <2>1 DEF RunInv, AnswersFollow, Env
      <3> QED
        BY <1>2, <2>1, <3>1
    <2>2. CASE answers'[j][1] = c /\ answers'[j][2] = x.env[Terminator(fn, x.at).id]
      BY <1>2, <2>2
    <2> QED
      BY <2>1, <2>2 DEF AnswersCome
  <1> QED
    BY <1>4, <1>5, <1>6, <1>7 DEF RunInv, Idle

Queues(q) == q \in [Edges(fn) -> Range(q)] /\ \A e \in Edges(fn) : q[e] \in Seq(Range(q[e]))

\* q has the tokens of the network but the first of e.
Rest(e, q) ==
  /\ Queues(q)
  /\ \A d \in Edges(fn) : \A j \in 1..Len(q[d]) :
       /\ Before(d, e, j) \in 1..Len(queue[d]) /\ ~(d = e /\ Before(d, e, j) = 1)
       /\ q[d][j] = queue[d][Before(d, e, j)]

\* The Select of a block takes the first token of an edge.
LEMMA Taken ==
  ASSUME Queues(queue), NEW e \in Edges(fn), queue[e] # << >>, NEW q, q = [queue EXCEPT ![e] = Tail(@)]
  PROVE  Rest(e, q)
  <1>1. \A d \in Edges(fn) : q[d] = IF d = e THEN Tail(queue[e]) ELSE queue[d]
    BY DEF Queues
  <1>2. queue[e] \in Seq(Range(queue[e]))
    BY DEF Queues
  <1>3. /\ Len(queue[e]) \in Nat /\ Tail(queue[e]) \in Seq(Range(Tail(queue[e])))
        /\ Len(Tail(queue[e])) = Len(queue[e]) - 1
        /\ \A k \in 1..Len(queue[e]) - 1 : Tail(queue[e])[k] = queue[e][k + 1]
    BY <1>2, Listed
  <1>t. PICK t : t = Tail(queue[e])
    OBVIOUS
  <1>4. PICK T : q \in [Edges(fn) -> T]
    <2>1. q \in [Edges(fn) -> Range(queue) \cup {t}]
      BY <1>t DEF Queues
    <2> QED
      BY <2>1
  <1>5. Queues(q)
    <2>1. q \in [Edges(fn) -> Range(q)]
      BY <1>4 DEF Range
    <2>2. \A d \in Edges(fn) : q[d] = t \/ q[d] = queue[d]
      BY <1>1, <1>t
    <2>3. t \in Seq(Range(t))
      BY <1>3, <1>t
    <2> QED
      BY <2>1, <2>2, <2>3 DEF Queues
  <1>6. ASSUME NEW d \in Edges(fn), NEW j \in 1..Len(q[d])
        PROVE  /\ Before(d, e, j) \in 1..Len(queue[d]) /\ ~(d = e /\ Before(d, e, j) = 1)
               /\ q[d][j] = queue[d][Before(d, e, j)]
    <2>1. CASE d = e
      <3>1. q[d] = t /\ j \in 1..Len(queue[e]) - 1
        BY <1>1, <1>3, <1>t, <2>1
      <3>2. j + 1 \in 1..Len(queue[e]) /\ j + 1 # 1 /\ t[j] = queue[e][j + 1]
        BY <1>3, <1>t, <3>1
      <3> QED
        BY <2>1, <3>1, <3>2 DEF Before
    <2>2. CASE d # e
      BY <1>1, <2>2 DEF Before
    <2> QED
      BY <2>1, <2>2
  <1> QED
    BY <1>5, <1>6 DEF Rest

\* A token is put on an edge.
With(q, to, token, r) ==
  /\ Queues(r)
  /\ \A d \in Edges(fn) : \A j \in 1..Len(r[d]) :
       \/ d = to /\ j = Len(r[d]) /\ r[d][j] = token
       \/ j \in 1..Len(q[d]) /\ r[d][j] = q[d][j]

\* A token goes to the end of an edge.
LEMMA Put ==
  ASSUME NEW q, Queues(q), NEW to \in Edges(fn), NEW token, NEW r, r = [q EXCEPT ![to] = Append(@, token)]
  PROVE  With(q, to, token, r)
  <1>1. \A d \in Edges(fn) : r[d] = IF d = to THEN Append(q[to], token) ELSE q[d]
    BY DEF Queues
  <1>2. q[to] \in Seq(Range(q[to]))
    BY DEF Queues
  <1>3. /\ Len(q[to]) \in Nat /\ Append(q[to], token) \in Seq(Range(Append(q[to], token)))
        /\ Len(Append(q[to], token)) = Len(q[to]) + 1
        /\ \A k \in 1..Len(q[to]) : Append(q[to], token)[k] = q[to][k]
        /\ Append(q[to], token)[Len(q[to]) + 1] = token
    BY <1>2, Listed
  <1>t. PICK t : t = Append(q[to], token)
    OBVIOUS
  <1>4. PICK T : r \in [Edges(fn) -> T]
    <2>1. r \in [Edges(fn) -> Range(q) \cup {t}]
      BY <1>t DEF Queues
    <2> QED
      BY <2>1
  <1>5. Queues(r)
    <2>1. r \in [Edges(fn) -> Range(r)]
      BY <1>4 DEF Range
    <2>2. \A d \in Edges(fn) : r[d] = t \/ r[d] = q[d]
      BY <1>1, <1>t
    <2>3. t \in Seq(Range(t))
      BY <1>3, <1>t
    <2> QED
      BY <2>1, <2>2, <2>3 DEF Queues
  <1>6. ASSUME NEW d \in Edges(fn), NEW j \in 1..Len(r[d])
        PROVE  \/ d = to /\ j = Len(r[d]) /\ r[d][j] = token
               \/ j \in 1..Len(q[d]) /\ r[d][j] = q[d][j]
    <2>1. CASE d = to
      BY <1>1, <1>3, <2>1
    <2>2. CASE d # to
      BY <1>1, <2>2
    <2> QED
      BY <2>1, <2>2
  <1> QED
    BY <1>5, <1>6 DEF With

\* A block that branches sends LLVM's values where LLVM goes.
LEMMA ExecuteRuns ==
  ASSUME BuildInv, Wired, RunInv, NEW e \in Edges(fn), Execute(e)
  PROVE  RunInv'
  <1>1. PICK token : token = Head(queue[e])
    OBVIOUS
  <1>2. PICK b : b = Target(fn, e)
    OBVIOUS
  <1>3. PICK out : out = BlockOutput(b, token.record)
    OBVIOUS
  <1>4. PICK env : env = Evaluate(fn, b, Env(token.call))
    OBVIOUS
  <1>5. PICK i : i = Branch(fn, b, env)
    OBVIOUS
  <1>6. PICK record : record = Twiddled(out, <<b, i>>)
    OBVIOUS
  <1>7. PICK s : s = fn.succs[b][i]
    OBVIOUS
  <1>8. PICK after : after = Enter(fn, s, b, env)
    OBVIOUS
  <1>9. PICK c : c = token.call
    OBVIOUS
  <1>10. PICK q : q = [queue EXCEPT ![e] = Tail(@)]
    OBVIOUS
  <1>11. /\ phase = "run" /\ queue[e] # << >> /\ ~Returns(fn, b)
         /\ fn' = fn /\ phase' = phase /\ inputs' = inputs /\ answers' = answers
    BY <1>2 DEF Execute, compiled
  <1>12. fn \in Functions /\ b \in Blocks(fn)
    BY <1>2, TargetIs DEF BuildInv, BuildType
  <1>13. InCallOf(token, b)
    <2>1. queue[e] \in Seq(Range(queue[e]))
      BY DEF RunInv, RunType
    <2>2. 1 \in 1..Len(queue[e]) /\ Head(queue[e]) = queue[e][1]
      BY <1>11, <2>1, Listed
    <2> QED
      BY <1>1, <1>2, <2>2 DEF RunInv, TokensFollow
  <1>14. /\ DOMAIN out = DOMAIN outputs[b]
         /\ \A n \in DOMAIN outputs[b] : outputs[b][n] \in DOMAIN env /\ out[n] = env[outputs[b][n]]
         /\ \A v \in DOMAIN fn.consts : v \in DOMAIN env /\ env[v] = fn.consts[v]
         /\ out[1] = env[Terminator(fn, b).id]
    BY <1>3, <1>4, <1>11, <1>12, <1>13, BlockFollows
  <1>15. /\ Routed(b, out) = i /\ i \in DOMAIN fn.succs[b]
         /\ <<b, i>> \in Edges(fn) /\ Target(fn, <<b, i>>) = s
    BY <1>4, <1>5, <1>7, <1>11, <1>12, <1>14, RouteIs
  <1>16. Follows(s, record, after)
    BY <1>6, <1>7, <1>8, <1>11, <1>12, <1>14, <1>15, EdgeFollows
  <1>17. PICK x : x = [at |-> s, env |-> after]
    OBVIOUS
  <1>18. PICK to : to = <<b, i>>
    OBVIOUS
  <1>19. PICK new : new = Token(c, record)
    OBVIOUS
  <1>20. llvm' = [llvm EXCEPT ![c] = x] /\ queue' = [q EXCEPT ![to] = Append(@, new)]
    <2>1. /\ queue' = [[queue EXCEPT ![e] = Tail(@)] EXCEPT ![<<b, Routed(b, out)>>] =
                          Append(@, Token(token.call, Twiddled(out, <<b, Routed(b, out)>>)))]
          /\ LLVMStep(b, token.call)
      BY <1>1, <1>2, <1>3 DEF Execute
    <2>2. llvm' = [llvm EXCEPT ![c] = x]
      BY <1>4, <1>5, <1>7, <1>8, <1>9, <1>11, <1>17, <2>1 DEF LLVMStep, Env
    <2> QED
      BY <1>6, <1>9, <1>10, <1>15, <1>18, <1>19, <2>1, <2>2
  <1>21. Advances(e, c, x)
    BY <1>1, <1>9, <1>11, <1>12, <1>20, CallAdvances
  <1>22. InCallOf(new, s)'
    <2>1. /\ c \in 1..Len(llvm) /\ Len(llvm') = Len(llvm) /\ llvm'[c] = x
      BY <1>21 DEF Advances
    <2>2. new.call = c /\ new.record = record
      BY <1>19 DEF Token
    <2>3. InputValues(s)' = InputValues(s) /\ Env(c)' = after /\ llvm'[c].at = s
      BY <1>11, <1>17, <2>1 DEF InputValues, Env
    <2> QED
      BY <1>11, <1>16, <2>1, <2>2, <2>3 DEF InCallOf, Follows
  <1>23. Queues(queue)
    BY DEF RunInv, RunType, Queues
  <1>24. Rest(e, q)
    BY <1>10, <1>11, <1>23, Taken
  <1>25. PICK r : r = [q EXCEPT ![to] = Append(@, new)]
    OBVIOUS
  <1>26. With(q, to, new, r)
    BY <1>15, <1>18, <1>24, <1>25, Put DEF Rest
  <1>27. queue' = r
    BY <1>20, <1>25
  <1>28. RunType'
    <2>1. llvm' \in Seq(Range(llvm'))
      BY <1>21 DEF Advances
    <2> QED
      BY <1>11, <1>26, <1>27, <2>1 DEF RunType, RunInv, Queues, With
  <1>29. ASSUME NEW d \in Edges(fn), NEW j \in 1..Len(queue'[d])
         PROVE  \/ /\ d = to /\ j = Len(queue'[d]) /\ queue'[d][j].call = c
                   /\ InCallOf(queue[d][j], Target(fn, d))'
                \/ Stays(d, j, e)
    <2>1. CASE d = to /\ j = Len(r[d]) /\ r[d][j] = new
      <3>1. new.call = c
        BY <1>19 DEF Token
      <3>2. Target(fn', d) = s /\ queue'[d][j] = new
        BY <1>11, <1>15, <1>18, <1>27, <2>1
      <3>3. InCallOf(queue[d][j], Target(fn, d))'
        BY <1>22, <3>2
      <3> QED
        BY <1>27, <2>1, <3>1, <3>2, <3>3
    <2>2. CASE j \in 1..Len(q[d]) /\ r[d][j] = q[d][j]
      BY <1>24, <1>27, <2>2 DEF Stays, Rest
    <2> QED
      BY <1>26, <1>27, <2>1, <2>2 DEF With
  <1>30. HasConstants(x)
    BY <1>16, <1>17 DEF Follows, HasConstants
  <1>31. c = Head(queue[e]).call
    BY <1>1, <1>9
  <1>32. AnswersCome(c, x, to)
    BY <1>11 DEF AnswersCome
  <1>33. TokensMove(e, c, to)
    BY <1>29 DEF TokensMove
  <1> QED
    BY <1>11, <1>20, <1>28, <1>30, <1>31, <1>32, <1>33, CallKeeps

\* A block that returns answers with LLVM's value.
LEMMA ReturnRuns ==
  ASSUME BuildInv, RunInv, NEW e \in Edges(fn), Return(e)
  PROVE  RunInv'
  <1>1. PICK token : token = Head(queue[e])
    OBVIOUS
  <1>2. PICK b : b = Target(fn, e)
    OBVIOUS
  <1>3. PICK out : out = BlockOutput(b, token.record)
    OBVIOUS
  <1>4. PICK env : env = Evaluate(fn, b, Env(token.call))
    OBVIOUS
  <1>5. PICK c : c = token.call
    OBVIOUS
  <1>6. PICK x : x = [at |-> b, env |-> env]
    OBVIOUS
  <1>7. PICK q : q = [queue EXCEPT ![e] = Tail(@)]
    OBVIOUS
  <1>8. /\ phase = "run" /\ queue[e] # << >> /\ Returns(fn, b)
        /\ fn' = fn /\ phase' = phase /\ inputs' = inputs
    BY <1>2 DEF Return, compiled
  <1>9. fn \in Functions /\ b \in Blocks(fn)
    BY <1>2, TargetIs DEF BuildInv, BuildType
  <1>10. InCallOf(token, b)
    <2>1. queue[e] \in Seq(Range(queue[e]))
      BY DEF RunInv, RunType
    <2>2. 1 \in 1..Len(queue[e]) /\ Head(queue[e]) = queue[e][1]
      BY <1>8, <2>1, Listed
    <2> QED
      BY <1>1, <1>2, <2>2 DEF RunInv, TokensFollow
  <1>11. /\ \A v \in DOMAIN fn.consts : v \in DOMAIN env /\ env[v] = fn.consts[v]
         /\ out[1] = env[Terminator(fn, b).id]
    BY <1>3, <1>4, <1>8, <1>9, <1>10, BlockFollows
  <1>12. PICK answer : answer = <<c, out[1]>>
    OBVIOUS
  <1>13. /\ llvm' = [llvm EXCEPT ![c] = x] /\ queue' = q /\ answers' = Append(answers, answer)
    <2>1. /\ queue' = [queue EXCEPT ![e] = Tail(@)]
          /\ answers' = Append(answers, <<token.call, BlockOutput(b, token.record)[1]>>)
          /\ LLVMStep(b, token.call)
      BY <1>1, <1>2 DEF Return
    <2>2. llvm' = [llvm EXCEPT ![c] = x]
      BY <1>4, <1>5, <1>6, <1>8, <2>1 DEF LLVMStep, Env
    <2> QED
      BY <1>3, <1>5, <1>7, <1>12, <2>1, <2>2
  <1>14. Advances(e, c, x)
    BY <1>1, <1>5, <1>8, <1>9, <1>13, CallAdvances
  <1>15. Queues(queue) /\ answers \in Seq(Range(answers))
    BY DEF RunInv, RunType, Queues
  <1>16. Rest(e, q)
    BY <1>7, <1>8, <1>15, Taken
  <1>17. /\ answers' \in Seq(Range(answers')) /\ Len(answers) \in Nat /\ Len(answers') = Len(answers) + 1
         /\ \A k \in 1..Len(answers) : answers'[k] = answers[k]
         /\ answers'[Len(answers) + 1] = answer
    BY <1>13, <1>15, Listed
  <1>18. RunType'
    <2>1. llvm' \in Seq(Range(llvm'))
      BY <1>14 DEF Advances
    <2> QED
      BY <1>8, <1>13, <1>16, <1>17, <2>1 DEF RunType, Rest, Queues
  <1>19. PICK to : to \notin Edges(fn)
    <2>1. DOMAIN queue = Edges(fn)
      BY <1>15 DEF Queues
    <2>2. <<"call", 2>> \notin Edges(fn)
      BY <1>9, Verified DEF Edges, Entry, WellFormed
    <2> QED
      BY <2>2
  <1>20. TokensMove(e, c, to)
    BY <1>13, <1>16 DEF TokensMove, Stays, Rest
  <1>21. AnswersCome(c, x, to)
    <2> SUFFICES ASSUME NEW j \in 1..Len(answers')
                 PROVE  \/ j \in 1..Len(answers) /\ answers'[j] = answers[j]
                        \/ answers'[j][1] = c /\ answers'[j][2] = x.env[Terminator(fn, x.at).id]
      BY <1>19 DEF AnswersCome
    <2>1. CASE j \in 1..Len(answers)
      BY <1>17, <2>1
    <2>2. CASE j = Len(answers) + 1
      <3>1. answers'[j][1] = c /\ answers'[j][2] = out[1]
        BY <1>12, <1>17, <2>2
      <3> QED
        BY <1>6, <1>11, <3>1
    <2> QED
      BY <1>17, <2>1, <2>2
  <1>22. HasConstants(x)
    BY <1>6, <1>11 DEF HasConstants
  <1>23. c = Head(queue[e]).call
    BY <1>1, <1>5
  <1> QED
    BY <1>8, <1>13, <1>18, <1>19, <1>20, <1>21, <1>22, <1>23, CallKeeps

\* A call starts at the first block with LLVM's arguments.
LEMMA CallRuns ==
  ASSUME BuildInv, Wired, RunInv, NEW args \in Samples, Call(args)
  PROVE  RunInv'
  <1>1. PICK c : c = Len(llvm) + 1
    OBVIOUS
  <1>2. PICK record : record = Twiddled(args, Entry)
    OBVIOUS
  <1>3. PICK named : named = [v \in Range(fn.args) |-> args[IndexOf(fn.args, v)]]
    OBVIOUS
  <1>4. PICK env : env = Over(named, fn.consts)
    OBVIOUS
  <1>5. PICK new : new = Token(c, record)
    OBVIOUS
  <1>6. PICK x : x = [at |-> fn.entry, env |-> env]
    OBVIOUS
  <1>7. /\ phase = "run" /\ fn' = fn /\ phase' = phase /\ inputs' = inputs /\ answers' = answers
        /\ queue' = [queue EXCEPT ![Entry] = Append(@, new)] /\ llvm' = Append(llvm, x)
    BY <1>1, <1>2, <1>3, <1>4, <1>5, <1>6 DEF Call, compiled
  <1>8. fn \in Functions /\ Entry \in Edges(fn) /\ Target(fn, Entry) = fn.entry
    BY DEF BuildInv, BuildType, Edges, Target
  <1>9. Queues(queue) /\ llvm \in Seq(Range(llvm)) /\ answers \in Seq(Range(answers))
    BY DEF RunInv, RunType, Queues
  <1>10. /\ llvm' \in Seq(Range(llvm')) /\ Len(llvm) \in Nat /\ Len(llvm') = c /\ llvm'[c] = x
         /\ \A a \in 1..Len(llvm) : llvm'[a] = llvm[a]
    BY <1>1, <1>7, <1>9, Listed
  <1>11. With(queue, Entry, new, queue')
    <2>1. PICK r : r = [queue EXCEPT ![Entry] = Append(@, new)]
      OBVIOUS
    <2>2. PICK q : q = queue
      OBVIOUS
    <2>3. With(q, Entry, new, r)
      BY <1>8, <1>9, <2>1, <2>2, Put
    <2> QED
      BY <1>7, <2>1, <2>2, <2>3
  <1>12. /\ Range(fn.args) \cap DOMAIN fn.consts = {}
         /\ \A v \in Range(fn.args) : v \in DOMAIN env /\ env[v] = named[v]
         /\ \A v \in DOMAIN fn.consts : v \in DOMAIN env /\ env[v] = fn.consts[v]
    <2>1. Range(fn.args) \cap DOMAIN fn.consts = {}
      BY <1>8, Verified DEF WellFormed
    <2>2. DOMAIN named = Range(fn.args)
      BY <1>3
    <2> QED
      BY <1>4, <2>1, <2>2 DEF Over
  <1>13. InCallOf(new, fn.entry)'
    <2>1. /\ DOMAIN record = DOMAIN inputs[fn.entry]
          /\ \A n \in DOMAIN inputs[fn.entry] :
               /\ inputs[fn.entry][n].value \in Range(fn.args)
               /\ record[n] = args[IndexOf(fn.args, inputs[fn.entry][n].value)]
      BY <1>2, <1>7 DEF Twiddled, Wired, EntryWired
    <2>2. \A n \in DOMAIN inputs[fn.entry] : /\ inputs[fn.entry][n].value \in DOMAIN env
                                             /\ record[n] = env[inputs[fn.entry][n].value]
      BY <1>3, <1>12, <2>1
    <2>3. InputValues(fn.entry)' = InputValues(fn.entry) /\ InputValues(fn.entry) \subseteq DOMAIN env
      BY <1>7, <2>2 DEF InputValues
    <2>4. new.call = c /\ new.record = record
      BY <1>5 DEF Token
    <2>5. Env(c)' = env /\ llvm'[c].at = fn.entry
      BY <1>6, <1>10 DEF Env
    <2>6. c \in 1..Len(llvm')
      BY <1>1, <1>10
    <2> QED
      BY <1>7, <2>1, <2>2, <2>3, <2>4, <2>5, <2>6 DEF InCallOf
  <1>14. RunType'
    BY <1>7, <1>9, <1>10, <1>11 DEF RunType, With, Queues
  <1>15. \A d \in Edges(fn) : \A k \in 1..Len(queue[d]) : queue[d][k].call \in 1..Len(llvm)
    BY DEF RunInv, TokensFollow, InCallOf
  <1>16. \A t, b : InCallOf(t, b) => InCallOf(t, b)'
    <2> SUFFICES ASSUME NEW t, NEW b, InCallOf(t, b)
                 PROVE  InCallOf(t, b)'
      OBVIOUS
    <2>1. t.call \in 1..Len(llvm) /\ llvm'[t.call] = llvm[t.call] /\ t.call \in 1..Len(llvm')
      BY <1>1, <1>10 DEF InCallOf
    <2>2. InputValues(b)' = InputValues(b) /\ Env(t.call)' = Env(t.call)
      BY <1>7, <2>1 DEF InputValues, Env
    <2> QED
      BY <1>7, <2>1, <2>2 DEF InCallOf
  <1>17. \A d \in Edges(fn) : \A j \in 1..Len(queue'[d]) :
           \/ d = Entry /\ j = Len(queue'[d]) /\ queue'[d][j] = new
           \/ j \in 1..Len(queue[d]) /\ queue'[d][j] = queue[d][j]
    BY <1>11 DEF With
  <1>18. new.call = c /\ c \notin 1..Len(llvm)
    BY <1>1, <1>5, <1>10 DEF Token
  <1>19. TokensFollow'
    <2> SUFFICES ASSUME NEW d \in Edges(fn), NEW j \in 1..Len(queue'[d])
                 PROVE  InCallOf(queue[d][j], Target(fn, d))'
      BY <1>7 DEF TokensFollow
    <2>1. CASE d = Entry /\ queue'[d][j] = new
      <3>1. Target(fn', d) = fn.entry /\ fn'.entry = fn.entry
        BY <1>7, <1>8, <2>1
      <3> QED
        BY <1>13, <2>1, <3>1
    <2>2. CASE j \in 1..Len(queue[d]) /\ queue'[d][j] = queue[d][j]
      <3>1. PICK t : t = queue[d][j]
        OBVIOUS
      <3>2. PICK b : b = Target(fn, d)
        OBVIOUS
      <3>3. InCallOf(t, b)
        BY <2>2, <3>1, <3>2 DEF RunInv, TokensFollow
      <3>4. InCallOf(t, b)'
        BY <1>16, <3>3
      <3>5. t = queue'[d][j] /\ b = Target(fn', d)
        BY <1>7, <2>2, <3>1, <3>2
      <3> QED
        BY <3>4, <3>5
    <2> QED
      BY <1>17, <2>1, <2>2
  <1>20. OneToken'
    <2>o. OneToken' <=> \A f \in Edges(fn) : \A i \in 1..Len(queue'[f]) :
                          /\ \A d \in Edges(fn) : \A j \in 1..Len(queue'[d]) :
                               queue'[d][j].call = queue'[f][i].call => d = f /\ j = i
                          /\ \A j \in 1..Len(answers) : answers[j][1] # queue'[f][i].call
      BY <1>7 DEF OneToken
    <2> SUFFICES ASSUME NEW f \in Edges(fn), NEW i \in 1..Len(queue'[f])
                 PROVE  /\ \A d \in Edges(fn) : \A j \in 1..Len(queue'[d]) :
                             queue'[d][j].call = queue'[f][i].call => d = f /\ j = i
                        /\ \A j \in 1..Len(answers) : answers[j][1] # queue'[f][i].call
      BY <2>o, Zenon
    <2>1. CASE f = Entry /\ i = Len(queue'[f]) /\ queue'[f][i] = new
      <3>1. \A j \in 1..Len(answers) : answers[j][1] \in 1..Len(llvm)
        BY DEF RunInv, AnswersFollow
      <3> QED
        BY <1>15, <1>17, <1>18, <2>1, <3>1
    <2>2. CASE i \in 1..Len(queue[f]) /\ queue'[f][i] = queue[f][i]
      <3>1. queue[f][i].call # c
        BY <1>15, <1>18, <2>2
      <3>2. /\ \A d \in Edges(fn) : \A j \in 1..Len(queue[d]) :
                 queue[d][j].call = queue[f][i].call => d = f /\ j = i
            /\ \A j \in 1..Len(answers) : answers[j][1] # queue[f][i].call
        BY <2>2 DEF RunInv, OneToken
      <3>3. ASSUME NEW d \in Edges(fn), NEW j \in 1..Len(queue'[d]),
                   queue'[d][j].call = queue'[f][i].call
            PROVE  d = f /\ j = i
        <4>1. queue'[d][j].call # c
          BY <2>2, <3>1, <3>3
        <4>2. j \in 1..Len(queue[d]) /\ queue'[d][j] = queue[d][j]
          BY <1>17, <1>18, <4>1
        <4> QED
          BY <2>2, <3>2, <3>3, <4>2
      <3> QED
        BY <2>2, <3>2, <3>3
    <2> QED
      BY <1>17, <2>1, <2>2
  <1>21. ConstantsKept'
    <2> SUFFICES ASSUME NEW a \in 1..Len(llvm'), NEW v \in DOMAIN fn.consts
                 PROVE  v \in DOMAIN Env(a)' /\ Env(a)'[v] = fn.consts[v]
      BY <1>7 DEF ConstantsKept
    <2>1. CASE a = c
      BY <1>6, <1>10, <1>12, <2>1 DEF Env
    <2>2. CASE a \in 1..Len(llvm)
      BY <1>10, <2>2 DEF Env, RunInv, ConstantsKept
    <2> QED
      BY <1>1, <1>10, <2>1, <2>2
  <1>22. AnswersFollow'
    <2> SUFFICES ASSUME NEW j \in 1..Len(answers)
                 PROVE  /\ answers[j][1] \in 1..Len(llvm')
                        /\ answers[j][2] = llvm'[answers[j][1]].env[Terminator(fn, llvm'[answers[j][1]].at).id]
      BY <1>7 DEF AnswersFollow, Env
    <2>1. /\ answers[j][1] \in 1..Len(llvm)
          /\ answers[j][2] = llvm[answers[j][1]].env[Terminator(fn, llvm[answers[j][1]].at).id]
      BY DEF RunInv, AnswersFollow, Env
    <2>2. answers[j][1] \in 1..Len(llvm')
      BY <1>1, <1>10, <2>1
    <2> QED
      BY <1>10, <2>1, <2>2
  <1> QED
    BY <1>7, <1>14, <1>19, <1>20, <1>21, <1>22 DEF RunInv, Idle

\* A step that leaves the network alone.
LEMMA SameRun ==
  ASSUME RunInv, fn' = fn, queue' = queue, answers' = answers, llvm' = llvm,
         phase = "run" => phase' = phase /\ inputs' = inputs
  PROVE  RunInv'
  <1>1. RunType' /\ ConstantsKept' /\ OneToken' /\ AnswersFollow'
    <2>1. RunType'
      BY DEF RunInv, RunType
    <2>2. ConstantsKept' /\ AnswersFollow'
      BY DEF RunInv, ConstantsKept, AnswersFollow, Env
    <2>3. OneToken'
      BY DEF RunInv, OneToken
    <2> QED
      BY <2>1, <2>2, <2>3
  <1>2. Idle'
    BY DEF RunInv, Idle
  <1>3. TokensFollow'
    <2>1. CASE phase = "run"
      <3>1. inputs' = inputs
        BY <2>1
      <3>2. \A t, b : InCallOf(t, b)' <=> InCallOf(t, b)
        BY <3>1 DEF InCallOf, InputValues, Env
      <3> QED
        BY <3>2 DEF RunInv, TokensFollow
    <2>2. CASE phase # "run"
      <3>1. \A e \in Edges(fn) : Len(queue[e]) = 0
        BY <2>2 DEF RunInv, Idle
      <3> QED
        BY <3>1 DEF TokensFollow
    <2> QED
      BY <2>1, <2>2
  <1> QED
    BY <1>1, <1>2, <1>3 DEF RunInv

\* While the network is built no call is made.
LEMMA BuildRuns ==
  ASSUME RunInv, Build
  PROVE  RunInv'
  <1>1. phase # "run" /\ Building
    <2>1. ASSUME NEW b \in Blocks(fn), BuildRequests(b) \/ Construct(b)
          PROVE  phase # "run" /\ Building
      <3>1. CASE BuildRequests(b)
        BY <3>1 DEF BuildRequests, ReadAll
      <3>2. CASE Construct(b)
        BY <3>2 DEF Construct
      <3> QED
        BY <2>1, <3>1, <3>2
    <2>2. CASE RequestPhi \/ RequestOperands \/ RequestOperand
      BY <2>2 DEF RequestPhi, RequestOperands, RequestOperand, Reading, InCall
    <2>3. CASE AddInput
      BY <2>3 DEF AddInput, InCall
    <2>4. CASE RequestOutput
      BY <2>4 DEF RequestOutput, InCall
    <2>5. CASE EndRequests \/ ConnectEntry
      BY <2>5 DEF EndRequests, ReadAll, ConnectEntry
    <2> QED
      BY <2>1, <2>2, <2>3, <2>4, <2>5 DEF Build
  <1> QED
    BY <1>1, SameRun DEF Building

\* No step loses LLVM's track.
LEMMA NextRuns ==
  ASSUME BuildInv, Wired, RunInv, [Next]_vars
  PROVE  RunInv'
  <1>1. ASSUME NEW args \in Samples, Call(args)
        PROVE  RunInv'
    BY <1>1, CallRuns
  <1>2. ASSUME NEW e \in Edges(fn), Execute(e) \/ Return(e)
        PROVE  RunInv'
    BY <1>2, ExecuteRuns, ReturnRuns
  <1>3. CASE Finished \/ UNCHANGED vars
    BY <1>3, SameRun DEF Finished, vars, compiled
  <1> QED
    BY <1>1, <1>2, <1>3, BuildRuns DEF Next

\* Nothing is wired and nothing runs.
LEMMA InitRuns ==
  ASSUME Init
  PROVE  Wired /\ RunInv
  <1>1. phase = "requests" /\ llvm = << >> /\ answers = << >> /\ queue = [e \in Edges(fn) |-> << >>]
    BY DEF Init
  <1>2. Wired /\ Idle
    BY <1>1 DEF Wired, Idle
  <1>3. << >> \in Seq(Range(<< >>)) /\ Len(<< >>) = 0
    OBVIOUS
  <1>4. RunType
    BY <1>1, <1>3 DEF RunType, Range
  <1>5. ConstantsKept /\ TokensFollow /\ OneToken /\ AnswersFollow
    BY <1>1, <1>3 DEF ConstantsKept, TokensFollow, OneToken, AnswersFollow
  <1> QED
    BY <1>2, <1>4, <1>5 DEF RunInv

\* The invariant of the run says that the network follows LLVM.
LEMMA RunFollows ==
  ASSUME BuildInv, RunInv
  PROVE  FollowsLLVM
  <1>1. /\ \A e \in Edges(fn) : DOMAIN queue[e] = 1..Len(queue[e])
        /\ DOMAIN answers = 1..Len(answers)
    BY DEF RunInv, RunType
  <1>2. ASSUME NEW e \in Edges(fn), NEW k \in DOMAIN queue[e]
        PROVE  /\ llvm[queue[e][k].call].at = Target(fn, e)
               /\ \A n \in DOMAIN queue[e][k].record :
                    queue[e][k].record[n] = llvm[queue[e][k].call].env[inputs[Target(fn, e)][n].value]
    <2>1. PICK token : token = queue[e][k]
      OBVIOUS
    <2>2. PICK b : b = Target(fn, e)
      OBVIOUS
    <2>3. InCallOf(token, b)
      BY <1>1, <2>1, <2>2 DEF RunInv, TokensFollow
    <2> QED
      BY <2>1, <2>2, <2>3 DEF InCallOf, Env
  <1>3. ASSUME NEW k \in DOMAIN answers
        PROVE  answers[k][2] = llvm[answers[k][1]].env[Terminator(fn, llvm[answers[k][1]].at).id]
    BY <1>1 DEF RunInv, AnswersFollow, Env
  <1> QED
    BY <1>2, <1>3 DEF FollowsLLVM

\* A token is at the block where LLVM is in its call, with the values LLVM has
\* there, and an answer is LLVM's, however the tokens of several calls mix
\* (construct, LLVMControlRefiner, LLVMEntry, LLVMExit).
THEOREM Follow == Spec => []FollowsLLVM
  <1>1. Init => BuildInv /\ Wired /\ RunInv
    BY InitBuildInv, InitRuns
  <1>2. BuildInv /\ Wired /\ RunInv /\ [Next]_vars => (BuildInv /\ Wired /\ RunInv)'
    BY NextBuildInv, NextWired, NextRuns
  <1>3. BuildInv /\ RunInv => FollowsLLVM
    BY RunFollows
  <1> QED
    BY <1>1, <1>2, <1>3, PTL DEF Spec

=============================================================================
