---------------------------- MODULE LLVMFunction ----------------------------
(***************************************************************************)
(* A function of LLVM's intermediate representation becomes a network of    *)
(* one block per basic block (LLVMFunction, LLVMBasicBlock, LLVMControl).   *)
(* A basic block has one input and one output, both records of SSA values:  *)
(* buildRequests asks the predecessors for the values a block needs, these  *)
(* ask theirs, and construct wires for each edge of the flow graph the      *)
(* fields its successor expects.  The network then runs: a call is a token  *)
(* that a Router sends from block to block.                                 *)
(*                                                                         *)
(* A function is a record: args, the names of its arguments; consts, the    *)
(* values of its constants; entry; code, the instructions of each block,    *)
(* its terminator last; succs, the successors of each block.  The blocks    *)
(* are visited in any order, that of a std::map of pointers.                *)
(*                                                                         *)
(* llvm is a history variable: where LLVM's own execution of each call is   *)
(* and the value it gives to each name.                                     *)
(***************************************************************************)
EXTENDS Naturals, SequencesExt, FiniteSets

CONSTANTS
  Functions,  \* the functions that may be translated
  Samples,    \* the arguments of a call, each a sequence of values
  Calls,      \* how many calls a client makes
  Slots,      \* the tokens an edge of the network holds
  Modulus     \* 2^w for the w bits of a value

VARIABLES
  fn,         \* the function that is translated
  phase,      \* "requests", "construct", "run" or "aborted"
  pending,    \* the blocks that the current loop of build has not visited
  current,    \* the block that buildRequests was called for
  next,       \* its next instruction
  calls,      \* the calls of buildRequests under way, the innermost first
  inputs,     \* the input record of each block: a value, or the PHI that takes it
  outputs,    \* the output record of each block (_outputMap)
  carried,    \* the fields each edge carries (_successorMaps; of LLVMEntry)
  queue,      \* the tokens on each edge
  answers,    \* the answers, in order, with their calls
  llvm        \* each call in LLVM: the block it is in and the values it gave

compiled == <<inputs, outputs, carried>>
vars == <<fn, phase, pending, current, next, calls, compiled, queue, answers, llvm>>

-----------------------------------------------------------------------------
(* The function                                                            *)

\* The nth of a PHI's args arrives from its nth predecessor in from.
Ins(id, op, args, from) == [id |-> id, op |-> op, args |-> args, from |-> from]
IsPhi(ins)          == ins.op = "phi"
IsVoid(ins)         == ins.op \in {"br", "cond", "store"}
Blocks(f)           == DOMAIN f.code
IsConstant(f, v)    == v \in DOMAIN f.consts
IsLocal(f, b, v)    == \E n \in DOMAIN f.code[b] : f.code[b][n].id = v
Terminator(f, b)    == f.code[b][Len(f.code[b])]
Returns(f, b)       == Terminator(f, b).op = "ret"
Entry               == <<"call", 1>>
Edges(f)            == {e \in Blocks(f) \X (1..2) : e[2] \in DOMAIN f.succs[e[1]]} \cup {Entry}
Target(f, e)        == IF e = Entry THEN f.entry ELSE f.succs[e[1]][e[2]]
Predecessors(f, b)  == {p \in Blocks(f) : b \in Range(f.succs[p])}
Names(f)            == Range(f.args) \cup DOMAIN f.consts
                         \cup UNION {{f.code[b][n].id : n \in DOMAIN f.code[b]} : b \in Blocks(f)}

\* A value that b does not have by itself; one that an instruction of b takes;
\* one that a PHI takes from b.
Through(f, b, v) == ~IsLocal(f, b, v) /\ ~IsConstant(f, v)
Takes(f, b, v)   == \E n \in DOMAIN f.code[b] :
                      ~IsPhi(f.code[b][n]) /\ v \in Range(f.code[b][n].args)
Gives(f, b, v)   == \E s \in Blocks(f) : \E n \in DOMAIN f.code[s] :
                      /\ IsPhi(f.code[s][n])
                      /\ \E k \in DOMAIN f.code[s][n].args :
                           f.code[s][n].from[k] = b /\ f.code[s][n].args[k] = v

-----------------------------------------------------------------------------
(* What LLVM's verifier grants of a function.                              *)

Instructions(f) == [id : Names(f), op : STRING, args : Seq(Names(f)), from : Seq(Blocks(f))]

\* Operands of an instruction are PHIs or earlier when they are of its block.
WellFormedInstruction(f, b, n) ==
  LET ins == f.code[b][n]
  IN  /\ ins.id \notin Range(f.args) \cup DOMAIN f.consts
      /\ \A m \in DOMAIN f.code[b] : f.code[b][m].id = ins.id => m = n
      /\ IF IsPhi(ins)
         THEN /\ n # Len(f.code[b]) /\ ins.args # <<>>
              /\ Len(ins.from) = Len(ins.args) /\ Range(ins.from) = Predecessors(f, b)
              /\ \A j, k \in DOMAIN ins.from :
                   ins.from[j] = ins.from[k] => ins.args[j] = ins.args[k]
         ELSE \A m \in DOMAIN f.code[b] :
                f.code[b][m].id \in Range(ins.args) => m < n \/ IsPhi(f.code[b][m])

WellFormedBlock(f, b) ==
  /\ f.code[b] \in Seq(Instructions(f)) /\ f.code[b] # <<>>
  /\ f.succs[b] \in Seq(Blocks(f)) /\ f.entry \notin Range(f.succs[b])
  /\ \/ Len(f.succs[b]) = 0 /\ Returns(f, b)
     \/ Len(f.succs[b]) = 1 /\ ~Returns(f, b)
     \/ Len(f.succs[b]) = 2 /\ Terminator(f, b).op = "cond"
  /\ \A n \in DOMAIN f.code[b] : WellFormedInstruction(f, b, n)

\* No way from the first block to a use of v avoids its definition: the blocks
\* of S can be reached without one.
Dominated(f, v) ==
  \E S \in SUBSET Blocks(f) :
    /\ f.entry \in S
    /\ \A b \in S : Through(f, b, v) =>
         ~Takes(f, b, v) /\ ~Gives(f, b, v) /\ Range(f.succs[b]) \subseteq S

WellFormed(f) ==
  /\ IsFiniteSet(Blocks(f)) /\ f.entry \in Blocks(f) /\ "call" \notin Blocks(f)
  /\ f.args \in Seq(Names(f)) /\ Range(f.args) \cap DOMAIN f.consts = {}
  /\ \A b \in Blocks(f) : WellFormedBlock(f, b)
  /\ \A v \in Names(f) \ Range(f.args) : Dominated(f, v)

ASSUME Verified == \A f \in Functions : WellFormed(f)

-----------------------------------------------------------------------------
(* What LLVM makes of it.                                                  *)

IndexOf(seq, x) == CHOOSE n \in DOMAIN seq : seq[n] = x

\* f, and g where f says nothing.
Over(f, g) == [x \in DOMAIN f \cup DOMAIN g |-> IF x \in DOMAIN f THEN f[x] ELSE g[x]]

Apply(op, x) ==
  CASE op = "add" -> (x[1] + x[2]) % Modulus
    [] op = "lt"  -> IF x[1] < x[2] THEN 1 ELSE 0
    [] op = "cond" -> IF x[1] = 0 THEN 0 ELSE 1    \* one bit
    [] op = "ret"  -> x[1]
    [] OTHER -> 0

\* The values of env and those that b gives.
Evaluate(f, b, env) ==
  LET after[n \in 0..Len(f.code[b])] ==
        IF n = 0 THEN Over(env, f.consts)
        ELSE LET before == after[n - 1]
                 ins == f.code[b][n]
             IN  IF IsPhi(ins) THEN before
                 ELSE [x \in DOMAIN before \cup {ins.id} |->
                         IF x = ins.id
                         THEN Apply(ins.op, [k \in DOMAIN ins.args |-> before[ins.args[k]]])
                         ELSE before[x]]
  IN  after[Len(f.code[b])]

\* LLVM goes from p to b: the PHIs of b take their values all at once.
IdOfPhi(f, b, id) == \E n \in DOMAIN f.code[b] : IsPhi(f.code[b][n]) /\ f.code[b][n].id = id
Incoming(f, b, id, p) ==
  LET phi == f.code[b][CHOOSE n \in DOMAIN f.code[b] : f.code[b][n].id = id]
  IN  phi.args[IndexOf(phi.from, p)]
Enter(f, b, p, env) ==
  Over([id \in {v \in Names(f) : IdOfPhi(f, b, v)} |-> env[Incoming(f, b, id, p)]], env)

\* The successor LLVM takes: the first when the condition holds.
Branch(f, b, env) ==
  IF Len(f.succs[b]) = 1 \/ env[Terminator(f, b).id] = 1 THEN 1 ELSE 2

-----------------------------------------------------------------------------
(* Building the network                                                    *)

\* A call under way: of addInput, of requestOutput, or the step of a PHI.
ToDo(do, b, v) == [do |-> do, at |-> b, value |-> v]

\* Ask the nth block for the nth value.
AskAll(bs, vs) == [n \in DOMAIN bs |-> ToDo("output", bs[n], vs[n])]

\* The index of a value among the inputs of a block that are no PHIs.
NonPhi(v) == [phi |-> FALSE, value |-> v]
Phi(v)    == [phi |-> TRUE,  value |-> v]

Init ==
  /\ fn \in Functions
  /\ phase = "requests"
  /\ pending = Blocks(fn)
  /\ current = fn.entry /\ next = Len(fn.code[fn.entry]) + 1
  /\ calls = <<>>
  /\ inputs = [b \in Blocks(fn) |-> <<>>]
  /\ outputs = [b \in Blocks(fn) |-> <<Terminator(fn, b).id>>]
  /\ carried = <<>>
  /\ queue = [e \in Edges(fn) |-> <<>>]
  /\ answers = <<>>
  /\ llvm = <<>>

Building == UNCHANGED <<fn, queue, answers, llvm>>

Reading  == phase = "requests" /\ calls = <<>> /\ next <= Len(fn.code[current])
ReadAll  == phase = "requests" /\ calls = <<>> /\ next > Len(fn.code[current])
InCall(do) == phase = "requests" /\ calls # <<>> /\ Head(calls).do = do

BuildRequests(b) ==
  /\ ReadAll /\ b \in pending
  /\ pending' = pending \ {b}
  /\ current' = b /\ next' = 1
  /\ UNCHANGED <<phase, calls, compiled>> /\ Building

\* A PHI does not ask its own block.
RequestPhi_NotItself ==
  /\ Reading
  /\ LET phi == fn.code[current][next]
     IN  /\ IsPhi(phi)
         /\ inputs' = [inputs EXCEPT ![current] = Append(@, Phi(phi.id))]
         /\ calls' = SelectSeq(AskAll(phi.from, phi.args), LAMBDA c : c.at # current)
  /\ next' = next + 1
  /\ UNCHANGED <<phase, pending, current, outputs, carried>> /\ Building

\* A PHI takes an input of its own and asks each predecessor for its value.
RequestPhi ==
  /\ Reading
  /\ LET phi == fn.code[current][next]
     IN  /\ IsPhi(phi)
         /\ inputs' = [inputs EXCEPT ![current] = Append(@, Phi(phi.id))]
         /\ calls' = AskAll(phi.from, phi.args)
  /\ next' = next + 1
  /\ UNCHANGED <<phase, pending, current, outputs, carried>> /\ Building

\* The operands of any other instruction are looked at one after the other; one
\* that gives nothing is an output, so that it takes part in the control.
RequestOperands ==
  /\ Reading
  /\ LET ins == fn.code[current][next]
     IN  /\ ~IsPhi(ins)
         /\ calls' = [n \in DOMAIN ins.args |-> ToDo("operand", current, ins.args[n])]
                       \o (IF IsVoid(ins) THEN <<ToDo("output", current, ins.id)>> ELSE <<>>)
  /\ next' = next + 1
  /\ UNCHANGED <<phase, pending, current, compiled>> /\ Building

RequestOperand ==
  /\ InCall("operand")
  /\ LET b == Head(calls).at
         v == Head(calls).value
     IN  calls' = (IF Through(fn, b, v) THEN <<ToDo("input", b, v)>> ELSE <<>>) \o Tail(calls)
  /\ UNCHANGED <<phase, pending, current, next, compiled>> /\ Building

\* A value that a PHI takes is not asked for again.
AddInput_PhiSuffices ==
  /\ InCall("input")
  /\ LET b == Head(calls).at
         v == Head(calls).value
         known == \E n \in DOMAIN inputs[b] :
                    \/ inputs[b][n] = NonPhi(v)
                    \/ \E m \in DOMAIN fn.code[b] : /\ Phi(fn.code[b][m].id) = inputs[b][n]
                                                    /\ v \in Range(fn.code[b][m].args)
         ps == SetToSeq(Predecessors(fn, b))
     IN  /\ inputs' = IF known THEN inputs ELSE [inputs EXCEPT ![b] = Append(@, NonPhi(v))]
         /\ calls' = IF known THEN Tail(calls) ELSE AskAll(ps, [n \in DOMAIN ps |-> v]) \o Tail(calls)
  /\ UNCHANGED <<phase, pending, current, next, outputs, carried>> /\ Building

\* A new input is a value that every predecessor has to give.
AddInput ==
  /\ InCall("input")
  /\ LET b == Head(calls).at
         v == Head(calls).value
         known == \E n \in DOMAIN inputs[b] : inputs[b][n] = NonPhi(v)
         ps == SetToSeq(Predecessors(fn, b))
         hasSource == ps # <<>> \/ (b = fn.entry /\ v \in Range(fn.args))
     IN  /\ inputs' = IF known THEN inputs ELSE [inputs EXCEPT ![b] = Append(@, NonPhi(v))]
         /\ calls' = IF known THEN Tail(calls) ELSE AskAll(ps, [n \in DOMAIN ps |-> v]) \o Tail(calls)
         /\ phase' = IF known \/ hasSource THEN phase ELSE "aborted"
  /\ UNCHANGED <<pending, current, next, outputs, carried>> /\ Building

\* A value that is not the block's own passes through it.
RequestOutput ==
  /\ InCall("output")
  /\ LET b == Head(calls).at
         v == Head(calls).value
         known == v \in Range(outputs[b])
     IN  /\ outputs' = IF known THEN outputs ELSE [outputs EXCEPT ![b] = Append(@, v)]
         /\ calls' = IF ~known /\ Through(fn, b, v) THEN <<ToDo("input", b, v)>> \o Tail(calls)
                                                   ELSE Tail(calls)
  /\ UNCHANGED <<phase, pending, current, next, inputs, carried>> /\ Building

EndRequests ==
  /\ ReadAll /\ pending = {}
  /\ phase' = "construct" /\ pending' = Blocks(fn)
  /\ UNCHANGED <<current, next, calls, compiled>> /\ Building

\* A PHI takes the value of one of its predecessors from all of them.
Expected_AnyIncoming(b, n, p) ==
  IF ~inputs[b][n].phi THEN inputs[b][n].value
  ELSE LET k == CHOOSE m \in DOMAIN fn.code[b] : fn.code[b][m].id = inputs[b][n].value
       IN  fn.code[b][k].args[1]

\* The value that b expects in its nth input from p.
Expected(b, n, p) ==
  IF inputs[b][n].phi THEN Incoming(fn, b, inputs[b][n].value, p) ELSE inputs[b][n].value

\* The edge from b to its ith successor carries what the successor expects.
EdgeValues(b, i) == LET s == fn.succs[b][i] IN [n \in DOMAIN inputs[s] |-> Expected(s, n, b)]
\* _successorMap keeps one index for each successor, the last.
MapSuccessor(b, s) == CHOOSE i \in DOMAIN fn.succs[b] :
                        fn.succs[b][i] = s /\ \A j \in DOMAIN fn.succs[b] : fn.succs[b][j] = s => j <= i

Construct(b) ==
  /\ phase = "construct" /\ b \in pending
  /\ pending' = pending \ {b}
  /\ LET succs == DOMAIN fn.succs[b]
         ok == \A i \in succs : /\ MapSuccessor(b, fn.succs[b][i]) = i
                                /\ Range(EdgeValues(b, i)) \subseteq Range(outputs[b])
     IN  IF ok
           THEN /\ carried' = Over([e \in {<<b, i>> : i \in succs} |->
                                     [n \in DOMAIN EdgeValues(b, e[2]) |->
                                        IndexOf(outputs[b], EdgeValues(b, e[2])[n])]], carried)
                /\ UNCHANGED phase
           ELSE phase' = "aborted" /\ UNCHANGED carried
  /\ UNCHANGED <<current, next, calls, inputs, outputs>> /\ Building

\* LLVMEntry gives the first block its arguments; it takes no other value.
ConnectEntry ==
  /\ phase = "construct" /\ pending = {}
  /\ LET wanted == inputs[fn.entry]
     IN  IF \A n \in DOMAIN wanted : ~wanted[n].phi /\ wanted[n].value \in Range(fn.args)
           THEN /\ carried' = Over([e \in {Entry} |-> [n \in DOMAIN wanted |-> IndexOf(fn.args, wanted[n].value)]],
                                   carried)
                /\ phase' = IF \E b \in Blocks(fn) : Returns(fn, b) THEN "run" ELSE "aborted"
           ELSE phase' = "aborted" /\ UNCHANGED carried
  /\ UNCHANGED <<pending, current, next, calls, inputs, outputs>> /\ Building

-----------------------------------------------------------------------------
(* The network at work                                                     *)

\* The output record of a block: its inputs by name, then its instructions.
BlockOutput(b, record) ==
  LET named == [v \in {inputs[b][n].value : n \in DOMAIN inputs[b]} |->
                  record[CHOOSE n \in DOMAIN inputs[b] : inputs[b][n].value = v]]
      values == Evaluate(fn, b, named)
  IN  [n \in DOMAIN outputs[b] |-> values[outputs[b][n]]]

\* Output 0 for the first successor.
Routed_InOrder(b, out) ==
  IF Len(fn.succs[b]) = 1 THEN 1
  ELSE CHOOSE i \in DOMAIN fn.succs[b] : i - 1 = out[1]

\* The Router reads the terminator's value, the first output of the block; the
\* control refiner gives output 1 of a branch to its first successor.
Routed(b, out) ==
  IF Len(fn.succs[b]) = 1 THEN 1
  ELSE CHOOSE i \in DOMAIN fn.succs[b] : (IF i = 1 THEN 1 ELSE 0) = out[1]

Twiddled(record, e) == [n \in DOMAIN carried[e] |-> record[carried[e][n]]]

Token(c, record) == [call |-> c, record |-> record]
Room(e) == Len(queue[e]) < Slots

Call(args) ==
  /\ phase = "run" /\ Len(llvm) < Calls /\ Room(Entry)
  /\ LET c == Len(llvm) + 1
         named == [v \in Range(fn.args) |-> args[IndexOf(fn.args, v)]]
     IN  /\ queue' = [queue EXCEPT ![Entry] = Append(@, Token(c, Twiddled(args, Entry)))]
         /\ llvm' = Append(llvm, [at |-> fn.entry, env |-> Over(named, fn.consts)])
  /\ UNCHANGED <<fn, phase, pending, current, next, calls, compiled, answers>>

\* LLVM executes the block, and goes on.
LLVMStep(b, c) ==
  \E env \in {Evaluate(fn, b, llvm[c].env)} :
    LET s == IF Returns(fn, b) THEN b ELSE fn.succs[b][Branch(fn, b, env)]
    IN  llvm' = [llvm EXCEPT ![c] = [at |-> s, env |-> IF Returns(fn, b) THEN env ELSE Enter(fn, s, b, env)]]

\* The Select of a block takes the token of an edge, and the block sends its
\* output on when the next edge has room.
Execute(e) ==
  /\ phase = "run" /\ e \in Edges(fn) /\ queue[e] # <<>>
  /\ ~Returns(fn, Target(fn, e))
  /\ \E token \in {Head(queue[e])}, b \in {Target(fn, e)} :
     \E out \in {BlockOutput(b, token.record)} :
     \E to \in {<<b, Routed(b, out)>>} :
         /\ Room(to)
         /\ queue' = [[queue EXCEPT ![e] = Tail(@)] EXCEPT
                         ![to] = Append(@, Token(token.call, Twiddled(out, to)))]
         /\ LLVMStep(b, token.call)
  /\ UNCHANGED <<fn, phase, pending, current, next, calls, compiled, answers>>

\* A block that returns sends its terminator's value to LLVMExit.
Return(e) ==
  /\ phase = "run" /\ e \in Edges(fn) /\ queue[e] # <<>>
  /\ Returns(fn, Target(fn, e))
  /\ \E token \in {Head(queue[e])}, b \in {Target(fn, e)} :
         /\ queue' = [queue EXCEPT ![e] = Tail(@)]
         /\ answers' = Append(answers, <<token.call, BlockOutput(b, token.record)[1]>>)
         /\ LLVMStep(b, token.call)
  /\ UNCHANGED <<fn, phase, pending, current, next, calls, compiled>>

\* The compiler gave up, or the client has all its answers.
Finished ==
  /\ phase = "aborted" \/ Len(answers) = Calls
  /\ UNCHANGED vars

Build ==
  \/ \E b \in Blocks(fn) : BuildRequests(b) \/ Construct(b)
  \/ RequestPhi \/ RequestOperands \/ RequestOperand \/ AddInput \/ RequestOutput
  \/ EndRequests \/ ConnectEntry

Next ==
  \/ Build
  \/ \E args \in Samples : Call(args)
  \/ \E e \in Edges(fn) : Execute(e) \/ Return(e)
  \/ Finished

\* The compiler goes on, and no block keeps a token it can send on.
Spec == Init /\ [][Next]_vars /\ WF_vars(Build)
             /\ \A e \in UNION {Edges(f) : f \in Functions} : WF_vars(Execute(e) \/ Return(e))

-----------------------------------------------------------------------------
(* Properties                                                              *)

\* S has every block at whose start v is live: one that takes v, or on from
\* which it is taken, and that does not have it by itself.
LiveAt(f, v, S) ==
  \A b \in Blocks(f) :
    /\ Through(f, b, v)
    /\ Takes(f, b, v) \/ Gives(f, b, v) \/ \E s \in Range(f.succs[b]) : s \in S
    => b \in S

\* LLVM's live values at the start of b.
LiveIn(f, b) == {v \in Names(f) : \A S \in SUBSET Blocks(f) : LiveAt(f, v, S) => b \in S}

\* The requests end with one input for each PHI of a block and one for each
\* value that LLVM has live at its start, whatever the order of the visits:
\* around loops, and when a PHI takes a value that the block also needs for
\* itself (buildRequests, addInput).
InputsAreTheLiveValues ==
  phase = "construct" =>
    \A b \in Blocks(fn) :
      /\ IsInjective(inputs[b])
      /\ Range(inputs[b]) = {NonPhi(v) : v \in LiveIn(fn, b)}
                              \cup {Phi(v) : v \in {w \in Names(fn) : IdOfPhi(fn, b, w)}}

\* The compiler gives up for the shape of the flow graph only: a block has a
\* successor twice, none returns, or one that is not the first has nothing before
\* it.  It never gives up for a value: there is always an output for what a
\* successor expects, and the first block expects arguments only (the asserts of
\* addInput, construct and mapOutput, LLVMEntry::ValueMap).
AbortsOnlyForTheFlowGraph ==
  phase = "aborted" =>
    \/ \E b \in Blocks(fn) : ~IsInjective(fn.succs[b])
    \/ \A b \in Blocks(fn) : ~Returns(fn, b)
    \/ \E b \in Blocks(fn) \ {fn.entry} : Predecessors(fn, b) = {}

\* A token is at the block where LLVM is in that call, and its record holds the
\* values LLVM gives there; so does each answer (construct, LLVMControlRefiner).
FollowsLLVM ==
  /\ \A e \in Edges(fn) : \A k \in DOMAIN queue[e] :
       LET token == queue[e][k]
           b == Target(fn, e)
       IN  /\ llvm[token.call].at = b
           /\ \A n \in DOMAIN token.record : token.record[n] = llvm[token.call].env[inputs[b][n].value]
  /\ \A k \in DOMAIN answers :
       LET call == llvm[answers[k][1]] IN answers[k][2] = call.env[Terminator(fn, call.at).id]

\* Every call is answered, also while others go round the same loop, as long
\* as an edge has more room than there are calls.
EveryCallAnswered == \A c \in 1..Calls : (Len(llvm) >= c) ~> (\E k \in DOMAIN answers : answers[k][1] = c)

=============================================================================
