------------------------------- MODULE Simplify -------------------------------
(***************************************************************************)
(* A module's netlist from the LLVM frontend's blocks to simplified        *)
(* library blocks: the refinery replaces one block at a time, then         *)
(* SimplifyPass runs its four transformations over snapshots of the        *)
(* netlist, in the order of the blocks' addresses, again and again until   *)
(* the set of blocks stays the same.                                       *)
(***************************************************************************)
EXTENDS Instructions

CONSTANTS Programs,   \* netlists to start from, with the inputs they are run on
          FreeOrder   \* bound: more blocks than this are visited from the ends of
                      \* a topological order only

VARIABLES net,        \* the module's netlist
          phase,      \* what runs: refine, a loop of the pass, or done
          todo,       \* what the loop has left to visit
          origin,     \* the blocks the pass started with
          consts,     \* what was constant when the loop over constants started
          program     \* the program the netlist came from
vars == <<net, phase, todo, origin, consts, program>>

Dummies(N) == {b \in DOMAIN N.kind : N.kind[b].op \in {"Input", "Output"}}
\* The blocks of the connection database: those with a connection.
Blocks(N) == {b \in DOMAIN N.kind \ Dummies(N) : \E w \in N.wires : b \in {w[1][1], w[2][1]}}
Connected(N) == Net([b \in Blocks(N) \cup Dummies(N) |-> N.kind[b]], N.wires)

HasDriver(N, i) == Driver(N, i) # {}
DriverOf(N, i)  == CHOOSE o \in Driver(N, i) : TRUE
Owner(N, i)     == N.kind[DriverOf(N, i)[1]]
Without(N, wires) == Net(N.kind, N.wires \ wires)
Adding(N, kind, wires) == Net(kind @@ N.kind, N.wires \cup wires)
\* ConnectionDB::remap of an output and of an input.
Moved(N, o, p)   == Net(N.kind, {IF w[1] = o THEN <<p, w[2]>> ELSE w : w \in N.wires})
MovedIn(N, i, j) == Net(N.kind, {IF w[2] = i THEN <<w[1], j>> ELSE w : w \in N.wires})

Bypass_Loose(N, b) ==  \* mutant: the sinks are not connected to the driver
  Net(N.kind, {w \in N.wires : b \notin {w[1][1], w[2][1]}})

\* Transformer::remove: the sinks of the block move to its driver.
Bypass(N, b) ==
  LET M == Net(N.kind, {w \in N.wires : b \notin {w[1][1], w[2][1]}})
  IN  IF HasDriver(N, <<b, 1>>)
      THEN Adding(M, <<>>, {<<DriverOf(N, <<b, 1>>), i>> : i \in SinksOf(N, <<b, 1>>)})
      ELSE M
Trash(N, b) == Without(N, {w \in N.wires : b \in {w[1][1], w[2][1]}})
Drives(N, b) == UNION {SinksOf(N, <<b, m>>) : m \in DOMAIN N.kind[b].outs}

\* ConnectionDB::connect throws when the ports differ in type, so does remove.
BypassFits(N, b) ==
  \A o \in Driver(N, <<b, 1>>), i \in SinksOf(N, <<b, 1>>) :
    N.kind[o[1]].outs[o[2]] = N.kind[i[1]].ins[i[2]]
\* Transformer::replace throws when the blocks have as many inputs, or outputs.
Replaceable(k, with) == Len(k.ins) # Len(with.ins) /\ Len(k.outs) # Len(with.outs)

-----------------------------------------------------------------------------
(* Refinement.                                                             *)

Refined(N, b) ==
  LET R == Refinement(b, N.kind[b])
      ends(w) == <<IF w[1][1] = b THEN R.out[w[1][2]] ELSE w[1],
                   IF w[2][1] = b THEN R.in[w[2][2]] ELSE w[2]>>
  IN  Net(R.kind @@ [c \in DOMAIN N.kind \ {b} |-> N.kind[c]],
          {ends(w) : w \in N.wires} \cup R.wires)

-----------------------------------------------------------------------------
(* Where a value comes from.                                               *)

\* One step from an output port towards the origin of one of its subfields; the
\* subfield is a stack, its last element says which field comes next.
Step(N, s) ==
  LET k    == N.kind[s.op[1]]
      from(n) == DriverOf(N, <<s.op[1], n>>)
      known(n) == HasDriver(N, <<s.op[1], n>>)
  IN  CASE k.op \in {"Identity", "Wait"} /\ known(1) -> [s EXCEPT !.op = from(1)]
        [] k.op = "Join" /\ s.sub # <<>> /\ known(Last(s.sub)) ->
             [op |-> from(Last(s.sub)), sub |-> Front(s.sub)]
        [] k.op = "Extract" /\ known(1) -> [op |-> from(1), sub |-> s.sub \o k.arg]
        [] k.op = "Split" /\ known(1)   -> [op |-> from(1), sub |-> Append(s.sub, s.op[2])]
        [] OTHER -> s

\* The steps of a walk, the first one first.
Walk(N, s) == FoldLeft(LAMBDA path, n : Append(path, Step(N, Last(path))), <<s>>,
                       [n \in 1..Cardinality(DOMAIN N.kind) |-> n])

\* The last port on the way that carries the whole field, if there is one.
FindSubfieldDriver(N, i, sub) ==
  LET walk == Walk(N, [op |-> DriverOf(N, i), sub |-> sub])
      whole == {n \in DOMAIN walk : walk[n].sub = <<>>}
  IN  IF whole = {} THEN {} ELSE {walk[Max(whole)].op}

\* The value of port o, when the walk ends at a constant.
FindConstant(N, o) ==
  LET end == Last(Walk(N, [op |-> o, sub |-> <<>>]))
      k   == N.kind[end.op[1]]
  IN  IF k.op # "Constant" \/ k.arg = Null THEN {}
      ELSE {ValueAt(k.outs[1], k.arg, end.sub)}

\* The blocks that constants alone drive.
ConstantBlocks(N) ==
  LET driven(b, S) == /\ N.kind[b].ins # <<>>
                      /\ \A n \in DOMAIN N.kind[b].ins : \E o \in Driver(N, <<b, n>>) : o[1] \in S
      grow[n \in Nat] == IF n = 0 THEN {b \in Blocks(N) : N.kind[b].op = "Constant"}
                         ELSE LET S == grow[n - 1]
                              IN  S \cup {b \in DOMAIN N.kind \ S : driven(b, S)}
  IN  grow[Cardinality(DOMAIN N.kind)]

\* FindConstants: those blocks, and the inputs they drive.
FindConstants(N) ==
  LET blocks == ConstantBlocks(N)
  IN  [blocks |-> blocks, inputs |-> {w[2] : w \in {v \in N.wires : v[1][1] \in blocks}}]
NothingFound == [blocks |-> {}, inputs |-> {}]

\* getLLVMEquivalent: the value of a port computed from constants through the
\* blocks that only move bits.
Equivalent(N, o) ==
  LET level == Cardinality(DOMAIN N.kind)
      through(b, S, n) == S[DriverOf(N, <<b, n>>)]
      value(p, S) ==
        LET b == p[1]
            k == N.kind[b]
            ins == {through(b, S, n) : n \in DOMAIN k.ins}
        IN  CASE k.op = "Constant" -> k.arg
              [] k.op = "Join" /\ Null \notin ins ->
                   Packed(k.outs[1], [n \in DOMAIN k.ins |-> through(b, S, n)])
              [] k.op \in {"Identity", "Wait"} -> through(b, S, 1)
              [] k.op = "Extract" /\ Null \notin ins -> ValueAt(k.ins[1], through(b, S, 1), k.arg)
              [] k.op = "Split" /\ Null \notin ins -> Field(k.ins[1], through(b, S, 1), p[2])
              [] OTHER -> Null
      ports == UNION {{b} \X DOMAIN N.kind[b].outs : b \in ConstantBlocks(N)}
      grow[n \in Nat] == IF n = 0 THEN [p \in ports |-> Null]
                         ELSE LET S == grow[n - 1] IN <<>> @@ [p \in ports |-> value(p, S)]
  IN  grow[level][o]

-----------------------------------------------------------------------------
(* eliminateNoops, for one block.                                          *)

\* A field of a join behind its split: the field's driver, waiting for the join.
SplitOfJoin(N, s) ==
  LET j == DriverOf(N, <<s, 1>>)[1]
      t == N.kind[j].outs[1]
      wait(n) == s \o "_w" \o ToString(n)
      fields == {n \in DOMAIN t.of : HasDriver(N, <<j, n>>)}
      M == Net(N.kind, {IF w[1][1] = s /\ w[1][2] \in fields THEN <<<<wait(w[1][2]), 1>>, w[2]>>
                        ELSE w : w \in N.wires})
  IN  Adding(M, [b \in {wait(n) : n \in fields} |->
                   Wait(t.of[CHOOSE n \in fields : wait(n) = b], <<t>>)],
             UNION {{<<DriverOf(N, <<j, n>>), <<wait(n), 1>>>>, Wire(j, 1, wait(n), 2)} : n \in fields})

ExtractOfJoin_SinksStay(N, e) ==  \* mutant: the sinks stay with the extract
  LET j == DriverOf(N, <<e, 1>>)[1]
      w == e \o "_w"
  IN  Adding(N, w :> Wait(N.kind[e].outs[1], N.kind[j].outs),
             {<<DriverOf(N, <<j, N.kind[e].arg[1]>>), <<w, 1>>>>, Wire(j, 1, w, 2)})

\* The field's driver, waiting for the join, takes over the extract's sinks.
ExtractOfJoin(N, e) ==
  LET j == DriverOf(N, <<e, 1>>)[1]
      n == N.kind[e].arg[1]
      w == e \o "_w"
  IN  Adding(Moved(N, <<e, 1>>, <<w, 1>>), w :> Wait(N.kind[e].outs[1], N.kind[j].outs),
             {<<DriverOf(N, <<j, n>>), <<w, 1>>>>, Wire(j, 1, w, 2)})

\* A router whose selector is a constant: the chosen output gets the data, the
\* others never get anything.
ConstantRouter(N, r, route) ==
  LET t     == N.kind[r].ins[1]
      val   == r \o "_val"
      never == r \o "_never"
      M     == MovedIn(N, <<r, 1>>, <<val, 1>>)
  IN  Net(val :> Extract(t, <<2>>) @@ never :> Never(t.of[2]) @@ M.kind,
          {IF w[1] = <<r, route + 1>> THEN <<<<val, 1>>, w[2]>>
           ELSE IF w[1][1] = r THEN <<<<never, 1>>, w[2]>> ELSE w : w \in M.wires})

JoinDriven(N, b) == HasDriver(N, <<b, 1>>) /\ Owner(N, <<b, 1>>).op = "Join"
Route(N, r) == UNION {FindConstant(N, o) : o \in FindSubfieldDriver(N, <<r, 1>>, <<1>>)}

\* Blocks that are taken for a wire from their input to their output.
IsWire(k) == \/ k.op = "Identity"
             \/ k.op = "Select" /\ Len(k.ins) = 1
             \/ k.op = "Router" /\ Len(k.outs) = 1
             \/ k.op = "Extract" /\ k.arg = <<>>
\* A multiplexer with a selector and one data field.
IsSingle(k) == k.op = "Multiplexer" /\ Len(k.ins[1].of) = 2

\* What the visit does for the sake of the block's class, when it does not throw.
Reduced(N, b) ==
  LET k == N.kind[b]
  IN  CASE IsWire(k) -> Bypass(N, b)
        [] k.op = "Select" /\ k.ins = <<>> ->
             Adding(Moved(N, <<b, 1>>, <<b \o "_never", 1>>), b \o "_never" :> Never(k.outs[1]), {})
        [] k.op = "Split" /\ JoinDriven(N, b) -> SplitOfJoin(N, b)
        [] k.op = "Extract" /\ JoinDriven(N, b) /\ HasDriver(N, <<DriverOf(N, <<b, 1>>)[1], k.arg[1]>>) ->
             ExtractOfJoin(N, b)
        [] k.op = "Router" /\ Route(N, b) # {} -> ConstantRouter(N, b, CHOOSE v \in Route(N, b) : TRUE)
        [] OTHER -> N

Unused_ButJoins(N, b) ==  \* mutant: joins stay
  Drives(N, b) = {} /\ N.kind[b].op \notin {"NullSink", "Join"}
\* Blocks which drive nothing go, whatever they were.
Unused(N, b) == Drives(N, b) = {} /\ N.kind[b].op # "NullSink"
NoopsVisit(N, b) == LET M == Reduced(N, b) IN IF Unused(M, b) THEN Trash(M, b) ELSE M

(* simplifyNullSinks: first the null sinks that are not alone, then those   *)
(* that are all a block drives take the block's place.                      *)

SinksVisit(N, b) ==
  IF N.kind[b].op = "NullSink" /\ Cardinality(SinksOf(N, DriverOf(N, <<b, 1>>))) > 1
  THEN Trash(N, b) ELSE N

PushVisit(N, b) ==
  IF N.kind[b].op # "NullSink" \/ ~HasDriver(N, <<b, 1>>) THEN N
  ELSE LET src   == DriverOf(N, <<b, 1>>)[1]
           sinks == {i[1] : i \in Drives(N, src)}
           null(n) == src \o "_ns" \o ToString(n)
           ins   == DOMAIN N.kind[src].ins
           M     == FoldSet(LAMBDA n, L : MovedIn(L, <<src, n>>, <<null(n), 1>>), N, ins)
       IN  IF \E c \in sinks : N.kind[c].op # "NullSink" THEN N
           ELSE Trash(FoldSet(LAMBDA c, L : Trash(L, c),
                              Adding(M, [c \in {null(n) : n \in ins} |->
                                           NullSink(N.kind[src].ins[CHOOSE n \in ins : null(n) = c])], {}),
                              sinks), src)

(* simplifyExtracts, for an output port: two fields or more in use become a *)
(* split.                                                                   *)

Extracts(N, o) == {i[1] : i \in {j \in SinksOf(N, o) : N.kind[j[1]].op = "Extract"}}
FieldsUsed(N, o) == {N.kind[e].arg[1] : e \in Extracts(N, o)}
OutPorts(N) == UNION {{b} \X DOMAIN N.kind[b].outs : b \in DOMAIN N.kind}

\* The users of an extract move to the split's output, or behind an extract of
\* what its path has left; nothing drives the old extract any more.
ExtractsVisit(N, o) ==
  LET t == N.kind[o[1]].outs[o[2]]
      s == o[1] \o "_s" \o ToString(o[2])
      path(e) == N.kind[e].arg
      x(e) == e \o "_r"
      deep == {e \in Extracts(N, o) : Len(path(e)) > 1}
      new(e) == IF e \in deep THEN <<x(e), 1>> ELSE <<s, path(e)[1]>>
      ends(w) == IF w[1][1] \in Extracts(N, o) THEN {<<new(w[1][1]), w[2]>>}
                 ELSE IF w[1] = o /\ w[2][1] \in Extracts(N, o) THEN {} ELSE {w}
  IN  Net(s :> Split(t.of)
            @@ [c \in {x(e) : e \in deep} |-> LET e == CHOOSE d \in deep : x(d) = c
                                              IN  Extract(t.of[path(e)[1]], Tail(path(e)))]
            @@ N.kind,
          UNION {ends(w) : w \in N.wires} \cup {<<o, <<s, 1>>>>}
            \cup {<<<<s, path(e)[1]>>, <<x(e), 1>>>> : e \in deep})

(* simplifyConstants, for a block: each constant input gets a constant of   *)
(* its own, when there is an equivalent one.                                *)

ConstantsVisit(N, b) ==
  LET const(n) == b \o "_c" \o ToString(n)
      folded == {n \in DOMAIN N.kind[b].ins :
                   /\ <<b, n>> \in consts.inputs
                   /\ \E o \in Driver(N, <<b, n>>) : N.kind[o[1]].op # "Constant"
                   /\ Equivalent(N, DriverOf(N, <<b, n>>)) # Null}
      number(c) == CHOOSE n \in folded : const(n) = c
  IN  IF b \in consts.blocks /\ N.kind[b].op # "Output" THEN N
      ELSE Adding(Without(N, {w \in N.wires : \E n \in folded : w[2] = <<b, n>>}),
                  [c \in {const(n) : n \in folded} |->
                     Constant(N.kind[b].ins[number(c)], Equivalent(N, DriverOf(N, <<b, number(c)>>)))],
                  {Wire(const(n), 1, b, n) : n \in folded})

-----------------------------------------------------------------------------
(* The order of the visits is the order of addresses: any.                 *)

Depth(N) ==
  LET grow[n \in Nat] ==
        IF n = 0 THEN [b \in DOMAIN N.kind |-> 0]
        ELSE LET d == grow[n - 1]
             IN  <<>> @@ [b \in DOMAIN N.kind |->
                    Max({0} \cup {d[w[1][1]] + 1 : w \in {v \in N.wires : v[2][1] = b}})]
  IN  grow[Cardinality(DOMAIN N.kind)]

Ordered(N, S, block(_)) ==
  LET d == Depth(N)
  IN  SortSeq(FoldSet(LAMBDA x, s : Append(s, x), <<>>, S),
              LAMBDA x, y : d[block(x)] < d[block(y)])

Next_(p) == CASE p = "refine" -> "noops" [] p = "noops" -> "sinks" [] p = "sinks" -> "push"
              [] p = "push" -> "extracts" [] p = "extracts" -> "constants"

\* The snapshot a loop runs over.
Snapshot(N, p) ==
  CASE p = "extracts" -> Ordered(N, {o \in OutPorts(N) : Cardinality(FieldsUsed(N, o)) >= 2},
                                 LAMBDA o : o[1])
    [] p = "constants" -> Ordered(N, Blocks(N) \cup {b \in DOMAIN N.kind : N.kind[b].op = "Output"},
                                  LAMBDA b : b)
    [] OTHER -> Ordered(N, Blocks(N), LAMBDA b : b)

Init == /\ program \in DOMAIN Programs
        /\ net = Programs[program].net
        /\ phase = "refine"
        /\ todo = <<>>
        /\ origin = {}
        /\ consts = NothingFound

Refine(b) == /\ phase = "refine"
             /\ net.kind[b].op \in Refinable
             /\ net' = Refined(net, b)
             /\ UNCHANGED <<phase, todo, origin, consts, program>>

\* A new run of the pass: the blocks are counted, the first loop starts.
Run == /\ \/ phase = "refine" /\ \A b \in DOMAIN net.kind : net.kind[b].op \notin Refinable
          \/ phase = "constants" /\ todo = <<>> /\ Blocks(net) # origin
       /\ net' = Connected(net)
       /\ phase' = "noops"
       /\ origin' = Blocks(net)
       /\ todo' = Snapshot(net, "noops")
       /\ consts' = NothingFound
       /\ UNCHANGED program

NextLoop == /\ phase \in {"noops", "sinks", "push", "extracts"}
            /\ todo = <<>>
            /\ net' = Connected(net)
            /\ phase' = Next_(phase)
            /\ todo' = Snapshot(net, Next_(phase))
            /\ consts' = IF Next_(phase) = "constants" THEN FindConstants(net') ELSE consts
            /\ UNCHANGED <<origin, program>>

Converge == /\ phase = "constants"
            /\ todo = <<>>
            /\ Blocks(net) = origin
            /\ net' = Connected(net)
            /\ phase' = "done"
            /\ consts' = NothingFound
            /\ UNCHANGED <<todo, origin, program>>

\* Visits that cannot be finished: the sinks of a block taken for a wire do not
\* fit its driver, the extract for a multiplexer of one is refused, an extract
\* has no driver (the removal of one without a path leaves it none) or does not
\* fit the wait for a join.
Throws(b) ==
  LET k == net.kind[b]
  IN  \/ IsWire(k) /\ ~BypassFits(net, b)
      \/ IsSingle(k) /\ ~Replaceable(k, Extract(k.ins[1], <<2>>))
      \/ /\ k.op = "Extract"
         /\ \/ k.arg = <<>>
            \/ ~HasDriver(net, <<b, 1>>)
            \/ /\ Len(k.arg) > 1
               /\ JoinDriven(net, b) /\ HasDriver(net, <<DriverOf(net, <<b, 1>>)[1], k.arg[1]>>)

\* The places of the list that may be next.
Places == IF Len(todo) > FreeOrder THEN {1, Len(todo)} ELSE DOMAIN todo

\* Nobody below main catches what a visit throws: the program ends there.
Throw(n) == /\ phase = "noops"
            /\ Throws(todo[n])
            /\ phase' = "failed"
            /\ todo' = <<>>
            /\ UNCHANGED <<net, origin, consts, program>>

\* The n-th block that is left.
Visit(n) ==
  LET b == todo[n]
  IN  /\ \/ /\ phase = "noops"
            /\ ~Throws(b)
            /\ net' = NoopsVisit(net, b)
         \/ phase = "sinks"     /\ net' = SinksVisit(net, b)
         \/ phase = "push"      /\ net' = PushVisit(net, b)
         \/ phase = "extracts"  /\ net' = ExtractsVisit(net, b)
         \/ phase = "constants" /\ net' = ConstantsVisit(net, b)
      /\ todo' = RemoveAt(todo, n)
      /\ UNCHANGED <<phase, origin, consts, program>>

Ended == phase \in {"done", "failed"}
Done == Ended /\ UNCHANGED vars

Next == \/ \E b \in DOMAIN net.kind : Refine(b)
        \/ Run
        \/ NextLoop
        \/ Converge
        \/ \E n \in Places : Visit(n)
        \/ \E n \in Places : Throw(n)
        \/ Done

\* The program runs on: WF_vars(Next), written out.
Spec == Init /\ [][Next]_vars /\ ([]<>Ended \/ []<><<TRUE>>_vars)
=============================================================================
