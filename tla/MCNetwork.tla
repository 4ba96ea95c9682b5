----------------------------- MODULE MCNetwork -----------------------------
(***************************************************************************)
(* The circuits that the libraries build, between neighbours that offer    *)
(* and take tokens when they please, and what each of them promises.       *)
(***************************************************************************)
EXTENDS LINetwork, AXI4Lite

MCChannels ==
  << [dir |-> "in",  width |-> 40, name |-> "cmd"],
     [dir |-> "in",  width |-> 0,  name |-> "go"],
     [dir |-> "out", width |-> 40, name |-> "res"],
     [dir |-> "out", width |-> 0,  name |-> "ack"] >>

Input(seq, after, lead) ==
  Kind("Input", 0, 1, [tokens |-> seq, after |-> after, lead |-> lead])
Tokens(seq)      == Input(seq, "", 0)
AfterAck(seq, o) == Input(seq, o, 0)
InTurn(seq, o)   == Input(seq, o, 1)
Out         == Kind("Output", 1, 0, 0)
Srv(n)      == Kind("Server", 1, 1, [cap |-> n])

\* What the passes make of a netlist and its neighbours, with a clock frequency
\* (clk) or without, as is the default.
Built(N, kinds) == [clk \in BOOLEAN |-> Optimized(Plus(N, Net(kinds, {})), clk, FALSE)]

\* Three clients ask for what only one may hold; holder is their critical
\* section, and leaving it signals the semaphore.
SemaphoreCircuit ==
  Built(SemaphoreNet(<<"waiting", 1>>, <<"holder", 1>>, <<"holder", 1>>),
        "waiting" :> Tokens(<<1, 2, 3>>) @@ "holder" :> Srv(2))

\* Two clients of one server that holds up to two requests.  The fork of the
\* tags sits on the Select itself: PipelineDependentsPass makes it for a Split,
\* and only forks that SynthesizeForksPass makes get a register in front.
Asked(i) == [n \in 1..3 |-> <<i, n>>]
MultiplexerCircuit ==
  Built(InterfaceMultiplexerNet(<<<<"client1", 1>>, <<"client2", 1>>>>,
                                     <<<<"answer1", 1>>, <<"answer2", 1>>>>, "server"),
        "client1" :> Tokens(Asked(1)) @@ "client2" :> Tokens(Asked(2))
          @@ "answer1" :> Out @@ "answer2" :> Out @@ "server" :> Srv(2))

\* The same with a register behind the Select.  It is put there by hand: no pass
\* is certain to insert it (PipelineFrequencyPass does when the Select is too
\* late for the clock), and a netlist without it is DirectCircuits.
RegisteredMultiplexer ==
  [clk \in BOOLEAN |-> InsertAfter(MultiplexerCircuit[clk], {<<"select", 1>>}, Reg)]

\* A bus master writes the second word of cmd, its first, then go, then cmd
\* again; 300 does not fit the eight bits that are left for the second word.
BusWriteCircuit ==
  Built(refineWriteSide(<<"writeAddress", 1>>, <<"writeData", 1>>, <<"writeResp", 1>>),
        "writeAddress" :> Tokens(<< <<20, 0>>, <<16, 0>>, <<24, 0>>, <<16, 0>>, <<20, 0>> >>)
          @@ "writeData" :> Tokens(<< <<300, 15>>, <<7, 15>>, <<9, 15>>, <<6, 15>>, <<5, 15>> >>)
          @@ "writeResp" :> Out @@ "cmd" :> Out @@ "go" :> Out)

\* It reads both words of res, the second first and ack in between, and then
\* the words of the next token, one read at a time: answers of different words
\* wait in different registers and may overtake each other.
BusReadCircuit ==
  Built(refineReadSide(<<"readAddress", 1>>, <<"readData", 1>>),
        "readAddress" :> InTurn(<< <<32, 0>>, <<36, 0>>, <<28, 0>>, <<28, 0>>, <<32, 0>> >>, "readData")
          @@ "readData" :> Out @@ "res" :> Tokens(<< <<5, 6>>, <<8, 9>> >>)
          @@ "ack" :> Tokens(<<"void">>))

\* Two writers of a register, and a reader that waits for their answers,
\* which wait in registers, or in latches when no frequency is asked for.
RegisterCircuit ==
  Built(RegisterNet(<<<<"write1", 1>>, <<"write2", 1>>>>, <<<<"done1", 1>>, <<"done2", 1>>>>,
                    <<<<"read", 1>>>>, <<<<"value", 1>>>>),
        "write1" :> Tokens(<<1, 2>>) @@ "write2" :> AfterAck(<<3>>, "done1")
          @@ "done1" :> Out @@ "done2" :> Out
          @@ "read" :> AfterAck(<<"void", "void">>, "done1") @@ "value" :> Out)

\* A writer of a memory, and a reader that reads back what was written.
MemoryCircuit ==
  Built(FiniteArrayNet(<<"write", 1>>, <<"done", 1>>, <<"read", 1>>, <<"value", 1>>, 0, 2),
        "write" :> Tokens(<< <<11, 0>>, <<12, 1>>, <<13, 0>> >>) @@ "done" :> Out
          @@ "read" :> AfterAck(<<0, 1, 0>>, "done") @@ "value" :> Out)

\* Two producers share a channel that two consumers read.
ForkedSelectCircuit ==
  Built(Net("select" :> SelectOf(2),
                 {Wire("first", 1, "select", 1), Wire("second", 1, "select", 2),
                  Wire("select", 1, "left", 1), Wire("select", 1, "right", 1)}),
        "first" :> Tokens(Asked(1)) @@ "second" :> Tokens(Asked(2))
          @@ "left" :> Out @@ "right" :> Out)

\* The same with a channel that says whose turn it is.
Turns == <<1, 0, 0, 1>>
IndexedCircuit ==
  Built(Net("select" :> Kind("IdxSelect", 3, 1, 2),
            {Wire("first", 1, "select", 1), Wire("second", 1, "select", 2),
             Wire("turns", 1, "select", 3),
             Wire("select", 1, "left", 1), Wire("select", 1, "right", 1)}),
        "first" :> Tokens(Asked(1)) @@ "second" :> Tokens(Asked(2)) @@ "turns" :> Tokens(Turns)
          @@ "left" :> Out @@ "right" :> Out)

\* The two uses of x meet again in the selector and the data of a Router, whose
\* outputs have registers when there is a clock: FindConsumers sees no common end
\* then, and the fork stays without registers behind it.
RecombiningCircuit ==
  Built(Net("k" :> JoinOf(2) @@ "j" :> JoinOf(2) @@ "r" :> RouterOf(2),
            {Wire("x", 1, "j", 1), Wire("x", 1, "k", 1), Wire("y", 1, "k", 2),
             Wire("k", 1, "j", 2), Wire("j", 1, "r", 1), Wire("r", 1, "left", 1),
             Wire("r", 2, "right", 1)}),
        "x" :> Tokens(<<0, 1, 0>>) @@ "y" :> Tokens(<<4, 5, 6>>)
          @@ "left" :> Out @@ "right" :> Out)

DirectCircuits == <<"multiplexer", TRUE>> :> MultiplexerCircuit[TRUE]
\* Without a frequency the fork of the Select has no register in front either.
UnclockedCircuits == <<"forkedSelect", FALSE>> :> ForkedSelectCircuit[FALSE]

\* Every circuit with a clock and without, save the one of UnclockedCircuits.
MCCircuits ==
  LET built(clk) ==
        "semaphore" :> SemaphoreCircuit[clk] @@ "multiplexer" :> RegisteredMultiplexer[clk]
          @@ "busWrite" :> BusWriteCircuit[clk] @@ "busRead" :> BusReadCircuit[clk]
          @@ "register" :> RegisterCircuit[clk] @@ "memory" :> MemoryCircuit[clk]
          @@ "forkedSelect" :> ForkedSelectCircuit[clk] @@ "indexed" :> IndexedCircuit[clk]
          @@ "recombining" :> RecombiningCircuit[clk]
  IN  [c \in ((DOMAIN built(TRUE)) \X BOOLEAN) \ DOMAIN UnclockedCircuits |-> built(c[2])[c[1]]]
-----------------------------------------------------------------------------
(* Properties                                                              *)

\* Never two tokens between a wait and its signal, although the holder would
\* take two and leaves when it likes: Once gives its token up exactly once.
MutualExclusion ==
  circuit[1] = "semaphore" => Len(st["holder"].queue) <= 1

\* Each client gets the answers to its own requests, in the order it asked,
\* whatever the arbiter did and however long the other client lets its
\* answers wait.
AnswersReachTheirCaller ==
  circuit[1] = "multiplexer" =>
    \A i \in 1..2 : IsPrefix(st["answer" \o ToString(i)], Asked(i))

\* The words of a channel are put together at the right place, cut to their
\* width, and channels do not get each other's words.
WordsInPlace ==
  /\ circuit[1] = "busWrite" => /\ IsPrefix(st["cmd"], << <<7, 44>>, <<6, 5>> >>)
                                /\ IsPrefix(st["go"], << << >> >>)
                                /\ Len(st["writeResp"]) <= st["writeAddress"].next - 1
  /\ circuit[1] = "busRead" =>
       IsPrefix([n \in DOMAIN st["readData"] |-> st["readData"][n][1]], <<6, 0, 5, 8, 9>>)

\* A read that starts after a write was acknowledged does not return anything
\* older, although the answers wait in latches: not what was there before, and
\* from an array not what is at another index.
ReadYourWrites ==
  /\ circuit[1] = "register" =>
       \A n \in DOMAIN st["value"] : st["value"][n] \in (IF n = 1 THEN {1, 2, 3} ELSE {2, 3})
  /\ circuit[1] = "memory" =>
       \A n \in DOMAIN st["value"] : st["value"][n] \in <<{11, 13}, {12}, {13}>>[n]

\* Both consumers of a shared channel see the same stream, with every token
\* of each producer once and in order, and the producers in the order of the
\* index where there is one.
ConsumersAgree ==
  circuit[1] \in {"forkedSelect", "indexed"} =>
    /\ IsPrefix(st["left"], st["right"]) \/ IsPrefix(st["right"], st["left"])
    /\ \A o \in {"left", "right"}, i \in 1..2 :
         IsPrefix(SelectSeq(st[o], LAMBDA t : t[1] = i), Asked(i))
    /\ circuit[1] = "indexed" =>
         \A o \in {"left", "right"}, n \in 1..4 :
           n <= Len(st[o]) => st[o][n][1] = Turns[n] + 1

\* What was offered has got through and every request is answered.  The last
\* holder of a semaphore keeps its signal until somebody waits for it.
Finished ==
  /\ circuit[1] # "indexed" =>
       \A b \in Class("Input") : st[b].next > Len(net.kind[b].arg.tokens)
  /\ circuit[1] # "semaphore" => \A b \in Class("Server") : st[b].queue = << >>
  /\ CASE circuit[1] = "multiplexer" -> Len(st["answer1"]) = 3 /\ Len(st["answer2"]) = 3
       [] circuit[1] = "busWrite" -> Len(st["writeResp"]) = 5 /\ Len(st["cmd"]) = 2
                                       /\ st["go"] # << >>
       [] circuit[1] = "busRead" -> Len(st["readData"]) = 5
       [] circuit[1] = "register" -> Len(st["done1"]) = 2 /\ Len(st["done2"]) = 1
                                       /\ Len(st["value"]) = 2
       [] circuit[1] = "memory" -> Len(st["done"]) = 3 /\ Len(st["value"]) = 3
       [] circuit[1] = "forkedSelect" -> Len(st["left"]) = 6 /\ Len(st["right"]) = 6
       [] circuit[1] = "indexed" -> Len(st["left"]) = 4 /\ Len(st["right"]) = 4
       [] circuit[1] = "recombining" -> /\ st["left"] = << <<0, 4>>, <<0, 6>> >>
                                        /\ st["right"] = << <<1, 5>> >>
       [] OTHER -> TRUE

\* Everything arrives: no circuit ends up waiting for itself, however its
\* neighbours held back before.
EverythingArrives == <>Finished
=============================================================================
