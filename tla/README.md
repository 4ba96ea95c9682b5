# A TLA+ model of LLPM

LLPM compiles LLVM bitcode into latency-insensitive hardware. A design is a set of
modules; a module is a graph of blocks whose connections live in a `ConnectionDB`.
Passes rewrite that graph (refinement, simplification, control regions, forks,
pipeline registers) until every block can be printed as Verilog, and the printed
circuit moves tokens over ports with a *valid* bit one way and a *back-pressure* (bp)
bit the other way. Two things have to be right, and both are modelled here: the
circuits that move tokens, and the passes that edit the graph.

## 1. Inventory

| Part | Source | State | Operations | What is hard | What makes it correct |
|---|---|---|---|---|---|
| Pipeline registers, latches | `support/backends/verilog/pipeline.sv` | slots and valid bits | accept, deliver, hold, reset | accept and deliver in one cycle; full slots; a combinational path | nothing lost, repeated, reordered; stable offers; full rate |
| Fork | `fork.sv` | who took the token | offer to each output, let go | consumers ready in different cycles | every output every token, once, in order; never stuck |
| Select | `select.sv`, `idx_select.sv` | none | pick an input | choice moves while the token waits | chosen token goes out whole; documented starvation only |
| Memories, registers | `memory.sv`, `libraries/synthesis/memory.*`, `synthesize_mem.cpp` | cells, pending responses | read, write | simultaneous writes, stalled responses | one response per request |
| Control logic of the Verilog backend | `backends/verilog/synthesize.cpp` | stage valid bits, data registers, `Once` | join, stage, unjoin, route | inputs out of step, bubbles, stalls | waves stay apart; no deadlock |
| Connection database | `llpm/connection.*` | connections by source and by sink, use counts, owners, new blocks, change counter | connect, disconnect, remap, removeBlock, update | two indexes kept by hand, self-loops, callers that hold old lists | indexes agree, counts right, every change counted |
| Transformer | `util/transform.*` | none of its own | insertBetween, insertAfter, remove, trash, replace | several primitive edits make one operation | the netlist ends as the operation promises |
| Control regions | `llpm/control_region.*` | which blocks form a region; the schedule | seed, grow, absorb, dissolve, finalize, schedule | order of ports, stale queue entries, regions that undo each other | no deadlock introduced; growing ends; schedule balanced |
| Fork and latch synthesis | `passes/transforms/synthesize_forks.cpp`, `pipeline.cpp` | graph | fork each multi-sink port, latch untied outputs, break cycles | paths that fork and meet again | no deadlock, no torn token |
| Graph queries, caches | `analysis/*`, `util/cache.hpp` | search state, cached results | find cycles, consumers, constants, reordering | incomplete searches, stale caches | same answer as the definition |
| Modules, ports | `llpm/module.*`, `block.*`, `ports.*` | ports, dummies, owner | add and remove ports, flatten | two databases change together | flattening keeps the netlist |
| Refinery, elaboration | `refinery/*`, `llpm/design.cpp` | set of crude blocks, passes | refine until done | refiners that undo each other | ends; nothing unrefined is left |
| Core library, tags, semaphore | `libraries/core`, `libraries/synchronization` | | refine to primitives | composition of primitives | exclusion, order, one response per request |
| AXI4-lite | `libraries/noc/axi` | address routing | read, write | order of responses | response to its request |
| LLVM frontend | `frontends/llvm` | translation state | instructions, basic blocks, memory order | control tokens between basic blocks | every block started once per visit |
| Wedges, IP-XACT, Graphviz, names, files | `wedges`, `backends/ipxact`, `backends/graphviz`, `synthesis`, `util` | files | write text | | outside a state model |

How they interact: the passes call the `ConnectionDB` of a module (always through
`connect`, `disconnect`, `remap`, `removeBlock`) and read it through graph queries, some
of which are cached against its change counter. `FormControlRegionPass` moves blocks from
the module's database into a region's own. The Verilog backend prints one circuit per
block, so the interaction at run time is only through valid/bp pairs, all on one clock.
Everything in the compiler is single-threaded; the hard orders there are the orders of
ports and blocks, which are pointer orders and differ from run to run. In the hardware all
blocks step at once and the environment is free in every cycle.

## 2. Modules

Abstract specifications:

| Module | States |
|---|---|
| `LIChannel` | what a register, a latch, a stage chain and a whole control region promise: a bounded FIFO that may be reset |
| `Netlist` | a netlist and its edits, as callers of the database think of them |

The circuits, one clock edge a step:

| Module | Models | Notes |
|---|---|---|
| `PipelineReg` | `PipelineReg_DoubleWidth` | `q`, `q_valid`, `d_bp` as in the source; `Edge` is one clock edge with its branches `Drain`, `Fill`, `Stream`, `Hold`; `Reset` |
| `Latch` | `Latch` | `Release`, `Capture`, `Pass` in one `Clock`; upstream may withdraw an offer |
| `Fork` | `Fork` | any set of outputs; the producer's side is external |
| `LibraryCircuits` | the netlists that `refine` functions and synthesis passes build: semaphore, interface multiplexer with its tagger, register, finite array; and the passes between them and the printer (splits, latches, forks) | constant operators |
| `AXI4Lite` | both sides of `AXI4LiteSlaveAdapter::refine` | the address map is computed from the channels, as `assignPort` does |
| `LINetwork` | any such netlist as `VerilogSynthesizer` prints it | a cycle settles the combinational valid, data and bp signals in dependency order, then every register steps; `Input`, `Output` and `Server` are the neighbours |
| `RegionPipeline` | a control region from `finalize` to the clock: Waits and Forks out, `unifyOutput`, virtual forks, `PipelineFrequencyPass`, `schedule` with its depth visitor, and the circuit of `writeCRControl` | `phase` says how far the compiler is; `data` and `valid` are the registers of the circuit it made |

The compiler:

| Module | Models | Notes |
|---|---|---|
| `ConnectionDB` | `ConnectionDB` and `Transformer` | an operation puts its primitive calls in `calls`, each step runs one |
| `ControlRegion` | `FormControlRegionPass::runInternal`, `ControlRegion::grow` and `add` | a block is a node, a region a set of nodes |
| `Passes` | the optimizations of `Design::notify` in order: `PipelineDependents`, `LatchUntiedOutputs`, `SynthesizeForks`, `PipelineFrequency`, `PipelineCycles`, `CheckConnections` | the depth-first search of `FindCycle` is step by step: `queue`, `seen`, `stack` are those of `GraphSearch` |
| `Datapath` | types, the blocks of the libraries, and what the printed Verilog computes | a value is the number its bits spell |
| `Instructions` | LLVM instructions, what LLVM says they compute and what they refine to | `Denotation` is the value and the set of inputs waited for at each output |
| `Simplify` | `Refinery::refine`, then `SimplifyPass` until nothing changes | each transformation walks a snapshot of the blocks, in an order of addresses |
| `LLVMFunction` | `LLVMFunction::build`, `LLVMBasicBlock`, `LLVMControl`, and the network they make while calls go through it | `llvm` is LLVM's own execution of each call, a history |

`*_proofs` hold the theorems (section 5), `MC*` the instances for TLC.

Names follow the source. A variable that is not one of the source is commented as a
history variable or as the environment. An operator `F_Something` is `F` with a plausible
slip; no specification uses one. They show that a property can fail.

**Clocked modules.** One step of a model is one clock edge. The combinational wires are
operators of the state and of the inputs of that cycle (`d_bp`, `din_bp`, ...), so no order
between assignments is chosen by the model. `accepted` and `delivered` are histories
of what crossed each port; they are what the channel specification is about. Upstream data
and downstream bp are existentially quantified in every step.

**`LINetwork`.** `net` is the circuit's blocks, wires and settling order, fixed by `Init`; `st` holds what each block keeps: the slots of registers and latches, who took the
token of a fork, the cells of a memory, whether `Once` still has its token, and for the
neighbours the tokens offered so far, queued or received. In each cycle each neighbour decides whether it
offers and whether it takes. `Forward` and `Backward` say which signals a signal depends on;
the netlist has no combinational cycle, or the order is not defined and TLC says so.

**`ConnectionDB`.** The maps `_sourceIdx`, `_sinkIdx`, `_blockUseCounts`, the owner
of each block, `_newBlocks` and the change counter are the variables. Ports have types. `remap`, `removeBlock`
and the `Transformer` gather a list and then connect or disconnect entry by entry; `calls` is
what remains of that list, and the order is that of a `std::set` of pointers, so any. A call
whose assertion would fail, or that would throw, is not made: the program ends there, and
`NeverAborts` says that it does not happen, for the assertions, the check that a sink has one driver and the check
that the types agree. Its guards (`Fits`) are what the callers respect: they put ports together that have one type. The one
caller that does not is the removal of a Router in `SimplifyPass`, which `Simplify` has with its exception.
`Transformer::replace` has one caller too, and refuses what that one wants: `Simplify` models the refusal. The refinement mapping of `MCConnectionDB` maps the
database in the middle of an operation to `goal`, the netlist after the calls still to be
made, so an operation is one step of `Netlist` when it begins and stutters to its end.

**`ControlRegion`.** Graph, regions, and the search queue. The port order of the source is
replaced by any order. Ports with the same driver are one port, since
`existingInputValues` merges them. A block outside `Ops` is one that `BlockAllowed` refuses
or a dummy. Blocks of a region are single-valued: a block with tied outputs counts as one.

**`RegionPipeline`.** The refinement mapping to `LIChannel`: a firing is accepted when every input
has taken its token for it; a delivered value counts as the n-th result only when it was computed
from the n-th token of every input the outputs need, and as no result otherwise. So `ChannelSpec`
fails as soon as two paths that meet cross different numbers of registers.
Which outputs are too late for the clock is left open; the delays that decide it are not modelled.
A pass is one step, except that `finalize` takes out one Wait or Fork at a time, the depth visitor visits one wire
and `schedule` balances one block a step. `RegionsOK` is what a region is before: a netlist without loops or
registers, whose blocks have the ports their classes have, with an output. `constants` is what `FindConstants`
gives, `x_valid` who offers a token in the current cycle.

**`Passes`.** The visits of one pass change different wires, so one order stands for all, except in the
search for cycles, where any order of the starts and of the sinks is tried. `CheckOutputsPass` changes nothing and is not a step; it prints
an ERROR about each output of a block that fires them together that is not connected to a pipeline register (`checks.cpp:64`). The other
passes do not do what it asks for: `PipelineDependentsPass` connects such outputs to a join, and what is checked of them is
`DependentOutputsMeet`: they come together in one join, whatever was put in between. The count of
`SynthesizeForksPass` that starts uninitialized is the choice `unset`. `NetlistsOK` is what the other parts of the
compiler leave: ports exist, an input has one driver, a Split does not take apart its own record. `FedFromOutside`
says that no loop has its first token from inside the module; TLC evaluates it on the designs of all runs, and finding 3
is a design without it. `Grounded` says that each register, join, Split and the like gets its tokens from somewhere: its
inputs are driven, and no loop consists of such blocks alone, since no token would ever come out of it. It holds of the
designs of all runs.

**`Simplify`.** `phase` is the transformation under way, `consts` the constant blocks that `FindConstants` gave once,
before the loop: a block that becomes constant later is not among them. A visit that throws ends the run in the phase
`failed`. Two visits throw: an Extract cannot take the place of a Multiplexer with one data input, because `Transformer::replace`
refuses blocks whose ports are equally many (`Replaceable`), and a Router with one output cannot be removed,
because its driver has the selector too and `connect` throws when types differ (`BypassFits`). `Converges` says of the
programs `single` and `adapter`, which have such a block, that they always end there, and of `unread`, where nothing reads such a block,
that they may: it goes if its turn comes late enough.

**`MCNetwork`.** Nine circuits, each compiled with a clock frequency and without. The shared channel without a frequency
(`UnclockedCircuits`) is not in the run: section 4 says why. The register behind the Select of the interface multiplexer is put there by hand
(`RegisteredMultiplexer`): no pass is certain to insert it, with a frequency or without, and the circuit as it is
compiled is finding 1. The bus master writes when it likes, and has one read at a time under way.

**`LLVMFunction`.** `calls` in the request phase is the stack of `addInput` and `requestOutput`
calls under way; a block may be asked while it is half done. `current` and `next` are the block
that `buildRequests` reads and its next instruction. `carried` is the layout of each edge's
record, `queue` the tokens on it. `Verified` is what LLVM's verifier grants of the functions: names are defined once and
before they are used on every way (`Dominated`), a PHI has one value for each predecessor, the first block has none.
A block ends in a return or a branch of one or two ways; a switch is not modelled.

## 3. Runs

| Run | What it shows | Bounds and why they suffice |
|---|---|---|
| `pipeline_reg` | lossless ordered channel, no overrun, full rate, delivery | two data values tell an old token from a new one; five tokens, above the capacity of two, so every fill level is left and entered again; reset at any time |
| `fork` | multicast once and in order, no need for a common ready cycle | three outputs: one has taken the token, one takes it now, one refuses |
| `region_pipeline` | the schedule meets its assertions; the region with its registers is a channel; every firing comes out | three regions (paths of different lengths that meet and a block that is not used; a Wait behind a Fork; two outputs with a constant), each of which computes (`RegionsCompute`), registers behind any three outputs, so up to three stages: the first, an inner one and the last differ; three tokens on each input |
| `connection_db` | every series of edits of three blocks, self-loops included | one block has two inputs and one gives out another type than it takes; source, sink and inserted block of each transformation are distinct; one owner per module |
| `control_region` | all modules of three AND blocks, any order of ports | two blocks to make a region and a third to be absorbed, refused or stolen from a region; two outside drivers give different inputs |
| `network` | semaphore, tagged multiplexer, both sides of the AXI4-lite slave, register, memory, shared channels keep their promises | nine circuits with a clock and without; each client asks often enough (two to five tokens) to find the circuit empty, busy and full, and to find its own former requests in it; words of one and of two registers, cut and whole |
| `network_direct` | finding 1 | the multiplexer as it is compiled with a clock |
| `dataflow` | refinement and simplification keep the value of each output and what it waits for, in any order of visits, and converge, or throw where a program has a multiplexer or router of one | nineteen small basic blocks that between them have every instruction that refines and every kind of block the transformations visit for, save an Extract with an empty path, which nothing builds; three of them have blocks that make a visit throw; all values of two and three bits, so that signs and wrap-around occur. Netlists of more than `FreeOrder` = 4 blocks are visited from the ends of a topological order only |
| `dataflow_ashr` | finding 2 | one shift of two bits |
| `llvm_function` | what each block gets, the order on the edges, LLVM's values at each step, and every call answered | eight functions: a diamond, a loop whose PHIs swap, loops of one block with and without an end, nested loops, several returns, a repeated successor, a block that nothing leads to; two calls, two sets of arguments, values modulo 4; three slots an edge, so no edge is ever full and calls do not wait for each other |
| `passes` | the dataflow stays, one consumer each, every cycle broken, dependent outputs meet, termination | four designs (a loop a Router leaves, two nested loops, a region with two outputs, a record and a constant used twice), with and without a clock, one late output (`MaxSlow`) |
| `passes_once` | finding 3 | one loop fed by a Once |

Bounds in guards: `MaxTokens` (tokens a producer offers), `Wrap` (the change counter counts
modulo 4, not 2^64; the assumption `WrapWide` says it is wider than one call counts), `MaxLate`, `MaxSlow`,
`Calls`, `Slots`, `FreeOrder`, and `N` of `MCControlRegion`; no guard of the source is among
them. `CHECK_DEADLOCK FALSE` is set for `control_region` alone: that pass comes to its end.

**Fairness.** The clock ticks and the consumer is not stuck: `PipelineReg` and `RegionPipeline`
assume weak fairness of a clock edge on which downstream does not refuse, `Fork`
the same of each output by itself, never of two at once (a consumer that
refuses for ever stops any latency-insensitive circuit). Where a reset would wipe out the token
in question, the system is reset only finitely often. `LINetwork` assumes that cycles in which
everybody is willing come again and again as long as something can still move; whatever the
neighbours did in between, they cannot bring the circuit into a state it does not get out of.
`LLVMFunction` assumes weak fairness of each edge, since each is hardware of its own.
The passes are sequential code: weak fairness of the next step.
Nothing is assumed about arbiters or the order of ports.

## 4. Findings

1. `network_direct`. `PipelineDependentsPass` replaces a Split by a fork and connects it to the Split's driver
   (`pipeline.cpp:40-46`). For an interface multiplexer that is the Select of the clients, and no pass is certain to put
   a register between the two, clock frequency or not: `SynthesizeForksPass` registers only the forks it makes itself. A client that
   the Select favours may ask when one output of the fork has taken the old token, and a client gets the answer
   to another's request. A comment (`pipeline.cpp:175`) says that registers are needed for correctness only when
   there is a cycle; there is none.
2. `dataflow_ashr`. An arithmetic shift right is printed with `>>>` on operands that are not
   signed, which shifts in zeros.
3. `passes_once`. `FindCycle` starts at the module's inputs and at registers; a loop that a Once feeds is
   never visited and keeps no register, contrary to the comment that cycles are found and broken.

Seen while modelling, without a run of their own:

- Forks of `SynthesizeForksPass` get a register in front only when a clock frequency is given
  (`design_opts.cpp:133-134`), and none is by default. The fork of a shared channel then sits on its Select, and one consumer gets
  one producer's token, the other the other's: `ConsumersAgree` fails on `UnclockedCircuits`.
- `Transformer::replace` throws when the blocks have equally many inputs or outputs
  (`transform.cpp:69-76`), the contrary of what is meant; its caller, which is to replace multiplexers with one data
  input (`simplify.cpp:51-61`), always throws: program `single` of `dataflow`, an element of a vector of one at an index that arrives.
- "Routers with one output do nothing!" (`simplify.cpp:40`), but their input is a record of selector and data: removing
  one connects ports of different types, and `connect` throws (`connection.cpp:143-146`): program `adapter` of `dataflow`, the
  write side of an AXI4-lite slave with one register.
- `CheckOutputsPass` asks that dependent outputs "better be connected to pipeline regs" (`checks.cpp:64`, run at `design_opts.cpp:143`) and
  prints an ERROR about each that is not. `PipelineDependentsPass` connects them to a join (`pipeline.cpp:53-72`), and no pass puts a
  register in between unless such an output is too late for the clock. So every block with two dependent outputs in use gets
  the ERROR. The join is what makes these outputs safe (`DependentOutputsMeet`).
- `FindConsumers` keeps only inputs where a path ends and drops registers there (`graph_queries.cpp:402-409`), so outputs of a fork that
  meet in front of registers are not found to meet, contrary to the comment of `synthesize_forks.cpp:88`; the count of outputs that meet
  starts uninitialized as well (line 20). The deadlock the comment fears does not come of it in the circuit `recombining` of `network`: the
  outputs of a fork let their tokens go one by one, and everything arrives.
- `deregisterBlock` never erases a key of `_blockUseCounts` (`connection.cpp:48`), so blocks no longer in any
  connection are not freed, contrary to the comment of `connection.hpp:68-70`.
- A remap of a port without connections is forgotten (`connection.cpp:218`); `connection.hpp:305-307` says it is stored.
- `CouldReorderTokens` returns the contrary of its name (`graph_queries.cpp:171`).
- A second level of an Extract's path behind a Join ends in a type error (`simplify.cpp:105`).
- `synthesizeReg` remaps `read()` where a direct write is meant (`synthesize_mem.cpp:53`).
- A read of an AXI4-lite word that no channel has gets no response; reads in flight of different words may overtake
  each other (`axi4_lite.cpp:299`).
- Pipelined calls of a function may be answered in another order than they were made, and a loop that is full of
  calls which all go round again stands still: `EveryCallAnswered` is about edges with more slots than there are calls.

## 5. Theorems

Checked by TLAPS for every value of the constants:

| Module | Argument |
|---|---|
| `PipelineReg_proofs` | `Conservation`: an inductive invariant: what was accepted is what was delivered followed by the slots, and the second slot is used only behind the first. The type alone does not exclude a token in slot two with slot one empty, and from there the order is lost. `TypeCorrect`, `NoOverrun`, `Throughput` and `ImplementsChannel` follow |
| `Latch_proofs` | the same with one slot; `ImplementsChannel` needs that a captured token has not been delivered. The latch has no run of its own: it is checked as a node of `network` |
| `Fork_proofs` | an output that took the current token is one token ahead of `taken`; the others are level. `NoOrphanToken` excludes the state in which all of them are ahead. Any non-empty set of outputs |
| `ConnectionDB_proofs` | `IInv`: type correctness, the two indexes are the same relation, connections join ports of one type (`TypesAgree`), and a block with a positive use count belongs to the module; one lemma for `connect` and one for `disconnect`, since every step calls one, the other or none. `Counted`, `NoAbort` and `Refines` need the calls an operation has queued: `FullInv` adds that the counts are sums over the connections and that the series still to be made is legal, each call after those before it (`Legal`, `Cuts`, `Makes`) and every connection of one type (`Typed`). A step takes the head of a legal series and leaves a legal one (`TailLegal`) with the same outcome (`OutcomeKept`), so `goal`, the outcome, changes only when an operation begins. Any set of blocks, ports and types, any number of sinks, any order of the passes over sets |
| `ControlRegion_proofs` | `OutputsRely` by induction over `add`, with regions that are disjoint sets of ops as the strengthening: a block found as a sink brings no input, one found as a driver no output, and one found as both would close a cycle (`NotBoth`, from the assumption `GraphsOK` that no cycle consists of AND blocks alone). Paths are replaced by sets closed under the connections inside a region: what some drivers do not reach is the greatest closed set they do not feed. `AddsNoDeadlock` follows from `OutputsRely` without looking at the steps again: a cycle of regions would contain a cycle of blocks. Any module, any order of ports |
| `LLVMFunction_proofs` | `LiveValues`: by `BuildInv`. Nothing that is not live is asked for (`OnlyLive`), and what was asked for is there or a call under way will ask for it (`Answered`), so that when no call is left the inputs are a fixed point between the live values and themselves. Either half alone is not inductive: a call under way counts for what it will add. `AbortsForShape`: by `Dominated`, only arguments are ever asked of the first block. `Follow`: by `Wired`, both ends of an edge have one layout, and `RunInv`, a call has one token, which holds LLVM's values at its block. `Evaluate` is a recursive function; that it exists is by `Induction`, which has its set as a variable and not as an operator. Any verified function, number of calls and slots |
| `Passes_proofs` | `NetInv`: the netlist is well formed, and the name of a block says which pass made it for which output (`Fresh`, `Placed`), so that no two insertions collide. `OneConsumer` alone is not inductive: an output that still waits for its fork, and a register put before one, need `Consumers` and `Tight`. `SearchInv`: the stack is a path through blocks not met before (`Path`), each mark in the queue takes off one entry (`Levels`), and a block the search has left reaches only blocks left before it (`Left`). `CyclesBroken`: the passes before the search keep the loops fed from outside, because each new block belongs to one that was there (`Projects`); a search that ends without a cycle has left every block that is fed (`SearchEnds`), and blocks that nothing feeds are on no cycle. "On no cycle" is said with sets closed under the wires (`NoLoops`), and `ClosureWithin` brings it back to the search of the property. The theorem has `FedFromOutside` of the netlists as its hypothesis. `OutputsMeet` by `MeetInv`: what reads the outputs of such a block is said with sets of blocks closed under wires through registers (`MeetsAt`), so that an insertion is one lemma (`InsertMeets`) whichever pass makes it, and `ClosureClosed` brings it back to the recursive search of the property. `ValuesKept` by `ValueInv`: there is one way to give values to the outputs (`OneSolution`, since the netlist is `Grounded`; without it the recursive `Value` would be a choice among many), and it gives the inputs what they got before the passes. That the way stays the only one is what makes it inductive: `Remodeled` takes any values of the new netlist back to values of the old one. It is used for blocks that pass on (`PassedOnKeeps`: registers, latches, forks), for a join with its extracts, for a Split taken apart and for a driver that never fires. The theorem has `Grounded` of the netlists as its hypothesis |
| `RegionPipeline_proofs` | `ScheduleIsSound` by `Inv`. `NetInv`: the netlist stays well formed and without loops through every pass, and the names say which pass made a block (`Named`), so that no two insertions collide. `ScheduleInv`: the search keeps for each block the visits it had and the largest depth they brought, and no wire is taken twice or forgotten (`SearchOK`); `ScheduleSound` itself says nothing of a search under way. That search ends with every block visited through all its inputs because the netlist has ranks: the lowest block left out would have a driver left out. Then no wire goes back in depth, and a register put in by `Balance` never makes one too short for another (`BalanceOK`). `LateOK` and `Backed`: each stage has a register that the clock asked for, so there are no more stages than late outputs, and a region without inputs has none. `ImplementsChannel`, for any number of stages: `Flow`, the outputs are computed from the same inputs after each pass (`Feeds`, one lemma for each way to edit a netlist); and `RunInv`, there are counts `passed`, one for each stage, that differ by one where the stage is full, and the registers of a full stage hold the tokens with the number of its count, and no others (`StageShows`, by the ranks again, because every path to a block of a stage crosses the same stages). The channel's capacity is the sum over the stages (`PassedBounds`). The theorem has `Computes` of the regions as its hypothesis: an output depends on an input; else there is no token to count. TLC evaluates it on the regions of the run. Any region, any late outputs, any number of tokens |

The assumptions are the named `ASSUME`s of each module (types of constants). TLC evaluates
them in the runs.

Only model-checked: liveness (`EventuallyDelivered`, `InputNeverStuck`, `EverythingArrives`, `EveryCallAnswered`,
`Converges`, `Terminates`), which needs `ENABLED` or a well-founded argument about recursive definitions. Everything about `LINetwork`, whose
circuits are constants that TLC evaluates, and about `Datapath`, `Instructions` and `Simplify`, whose definitions are
recursive.

## 6. Not modelled, and the plan

- `ContainerModule` ports, flattening over two `ConnectionDB`s, `ConnectionDB::update`, and the cache of `hasCycle` on one database's counter.
  Two operations of the default flow edit two databases at once: `unifyOutput`, which `RegionPipeline` has, and `ControlRegion::add`
  (`control_region.cpp:308-373`), of which `ControlRegion` keeps which block goes where, not the ports it moves.
- What `Transformer::replace` does when it does not throw: no caller reaches it.
- The sums of delays in `PipelineFrequencyPass`: any choice of late outputs covers them.
- `TokenOrderAnalysis` and the tagger it would choose for a server that reorders, for which the source has only a warning.
- The priorities between refiner collections, and the bound of 100 passes in `Design::elaborate`.
- `translate.cpp`: loading bitcode, LLVM's own passes, elevated arguments.
- Reset in the middle of a network's work, other than in `PipelineReg`, `Latch`, `Fork` and `RegionPipeline`.
- Left out for good: text output (Verilog names, IP-XACT, Graphviz, C++ wrappers), command line and
  file handling, LLVM itself, the generated simulators.
