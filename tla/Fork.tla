-------------------------------- MODULE Fork --------------------------------
(***************************************************************************)
(* The Fork of support/backends/verilog/fork.sv, which the backend prints  *)
(* for every real (not virtual) fork that SynthesizeForksPass puts on an   *)
(* output port with several sinks.  There is no data register: dout is     *)
(* wired to din, and one bit per output remembers that the output already  *)
(* has the token that din still holds.                                     *)
(*                                                                         *)
(* The paths from din to dout and from dout_bp to din_bp are combinational.*)
(* din and din_valid are what upstream drives in the current cycle and a   *)
(* step is the clock edge that ends it.  Spec assumes the upstream that    *)
(* the handshake asks for (a refused token stays on the port); ForkedSelect*)
(* composes the fork with an upstream that does not keep to it.            *)
(***************************************************************************)
EXTENDS Naturals, Sequences

CONSTANTS
  Data,        \* the values a token may carry
  Outputs,     \* the output ports
  MaxTokens    \* bound: how many tokens upstream offers after a reset

ASSUME DataNonEmpty == Data # {}
ASSUME OutputsNonEmpty == Outputs # {}
ASSUME MaxTokensNat == MaxTokens \in Nat

VARIABLES
  previouslyAccepted,   \* one bit per output
  din, din_valid,       \* what upstream drives in the current cycle
  taken,                \* history: tokens upstream got rid of since reset
  received              \* history: tokens each output delivered since reset

vars == <<previouslyAccepted, din, din_valid, taken, received>>

TypeOK ==
  /\ previouslyAccepted \in [Outputs -> BOOLEAN]
  /\ din \in Data /\ din_valid \in BOOLEAN
  /\ taken \in Seq(Data)
  /\ received \in [Outputs -> Seq(Data)]

-----------------------------------------------------------------------------
(* The combinational logic, for a given back-pressure of the outputs.      *)

\* Mutant: an output that has the token is offered it again.
dout_valid_Unmasked == [o \in Outputs |-> din_valid]

\* Mutant: the bits are reduced to one.
dout_valid_Reduced ==
  [o \in Outputs |-> din_valid /\ \A p \in Outputs : ~previouslyAccepted[p]]

dout_valid == [o \in Outputs |-> din_valid /\ ~previouslyAccepted[o]]

Accepted(dout_bp) ==
  [o \in Outputs |-> (~dout_bp[o] /\ dout_valid[o]) \/ previouslyAccepted[o]]

din_bp(dout_bp) == \E o \in Outputs : ~Accepted(dout_bp)[o]

\* Mutant: the bits are not cleared when the token leaves.
Clock_NoClear(dout_bp) ==
  /\ previouslyAccepted' = Accepted(dout_bp)
  /\ taken' = IF din_valid /\ ~din_bp(dout_bp) THEN Append(taken, din) ELSE taken
  /\ received' = [o \in Outputs |->
       IF dout_valid[o] /\ ~dout_bp[o] THEN Append(received[o], din)
                                       ELSE received[o]]

\* What the register does at the edge, and what the ports transfer.
Clock(dout_bp) ==
  /\ previouslyAccepted' =
       IF din_valid /\ ~din_bp(dout_bp)
       THEN [o \in Outputs |-> FALSE]
       ELSE Accepted(dout_bp)
  /\ taken' = IF din_valid /\ ~din_bp(dout_bp) THEN Append(taken, din) ELSE taken
  /\ received' = [o \in Outputs |->
       IF dout_valid[o] /\ ~dout_bp[o] THEN Append(received[o], din)
                                       ELSE received[o]]

ClearRegisters ==
  /\ previouslyAccepted' = [o \in Outputs |-> FALSE]
  /\ taken' = << >>
  /\ received' = [o \in Outputs |-> << >>]

-----------------------------------------------------------------------------
(* The fork with a well-behaved upstream.                                  *)

\* A new token, or none, on the input port.
Drive ==
  /\ din' \in Data
  /\ din_valid' \in BOOLEAN
  /\ din_valid' => Len(taken') < MaxTokens

Init ==
  /\ previouslyAccepted = [o \in Outputs |-> FALSE]
  /\ din \in Data
  /\ din_valid \in {v \in BOOLEAN : v => MaxTokens > 0}
  /\ taken = << >>
  /\ received = [o \in Outputs |-> << >>]

Reset == ClearRegisters /\ Drive

\* The token on the input port leaves, or there is none: upstream moves on.
Advance(dout_bp) ==
  /\ din_valid => ~din_bp(dout_bp)
  /\ Clock(dout_bp)
  /\ Drive

\* The token is refused: upstream keeps it on the port.
Stall(dout_bp) ==
  /\ din_valid /\ din_bp(dout_bp)
  /\ Clock(dout_bp)
  /\ UNCHANGED <<din, din_valid>>

Edge(dout_bp) == Advance(dout_bp) \/ Stall(dout_bp)

Next == Reset \/ (\E dout_bp \in [Outputs -> BOOLEAN] : Edge(dout_bp))

Spec == Init /\ [][Next]_vars

\* The consumer of output o is not stuck.
ReadyEdge(o) == \E dout_bp \in [Outputs -> BOOLEAN] : ~dout_bp[o] /\ Edge(dout_bp)

\* Every consumer lowers its back-pressure again and again, but no two of them
\* need ever do so in the same cycle.
\* The circuit is not reset for ever.
FairSpec ==
  /\ Spec
  /\ \A o \in Outputs : WF_vars(ReadyEdge(o))
  /\ <>[][~Reset]_vars

-----------------------------------------------------------------------------
(* Properties                                                              *)

\* What an output has delivered: the tokens upstream got rid of, then the
\* current one if the output has already accepted it.
Expected(o) == IF previouslyAccepted[o] THEN Append(taken, din) ELSE taken

\* Every output delivers every token exactly once and in order, however the
\* consumers' refusals interleave.
EveryOutputEveryToken == \A o \in Outputs : received[o] = Expected(o)

\* A token leaves the input port only when the last output gets it: the port
\* never holds a token that every output already has, which would never fire.
NeverAllAccepted == \E o \in Outputs : ~previouslyAccepted[o]

\* No set of consumers has to be ready at once for a token to move on: if each
\* is ready again and again, each in its own time, the n-th token does not
\* stay on the input port for ever.
InputNeverStuck ==
  \A n \in 1..MaxTokens :
    (din_valid /\ Len(taken) = n - 1) ~> (~din_valid \/ Len(taken) # n - 1)
=============================================================================
