------------------------------ MODULE Netlist -------------------------------
(***************************************************************************)
(* What the editing operations of ConnectionDB and Transformer promise: a  *)
(* set of connections, every input driven by at most one output, and each  *)
(* operation one step that replaces the connections it is about and leaves *)
(* every other one alone.                                                  *)
(***************************************************************************)
CONSTANTS
  OutPorts, InPorts,
  Owner,             \* the block a port belongs to
  None               \* the null port

VARIABLE conns       \* SUBSET (OutPorts \X InPorts)

Driven(i)  == \E o \in OutPorts : <<o, i>> \in conns
Sinks(o)   == {i \in InPorts : <<o, i>> \in conns}
From(o)    == {o} \X Sinks(o)
Touching(b) == {c \in conns : b \in {Owner[c[1]], Owner[c[2]]}}

Init == conns = {}

Connect(o, i)    == ~Driven(i) /\ conns' = conns \cup {<<o, i>>}
Disconnect(o, i) == <<o, i>> \in conns /\ conns' = conns \ {<<o, i>>}

\* The driver of i drives the ports of S instead.
RemapIn(o, i, S) ==
  /\ <<o, i>> \in conns
  /\ conns' = (conns \ {<<o, i>>}) \cup ({o} \X S)

\* What o drives is driven by n instead; by nothing when n is null.
RemapOut(o, n) ==
  conns' = (conns \ From(o)) \cup (IF n = None THEN {} ELSE {n} \X Sinks(o))

\* The block with ports (nip, nop) sits in the middle of one connection.
InsertBetween(o, i, nip, nop) ==
  /\ <<o, i>> \in conns
  /\ conns' = (conns \ {<<o, i>>}) \cup {<<o, nip>>, <<nop, i>>}

\* The block with ports (nip, nop) sits between o and all that o drives.
InsertAfter(o, nip, nop) ==
  conns' = (conns \ From(o)) \cup ({nop} \X Sinks(o)) \cup {<<o, nip>>}

\* A one-input one-output block disappears and its driver, unless that is
\* the block itself, takes over what it drove.
Bypass(ip, op) ==
  conns' = (conns \ Touching(Owner[ip]))
             \cup {c \in OutPorts \X InPorts :
                     /\ <<c[1], ip>> \in conns /\ Owner[c[1]] # Owner[ip]
                     /\ <<op, c[2]>> \in conns}

Detach(b) == conns' = conns \ Touching(b)

Next ==
  \/ \E o \in OutPorts, i \in InPorts :
       \/ Connect(o, i)
       \/ Disconnect(o, i)
       \/ \E S \in SUBSET InPorts : RemapIn(o, i, S)
       \/ \E nip \in InPorts, nop \in OutPorts : InsertBetween(o, i, nip, nop)
       \/ Bypass(i, o)
  \/ \E o \in OutPorts, n \in OutPorts \cup {None} : RemapOut(o, n)
  \/ \E o, nop \in OutPorts, nip \in InPorts : InsertAfter(o, nip, nop)
  \/ \E p \in OutPorts \cup InPorts : Detach(Owner[p])

Spec == Init /\ [][Next]_conns
=============================================================================
