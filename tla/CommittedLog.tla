---------------------------- MODULE CommittedLog ----------------------------
(***************************************************************************)
(* What the chain promises its clients, whatever its length: one log of    *)
(* accepted writes, of which a growing prefix is visible to readers, and a *)
(* write is answered only when readers already see it.                     *)
(***************************************************************************)
EXTENDS Naturals, Sequences, Functions

CONSTANT Writes     \* the write requests clients may send, each sent once

VARIABLES
  log,              \* the accepted writes, in the order that is final
  visible,          \* the part of the log that reads are served from
  answered          \* the writes whose client has its answer

vars == <<log, visible, answered>>

Init ==
  /\ log = <<>>
  /\ visible = <<>>
  /\ answered = {}

(* A write gets its place in the order, once. *)
Accept(w) ==
  /\ w \notin Range(log)
  /\ log' = Append(log, w)
  /\ UNCHANGED <<visible, answered>>

(* Readers come to see the next write of the order. *)
Commit ==
  /\ Len(visible) < Len(log)
  /\ visible' = Append(visible, log[Len(visible) + 1])
  /\ UNCHANGED <<log, answered>>

(* A client is told of its write after readers can see it. *)
Answer(w) ==
  /\ w \in Range(visible)
  /\ answered' = answered \cup {w}
  /\ UNCHANGED <<log, visible>>

Next == Commit \/ \E w \in Writes : Accept(w) \/ Answer(w)

Spec == Init /\ [][Next]_vars
=============================================================================
