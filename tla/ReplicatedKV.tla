---------------------------- MODULE ReplicatedKV ----------------------------
(***************************************************************************)
(* What the replicated store promises its clients (spec 8.1 Agreement,     *)
(* 8.4 Integrity, 8.5 Ordering, 8.8 one reply per batch): the cluster      *)
(* commits submitted batches into one log, each batch at most once, and    *)
(* every server applies a prefix of that log, in log order, without gaps.  *)
(***************************************************************************)
EXTENDS Sequences, SequencesExt

CONSTANTS Server, Batches

VARIABLES
  submitted,  \* the batches handed to the cluster so far
  log,        \* the committed batches, in commit order
  applied     \* applied[i]: the batches server i has applied, in order

vars == <<submitted, log, applied>>

Init ==
  /\ submitted = {}
  /\ log = <<>>
  /\ applied = [i \in Server |-> <<>>]

Submit(b) ==
  /\ b \notin submitted
  /\ submitted' = submitted \cup {b}
  /\ UNCHANGED <<log, applied>>

\* a submitted batch that is not yet in the log is committed after its end
Commit(b) ==
  /\ b \in submitted
  /\ b \notin ToSet(log)
  /\ log' = Append(log, b)
  /\ UNCHANGED <<submitted, applied>>

\* server i applies the next committed batch
Apply(i) ==
  /\ Len(applied[i]) < Len(log)
  /\ applied' = [applied EXCEPT ![i] = Append(@, log[Len(applied[i]) + 1])]
  /\ UNCHANGED <<submitted, log>>

Next ==
  \/ \E b \in Batches : Submit(b) \/ Commit(b)
  \/ \E i \in Server : Apply(i)

Spec == Init /\ [][Next]_vars
====
