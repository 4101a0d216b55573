--------------------------- MODULE SlotConsensus ---------------------------
(***************************************************************************)
(* What one ledger slot promises (spec 8.1 Agreement, 8.4 Integrity): the  *)
(* servers learn one decision for the slot, and that decision is either    *)
(* the null object or a request some server proposed for the slot.  A      *)
(* decision, once learned, never changes.                                  *)
(***************************************************************************)
CONSTANTS Server, Values, Null, None

VARIABLES
  proposed,  \* the requests proposed for the slot so far
  chosen,    \* the slot's decision, None until the first server learns it
  learned    \* learned[i]: the decision server i recorded, or None

vars == <<proposed, chosen, learned>>

Init ==
  /\ proposed = {}
  /\ chosen = None
  /\ learned = [i \in Server |-> None]

Propose(v) ==
  /\ proposed' = proposed \cup {v}
  /\ UNCHANGED <<chosen, learned>>

\* server i learns the decision; the first server to learn one fixes it
Learn(i, v) ==
  /\ learned[i] = None
  /\ IF chosen = None THEN v \in proposed \cup {Null} ELSE v = chosen
  /\ chosen' = v
  /\ learned' = [learned EXCEPT ![i] = v]
  /\ UNCHANGED proposed

Next ==
  \/ \E v \in Values : Propose(v)
  \/ \E i \in Server, v \in Values \cup {Null} : Learn(i, v)

Spec == Init /\ [][Next]_vars
====
