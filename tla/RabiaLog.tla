------------------------------ MODULE RabiaLog ------------------------------
(***************************************************************************)
(* The log of Rabia: N servers, each with a proxy, a pending request queue *)
(* and a ring of L ledger slots, deciding a sequence of slots.             *)
(*                                                                         *)
(* A proxy (proxy.go CmdReceiver) batches client commands into a consensus *)
(* object (ProId = its server, ProSeq = its counter) and broadcasts it as  *)
(* a ClientRequest; every MsgHandler pushes it into its server's priority  *)
(* queue (QPush).  The executor pops the least object (getRequest), skips  *)
(* it if its identity is in Discard, or else takes the next SvrSeq,        *)
(* claims the ring slot SvrSeq % L for term SvrSeq \div L                  *)
(* (UpdateTermIfNecessary) and proposes the object.  When the slot         *)
(* decides, epilogue records the decision and puts its own proposal back   *)
(* if it lost, marking the winner's identity in Discard.  KVSExecutor      *)
(* walks the ring in SvrSeq order and applies each decided batch.  The     *)
(* MsgHandler also claims a slot for the next term as soon as a peer's     *)
(* message for it arrives, which is how a lagging server's ring is reset   *)
(* under its executor and its KVSExecutor.                                 *)
(*                                                                         *)
(* How one slot decides is RabiaSlot's business; here a slot decides as    *)
(* SlotConsensus allows and RabiaSlot was checked to do: the first         *)
(* decision is null or an object a majority proposed, once n-f servers     *)
(* have proposed, and every later server takes the same decision.          *)
(***************************************************************************)
EXTENDS Integers, Sequences, SequencesExt, FiniteSets, Bags, BagsExt

CONSTANTS
  N,         \* Conf.NServers; servers (and proxies) are 0 .. N-1
  F,         \* Conf.NFaulty
  L,         \* Conf.LenLedger, the ring size
  Proxy,     \* the servers whose proxies have clients connected
  Kvs,       \* the servers whose KVSExecutor is run (each reads only
             \* its own server's ring, so the others' need not be)
  MaxBatch,  \* bound: batches each of those proxies emits
  MaxSeq,    \* bound: the last SvrSeq an executor may take
  PropReqs   \* whether peers' ProposalRequests reach the MsgHandler

ASSUME N \in Nat \ {0} /\ F \in Nat /\ 2 * F < N
ASSUME L \in Nat \ {0} /\ Proxy \subseteq 0 .. N - 1 /\ Kvs \subseteq 0 .. N - 1 /\ MaxBatch \in Nat /\ MaxSeq \in Nat /\ PropReqs \in BOOLEAN

Server == 0 .. N - 1
Seqs   == 0 .. MaxSeq

\* config.go CalcConstants
NMinusF  == N - F
Majority == N \div 2 + 1

(***************************************************************************)
(* Consensus objects.  Identity is (proId, proSeq) (ProxySeqIdEqual,       *)
(* GetIdSeq); payload says whether the object carries client commands.     *)
(* Go's zero ConsensusObj{} has the identity (0, 0) of proxy 0's first     *)
(* batch but no commands.                                                  *)
(***************************************************************************)
Batch(p, k) == [proId |-> p, proSeq |-> k, isNull |-> FALSE, payload |-> TRUE]
Batches     == {Batch(p, k) : p \in Proxy, k \in 0 .. MaxBatch - 1}
ZeroObj     == [proId |-> 0, proSeq |-> 0, isNull |-> FALSE, payload |-> FALSE]
NullObj     == [proId |-> 0, proSeq |-> 0, isNull |-> TRUE, payload |-> FALSE]
NoDec       == [proId |-> -1, proSeq |-> -1, isNull |-> FALSE, payload |-> FALSE]
Obj         == Batches \cup {ZeroObj}

Id(o)        == <<o.proId, o.proSeq>>
IdEq(a, b)   == Id(a) = Id(b)
IdLess(a, b) == \/ a.proId < b.proId
                \/ a.proId = b.proId /\ a.proSeq < b.proSeq

\* Slot.Reset, reduced to the fields the log reads
FreshSlot(t) == [term |-> t, isDone |-> FALSE, decision |-> ZeroObj, myProposal |-> ZeroObj]

VARIABLES
  creq,      \* creq[<<p, i>>]: ClientRequests from proxy p on their way to server i
  proSeq,    \* proSeq[p]: CmdReceiver's ProSeq counter
  queue,     \* queue[i]: the PQueue, a bag of objects
  discard,   \* discard[i]: the identities in Consensus.Discard
  svrSeq,    \* svrSeq[i]: Consensus.SvrSeq (-1 before the first slot)
  epc,       \* epc[i]: where server i's executor is
  ledger,    \* ledger[i][x]: ring slot x of server i
  kvsSeq,    \* kvsSeq[i]: Proxy.CurrSeq
  kpc,       \* kpc[i]: whether KVSExecutor is checking the slot or reading it
  applied,   \* applied[i]: the decisions KVSExecutor of server i applied, in order
  prop,      \* prop[s][i]: what server i proposed for SvrSeq s (history)
  decided,   \* decided[s]: the decision of SvrSeq s, NoDec until there is one
  hpc,       \* hpc[i]: MsgHandler idle, answering a ProposalRequest, or panicked
  hreq       \* hreq[i]: the SvrSeq of the ProposalRequest it is answering (0 when idle)

vars == <<creq, proSeq, queue, discard, svrSeq, epc, ledger, kvsSeq, kpc, applied, prop, decided, hpc, hreq>>

Init ==
  /\ creq    = [e \in Server \X Server |-> <<>>]
  /\ proSeq  = [p \in Server |-> 0]
  /\ queue   = [i \in Server |-> EmptyBag]
  /\ discard = [i \in Server |-> {}]
  /\ svrSeq  = [i \in Server |-> -1]
  /\ epc     = [i \in Server |-> "get"]
  /\ ledger  = [i \in Server |-> [x \in 0 .. L - 1 |-> FreshSlot(0)]]
  /\ kvsSeq  = [i \in Server |-> 0]
  /\ kpc     = [i \in Server |-> "check"]
  /\ applied = [i \in Server |-> <<>>]
  /\ prop    = [s \in Seqs |-> [i \in Server |-> NoDec]]
  /\ decided = [s \in Seqs |-> NoDec]
  /\ hpc     = [i \in Server |-> "idle"]
  /\ hreq    = [i \in Server |-> 0]

Slot(i, s) == ledger[i][s % L]
TermOf(s)  == s \div L

\* IsTermMatched(seq) on server i (PanicTermNotMatched panics when false)
IsTermMatched(i, s) == Slot(i, s).term = TermOf(s)

\* UpdateTermIfNecessary(seq, pan) on server i: seq's term is "bad" when it
\* is neither the slot's term nor the next one; otherwise the ring after it
BadTerm(i, s) == TermOf(s) \notin {Slot(i, s).term, Slot(i, s).term + 1}
UpdateTerm(i, s) ==
  IF TermOf(s) = Slot(i, s).term + 1
  THEN [ledger[i] EXCEPT ![s % L] = FreshSlot(TermOf(s))]
  ELSE ledger[i]

(***************************************************************************)
(* Proxy and MsgHandler.                                                   *)
(***************************************************************************)
\* CmdReceiver emits batch ProSeq (full or on the batch timer); MsgRouter and
\* MsgSerializer broadcast it to every server, this one included
ProxyBatch(p) ==
  /\ proSeq[p] < MaxBatch
  /\ creq' = [e \in DOMAIN creq |->
                IF e[1] = p THEN Append(creq[e], Batch(p, proSeq[p])) ELSE creq[e]]
  /\ proSeq' = [proSeq EXCEPT ![p] = @ + 1]
  /\ UNCHANGED <<queue, discard, svrSeq, epc, ledger, kvsSeq, kpc, applied, prop, decided, hpc, hreq>>

\* MsgHandler, case ClientRequest: QPush
RecvClientRequest(p, i) ==
  /\ hpc[i] = "idle"
  /\ creq[<<p, i>>] # <<>>
  /\ queue' = [queue EXCEPT ![i] = BagAdd(@, Head(creq[<<p, i>>]))]
  /\ creq' = [creq EXCEPT ![<<p, i>>] = Tail(@)]
  /\ UNCHANGED <<proSeq, discard, svrSeq, epc, ledger, kvsSeq, kpc, applied, prop, decided, hpc, hreq>>

\* binConMsgHandling's UpdateTermIfNecessary(seq, false) on a peer's
\* Proposal/State/Vote/Decision for SvrSeq s: a message one term ahead of
\* the ring slot resets it for that term (others leave the ring alone)
HandlerClaim(i, s) ==
  /\ hpc[i] = "idle"
  /\ \E j \in Server \ {i} : prop[s][j] # NoDec
  /\ TermOf(s) = Slot(i, s).term + 1
  /\ ledger' = [ledger EXCEPT ![i] = UpdateTerm(i, s)]
  /\ UNCHANGED <<creq, proSeq, queue, discard, svrSeq, epc, kvsSeq, kpc, applied, prop, decided, hpc, hreq>>

\* mutant: the MsgHandler answers without the IsTermMatched test
RecvProposalRequestNoMatch(i, s) ==
  /\ hpc[i] = "idle"
  /\ \E j \in Server \ {i} : epc[j] = "slot" /\ svrSeq[j] = s
  /\ hpc' = [hpc EXCEPT ![i] = "answer"]
  /\ hreq' = [hreq EXCEPT ![i] = s]
  /\ UNCHANGED <<creq, proSeq, queue, discard, svrSeq, epc, ledger, kvsSeq, kpc, applied, prop, decided>>

\* MsgHandler, case ProposalRequest for SvrSeq s from a peer blocked in
\* requestProposalAndWait on s: IsTermMatched(s), or drop it ...
RecvProposalRequest(i, s) ==
  /\ hpc[i] = "idle"
  /\ \E j \in Server \ {i} : epc[j] = "slot" /\ svrSeq[j] = s
  /\ IsTermMatched(i, s)
  /\ hpc' = [hpc EXCEPT ![i] = "answer"]
  /\ hreq' = [hreq EXCEPT ![i] = s]
  /\ UNCHANGED <<creq, proSeq, queue, discard, svrSeq, epc, ledger, kvsSeq, kpc, applied, prop, decided>>

\* ... then HasEnoughMsg(0, 1), RecvProposalsMajT() and genProposalReply's
\* PanicTermNotMatched read the slot again.  If getRequest has reset it in
\* between, HasEnoughMsg is false on the fresh slot and the request is
\* dropped, or, when the old slot had n-f proposals, the reset fell after
\* HasEnoughMsg and RecvProposalsMajT indexes an empty RecvProposals or
\* PanicTermNotMatched fires: the handler panics.
AnswerProposalRequest(i) ==
  LET s == hreq[i]
  IN  /\ hpc[i] = "answer"
      /\ \/ IsTermMatched(i, s) /\ hpc' = [hpc EXCEPT ![i] = "idle"]
         \/ /\ ~IsTermMatched(i, s)
            /\ \E out \in IF Cardinality({j \in Server : prop[s][j] # NoDec}) >= NMinusF
                          THEN {"idle", "panicked"} ELSE {"idle"} :
                 hpc' = [hpc EXCEPT ![i] = out]
      /\ hreq' = [hreq EXCEPT ![i] = 0]
      /\ UNCHANGED <<creq, proSeq, queue, discard, svrSeq, epc, ledger, kvsSeq, kpc, applied, prop, decided>>

(***************************************************************************)
(* Executor.                                                               *)
(***************************************************************************)
\* the objects heap.Pop may return: the least by ProxySeqIdLessThan
QMin(q) == {o \in BagToSet(q) : \A o2 \in BagToSet(q) : ~IdLess(o2, o)}

\* getRequest: pop; a discarded identity is dropped, anything else is
\* proposed for the next SvrSeq after UpdateTermIfNecessary(seq, true),
\* which panics on a slot more than one term away
GetRequest(i) ==
  /\ epc[i] = "get"
  /\ \E o \in QMin(queue[i]) :
       /\ queue' = [queue EXCEPT ![i] = BagRemove(@, o)]
       /\ IF Id(o) \in discard[i]
          THEN /\ discard' = [discard EXCEPT ![i] = @ \ {Id(o)}]
               /\ UNCHANGED <<svrSeq, epc, ledger, prop>>
          ELSE LET s == svrSeq[i] + 1
               IN  /\ s <= MaxSeq
                   /\ svrSeq' = [svrSeq EXCEPT ![i] = s]
                   /\ IF BadTerm(i, s)
                      THEN /\ epc' = [epc EXCEPT ![i] = "panicked"]
                           /\ UNCHANGED <<ledger, prop>>
                      ELSE /\ ledger' = [ledger EXCEPT ![i] =
                                          [UpdateTerm(i, s) EXCEPT ![s % L].myProposal = o]]
                           /\ prop' = [prop EXCEPT ![s][i] = o]
                           /\ epc' = [epc EXCEPT ![i] = "slot"]
                   /\ UNCHANGED discard
  /\ UNCHANGED <<creq, proSeq, kvsSeq, kpc, applied, decided, hpc, hreq>>

\* what the slot may decide for SvrSeq s: the decision already taken, or,
\* once n-f servers have proposed, null or an object a majority proposed
SlotOutcomes(s) ==
  LET in    == {j \in Server : prop[s][j] # NoDec}
      votes(o) == Cardinality({j \in in : IdEq(prop[s][j], o)})
  IN  IF decided[s] # NoDec THEN {decided[s]}
      ELSE IF Cardinality(in) >= NMinusF
           THEN {NullObj} \cup {prop[s][j] : j \in {k \in in : votes(prop[s][k]) >= Majority}}
           ELSE {}

\* Proposal to epilogue's PanicTermNotMatched: wait() returns on the
\* slot's decision (the first server to decide picks it, the others learn
\* it).  If the MsgHandler has reset the ring slot for a later term in the
\* meantime, the executor is either blocked on the old mailbox (Reset made
\* a new channel) or panics in a PanicTermNotMatched.
\* a PanicTermNotMatched on the way, or a wait() on a mailbox nobody
\* feeds: the old one after a Reset, or one whose slot is already IsDone
\* (binConMsgHandling drops every message for a done slot)
Halts(i, s) ==
  IF ~IsTermMatched(i, s) THEN {"stuck", "panicked"}
  ELSE IF Slot(i, s).isDone THEN {"stuck"} ELSE {}

DecideSlot(i) ==
  LET s == svrSeq[i]
  IN  /\ epc[i] = "slot"
      /\ IF Halts(i, s) # {}
         THEN /\ \E out \in Halts(i, s) : epc' = [epc EXCEPT ![i] = out]
              /\ UNCHANGED decided
         ELSE \E v \in SlotOutcomes(s) :
                /\ decided' = [decided EXCEPT ![s] = v]
                /\ epc' = [epc EXCEPT ![i] = "record"]
      /\ UNCHANGED <<creq, proSeq, queue, discard, svrSeq, ledger, kvsSeq, kpc, applied, prop, hpc, hreq>>

\* mutant: epilogue does not put a null slot's proposal back
EpilogueRecordNullKept(i) ==
  LET s   == svrSeq[i]
      dec == decided[s]
  IN  /\ epc[i] = "record"
      /\ ledger' = [ledger EXCEPT ![i][s % L].decision = dec, ![i][s % L].isDone = TRUE]
      /\ epc' = [epc EXCEPT ![i] =
                   IF ~dec.isNull /\ ~IdEq(dec, Slot(i, s).myProposal) THEN "putBack" ELSE "get"]
      /\ UNCHANGED <<creq, proSeq, queue, discard, svrSeq, kvsSeq, kpc, applied, prop, decided, hpc, hreq>>

\* the rest of epilogue: record the decision in the ring slot (whatever
\* term it now holds), and compare it with MyProposal read from that slot
EpilogueRecord(i) ==
  LET s   == svrSeq[i]
      dec == decided[s]
  IN  /\ epc[i] = "record"
      /\ ledger' = [ledger EXCEPT ![i][s % L].decision = dec, ![i][s % L].isDone = TRUE]
      /\ epc' = [epc EXCEPT ![i] =
                   IF dec.isNull \/ ~IdEq(dec, Slot(i, s).myProposal) THEN "putBack" ELSE "get"]
      /\ UNCHANGED <<creq, proSeq, queue, discard, svrSeq, kvsSeq, kpc, applied, prop, decided, hpc, hreq>>

\* putBackMyProposal: PanicTermNotMatched(seq) ...
PutBackCheck(i) ==
  /\ epc[i] = "putBack"
  /\ epc' = [epc EXCEPT ![i] = IF IsTermMatched(i, svrSeq[i])
                               THEN "putBackRead" ELSE "panicked"]
  /\ UNCHANGED <<creq, proSeq, queue, discard, svrSeq, ledger, kvsSeq, kpc, applied, prop, decided, hpc, hreq>>

\* mutant: putBackMyProposal pushes the slot's Decision, not MyProposal
PutBackReadDecision(i) ==
  LET s   == svrSeq[i]
      dec == decided[s]
  IN  /\ epc[i] = "putBackRead"
      /\ queue' = [queue EXCEPT ![i] = BagAdd(@, Slot(i, s).decision)]
      /\ discard' = [discard EXCEPT ![i] = IF dec.isNull THEN @ ELSE @ \cup {Id(dec)}]
      /\ epc' = [epc EXCEPT ![i] = "get"]
      /\ UNCHANGED <<creq, proSeq, svrSeq, ledger, kvsSeq, kpc, applied, prop, decided, hpc, hreq>>

\* ... then QPush(MyProposal) read from the ring slot as it is now, and for
\* a lost slot Discard[dec.GetIdSeq()] = true
PutBackRead(i) ==
  LET s   == svrSeq[i]
      dec == decided[s]
  IN  /\ epc[i] = "putBackRead"
      /\ queue' = [queue EXCEPT ![i] = BagAdd(@, Slot(i, s).myProposal)]
      /\ discard' = [discard EXCEPT ![i] = IF dec.isNull THEN @ ELSE @ \cup {Id(dec)}]
      /\ epc' = [epc EXCEPT ![i] = "get"]
      /\ UNCHANGED <<creq, proSeq, svrSeq, ledger, kvsSeq, kpc, applied, prop, decided, hpc, hreq>>

(***************************************************************************)
(* KVSExecutor: wait until the ring slot of CurrSeq holds CurrSeq's term   *)
(* and is done, then read its Decision and apply it.                       *)
(***************************************************************************)
\* mutant: KVSExecutor does not wait for IsDone
KVSCheckNoDone(i) ==
  LET c == kvsSeq[i]
  IN  /\ kpc[i] = "check"
      /\ c <= MaxSeq
      /\ Slot(i, c).term = TermOf(c)
      /\ kpc' = [kpc EXCEPT ![i] = "read"]
      /\ UNCHANGED <<creq, proSeq, queue, discard, svrSeq, epc, ledger, kvsSeq, applied, prop, decided, hpc, hreq>>

\* mutant: a null decision is taken for "not decided yet": no CurrSeq++
KVSReadNullStall(i) ==
  LET dec == Slot(i, kvsSeq[i]).decision
  IN  /\ kpc[i] = "read"
      /\ applied' = [applied EXCEPT ![i] = IF dec.isNull THEN @ ELSE Append(@, dec)]
      /\ kvsSeq' = [kvsSeq EXCEPT ![i] = IF dec.isNull THEN @ ELSE @ + 1]
      /\ kpc' = [kpc EXCEPT ![i] = "check"]
      /\ UNCHANGED <<creq, proSeq, queue, discard, svrSeq, epc, ledger, prop, decided, hpc, hreq>>

KVSCheck(i) ==
  LET c == kvsSeq[i]
  IN  /\ kpc[i] = "check"
      /\ c <= MaxSeq
      /\ Slot(i, c).term = TermOf(c)
      /\ Slot(i, c).isDone
      /\ kpc' = [kpc EXCEPT ![i] = "read"]
      /\ UNCHANGED <<creq, proSeq, queue, discard, svrSeq, epc, ledger, kvsSeq, applied, prop, decided, hpc, hreq>>

\* apply the Decision read through CurrDec, null or not, and advance
KVSRead(i) ==
  /\ kpc[i] = "read"
  /\ applied' = [applied EXCEPT ![i] = Append(@, Slot(i, kvsSeq[i]).decision)]
  /\ kvsSeq' = [kvsSeq EXCEPT ![i] = @ + 1]
  /\ kpc' = [kpc EXCEPT ![i] = "check"]
  /\ UNCHANGED <<creq, proSeq, queue, discard, svrSeq, epc, ledger, prop, decided, hpc, hreq>>

\* a panic in any goroutine ends the server's process
Alive(i) == epc[i] # "panicked" /\ hpc[i] # "panicked"

Next ==
  \/ \E p \in Proxy : ProxyBatch(p)
  \/ \E i \in Server :
       /\ Alive(i)
       /\ \/ \E p \in Proxy : RecvClientRequest(p, i)
          \/ \E s \in Seqs : HandlerClaim(i, s)
          \/ PropReqs /\ \E s \in Seqs : RecvProposalRequest(i, s)
          \/ AnswerProposalRequest(i)
          \/ GetRequest(i)
          \/ DecideSlot(i)
          \/ EpilogueRecord(i)
          \/ PutBackCheck(i)
          \/ PutBackRead(i)
          \/ i \in Kvs /\ KVSCheck(i)
          \/ i \in Kvs /\ KVSRead(i)

Spec == Init /\ [][Next]_vars

Fairness ==
  \* KVSExecutor polls in a loop with no blocking call, and Go schedules
  \* every runnable goroutine, so a step it can take is eventually taken
  \A i \in Kvs : /\ WF_vars(Alive(i) /\ KVSCheck(i))
                 /\ WF_vars(Alive(i) /\ KVSRead(i))

LiveSpec == Spec /\ Fairness

(***************************************************************************)
(* Properties.                                                             *)
(***************************************************************************)
TypeOK ==
  /\ \A e \in Server \X Server : creq[e] \in Seq(Batches)
  /\ proSeq \in [Server -> 0 .. MaxBatch]
  /\ \A i \in Server : IsABag(queue[i]) /\ BagToSet(queue[i]) \subseteq Obj
  /\ discard \in [Server -> SUBSET {Id(o) : o \in Obj}]
  /\ svrSeq \in [Server -> -1 .. MaxSeq]
  /\ epc \in [Server -> {"get", "slot", "record", "putBack", "putBackRead", "stuck", "panicked"}]
  /\ \A i \in Server, x \in 0 .. L - 1 :
       /\ ledger[i][x].term \in 0 .. TermOf(MaxSeq)
       /\ ledger[i][x].isDone \in BOOLEAN
       /\ ledger[i][x].decision \in Obj \cup {NullObj}
       /\ ledger[i][x].myProposal \in Obj
  /\ kvsSeq \in [Server -> 0 .. MaxSeq + 1]
  /\ kpc \in [Server -> {"check", "read"}]
  /\ \A i \in Server : applied[i] \in Seq(Obj \cup {NullObj})
  /\ prop \in [Seqs -> [Server -> Obj \cup {NoDec}]]
  /\ decided \in [Seqs -> Obj \cup {NullObj, NoDec}]
  /\ hpc \in [Server -> {"idle", "answer", "panicked"}]
  /\ hreq \in [Server -> Seqs]

\* the refinement mapping: what the clients see of the log
Submitted == UNION {{Batch(p, k) : k \in 0 .. proSeq[p] - 1} : p \in Proxy}
HasCommands(o) == o.payload
Committed == SelectSeq([k \in 1 .. MaxSeq + 1 |-> decided[k - 1]], HasCommands)
AppliedBatches == [i \in Server |-> SelectSeq(applied[i], HasCommands)]

KV == INSTANCE ReplicatedKV WITH submitted <- Submitted,
                                 log <- Committed, applied <- AppliedBatches

\* Rabia's log implements ReplicatedKV: the decided slots, read in SvrSeq
\* order, commit every batch at most once (getRequest's Discard test and
\* epilogue's putBackMyProposal), and every KVSExecutor applies a prefix of
\* that log with no gap and no repeat, so each connected client gets
\* exactly one reply (client.go processOneReply panics on a second one)
LogRefinement == KV!Spec

\* No batch is ever lost: for every live server, each batch a proxy has
\* emitted is still on its way to that server, in its PQueue, its pending
\* proposal (from getRequest to putBackMyProposal), or decided in some slot.
\* epilogue's put-back and the Discard marks together have to keep this.
Live(i) == Alive(i) /\ epc[i] # "stuck"
Held(b, i) ==
  \/ b \in ToSet(creq[<<b.proId, i>>])
  \/ BagIn(b, queue[i])
  \/ epc[i] \in {"slot", "record", "putBack", "putBackRead"} /\ prop[svrSeq[i]][i] = b
  \/ \E s \in Seqs : decided[s] = b
NoLostBatch == \A i \in Server, b \in Submitted : Live(i) => Held(b, i)

\* A ring slot marked done holds the decision of the SvrSeq its term
\* stands for: epilogue's PanicTermNotMatched is meant to keep a decision
\* of an older term out of a slot that the MsgHandler has reset, since
\* KVSExecutor would apply it as the newer SvrSeq's decision
SvrSeqOf(x, t) == t * L + x
RingHoldsOwnTerm ==
  \A i \in Server, x \in 0 .. L - 1 :
    ledger[i][x].isDone =>
      /\ SvrSeqOf(x, ledger[i][x].term) \in Seqs
      /\ ledger[i][x].decision = decided[SvrSeqOf(x, ledger[i][x].term)]

\* The documented slot-reset races (consensus.go, "Race Conditions
\* Documented") are called unlikely because a reset slot is far from the
\* slots in use.  Stated exactly: a server's process dies (its MsgHandler
\* answering a ProposalRequest for SvrSeq s panics, or its executor working
\* on SvrSeq s panics or blocks for ever in wait()) only in a step after
\* which some server has already taken SvrSeq s + L, a full ring ahead,
\* since only a slot of the next term resets the one of s.
AtRisk(i) == IF hpc'[i] = "panicked" THEN hreq[i] ELSE svrSeq'[i]
Lapped(s) == \E j \in Server : svrSeq'[j] >= s + L
RaceNeedsLap ==
  [][\A i \in Server : Live(i) /\ ~Live(i)' => Lapped(AtRisk(i))]_vars

\* The MsgHandler never panics while answering a ProposalRequest
NoHandlerPanic == \A i \in Server : hpc[i] # "panicked"

\* The executor never panics (UpdateTermIfNecessary in getRequest,
\* PanicTermNotMatched in wait, epilogue and putBackMyProposal) and never
\* blocks on a ring slot that the MsgHandler has reset under it
NoHalt == \A i \in Server : Live(i)

\* Every slot that a server's executor has decided is eventually applied
\* by that server's KVSExecutor (spec 8.8, reply liveness)
KVSProgress ==
  \A i \in Kvs, s \in Seqs :
    (Slot(i, s).isDone /\ Slot(i, s).term = TermOf(s)) ~> kvsSeq[i] > s
====
