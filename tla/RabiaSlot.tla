----------------------------- MODULE RabiaSlot -----------------------------
(***************************************************************************)
(* One ledger slot of a cluster of N Rabia servers (package consensus).    *)
(*                                                                         *)
(* Each server runs two goroutines that share the slot: the MsgHandler     *)
(* (msgHandler.go) tallies the Proposal/State/Vote/Decision messages it    *)
(* receives and drops a notification into the slot's mailbox (Slot.Queue)  *)
(* at the (n-f)-th admission of a round; the Executor (executor.go) sends  *)
(* its proposal, then takes one notification per round and runs the round *)
(* logic, until it decides or takes a Decision message out of the mailbox  *)
(* (epilogue).  The network (network.go MsgSerializer/MsgRouter, tcp.go)   *)
(* is one FIFO TCP stream per ordered pair of servers, loopback included;  *)
(* ProposalReply messages bypass the handler and go to the executor.       *)
(*                                                                         *)
(* Only the slot is modelled here: which request a server proposes is any  *)
(* element of Reqs (getRequest pops whatever its queue holds), and what    *)
(* happens to the pending queue after the decision is RabiaLog's business. *)
(***************************************************************************)
EXTENDS Integers, Sequences, FiniteSets, Bags

LOCAL INSTANCE Functions

CONSTANTS
  Server,     \* the servers (Conf.Peers); Conf.NServers is its size
  F,          \* Conf.NFaulty
  Reqs,       \* proxy batches [proId, proSeq, isNull |-> FALSE] a server may propose
  Coin,       \* Coin[p]: the p-th CommonCoinFlip after ResetCommonCoin (seed 42)
  MaxPhase,   \* bound: the last phase a slot may reach (Conf.LenBlockArray - 1)
  MaxCrashes  \* bound: how many servers may crash (at most F)

N == Cardinality(Server)

ASSUME Server # {} /\ F \in Nat /\ 2 * F < N
ASSUME MaxPhase \in Nat /\ MaxCrashes \in 0 .. F
ASSUME Coin \in [1 .. MaxPhase -> {0, 1}]

Phase  == 0 .. MaxPhase
Rnd    == {1, 2}
Bit    == 0 .. 2            \* 0, 1, and 2 standing for "?"

\* config.go CalcConstants
NMinusF       == N - F
Majority      == N \div 2 + 1
MajorityPlusF == N \div 2 + F + 1
FaultyPlusOne == F + 1

(***************************************************************************)
(* Consensus objects (message package) are identified by (ProId, ProSeq).  *)
(* ZeroObj is Go's zero ConsensusObj{}, what Reset leaves in MyProposal    *)
(* and Decision; NullObj is the null decision ConsensusObj{IsNull: true}.  *)
(***************************************************************************)
ZeroObj == [proId |-> 0, proSeq |-> 0, isNull |-> FALSE]
NullObj == [proId |-> 0, proSeq |-> 0, isNull |-> TRUE]
Obj     == Reqs \cup {ZeroObj}
DecVal  == Reqs \cup {NullObj}

\* message.ProxySeqIdEqual / ProxySeqIdLessThan
IdEq(a, b)   == a.proId = b.proId /\ a.proSeq = b.proSeq
IdLess(a, b) == \/ a.proId < b.proId
                \/ a.proId = b.proId /\ a.proSeq < b.proSeq

\* message.Msg{Type, Phase, Value, Obj}; Obj.SvrSeq is the slot's sequence
Msg(t, ph, v, o) == [type |-> t, phase |-> ph, value |-> v, obj |-> o]

(***************************************************************************)
(* ledger.go Slot after Reset; recvProps is RecvProposals as a bag, recvBC *)
(* and recvBCT are RecvBCMsgs and RecvBCMsgsT indexed by round 1 and 2.    *)
(***************************************************************************)
FreshSlot ==
  [isDone |-> FALSE, hasRecvDec |-> FALSE, decision |-> ZeroObj, queue |-> <<>>,
   phase |-> 0, round |-> 0, myProposal |-> ZeroObj, recvProps |-> EmptyBag,
   myBC    |-> [p \in Phase |-> [r \in Rnd |-> 0]],
   recvBC  |-> [p \in Phase |-> [r \in Rnd |-> [v \in Bit |-> 0]]],
   recvBCT |-> [p \in Phase |-> [r \in Rnd |-> 0]]]

PutRecvProposals(s, o) ==
  [s EXCEPT !.recvProps = @ (+) SetToBag({o}), !.recvBCT[0][1] = @ + 1]

PutRecvBCMsgs(s, p, r, x) ==
  [s EXCEPT !.recvBC[p][r][x] = @ + 1, !.recvBCT[p][r] = @ + 1]

\* Fault-injection variant: "more than n-f" for "at least n-f".
HasEnoughMsgStrict(s, p, r) == s.recvBCT[p][r] > NMinusF

HasEnoughMsg(s, p, r) == s.recvBCT[p][r] >= NMinusF

\* RecvProposalsMajT / RecvProposalsMajV after SortRecvProposals: the most
\* frequent proposal, ties going to the smaller (ProId, ProSeq).  Both are
\* only called on a slot holding n-f >= 1 proposals.
RecvProposalsMajT(s) ==
  LET cs == {CopiesIn(o, s.recvProps) : o \in BagToSet(s.recvProps)}
  IN  CHOOSE c \in cs : \A d \in cs : c >= d
RecvProposalsMajV(s) ==
  CHOOSE o \in BagToSet(s.recvProps) :
    /\ CopiesIn(o, s.recvProps) = RecvProposalsMajT(s)
    /\ \A o2 \in BagToSet(s.recvProps) :
         CopiesIn(o2, s.recvProps) = RecvProposalsMajT(s) => o2 = o \/ IdLess(o, o2)

\* a tie between 0s and 1s goes to 1 ("?"s are not counted)
RecvBCMsgsMajV(s, p, r) == IF s.recvBC[p][r][0] > s.recvBC[p][r][1] THEN 0 ELSE 1
RecvBCMsgsMajT(s, p, r) == s.recvBC[p][r][RecvBCMsgsMajV(s, p, r)]

VARIABLES
  net,      \* net[<<j, i>>]: the FIFO TCP stream from server j to server i
  slot,     \* slot[i]: server i's ledger slot
  pc,       \* pc[i]: where server i's executor is, or whether it is down
  replyIn   \* replyIn[i]: NetToConExecutor, the ProposalReply messages

vars == <<net, slot, pc, replyIn>>

Up(i) == pc[i] \notin {"crashed", "panicked"}

\* toNet, MsgRouter and MsgSerializer: the messages ms, in order, are
\* appended to every stream leaving server i
SendAll(i, ms) == [e \in DOMAIN net |-> IF e[1] = i THEN net[e] \o ms ELSE net[e]]

(***************************************************************************)
(* A message the receiving handler is sure to discard: its receiver is     *)
(* down, its slot is done, its round already holds n-f messages, or a      *)
(* Decision is already queued (binConMsgHandling).  All of these only      *)
(* grow, and the handler's discard changes nothing but the stream, so the  *)
(* model discards such a message as soon as it becomes discardable:        *)
(* Prune is applied to the streams after every step.  This is the code's   *)
(* behaviour up to stuttering, with far fewer interleavings.               *)
(***************************************************************************)
Discardable(s, up, m) ==
  \/ ~up
  \/ m.type \in {"Proposal", "State", "Vote", "Decision"} /\ s.isDone
  \/ m.type = "Proposal" /\ HasEnoughMsg(s, 0, 1)
  \/ m.type = "State" /\ HasEnoughMsg(s, m.phase, 1)
  \/ m.type = "Vote" /\ HasEnoughMsg(s, m.phase, 2)
  \/ m.type = "Decision" /\ s.hasRecvDec

Prune(n, sl, pcs) ==
  [e \in DOMAIN n |->
     SelectSeq(n[e], LAMBDA m : ~Discardable(sl[e[2]], pcs[e[2]] \notin {"crashed", "panicked"}, m))]

Init ==
  /\ net     = [e \in Server \X Server |-> <<>>]
  /\ slot    = [i \in Server |-> FreshSlot]
  /\ pc      = [i \in Server |-> "idle"]
  /\ replyIn = [i \in Server |-> <<>>]
(***************************************************************************)
(* MsgHandler: server i takes the next message that server j sent it.      *)
(***************************************************************************)
InHead(j, i) == Head(net[<<j, i>>])
Pop(j, i)    == [net EXCEPT ![<<j, i>>] = Tail(@)]
CanRecv(j, i, types) == Up(i) /\ net[<<j, i>>] # <<>> /\ InHead(j, i).type \in types

\* Fault-injection variant of the definition below: a reply guard without
\* the majority test.
SafeToReplyAnyTally(s) == HasEnoughMsg(s, 0, 1)

\* it is safe to reply once n-f proposals are held with a majority among them
SafeToReply(s) == HasEnoughMsg(s, 0, 1) /\ RecvProposalsMajT(s) >= Majority

\* genProposalReply: the object the reply carries
GenProposalReply(s) == RecvProposalsMajV(s)

\* case ProposalRequest: reply if it is safe to; msg.Phase names the
\* requester, and MsgRouter sends the reply to it alone.
RecvProposalRequest(j, i) ==
  /\ CanRecv(j, i, {"ProposalRequest"})
  /\ LET s   == slot[i]
         dst == InHead(j, i).phase
     IN  net' = IF SafeToReply(s)
                THEN Prune([Pop(j, i) EXCEPT ![<<i, dst>>] =
                              Append(@, Msg("ProposalReply", dst, 0, GenProposalReply(s)))],
                           slot, pc)
                ELSE Pop(j, i)
  /\ UNCHANGED <<slot, pc, replyIn>>

\* MsgRouter: a ProposalReply goes straight to the executor's channel
RouteProposalReply(j, i) ==
  /\ CanRecv(j, i, {"ProposalReply"})
  /\ replyIn' = [replyIn EXCEPT ![i] = Append(@, InHead(j, i))]
  /\ net' = Pop(j, i)
  /\ UNCHANGED <<slot, pc>>

\* Admit one Proposal/State/Vote of round (p, r) while the round has fewer
\* than n-f; the admission that completes n-f notifies the executor.
\* (s2 is s with the message put)
Gate(s, p, r, s2, note) ==
  IF HasEnoughMsg(s, p, r) THEN s
  ELSE IF HasEnoughMsg(s2, p, r)
       THEN [s2 EXCEPT !.queue = Append(@, note)]
       ELSE s2

\* binConMsgHandling on a slot that is not done
Admit(s, m) ==
  CASE m.type = "Proposal" ->
         Gate(s, 0, 1, PutRecvProposals(s, m.obj), Msg("Proposal", 0, 0, ZeroObj))
    [] m.type = "State" ->
         Gate(s, m.phase, 1, PutRecvBCMsgs(s, m.phase, 1, m.value),
              Msg("State", m.phase, 0, ZeroObj))
    [] m.type = "Vote" ->
         Gate(s, m.phase, 2, PutRecvBCMsgs(s, m.phase, 2, m.value),
              Msg("Vote", m.phase, 0, ZeroObj))
    [] m.type = "Decision" ->
         IF s.hasRecvDec THEN s
         ELSE [s EXCEPT !.queue = Append(@, m), !.hasRecvDec = TRUE]

RecvBinCon(j, i) ==
  /\ CanRecv(j, i, {"Proposal", "State", "Vote", "Decision"})
  /\ slot' = [slot EXCEPT ![i] = IF @.isDone THEN @ ELSE Admit(@, InHead(j, i))]
  /\ net' = Prune(Pop(j, i), slot', pc)
  /\ UNCHANGED <<pc, replyIn>>

(***************************************************************************)
(* Executor.  Each step runs from one blocking point of the executor to    *)
(* the next, the messages it hands to toNet included.                      *)
(***************************************************************************)
Panic(i) ==
  /\ pc' = [pc EXCEPT ![i] = "panicked"]
  /\ net' = Prune(net, slot, pc')
  /\ UNCHANGED <<slot, replyIn>>

\* the executor stays in wait() on slot s2 after sending the messages ms
Continue(i, s2, ms) ==
  /\ slot' = [slot EXCEPT ![i] = s2]
  /\ net'  = Prune(SendAll(i, ms), slot', pc)
  /\ UNCHANGED <<pc, replyIn>>

\* epilogue(seq, dec), after sending ms: record the decision in the slot
\* (the caller says what happens to replyIn)
Epilogue(i, s, dec, ms) ==
  /\ slot' = [slot EXCEPT ![i] = [s EXCEPT !.decision = dec, !.isDone = TRUE]]
  /\ pc'   = [pc EXCEPT ![i] = "done"]
  /\ net'  = Prune(SendAll(i, ms), slot', pc')

\* genDecMsgType1/2, toNet, Round++, return to epilogue
Decide(i, s, dec) ==
  Epilogue(i, [s EXCEPT !.round = @ + 1], dec, <<Msg("Decision", 0, 0, dec)>>)

\* Fault-injection variant: findReturnValue returning the local proposal
\* majority even when its tally is below Majority, without asking peers.
FindReturnValueLocalMajority(i, s, p, r) ==
  Decide(i, s, IF RecvBCMsgsMajV(s, p, r) = 1 THEN RecvProposalsMajV(s) ELSE NullObj)

\* findReturnValue(seq, p, r) and the caller's decision: a majority bit 1
\* without a local proposal majority asks every server for the proposal
\* (requestProposalAndWait) and blocks until a reply arrives.
FindReturnValueAndDecide(i, s, p, r) ==
  IF RecvBCMsgsMajV(s, p, r) = 1 /\ RecvProposalsMajT(s) < Majority
  THEN /\ slot' = [slot EXCEPT ![i] = s]
       /\ pc' = [pc EXCEPT ![i] = "awaitReply"]
       /\ net' = Prune(SendAll(i, <<Msg("ProposalRequest", i, 0, ZeroObj)>>), slot', pc')
       /\ UNCHANGED replyIn
  ELSE Decide(i, s, IF RecvBCMsgsMajV(s, p, r) = 1 THEN RecvProposalsMajV(s) ELSE NullObj)

\* Fault-injection variants: phase 0 round 1 without Round++, and phase 0
\* round 2 without IncrPhaseDecrRound's Phase++.
Phase0Round1NoRoundIncr(i, s) ==
  LET t  == RecvProposalsMajT(s)
      s2 == [s EXCEPT !.myBC[0][2] = IF t >= Majority THEN 1 ELSE 2]
  IN  IF t >= MajorityPlusF THEN Decide(i, s, RecvProposalsMajV(s))
      ELSE Continue(i, s2, <<Msg("Vote", 0, s2.myBC[0][2], ZeroObj)>>)
Phase0Round2NoPhaseIncr(i, s) ==
  LET t  == RecvBCMsgsMajT(s, 0, 2)
      s2 == [s EXCEPT !.myBC[1][1] = IF t >= 1 THEN RecvBCMsgsMajV(s, 0, 2) ELSE 0,
                      !.round = 1]
  IN  IF t >= FaultyPlusOne THEN FindReturnValueAndDecide(i, s, 0, 2)
      ELSE /\ 1 <= MaxPhase
           /\ Continue(i, s2, <<Msg("State", 1, s2.myBC[1][1], ZeroObj)>>)

\* phase0Round1AfterWait, then phase0Round2BeforeWait
Phase0Round1(i, s) ==
  LET t  == RecvProposalsMajT(s)
      s2 == [s EXCEPT !.myBC[0][2] = IF t >= Majority THEN 1 ELSE 2, !.round = 2]
  IN  IF t >= MajorityPlusF THEN Decide(i, s, RecvProposalsMajV(s))
      ELSE Continue(i, s2, <<Msg("Vote", 0, s2.myBC[0][2], ZeroObj)>>)

\* phase0Round2AfterWait, then phaseNRound1BeforeWait of phase 1 (if the
\* bound allows phase 1)
Phase0Round2(i, s) ==
  LET t  == RecvBCMsgsMajT(s, 0, 2)
      s2 == [s EXCEPT !.myBC[1][1] = IF t >= 1 THEN RecvBCMsgsMajV(s, 0, 2) ELSE 0,
                      !.phase = 1, !.round = 1]
  IN  IF t >= FaultyPlusOne THEN FindReturnValueAndDecide(i, s, 0, 2)
      ELSE /\ 1 <= MaxPhase
           /\ Continue(i, s2, <<Msg("State", 1, s2.myBC[1][1], ZeroObj)>>)

\* phaseNRound1AfterWait, then phaseNRound2BeforeWait
PhaseNRound1(i, s) ==
  LET p  == s.phase
      t  == RecvBCMsgsMajT(s, p, 1)
      s2 == [s EXCEPT !.myBC[p][2] = IF t >= Majority THEN RecvBCMsgsMajV(s, p, 1) ELSE 2,
                      !.round = 2]
  IN  IF t >= MajorityPlusF THEN FindReturnValueAndDecide(i, s, p, 1)
      ELSE Continue(i, s2, <<Msg("Vote", p, s2.myBC[p][2], ZeroObj)>>)

\* phaseNRound2AfterWait (CommonCoinFlip), then the next phase's
\* phaseNRound1BeforeWait; the bound stops a slot at phase MaxPhase
PhaseNRound2(i, s) ==
  LET p  == s.phase
      t  == RecvBCMsgsMajT(s, p, 2)
      s2 == [s EXCEPT !.myBC[p + 1][1] = IF t >= 1 THEN RecvBCMsgsMajV(s, p, 2) ELSE Coin[p],
                      !.phase = p + 1, !.round = 1]
  IN  IF t >= FaultyPlusOne THEN FindReturnValueAndDecide(i, s, p, 2)
      ELSE /\ p < MaxPhase
           /\ Continue(i, s2, <<Msg("State", p + 1, s2.myBC[p + 1][1], ZeroObj)>>)

\* wait()'s "should not happen 1-4" checks on a round notification
UnexpectedNotification(s, m) ==
  \/ m.phase # s.phase
  \/ s.round = 1 /\ s.phase = 0 /\ m.type # "Proposal"
  \/ s.round = 1 /\ s.phase # 0 /\ m.type # "State"
  \/ s.round = 2 /\ m.type # "Vote"

\* getRequest popped o: SetMyProposal, Round = 1, then phase0Round1BeforeWait
Propose(i, o) ==
  /\ pc[i] = "idle"
  /\ slot' = [slot EXCEPT ![i] = [@ EXCEPT !.myProposal = o, !.round = 1]]
  /\ pc'   = [pc EXCEPT ![i] = "wait"]
  /\ net'  = Prune(SendAll(i, <<Msg("Proposal", 0, 0, o)>>), slot', pc')
  /\ UNCHANGED replyIn

\* wait(seq) takes the next mailbox entry, then the round's AfterWait
Wait(i) ==
  /\ pc[i] = "wait"
  /\ slot[i].queue # <<>>
  /\ UNCHANGED replyIn
  /\ LET s  == slot[i]
         m  == Head(s.queue)
         s1 == [s EXCEPT !.queue = Tail(@)]
     IN  CASE m.type = "Decision" ->
                IF s.isDone THEN Panic(i) ELSE Epilogue(i, s1, m.obj, <<>>)
           [] s.hasRecvDec -> Continue(i, s1, <<>>)
           [] UnexpectedNotification(s, m) -> Panic(i)
           [] s.phase = 0 /\ s.round = 1 -> Phase0Round1(i, s1)
           [] s.phase = 0 /\ s.round = 2 -> Phase0Round2(i, s1)
           [] s.round = 1 -> PhaseNRound1(i, s1)
           [] OTHER -> PhaseNRound2(i, s1)

\* requestProposalAndWait: the first ProposalReply for this slot decides
AwaitReply(i) ==
  /\ pc[i] = "awaitReply"
  /\ replyIn[i] # <<>>
  /\ replyIn' = [replyIn EXCEPT ![i] = Tail(@)]
  /\ Decide(i, slot[i], Head(replyIn[i]).obj)

(***************************************************************************)
(* Crash faults: at most MaxCrashes (<= F) servers stop.  Of what a        *)
(* stopped server had handed to TCP, each peer still receives some prefix  *)
(* of its stream and loses the rest; the prefix is chosen at the crash.    *)
(***************************************************************************)
Crash(i) ==
  /\ Up(i)
  /\ Cardinality({k \in Server : pc[k] = "crashed"}) < MaxCrashes
  /\ pc' = [pc EXCEPT ![i] = "crashed"]
  /\ LET lens == {Len(net[<<i, d>>]) : d \in Server}
         most == CHOOSE m \in lens : \A x \in lens : x <= m
     IN  \E keep \in [Server -> 0 .. most] :
       /\ \A d \in Server : keep[d] <= Len(net[<<i, d>>])
       /\ net' = Prune([e \in DOMAIN net |->
                         IF e[1] = i THEN SubSeq(net[e], 1, keep[e[2]]) ELSE net[e]],
                      slot, pc')
  /\ UNCHANGED <<slot, replyIn>>

Next ==
  \/ \E i \in Server :
       \/ \E o \in Reqs : Propose(i, o)
       \/ Wait(i)
       \/ AwaitReply(i)
       \/ Crash(i)
  \/ \E j, i \in Server :
       \/ RecvProposalRequest(j, i)
       \/ RouteProposalReply(j, i)
       \/ RecvBinCon(j, i)

Spec == Init /\ [][Next]_vars

-----------------------------------------------------------------------------
(***************************************************************************)
(* The round statistics: epilogue counts the rounds a slot took into       *)
(* NumOfRoundsDist, and logExitStatus reports its percentiles (findRds)    *)
(* and the distribution without its trailing zeros when the executor       *)
(* exits.  A distribution is a function from round counts to frequencies.  *)
(***************************************************************************)
\* the ledger arrays have one entry per phase the slot may reach
LenBlockArray == MaxPhase + 1

\* mutant: the array sized like the old numbering's Per1000RoundDist
NumOfRoundsDistLenShort == LenBlockArray * 2 + 1

\* ConsensusInit: make([]int, Conf.LenBlockArray*2+2)
NumOfRoundsDistLen == LenBlockArray * 2 + 2

\* epilogue's currentRoundNum, Phase*2 + Round in the paper's numbering:
\* at least 3, and an even count is taken to the next odd one
RoundNum(s) ==
  LET n == s.phase * 2 + s.round
  IN  IF n <= 3 THEN 3 ELSE IF n % 2 = 0 THEN n + 1 ELSE n

\* freqSum
FreqSum(d) == SumFunction(d)

\* findRds's test: float64(acc) >= float64(percentile)*float64(sum)/100.
\* Compared in integers: the quotient has denominator 100, so its float
\* rounding never carries it across an integer acc.
ReachedStrict(d, pct, acc) == 100 * acc > pct * FreqSum(d)
Reached(d, pct, acc) == 100 * acc >= pct * FreqSum(d)

\* findRds(percentile) walks the distribution from round count 0, and
\* panics ("should not happen") if it runs off the end: NoRds
NoRds == -1
RECURSIVE FindRdsFrom(_, _, _, _)
FindRdsFrom(d, pct, i, acc) ==
  IF i \notin DOMAIN d THEN NoRds
  ELSE IF Reached(d, pct, acc + d[i]) THEN i
  ELSE FindRdsFrom(d, pct, i + 1, acc + d[i])
FindRds(d, pct) == FindRdsFrom(d, pct, 0, 0)

\* RemoveTrailingZeros: endIndex moves down over the zeros at the end
RECURSIVE EndIndex(_, _)
EndIndex(d, i) == IF i < 0 \/ d[i] # 0 THEN i + 1 ELSE EndIndex(d, i - 1)
RemoveTrailingZeros(d) ==
  [k \in 0 .. EndIndex(d, Cardinality(DOMAIN d) - 1) - 1 |-> d[k]]

\* what the log means by a percentile: the least round count r such that
\* at least pct% of the slots took at most r rounds
AtMost(d, r) == SumFunctionOnSet(d, {k \in DOMAIN d : k <= r})
Percentile(d, pct) ==
  CHOOSE r \in DOMAIN d : /\ 100 * AtMost(d, r) >= pct * FreqSum(d)
                          /\ \A k \in DOMAIN d : k < r => 100 * AtMost(d, k) < pct * FreqSum(d)

\* the distributions of a few slots each, over the array's length
Dists == [0 .. NumOfRoundsDistLen - 1 -> 0 .. 2]

-----------------------------------------------------------------------------
TypeOK ==
  /\ \A e \in DOMAIN net : \A k \in 1 .. Len(net[e]) :
       net[e][k].type \in {"Proposal", "State", "Vote", "Decision",
                           "ProposalRequest", "ProposalReply"}
  /\ \A i \in Server :
       /\ pc[i] \in {"idle", "wait", "awaitReply", "done", "crashed", "panicked"}
       /\ slot[i].phase \in Phase /\ slot[i].round \in 0 .. 3
       /\ slot[i].decision \in DecVal \cup {ZeroObj}
       /\ slot[i].myProposal \in Obj
       /\ BagToSet(slot[i].recvProps) \subseteq Reqs
       /\ \A p \in Phase, r \in Rnd : slot[i].recvBCT[p][r] \in 0 .. NMinusF
       /\ \A k \in 1 .. Len(replyIn[i]) : replyIn[i][k].obj \in Reqs

Done(i) == slot[i].isDone

\* the abstract slot: a server has proposed once its executor left "idle",
\* and has learned the decision once its slot is done
NoDecision == [proId |-> -1, proSeq |-> -1, isNull |-> FALSE]
Learned(i) == IF Done(i) THEN slot[i].decision ELSE NoDecision
Abstract == INSTANCE SlotConsensus WITH
  Values   <- Reqs,
  Null     <- NullObj,
  None     <- NoDecision,
  proposed <- {slot[i].myProposal : i \in {k \in Server : pc[k] # "idle"}},
  chosen   <- IF \E i \in Server : Done(i)
              THEN Learned(CHOOSE i \in Server : Done(i)) ELSE NoDecision,
  learned  <- [i \in Server |-> Learned(i)]

(* The slot refines SlotConsensus: every server that finishes the slot     *)
(* records the decision the first one recorded (Agreement, spec 8.1),      *)
(* whether it decided in a round, took a ProposalReply after               *)
(* requestProposalAndWait or took a Decision message; the decision is null *)
(* or a proposed request (Integrity, 8.4); and it is never overwritten.    *)
SlotRefinement == Abstract!Spec

(* A non-null decision is backed by a majority: at least Majority servers  *)
(* proposed it.  Deciding 1 through the common coin skips the proposal     *)
(* tally, and it is findReturnValue's ProposalRequest, answered only by a  *)
(* server holding a majority (genProposalReply), that must restore this.   *)
MajorityBacked ==
  \A i \in Server :
    Done(i) /\ ~slot[i].decision.isNull =>
      Cardinality({j \in Server : pc[j] # "idle" /\ slot[j].myProposal = slot[i].decision})
        >= Majority

(* wait() never reaches a "should not happen" panic: the handler's gate    *)
(* (one notification per round, at the (n-f)-th admission), HasRecvDec     *)
(* and the FIFO streams keep every mailbox in protocol order.              *)
NoPanic == \A i \in Server : pc[i] # "panicked"

(* epilogue's NumOfRoundsDist[currentRoundNum] += 1 stays in the array:   *)
(* a slot decided in the last phase the arrays allow, by a Decide whose    *)
(* Round++ takes round 2 to 3, has the largest round count, and the        *)
(* array's "+2" must leave room for it.                                    *)
StatsInRange == \A i \in Server : Done(i) => RoundNum(slot[i]) < NumOfRoundsDistLen

(* logExitStatus never reaches findRds's "should not happen" panic: for   *)
(* every distribution the exiting executor may have counted, its slot      *)
(* included, findRds(95), findRds(99) and findRds(100) are the             *)
(* percentiles they are logged as, and the maximum, findRds(100), is the   *)
(* last round count of the logged roundsDistribution (RemoveTrailingZeros) *)
(* once some slot is counted.                                              *)
StatsRight(d) ==
  /\ \A pct \in {95, 99, 100} : FindRds(d, pct) = Percentile(d, pct)
  /\ FreqSum(d) > 0 => FindRds(d, 100) = Cardinality(DOMAIN RemoveTrailingZeros(d)) - 1
RightWith == [r \in 0 .. NumOfRoundsDistLen - 1 |->
                \A d \in Dists : d[r] > 0 => StatsRight(d)]
ExitStatsCorrect == \A i \in Server : Done(i) => RightWith[RoundNum(slot[i])]

(* Spec 8 scenario 1 (unanimous proposal): when every server proposes the  *)
(* same object, each collects all n proposals, reaches the majority+f      *)
(* tally and commits in phase 0 round 1.  The handler admits only n-f      *)
(* proposals per round (binConMsgHandling), so a server that has left      *)
(* phase 0 round 1 of a unanimous slot should have committed.              *)
UnanimousFastDecision ==
  (\E o \in Reqs : \A j \in Server : pc[j] # "idle" /\ slot[j].myProposal = o)
    => \A i \in Server : slot[i].round >= 2 \/ slot[i].phase >= 1 => Done(i)

\* a ProposalReply for i is queued at its executor or on its way to i
ReplyOnItsWay(i) ==
  \/ replyIn[i] # <<>>
  \/ \E j \in Server : \E k \in 1 .. Len(net[<<j, i>>]) : net[<<j, i>>][k].type = "ProposalReply"

\* server j may still answer i's ProposalRequest: it is up, has not yet
\* handled the request, and its proposal tally is not frozen below Majority
MayStillReply(j, i) ==
  /\ Up(j)
  /\ \E k \in 1 .. Len(net[<<i, j>>]) : net[<<i, j>>][k].type = "ProposalRequest"
  /\ ~(HasEnoughMsg(slot[j], 0, 1) /\ RecvProposalsMajT(slot[j]) < Majority)

(* Termination (spec 8.3) needs every requestProposalAndWait to be         *)
(* answered: a server blocked there with no ProposalReply on its way and   *)
(* no running server that may still reply is stuck for good, since the     *)
(* loop has no timeout and the request is never re-sent.                   *)
NoStrandedRequest ==
  \A i \in Server :
    pc[i] = "awaitReply" => ReplyOnItsWay(i) \/ \E j \in Server : MayStillReply(j, i)
====
