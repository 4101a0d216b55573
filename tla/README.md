# TLA+ models of Rabia

These are TLA+ models of the Rabia state-machine-replication prototype in `src/`, checked with TLC.
Every definition is translated from the Go source, except the identity helpers of the `message` package, which is not under `src/` and is modelled from the spec.
`PROJECT.json` maps each definition to the lines it models.

## The system

A Rabia server (`src/roles/server`) runs three layers, which talk over Go channels:

* **Proxy** (`layers/proxy`). It receives client commands, batches them into a consensus object `(ProId, ProSeq)` and hands the object to the consensus layer. `KVSExecutor` later applies the decided slots in order and replies to the clients.
* **Consensus** (`layers/consensus`). Two goroutines share a ring of ledger slots (`internal/ledger`):
  * **MsgHandler** pushes client requests into a priority queue (`internal/queue`). It tallies the Proposal, State, Vote and Decision messages it receives (`binConMsgHandling`). At the *(n−f)-th admission* of a round it drops a notification into the slot's mailbox (`Slot.Queue`). It answers a peer's ProposalRequest only when it holds n−f proposals with a majority among them.
  * **Executor** pops a request (`getRequest`) and broadcasts it as its proposal. It then runs Rabia's rounds:
    * phase 0 round 1 on proposals;
    * phase 0 round 2, and the rounds of phases 1..N, on binary State/Vote messages, using the common coin (`CommonCoinFlip`).

    It blocks in `wait()` for one notification per round. A round decides when it reaches the round's threshold. Deciding bit 1 without a local proposal majority sends a ProposalRequest and blocks in `requestProposalAndWait` for the first reply. A Decision message found in the mailbox ends the slot (`epilogue`).
* **Network** (`layers/network`, `internal/tcp`). `MsgSerializer` broadcasts every executor message to every peer, itself included, over one TCP connection per peer. `MsgRouter` sends a ProposalReply point-to-point to its requester, and delivers incoming ProposalReplies to the executor instead of the handler.

A benchmark run (`src/main.go`) starts a **controller** (`roles/controller`), the servers and the **clients** (`roles/client`). Each server and client runs a `Receiver` that reports to the controller when it is ready and when it has exited. The controller starts the clients once everyone is connected, waits for every client to report its exit, then tells the servers to stop. A server stops by sending SIGINT to itself: `SigListen` closes `Done`, the six goroutines of `ServerMain` return, and `Epilogue` closes the TCP endpoints and waits for them. A closed-loop client sends one batch at a time until its `ClientTimeout` ticker fires. An open-loop client sends all its batches and waits for every reply.

## Modules

| Module | Models |
|---|---|
| `RabiaSlot.tla` | One ledger slot on N servers: both goroutines of each server, and the network between them. |
| `SlotConsensus.tla` | What a slot promises (spec 8.1 Agreement, 8.4 Integrity): a decision that is null or proposed, the same at every server that learns it, and never changed. |
| `MCRabiaSlot.tla` | Model values for three servers, two competing requests, the coin sequences, the symmetry set, and `DoneView`, which forgets the dead fields of a finished slot. |
| `RabiaLog.tla` | The log: proxies emitting batches, each server's pending queue and Discard set, the executor across SvrSeqs, the ledger ring with terms, the MsgHandler's term claims and ProposalRequest answers, and KVSExecutor. A slot's decision is abstracted to what `RabiaSlot` was checked to produce. |
| `RabiaBenchmark.tla` | One benchmark run from start to exit: the controller, each process's Receiver, the clients' closed and open loops with `writeToLog`, the server's start-up (listeners, the peer mesh of `NetTCP.Connect`) and shutdown (SIGINT, `Done`, the six goroutines, `Epilogue`), and the TCP steps between them: client connect, proxy accept, and a request's hand-off to `CmdReceiver`. Consensus is abstract: a batch is answered while its proxy and a majority of servers serve. |
| `ReplicatedKV.tla` | What the log promises clients (spec 8.1, 8.4, 8.5, 8.8): submitted batches committed into one log at most once each, every server applying a prefix of it in order. |

### How `RabiaSlot` corresponds to the code

**State.**

| Variable | Code |
|---|---|
| `net[<<j,i>>]` | the FIFO TCP stream from j to i (`SendChan`/`RecvHandler`) |
| `slot[i]` | `Ledger[slot]` of server i: proposals kept as a bag, binary tallies indexed by phase and round, the mailbox as a sequence |
| `pc[i]` | where the executor is blocked: idle before `getRequest`, in `wait`, in `requestProposalAndWait`, done; or crashed, or panicked in `wait` |
| `replyIn[i]` | `NetToConExecutor` |

**Handler actions.**
* `RecvBinCon` is `binConMsgHandling`, with `Gate` as its n−f admission and notification.
* `RecvProposalRequest` is the ProposalRequest case of `MsgHandler` together with `genProposalReply`.
* `RouteProposalReply` is `MsgRouter`'s path to the executor.

**Executor actions.**
* `Propose` is `getRequest` followed by `phase0Round1BeforeWait`.
* `Wait` is one return from `wait()`, followed by the matching `...AfterWait` and the next `...BeforeWait`:
  * `Phase0Round1`, `Phase0Round2`, `PhaseNRound1` and `PhaseNRound2` are those round steps.
  * `Epilogue` is the Decision case.
  * `Panic` is the "should not happen" checks.
* `FindReturnValueAndDecide` is `findReturnValue`. If it must ask the peers, it sends the ProposalRequest and leaves the executor in `awaitReply`.
* `AwaitReply` is the rest of `requestProposalAndWait`.

Each action is the whole code path between two blocking points, including the messages it hands to `toNet`.

**Crashes.** `Crash(i)` stops server i. Each peer keeps a prefix of what i had sent it and loses the rest. A crashed server never restarts, because the code persists nothing and has no rejoin path.

**Round statistics.** A server that has decided records its number of rounds in `NumOfRoundsDist`, an array of `LenBlockArray * 2 + 2` counters (`consensus.go:190`). At exit the server prints the 95th, 99th and 100th percentile of the array, after dropping its trailing zeros. `RoundNum` is the index `executor.go:450-476` computes from the deciding phase and round. `FindRds`, `FindRdsFrom` and `RemoveTrailingZeros` translate `consensus.go:284-322`. `Percentile` is a reference definition: the least round at which the cumulative count reaches the percentage. `Dists` is every distribution of at most two decisions per round count.

**Fixed data.** Which request a server proposes is any element of `Reqs`. The coin is the constant `Coin`, because the Go coin is a seeded `math/rand`.

### How `RabiaLog` corresponds to the code

**State.**

| Variable | Code |
|---|---|
| `creq[<<p,i>>]` | ClientRequests from proxy p's `ToNet` to server i's MsgHandler (FIFO stream) |
| `proSeq[p]` | `ProSeq` in `CmdReceiver` |
| `queue[i]`, `discard[i]` | `Consensus.Queue` (a bag, popped at its `ProxySeqIdLessThan` minimum) and the identities in `Consensus.Discard` |
| `svrSeq[i]`, `epc[i]` | `Consensus.SvrSeq`, and where the executor is: `get`, deciding (`slot`), after epilogue's term check (`record`), in `putBackMyProposal` before and after its term check, `stuck` in `wait`, or `panicked` |
| `ledger[i][x]` | `Ledger[x]`, reduced to `Term`, `IsDone`, `Decision`, `MyProposal` |
| `kvsSeq[i]`, `kpc[i]`, `applied[i]` | `Proxy.CurrSeq`; whether KVSExecutor has passed its term/IsDone checks; what it has executed and replied to |
| `hpc[i]`, `hreq[i]` | the MsgHandler idle, between `IsTermMatched` (the helper of the same name) and its reads of a slot for a ProposalRequest, or panicked |
| `prop`, `decided` | history: what each server proposed for each SvrSeq, and each SvrSeq's decision |

A batch is a record with the identity `(proId, proSeq)` and a flag saying it carries commands. Go's zero `ConsensusObj{}` (what `Reset` leaves in `MyProposal` and `Decision`) is `ZeroObj`. It has proxy 0's first identity `(0, 0)` and no commands, exactly as `ProxySeqIdEqual` and `GetIdSeq` see it.

**Actions.**
* `ProxyBatch` is `CmdReceiver` emitting a batch, broadcast by `MsgRouter`/`MsgSerializer`.
* `RecvClientRequest` is the MsgHandler's `QPush`.
* `HandlerClaim` is `binConMsgHandling`'s `UpdateTermIfNecessary(seq, false)` on a peer's message one term ahead of the ring slot. A peer has such a message out once it has proposed for that SvrSeq.
* `RecvProposalRequest` and `AnswerProposalRequest` are the ProposalRequest case, split at the unlocked gap between `IsTermMatched` and the reads of the slot.
* `GetRequest` is `getRequest`: Discard test, `SvrSeq++`, `UpdateTermIfNecessary(seq, true)`, `SetMyProposal`.
* `DecideSlot` covers `wait()` up to epilogue's `PanicTermNotMatched`. The first server to decide a SvrSeq picks null or an object that a majority proposed, once n−f have proposed (`SlotOutcomes`); the later ones learn the same decision. This is what `RabiaSlot` establishes by `MajorityBacked` and `SlotRefinement`. `Halts` is what happens when the slot was reset under the executor: a panic, or a wait on a mailbox nobody feeds.
* `EpilogueRecord` is the rest of `epilogue`.
* `PutBackCheck` and `PutBackRead` are `putBackMyProposal`'s term check and its read of `MyProposal`, together with the Discard mark.
* `KVSCheck` and `KVSRead` are KVSExecutor's checks and its read of `Decision` through `CurrDec`, with execute-and-reply.

Each unlocked access that the code makes separately from its term check is a separate step. That is where the races documented in `consensus.go` and spec §4 live.

**Refinement.** `LogRefinement` instantiates `ReplicatedKV` with:
* `submitted` ← the batches emitted;
* `log` ← the decided SvrSeqs in order, keeping the batches with commands;
* `applied[i]` ← the batches server i's KVSExecutor applied.

A null decision and the zero object are stuttering steps.

### How `RabiaBenchmark` corresponds to the code

| Variable | Code |
|---|---|
| `ctl`, `accepted`, `idx` | `RunController`'s position, the connections `connect` has read, and the index of `waitClientReplies`/`waitServerReplies` |
| `toCtl[a]`, `rd[a]`, `fromCtl[a]` | the connection of actor a (a Receiver's `(ServerClient, Id)`): messages written by `MsgToController`, messages the controller read, and whether the controller wrote its start or stop |
| `cpc[c]`, `sent[c]`, `rcvd[c]` | where `RunClient` is; `SentSoFar` (batches on `TCP.SendChan`) and `ReceivedSoFar`, in batches |
| `got[c]` | replies the client `RecvHandler` has read from the proxy and put on `TCP.RecvChan` |
| `spc[s]`, `rcv[s]`, `done[s]`, `run[s]`, `toSer[s]` | where `RunServer` is (`ServerMain`, `ProxyTCP.Close`, `NetTCP.Close`, `Wg.Wait`); the goroutine around `WaitController`; `s.Done` closed; the goroutines of `s.Wg` still running; `ToSerializer` open |
| `dialIdx[s]`, `acc[s]` | the loop index of `NetTCP.dialing` and the peers whose handshake `NetTCP.accepting` has read; `MeshUp(s)` is `NetTCP.Connect` returning |
| `ccn[c]`, `pacc[s]` | `ClientTCP.connect` has dialled and written its id; the clients `ProxyTCP.connect` has accepted (`Conns[CliId]` set) |
| `wr[c]`, `held[c]`, `inProxy[c]`, `answered[c]` | batches `ClientTCP.SendHandler` wrote; the proxy `RecvHandler` has read one and blocks in `p.RecvChan <- c`; batches `CmdReceiver` took from the unbuffered `ClientsToProxy`; replies `singleExecuteAndReply` sent |
| `closedLoop` | `Conf.ClosedLoop`, fixed when the run starts |

A server starts in `ServerInit`, which opens both listeners. Its `Prologue` then dials every peer in order (`NetDial`; a dial to a server that does not listen yet fails and is retried, a stutter) and accepts every peer's handshake (`NetAccept`). Only when both loops are done (`MeshUp`) does `ServerReady` report to the controller and start `ServerMain`. A client's `connect` runs in a goroutine from `Prologue` (`ClientDial`), so a client may be started before it is connected; its batches then wait in `SendChan` until `ClientWrite`. `ProxyRead` and `ProxyHandOff` split the proxy `RecvHandler` at the unbuffered channel: `ProxyEpilogue` (`ProxyTCP.Close`'s `Wg.Wait`) cannot pass a handler blocked there. `ReplyDeliver` is the client `RecvHandler` reading one reply. It needs the proxy's `SendHandler` to still run (`ProxySends`: the connection is in `Conns` and `ProxyTCP.Close` has not yet closed it). It also needs the client's connection to be open (`ClientReads`: `ClientTCP.Close` has not run). In open loop, `SendOneRequest` respects the window of `Window` outstanding batches (10000 in the code, `client.go:160-173`): when `SentSoFar - ReceivedSoFar` reaches it, the loop sleeps 500 ms and looks again. `SigInt` is guarded by `Drained`, the two-second sleep before it: what the server's clients wrote has reached `CmdReceiver`.

Each controller read is a step. It reads the next message, or it panics when the peer's process has ended and its connection is closed. Each goroutine's exit on `Done` is its own action (`CmdReceiverExit` … `MsgHandlerExit`). `MsgSerializer` ends only after `MsgRouter`'s deferred `close(ToSerializer)`. `writeToLog` is reduced to the one thing that matters to the run: it panics when the middle 80% of the replied prefix, `int(0.8*R)`, is empty (`WriteToLogPanics`).

### Reductions and why they are sound

* **Prune.** A message the receiving handler would certainly discard is removed from its stream as soon as it becomes discardable. Such a message is one whose receiver is down, whose slot is done, whose round already holds n−f messages, or a second Decision. Each of these conditions only ever becomes true, and discarding changes nothing but the stream. So the model is the code up to stuttering, with far fewer interleavings.
* **Symmetry.** Servers are symmetric model values; a server id only names an address within a slot. Requests are not symmetric, because the tie-break `IdLess` orders them.
* **Crash truncation.** Choosing the surviving prefix at crash time covers every set of in-flight messages a crash can lose on a FIFO connection.
* **`DoneView` (slot_safety).** Once a server's slot is done, `binConMsgHandling` returns on `IsDone` and the executor has left the slot. The only fields still read are the ones a ProposalRequest reads (`RecvProposals` and the proposal count) and the ones the properties read (`Decision`, `MyProposal`). The mailbox, the tallies, the phase and round, and replies still routed to the executor never influence a later step. So the view forgets them, and TLC identifies states that have the same futures. This cuts slot_safety from 1,162,105 to 711,257 states, with the same properties holding.
* **No VIEW over messages.** A VIEW that hides discardable messages was tried and rejected. It merged states whose live messages were stuck behind a discardable one, and so missed successors.

* **RabiaLog: `Kvs`.** KVSExecutor reads only its own server's ring and writes only its own variables. So a run includes only the KVSExecutors its properties are about. The others would only interleave independent steps.
* **RabiaLog: `PropReqs`.** When no reset falls between the two steps of an answer, a ProposalRequest changes nothing but how long the MsgHandler is busy, so the no-reuse runs leave them out (`PropReqs = FALSE`). With them, the state space grows twentyfold. `ring_reuse` turns them on.

### Bounds

Three servers with F = 1 is the smallest cluster that tolerates a fault. Two requests give both competing proposals and the `IdLess` tie-break.

* **`MaxPhase = 1`, coin `<<1>>`.** This covers phase 0, both rounds of phase 1, findReturnValue's request path, and a Decision overtaking rounds. It does not cover the coin: `PhaseNRound2` flips it only on the way into phase 2, so `CommonCoinFlip`'s outcome is never used in these runs. With no crash, a slot that would need phase 2 stops there; this bound is the model's, and the code allows up to `LenBlockArray = 10` phases.
* **Crash run, `MaxPhase = 0`.** This keeps the crash run within minutes. `LenBlockArray` is `MaxPhase + 1`, so the statistics array has four entries and phase 0's round-2 decision (`RoundNum = 3`) lands on its last index. That is the boundary `StatsInRange` checks.
* **RabiaLog.** Three servers, proxies 0 and 1 with one batch each (two competing batches, ordered by `IdLess`), SvrSeqs 0..1 with L = 2 (no reuse), and 0..2 with L = 2, or 0..1 with L = 1 and a single batch (reuse). Three slots with L = 2 is the least that lets a server be lapped by a peer one term ahead. The races need no more: each is a single step of one goroutine between two steps of another.
* **RabiaBenchmark.** Two servers (a majority is both) and two clients on different proxies, two batches each, both loop modes. Two batches is the least for which `writeToLog` succeeds, and with one outstanding batch in closed loop the ticker can fire before either reply. Two servers already give every order of dials and accepts in the mesh, including a dial that must wait for a peer's listener. Three servers, or three batches with two clients (678,010 states, 10 minutes), are beyond the run budget. `Window = 1` makes the open loop's window bind: with two batches, the second waits for the first reply.

## Runs

| Run | cfg | Result | What it shows |
|---|---|---|---|
| slot_safety | `MCRabiaSlot.cfg` | pass, 711,257 states under `DoneView`, about 2 min | `TypeOK`, `MajorityBacked`, `NoPanic` and `SlotRefinement` (the slot implements `SlotConsensus`) hold in every interleaving of the six goroutines and the six streams. |
| slot_crash | `MCRabiaSlotCrash.cfg` | pass, 131,212 states, about 30 s | `MajorityBacked`, `NoPanic` and `SlotRefinement` hold in phase 0 with one crash at any point. Every decided server's round count is a valid index of `NumOfRoundsDist` (`StatsInRange`). For every distribution that can contain that count, the exit report's percentiles equal the reference `Percentile`, and its maximum is the last non-zero index (`ExitStatsCorrect`). |
| fast_path | `MCRabiaSlotFast.cfg` | violation | `UnanimousFastDecision`, spec §8 scenario 1, fails. The handler admits only n−f = 2 proposals, so the `MajorityPlusF = 3` fast paths (`executor.go:231`, `:296`) are dead code when n = 3. |
| stranded_request | `MCRabiaSlotStranded.cfg` | violation | `NoStrandedRequest` fails: a server waits for ever in `requestProposalAndWait` (trace below). |
| log_safety | `RabiaLogSafety.cfg` | pass, 373,098 states, about 2 min | Without ring reuse, `NoLostBatch` holds (every emitted batch is, at every live server, in flight, queued, its pending proposal or decided), and the log refines `ReplicatedKV` (`LogRefinement`): no batch committed twice, KVSExecutor applying a gap-free prefix. Under weak fairness of KVSExecutor, every slot its server decided is eventually applied (`KVSProgress`). |
| ring_reuse | `RabiaLogReuse.cfg` | pass, 193,581 states | One-slot ring with ProposalRequests. Every reset path is reachable: executor and handler panics, the blocked executor, and the answer cut by a reset. Every step that halts a goroutine (a MsgHandler or executor panic, or the executor blocking for ever in `wait()`) happens at a server that some peer has lapped by a full ring (`RaceNeedsLap`): the documented races cannot fire without a lag of `LenLedger` SvrSeqs. |
| putback_race | `RabiaLogPutBackRace.cfg` | violation | `NoLostBatch` fails through race 1 of `consensus.go:61`. A reset between `putBackMyProposal`'s term check and its read pushes `ZeroObj`, and the server's batch is gone. |
| epilogue_race | `RabiaLogEpilogueRace.cfg` | violation | `RingHoldsOwnTerm` fails. A reset between epilogue's term check and its write leaves the newer term's slot done with an older decision. |
| kvs_race | `RabiaLogKVSRace.cfg` | violation | `LogRefinement` fails. KVSExecutor checks slot 0 for SvrSeq 0. The slot is then reset and decided for SvrSeq 2, and KVSExecutor applies that batch first (`proxy.go:212`). |
| executor_halt | `RabiaLogHalt.cfg` | violation | `NoHalt` fails. Two servers run a ring length ahead, the third's MsgHandler resets its slot, and its first `getRequest` panics. |
| benchmark_lifecycle | `RabiaBenchmark.cfg` | pass, 87,894 states, about 75 s | No client leaves `waitStart` before every server's mesh is up (`ClientsStartAfterMesh`). No server closes `Done` while a client is still in its loop or epilogue (`ServersOutliveClients`). Every process ends, normally or by a panic (`EveryProcessEnds`). With open-loop clients the run ends normally, with every process reporting its exit (`OpenLoopFinishes`). This holds with the window in force and with replies read by the client's `RecvHandler` only while both ends of the connection are open. |
| client_log_crash | `RabiaBenchmarkLogCrash.cfg` | violation | `NoPanic` fails. A closed-loop client's ticker fires before its second reply, so `writeToLog` (`client.go:291`) indexes an empty slice and the client dies before reporting. The controller's read of its connection then fails and panics (`controller.go:198`), and the servers' `WaitController` reads fail in turn, so no server runs its `Epilogue`. |

The code calls its two documented races "extremely unlikely" with the default `LenLedger = 10000`. The model shows five such hazards, all from unlocked accesses racing a reset. The fifth, race 2 of `consensus.go:65`, makes the MsgHandler panic when `getRequest` resets a slot while it answers a ProposalRequest. TLC finds `NoHandlerPanic` violated under the `RabiaLogReuse.cfg` constants, but no run keeps it, because the source itself documents that race. Each one needs a server a ring length behind a peer (slow start, a stranded `requestProposalAndWait`, a long GC pause), and nothing in the code bounds that lag. Spec §4 requires the slot lock for exactly these accesses.

The `stranded_request` trace:
1. A server holding the proposal majority votes 1 and crashes.
2. Another server decides bit 1 in phase 1 without a local majority and asks its peers for the proposal.
3. The only live repliers hold frozen 1–1 tallies, so no reply ever comes. The loop has neither a timeout nor a retry.

This contradicts spec 8.3 (Termination) and §7.

Every passing property has a mutant in `PROJECT.json`: a plausible bug in the mapped code that TLC catches. The mutants are:
* `HasEnoughMsg` with `>` for `>=`;
* the reply guard without its majority test;
* `findReturnValue` using the local majority without asking;
* a missing `Round++` or `Phase++`;
* `putBackMyProposal` pushing the Decision;
* epilogue not putting back after a null slot;
* KVSExecutor not waiting for `IsDone`;
* KVSExecutor not advancing past a null slot;
* the client's request loop running to `i <= n`;
* the controller writing the stop together with the start;
* `MsgRouter` without its deferred `close(ToSerializer)`;
* the open loop's window ignoring `ReceivedSoFar`;
* the MsgHandler answering a ProposalRequest without `IsTermMatched`;
* a statistics array one entry short;
* the percentile search with `>` for `>=`;
* `ServerReady` without waiting for `NetTCP.Connect` to join its loops.

## Fairness and liveness

`RabiaSlot` has no fairness and no liveness property. Liveness checked with symmetry is unsound in TLC, and without symmetry the state space is out of reach. Its termination failure is stated as a safety property: a state in which a blocked server can never be answered (`NoStrandedRequest`).

`RabiaLog` assumes weak fairness of KVSExecutor's two steps (`LiveSpec`). KVSExecutor is a polling loop that never blocks (`proxy.go:200-226`), and Go's scheduler runs every runnable goroutine, so a step it can take is eventually taken. Nothing else is assumed fair. The consensus executor's progress depends on the coin and on message delivery, which is `RabiaSlot`'s business.

`RabiaBenchmark` assumes weak fairness of every step (`LiveSpec`):
* every process is a goroutine the Go scheduler keeps running;
* the client's ticker, the server's two-second sleep and the 100 ms dial retries fire in real time;
* a batch sent while its proxy and a majority of servers serve is eventually answered.

The last point is the consensus layer's termination (spec 8.3), which this module assumes and does not check. Where it fails (`stranded_request`), an executor blocked in `requestProposalAndWait` also ignores `Done` (`executor.go:355`). `s.Wg.Wait` would then never return, and the server would never report its exit.

## Not modelled

* **Statistics, logging and the serialization benchmarks.** They hold no protocol state.
* **Redis and dictionary back-ends, and the contents of client commands.** These are I/O. A batch is its identity and a flag saying it carries commands.
* **Client request contents and latency statistics.** Random keys and values, and the latency percentiles of `writeToLog`, are data and logging. Only the index arithmetic that can panic is modelled. Of the server's statistics, only `NumOfRoundsDist` and its percentiles are modelled. The other counters are increments that nothing reads back.
* **The two-second sleep as a timing assumption.** `Drained` states what the sleep before the SIGINT achieves in practice. Without it a proxy `RecvHandler` can read a late request after `CmdReceiver` has left on `Done` and block `ProxyTCP.Close` for ever. That needs a closed-loop client that times out after two replies, so three batches. With three batches and one client, TLC finds `EveryProcessEnds` violated in 2.5 minutes when `Drained` is dropped. That instance is kept out of the runs for time (see the hazard at `tcp.go:285`).
* **TCP inside a connection.** Once a connection is set up it is a FIFO stream. Channels of capacity `LenChannel = 500000` are treated as never full. A connection is never re-dialed after a read error (`tcp.go:464`), so a lost peer is a crashed peer (`RabiaSlot`'s crash run). The race in `ProxyTCP.Close` between reading `Conns` and the accept loop writing it is below the model's granularity: `ProxyEpilogue` is one step.
* **`ClientTCP.Close` on a nil `Conn`.** It is unreachable as a separate failure: a client that was never connected has no replies, and panics earlier in `writeToLog`.
* **Slot details outside the bounds.** These are the 10-entry mailbox and the 10-phase array; see the hazards in `PROJECT.json` for why they are out of reach.
* **The common coin's outcome.** Using it needs a slot that reaches phase 2, so `MaxPhase = 2`. With the slot runs' other bounds, that is beyond the run budget. The coin is a fixed seeded sequence (`ResetCommonCoin` seeds 42), which `Coin` models as a constant.
* **`NConcurrency > 1`.** It is commented out in the code.
