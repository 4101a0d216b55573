--------------------------- MODULE RabiaBenchmark ---------------------------
(***************************************************************************)
(* One benchmark run of Rabia, from process start to process exit          *)
(* (main.go): the controller (roles/controller/controller.go), the         *)
(* Receiver each server and client runs towards it (receiver.go), the      *)
(* clients' closed- and open-loop main loops and epilogue (client.go), and *)
(* the server's life cycle: ServerInit, Prologue with the peer mesh of     *)
(* NetTCP.Connect, ServerMain, the SIGINT that closes Done (system.go),    *)
(* the exit of its six long-running goroutines on Done, and Epilogue's     *)
(* Wg.Wait (server.go).  The TCP layer (internal/tcp/tcp.go) is modelled   *)
(* by the steps that order the run: the mesh's dials and accepts, the      *)
(* client's connect retry loop, the proxy's accept loop, and a request's   *)
(* way from the client's SendHandler through the proxy's RecvHandler into  *)
(* the unbuffered ClientsToProxy channel that CmdReceiver reads.           *)
(*                                                                         *)
(* Consensus is abstract here: a request CmdReceiver has taken is answered *)
(* by its proxy while the proxy's goroutines and those of a majority of    *)
(* servers run (RabiaLog and RabiaSlot model how).  Every connection is a  *)
(* TCP stream: what is written is read in order, a dial succeeds once the  *)
(* peer listens (the kernel queues the connection until Accept), and a     *)
(* read after the peer's process has ended fails (EOF).                    *)
(***************************************************************************)
EXTENDS Naturals, FiniteSets

CONSTANTS
  NS,          \* Conf.NServers
  NC,          \* Conf.NClients
  NReq,        \* Conf.NClientRequests / Conf.ClientBatchSize: a client's batches
  LoopModes,   \* the values of Conf.ClosedLoop the run may start with
  Window,      \* the open-loop sender's window, 10000 batches in the code
  Attach       \* Attach[c]: the server whose proxy client c connects to (Conf.ProxyAddr)

Server == 0 .. NS - 1
Client == 0 .. NC - 1

ASSUME /\ NS \in Nat \ {0} /\ NC \in Nat \ {0} /\ NReq \in Nat \ {0}
       /\ LoopModes \subseteq BOOLEAN /\ Window \in Nat \ {0} /\ Attach \in [Client -> Server]

\* a connection to the controller is named by the Receiver's (ServerClient, Id)
Actor == ({"svr"} \X Server) \cup ({"cli"} \X Client)

\* the six goroutines ServerMain starts and Epilogue waits for with s.Wg
Goroutine == {"CmdReceiver", "KVSExecutor", "MsgRouter", "MsgSerializer",
              "Executor", "MsgHandler"}

\* clients are assigned to proxies round-robin
RoundRobin == [c \in Client |-> c % NS]

VARIABLES
  ctl,      \* the controller's position in RunController
  accepted, \* the connections connect() has accepted and read the first message of
  idx,      \* the index the wait loop of the controller is at
  toCtl,    \* toCtl[a]: messages a's Receiver has written to the controller (MsgToController)
  rd,       \* rd[a]: messages the controller has read from a
  fromCtl,  \* fromCtl[a]: the controller has written its start (client) or stop (server) to a
  cpc,      \* cpc[c]: where client c's main goroutine is
  sent,     \* sent[c]: batches client c has put on TCP.SendChan (SentSoFar / ClientBatchSize)
  rcvd,     \* rcvd[c]: replies c has processed (ReceivedSoFar / ClientBatchSize)
  spc,      \* spc[s]: where server s's main goroutine is
  rcv,      \* rcv[s]: the goroutine RunServer starts around receiver.WaitController
  done,     \* done[s]: s.Done is closed
  run,      \* run[s]: the goroutines of s.Wg that have not returned
  toSer,    \* toSer[s]: Network.ToSerializer is still open
  dialIdx,  \* dialIdx[s]: the i of NetTCP.dialing's loop, the peer s dials next
  acc,      \* acc[s]: the peers whose handshake NetTCP.accepting of s has read
  ccn,      \* ccn[c]: ClientTCP.connect of c has dialled and written its CliId
  pacc,     \* pacc[s]: the clients ProxyTCP.connect of s has accepted (Conns[CliId] set)
  wr,       \* wr[c]: batches c's ClientTCP.SendHandler has written to the connection
  held,     \* held[c]: the proxy's RecvHandler for c has read a request and is in p.RecvChan <- c
  inProxy,  \* inProxy[c]: c's requests CmdReceiver has taken from ClientsIn
  answered, \* answered[c]: replies c's proxy has put on its SendChan[c]
  got,      \* got[c]: replies c's RecvHandler has read and put on TCP.RecvChan
  closedLoop \* Conf.ClosedLoop, read from Rabia_ClosedLoop at start

ctlVars == <<ctl, accepted, idx, rd, fromCtl>>
cliVars == <<cpc, sent, rcvd>>
svrVars == <<spc, rcv, done, run, toSer>>
netVars == <<dialIdx, acc, ccn, pacc, wr, held, inProxy, answered, got>>
vars == <<ctlVars, toCtl, cliVars, svrVars, netVars, closedLoop>>

\* a process has ended and its connections are closed
CtlGone    == ctl \in {"done", "panicked"}
CliGone(c) == cpc[c] \in {"exited", "panicked"}
SvrGone(s) == spc[s] \in {"exited", "panicked"}

\* NetTCP.Connect has returned: s has dialled every peer and read the
\* handshake of every peer's dial
MeshUp(s) == dialIdx[s] = NS /\ acc[s] = Server

\* the proxy's listener (ProxyTcpInit) is open: from ServerInit until
\* ProxyTCP.Close in Proxy.Epilogue
ProxyListens(s) == spc[s] \in {"prologue", "main", "proxyClose"}

Init ==
  /\ ctl = "connect"
  /\ accepted = {}
  /\ idx = 0
  /\ toCtl = [a \in Actor |-> 0]
  /\ rd = [a \in Actor |-> 0]
  /\ fromCtl = [a \in Actor |-> FALSE]
  /\ cpc = [c \in Client |-> "init"]
  /\ sent = [c \in Client |-> 0]
  /\ rcvd = [c \in Client |-> 0]
  /\ spc = [s \in Server |-> "init"]
  /\ rcv = [s \in Server |-> "none"]
  /\ done = [s \in Server |-> FALSE]
  /\ run = [s \in Server |-> {}]
  /\ toSer = [s \in Server |-> TRUE]
  /\ dialIdx = [s \in Server |-> 0]
  /\ acc = [s \in Server |-> {}]
  /\ ccn = [c \in Client |-> FALSE]
  /\ pacc = [s \in Server |-> {}]
  /\ wr = [c \in Client |-> 0]
  /\ held = [c \in Client |-> FALSE]
  /\ inProxy = [c \in Client |-> 0]
  /\ answered = [c \in Client |-> 0]
  /\ got = [c \in Client |-> 0]
  /\ closedLoop \in LoopModes

-----------------------------------------------------------------------------
(* The controller                                                          *)

\* MsgToClients and MsgToServers: write a Command to every connection of
\* that role, on top of what was written before
MsgToClients(f) == [b \in Actor |-> f[b] \/ b[1] = "cli"]
MsgToServers(f) == [b \in Actor |-> f[b] \/ b[1] = "svr"]

\* mutant: connect() followed by both MsgToClients and MsgToServers, the
\* stop written before waitClientReplies
CtlAcceptStopsEarly(a) ==
  /\ ctl = "connect"
  /\ a \notin accepted
  /\ toCtl[a] > rd[a]
  /\ accepted' = accepted \cup {a}
  /\ rd' = [rd EXCEPT ![a] = @ + 1]
  /\ IF accepted' = Actor
       THEN /\ fromCtl' = MsgToServers(MsgToClients(fromCtl))
            /\ ctl' = "waitClients"
       ELSE UNCHANGED <<fromCtl, ctl>>
  /\ UNCHANGED <<idx, toCtl, cliVars, svrVars, netVars, closedLoop>>

\* connect(): Accept a connection and read its first message; its CliSeq
\* (1 client, 2 server) and CliId name the actor. After NServers+NClients
\* of them RunController calls MsgToClients, which writes to every client.
CtlAccept(a) ==
  /\ ctl = "connect"
  /\ a \notin accepted
  /\ toCtl[a] > rd[a]
  /\ accepted' = accepted \cup {a}
  /\ rd' = [rd EXCEPT ![a] = @ + 1]
  /\ IF accepted' = Actor
       THEN /\ fromCtl' = MsgToClients(fromCtl)
            /\ ctl' = "waitClients"
       ELSE UNCHANGED <<fromCtl, ctl>>
  /\ UNCHANGED <<idx, toCtl, cliVars, svrVars, netVars, closedLoop>>

\* one iteration of a wait loop on the connection of a: read the next
\* message, or panic on the failed read of a connection that has closed
CtlRead(a, last, next) ==
  \/ /\ toCtl[a] > rd[a]
     /\ rd' = [rd EXCEPT ![a] = @ + 1]
     /\ IF idx = last
          THEN /\ idx' = 0
               /\ ctl' = next
          ELSE /\ idx' = idx + 1
               /\ UNCHANGED ctl
  \/ /\ toCtl[a] = rd[a]
     /\ IF a[1] = "cli" THEN CliGone(a[2]) ELSE SvrGone(a[2])
     /\ ctl' = "panicked"
     /\ UNCHANGED <<rd, idx>>

\* waitClientReplies, then MsgToServers once the last client is read
WaitClientReplies ==
  /\ ctl = "waitClients"
  /\ CtlRead(<<"cli", idx>>, NC - 1, "waitServers")
  /\ fromCtl' = IF ctl' = "waitServers"
                  THEN MsgToServers(fromCtl)
                  ELSE fromCtl
  /\ UNCHANGED <<accepted, toCtl, cliVars, svrVars, netVars, closedLoop>>

\* waitServerReplies; RunController then returns and the process exits
WaitServerReplies ==
  /\ ctl = "waitServers"
  /\ CtlRead(<<"svr", idx>>, NS - 1, "done")
  /\ UNCHANGED <<accepted, fromCtl, toCtl, cliVars, svrVars, netVars, closedLoop>>

-----------------------------------------------------------------------------
(* A client (RunClient)                                                    *)

\* ClientInit, Prologue (which only starts ClientTCP.connect in a
\* goroutine), receiver.Connect and MsgToController
ClientReady(c) ==
  /\ cpc[c] = "init"
  /\ cpc' = [cpc EXCEPT ![c] = "waitStart"]
  /\ toCtl' = [toCtl EXCEPT ![<<"cli", c>>] = 1]
  /\ UNCHANGED <<ctlVars, sent, rcvd, svrVars, netVars, closedLoop>>

\* ClientTCP.connect: the dial succeeds once the proxy listens (before, it
\* fails and the loop sleeps and retries: a stutter), then the CliId
\* handshake is written and the two handlers start
ClientDial(c) ==
  /\ cpc[c] # "init"
  /\ ~CliGone(c)
  /\ ~ccn[c]
  /\ ProxyListens(Attach[c])
  /\ ccn' = [ccn EXCEPT ![c] = TRUE]
  /\ UNCHANGED <<ctlVars, toCtl, cliVars, svrVars, dialIdx, acc, pacc, wr,
                 held, inProxy, answered, got, closedLoop>>

\* receiver.WaitController returns with the start message. (Its panic on a
\* failed read needs a controller that died in connect(), which with one
\* connection per configured id it does not.)
ClientStart(c) ==
  /\ cpc[c] = "waitStart"
  /\ fromCtl[<<"cli", c>>]
  /\ cpc' = [cpc EXCEPT ![c] = "loop"]
  /\ UNCHANGED <<ctlVars, toCtl, sent, rcvd, svrVars, netVars, closedLoop>>

\* mutant: the window ignores ReceivedSoFar and caps what is sent
WindowOpenNoRecv(c) == sent[c] < Window

\* OpenLoopClient's sender compares SentSoFar - ReceivedSoFar with its
\* window and sleeps 500 ms and retries the same i while it is full (a
\* stutter).  ReceivedSoFar is written by the reply goroutine without
\* synchronisation; a stale read only makes the sender sleep once more.
WindowOpen(c) == sent[c] - rcvd[c] < Window

\* mutant: the request loop runs to i <= n
SendOneRequestOffByOne(c) ==
  /\ cpc[c] = "loop"
  /\ sent[c] <= NReq
  /\ closedLoop => rcvd[c] = sent[c]
  /\ ~closedLoop => WindowOpen(c)
  /\ sent' = [sent EXCEPT ![c] = @ + 1]
  /\ UNCHANGED <<ctlVars, toCtl, cpc, rcvd, svrVars, netVars, closedLoop>>

\* sendOneRequest: the closed loop sends after the previous reply, the
\* open loop's sender goroutine while its window is open; the batch goes
\* on the buffered TCP.SendChan whether or not connect is done
SendOneRequest(c) ==
  /\ cpc[c] = "loop"
  /\ sent[c] < NReq
  /\ closedLoop => rcvd[c] = sent[c]
  /\ ~closedLoop => WindowOpen(c)
  /\ sent' = [sent EXCEPT ![c] = @ + 1]
  /\ UNCHANGED <<ctlVars, toCtl, cpc, rcvd, svrVars, netVars, closedLoop>>

\* ClientTCP.SendHandler takes a batch from SendChan and writes it; it
\* runs from connect until Epilogue closes c.Done (what is left in
\* SendChan then is never sent)
ClientWrite(c) ==
  /\ ccn[c]
  /\ cpc[c] = "loop"
  /\ wr[c] < sent[c]
  /\ wr' = [wr EXCEPT ![c] = @ + 1]
  /\ UNCHANGED <<ctlVars, toCtl, cliVars, svrVars, dialIdx, acc, ccn, pacc,
                 held, inProxy, answered, got, closedLoop>>

\* processOneReply, on a reply taken from TCP.RecvChan
ProcessOneReply(c) ==
  /\ cpc[c] = "loop"
  /\ rcvd[c] < got[c]
  /\ rcvd' = [rcvd EXCEPT ![c] = @ + 1]
  /\ UNCHANGED <<ctlVars, toCtl, cpc, sent, svrVars, netVars, closedLoop>>

\* CloseLoopClient's ticker fires while the client waits for a reply
ClientTimeout(c) ==
  /\ closedLoop
  /\ cpc[c] = "loop"
  /\ rcvd[c] < sent[c]
  /\ cpc' = [cpc EXCEPT ![c] = "epilogue"]
  /\ UNCHANGED <<ctlVars, toCtl, sent, rcvd, svrVars, netVars, closedLoop>>

\* the loop (closed) or both goroutines (open, c.Wg.Wait) finish
ClientLoopEnd(c) ==
  /\ cpc[c] = "loop"
  /\ sent[c] = NReq
  /\ rcvd[c] = NReq
  /\ cpc' = [cpc EXCEPT ![c] = "epilogue"]
  /\ UNCHANGED <<ctlVars, toCtl, sent, rcvd, svrVars, netVars, closedLoop>>

\* writeToLog keeps the middle 80% of the replied prefix of CommandLog,
\* int(float64(R)*0.8) entries, and indexes cmdLogs[0]: a panic when that
\* slice is empty. (0.8 as a float64 is slightly above 4/5, so the product
\* never rounds below an integer 4R/5 and int() is (4*R) \div 5.)
MidLen(r) == (4 * r) \div 5
WriteToLogPanics(r) == MidLen(r) = 0

\* Epilogue (close Done, writeToLog, TCP.Close), MsgToController, exit.
\* (TCP.Close dereferences c.Conn, nil before connect; a client that has
\* processed a reply is connected, and one that has not panics earlier in
\* writeToLog.)
ClientEpilogue(c) ==
  /\ cpc[c] = "epilogue"
  /\ IF WriteToLogPanics(rcvd[c])
       THEN /\ cpc' = [cpc EXCEPT ![c] = "panicked"]
            /\ UNCHANGED toCtl
       ELSE /\ cpc' = [cpc EXCEPT ![c] = "exited"]
            /\ toCtl' = [toCtl EXCEPT ![<<"cli", c>>] = 2]
  /\ UNCHANGED <<ctlVars, sent, rcvd, svrVars, netVars, closedLoop>>

-----------------------------------------------------------------------------
(* A server (RunServer)                                                    *)

\* ServerInit opens the proxy's and the network's listeners; Prologue
\* starts SigListen and enters Network.Prologue (NetTCP.Connect)
ServerInit(s) ==
  /\ spc[s] = "init"
  /\ spc' = [spc EXCEPT ![s] = "prologue"]
  /\ UNCHANGED <<ctlVars, toCtl, cliVars, rcv, done, run, toSer, netVars, closedLoop>>

\* NetTCP.dialing: dial Peers[i] (itself included); it succeeds once that
\* server listens, and a failure sleeps and retries the same i (a stutter);
\* then write the handshake with the own id
NetDial(s) ==
  /\ spc[s] = "prologue"
  /\ dialIdx[s] < NS
  /\ spc[dialIdx[s]] # "init"
  /\ dialIdx' = [dialIdx EXCEPT ![s] = @ + 1]
  /\ UNCHANGED <<ctlVars, toCtl, cliVars, svrVars, acc, ccn, pacc, wr, held,
                 inProxy, answered, got, closedLoop>>

\* NetTCP.accepting: Accept the next queued connection and read the id of
\* its handshake, which j wrote when its dialing reached s
NetAccept(s, j) ==
  /\ spc[s] = "prologue"
  /\ j \notin acc[s]
  /\ dialIdx[j] > s
  /\ acc' = [acc EXCEPT ![s] = @ \cup {j}]
  /\ UNCHANGED <<ctlVars, toCtl, cliVars, svrVars, dialIdx, ccn, pacc, wr,
                 held, inProxy, answered, got, closedLoop>>

\* mutant: Network.Prologue returns before the mesh is complete
ServerReadyNoJoin(s) ==
  /\ spc[s] = "prologue"
  /\ spc' = [spc EXCEPT ![s] = "main"]
  /\ rcv' = [rcv EXCEPT ![s] = "wait"]
  /\ run' = [run EXCEPT ![s] = Goroutine]
  /\ toCtl' = [toCtl EXCEPT ![<<"svr", s>>] = 1]
  /\ UNCHANGED <<ctlVars, cliVars, done, toSer, netVars, closedLoop>>

\* NetTCP.Connect's wg.Wait returns once both loops are done; then
\* Proxy.Prologue (ProxyTCP.Connect, whose accept loop runs in a
\* goroutine), the Receiver's Connect and MsgToController, the goroutine
\* around WaitController, and ServerMain starting the six goroutines
ServerReady(s) ==
  /\ spc[s] = "prologue"
  /\ MeshUp(s)
  /\ spc' = [spc EXCEPT ![s] = "main"]
  /\ rcv' = [rcv EXCEPT ![s] = "wait"]
  /\ run' = [run EXCEPT ![s] = Goroutine]
  /\ toCtl' = [toCtl EXCEPT ![<<"svr", s>>] = 1]
  /\ UNCHANGED <<ctlVars, cliVars, done, toSer, netVars, closedLoop>>

\* ProxyTCP.connect: Accept a queued client connection, read its CliId,
\* set Conns[CliId] and start its SendHandler and RecvHandler; the loop
\* runs until ProxyTCP.Close closes the listener
ProxyAccept(s, c) ==
  /\ spc[s] \in {"main", "proxyClose"}
  /\ Attach[c] = s
  /\ ccn[c]
  /\ c \notin pacc[s]
  /\ pacc' = [pacc EXCEPT ![s] = @ \cup {c}]
  /\ UNCHANGED <<ctlVars, toCtl, cliVars, svrVars, dialIdx, acc, ccn, wr,
                 held, inProxy, answered, got, closedLoop>>

\* ProxyTCP.RecvHandler reads the next request of c from the connection
\* (until ProxyTCP.Close closes it) and then blocks in p.RecvChan <- c
ProxyRead(c) ==
  LET s == Attach[c] IN
  /\ c \in pacc[s]
  /\ spc[s] \in {"main", "proxyClose"}
  /\ ~held[c]
  /\ inProxy[c] < wr[c]
  /\ held' = [held EXCEPT ![c] = TRUE]
  /\ UNCHANGED <<ctlVars, toCtl, cliVars, svrVars, dialIdx, acc, ccn, pacc,
                 wr, inProxy, answered, got, closedLoop>>

\* the unbuffered ClientsToProxy hands the request over once CmdReceiver's
\* select takes msg := <-p.ClientsIn
ProxyHandOff(c) ==
  /\ held[c]
  /\ "CmdReceiver" \in run[Attach[c]]
  /\ held' = [held EXCEPT ![c] = FALSE]
  /\ inProxy' = [inProxy EXCEPT ![c] = @ + 1]
  /\ UNCHANGED <<ctlVars, toCtl, cliVars, svrVars, dialIdx, acc, ccn, pacc,
                 wr, answered, got, closedLoop>>

\* receiver.WaitController returns on the stop message, or panics (and
\* the process with it) on a failed read
ReceiverWait(s) ==
  /\ ~SvrGone(s)
  /\ rcv[s] = "wait"
  /\ \/ /\ fromCtl[<<"svr", s>>]
        /\ rcv' = [rcv EXCEPT ![s] = "sleep"]
        /\ UNCHANGED spc
     \/ /\ ~fromCtl[<<"svr", s>>]
        /\ CtlGone
        /\ rcv' = [rcv EXCEPT ![s] = "ended"]
        /\ spc' = [spc EXCEPT ![s] = "panicked"]
  /\ UNCHANGED <<ctlVars, toCtl, cliVars, done, run, toSer, netVars, closedLoop>>

\* the 2-second time.Sleep before the SIGINT ("Wait inter-server messaging
\* to be completed"): what s's clients have written has reached CmdReceiver
Drained(s) == \A c \in Client : Attach[c] = s => inProxy[c] = wr[c]

\* after time.Sleep the goroutine sends SIGINT to its own process and
\* SigListen closes s.Done
SigInt(s) ==
  /\ ~SvrGone(s)
  /\ rcv[s] = "sleep"
  /\ Drained(s)
  /\ rcv' = [rcv EXCEPT ![s] = "ended"]
  /\ done' = [done EXCEPT ![s] = TRUE]
  /\ UNCHANGED <<ctlVars, toCtl, cliVars, spc, run, toSer, netVars, closedLoop>>

\* the request path of a batch: CmdReceiver, the consensus layer of a
\* majority of servers, and the proxy's KVSExecutor replying
Serving(s) == {"Executor", "MsgHandler", "MsgRouter", "MsgSerializer"} \subseteq run[s]
Majority == NS \div 2 + 1

\* c's proxy answers one of the batches CmdReceiver took from c
\* (singleExecuteAndReply puts the reply on SendChan[c], c being in Conns
\* since its RecvHandler read the request)
ProxyReply(c) ==
  LET s == Attach[c] IN
  /\ answered[c] < inProxy[c]
  /\ {"CmdReceiver", "KVSExecutor"} \subseteq run[s]
  /\ Cardinality({t \in Server : Serving(t)}) >= Majority
  /\ answered' = [answered EXCEPT ![c] = @ + 1]
  /\ UNCHANGED <<ctlVars, toCtl, cliVars, svrVars, dialIdx, acc, ccn, pacc,
                 wr, held, inProxy, got, closedLoop>>

\* ProxyTCP.SendHandler for c runs from connect until ProxyTCP.Close closes
\* p.Done (a failed write, to a connection the client closed, ends it too)
ProxySends(c) ==
  /\ c \in pacc[Attach[c]]
  /\ spc[Attach[c]] \in {"main", "proxyClose"}

\* ClientTCP.RecvHandler runs from connect until a read fails, which is
\* once Epilogue's TCP.Close has closed the connection (Close's Wg.Wait
\* then returns: RecvHandler could only block on a full RecvChan, whose
\* LenChannel buffer exceeds a client's batches)
ClientReads(c) ==
  /\ ccn[c]
  /\ cpc[c] \in {"waitStart", "loop", "epilogue"}

\* a reply on SendChan[c] is written by the proxy's SendHandler and read by
\* the client's RecvHandler into TCP.RecvChan (one step: a reply written
\* to a connection whose reader has gone is lost either way)
ReplyDeliver(c) ==
  /\ got[c] < answered[c]
  /\ ProxySends(c)
  /\ ClientReads(c)
  /\ got' = [got EXCEPT ![c] = @ + 1]
  /\ UNCHANGED <<ctlVars, toCtl, cliVars, svrVars, dialIdx, acc, ccn, pacc,
                 wr, held, inProxy, answered, closedLoop>>

\* goroutine g of s returns: the helper for the six exits below
Return(s, g) ==
  /\ g \in run[s]
  /\ run' = [run EXCEPT ![s] = @ \ {g}]

\* CmdReceiver's select takes <-p.Done and breaks MainLoop
CmdReceiverExit(s) ==
  /\ done[s]
  /\ Return(s, "CmdReceiver")
  /\ UNCHANGED <<ctlVars, toCtl, cliVars, spc, rcv, done, toSer, netVars, closedLoop>>

\* KVSExecutor's polling select takes <-p.Done and returns
KVSExecutorExit(s) ==
  /\ done[s]
  /\ Return(s, "KVSExecutor")
  /\ UNCHANGED <<ctlVars, toCtl, cliVars, spc, rcv, done, toSer, netVars, closedLoop>>

\* mutant: MsgRouter without its deferred close(n.ToSerializer)
MsgRouterExitNoClose(s) ==
  /\ done[s]
  /\ Return(s, "MsgRouter")
  /\ UNCHANGED <<ctlVars, toCtl, cliVars, spc, rcv, done, toSer, netVars, closedLoop>>

\* MsgRouter breaks MainLoop on <-n.Done; its deferred close(n.ToSerializer)
\* runs on the way out
MsgRouterExit(s) ==
  /\ done[s]
  /\ Return(s, "MsgRouter")
  /\ toSer' = [toSer EXCEPT ![s] = FALSE]
  /\ UNCHANGED <<ctlVars, toCtl, cliVars, spc, rcv, done, netVars, closedLoop>>

\* MsgSerializer's range over ToSerializer ends once the channel is closed
MsgSerializerExit(s) ==
  /\ ~toSer[s]
  /\ Return(s, "MsgSerializer")
  /\ UNCHANGED <<ctlVars, toCtl, cliVars, spc, rcv, done, toSer, netVars, closedLoop>>

\* Executor sees Done at the top of MainLoop (or wait returns false and
\* the loop continues there), breaks it and syncs its log files
ExecutorExit(s) ==
  /\ done[s]
  /\ Return(s, "Executor")
  /\ UNCHANGED <<ctlVars, toCtl, cliVars, spc, rcv, done, toSer, netVars, closedLoop>>

\* MsgHandler's select takes <-c.Done and breaks MainLoop
MsgHandlerExit(s) ==
  /\ done[s]
  /\ Return(s, "MsgHandler")
  /\ UNCHANGED <<ctlVars, toCtl, cliVars, spc, rcv, done, toSer, netVars, closedLoop>>

\* ServerMain's <-s.Done returns and Epilogue begins
ServerMainReturn(s) ==
  /\ spc[s] = "main"
  /\ done[s]
  /\ spc' = [spc EXCEPT ![s] = "proxyClose"]
  /\ UNCHANGED <<ctlVars, toCtl, cliVars, rcv, done, run, toSer, netVars, closedLoop>>

\* Proxy.Epilogue: ProxyTCP.Close closes the client connections, p.Done and
\* the listener and waits for the per-client handlers: RecvHandler leaves
\* on its closed connection, but not while it blocks in p.RecvChan <- c,
\* and SendHandler on p.Done
ProxyEpilogue(s) ==
  /\ spc[s] = "proxyClose"
  /\ \A c \in pacc[s] : ~held[c]
  /\ spc' = [spc EXCEPT ![s] = "netClose"]
  /\ UNCHANGED <<ctlVars, toCtl, cliVars, rcv, done, run, toSer, netVars, closedLoop>>

\* Network.Epilogue: NetTCP.Close closes the peer connections, n.Done and
\* the listener and waits for the per-peer handlers in the same way
NetworkEpilogue(s) ==
  /\ spc[s] = "netClose"
  /\ spc' = [spc EXCEPT ![s] = "wgWait"]
  /\ UNCHANGED <<ctlVars, toCtl, cliVars, rcv, done, run, toSer, netVars, closedLoop>>

\* s.Wg.Wait returns; MsgToController, and RunServer returns
ServerExit(s) ==
  /\ spc[s] = "wgWait"
  /\ run[s] = {}
  /\ spc' = [spc EXCEPT ![s] = "exited"]
  /\ toCtl' = [toCtl EXCEPT ![<<"svr", s>>] = 2]
  /\ UNCHANGED <<ctlVars, cliVars, rcv, done, run, toSer, netVars, closedLoop>>

-----------------------------------------------------------------------------

Next ==
  \/ \E a \in Actor : CtlAccept(a)
  \/ WaitClientReplies
  \/ WaitServerReplies
  \/ \E c \in Client :
       \/ ClientReady(c) \/ ClientDial(c) \/ ClientStart(c)
       \/ SendOneRequest(c) \/ ClientWrite(c) \/ ProcessOneReply(c)
       \/ ClientTimeout(c) \/ ClientLoopEnd(c) \/ ClientEpilogue(c)
       \/ ProxyRead(c) \/ ProxyHandOff(c) \/ ProxyReply(c) \/ ReplyDeliver(c)
  \/ \E s \in Server :
       \/ ServerInit(s) \/ NetDial(s) \/ \E j \in Server : NetAccept(s, j)
       \/ ServerReady(s) \/ \E c \in Client : ProxyAccept(s, c)
       \/ ReceiverWait(s) \/ SigInt(s)
       \/ CmdReceiverExit(s) \/ KVSExecutorExit(s) \/ MsgRouterExit(s)
       \/ MsgSerializerExit(s) \/ ExecutorExit(s) \/ MsgHandlerExit(s)
       \/ ServerMainReturn(s) \/ ProxyEpilogue(s) \/ NetworkEpilogue(s)
       \/ ServerExit(s)

Spec == Init /\ [][Next]_vars

\* Every process is a goroutine the Go runtime keeps scheduling, the
\* ticker, the sleeps and the dial retries fire in real time, and a batch
\* sent to a serving majority commits (RabiaSlot, RabiaLog): each step is
\* weakly fair.
Fairness ==
  /\ WF_vars(WaitClientReplies) /\ WF_vars(WaitServerReplies)
  /\ \A a \in Actor : WF_vars(CtlAccept(a))
  /\ \A c \in Client :
       /\ WF_vars(ClientReady(c)) /\ WF_vars(ClientDial(c))
       /\ WF_vars(ClientStart(c)) /\ WF_vars(SendOneRequest(c))
       /\ WF_vars(ClientWrite(c)) /\ WF_vars(ProcessOneReply(c))
       /\ WF_vars(ClientTimeout(c)) /\ WF_vars(ClientLoopEnd(c))
       /\ WF_vars(ClientEpilogue(c)) /\ WF_vars(ProxyRead(c))
       /\ WF_vars(ProxyHandOff(c)) /\ WF_vars(ProxyReply(c))
       /\ WF_vars(ReplyDeliver(c))
  /\ \A s \in Server :
       /\ WF_vars(ServerInit(s)) /\ WF_vars(NetDial(s))
       /\ \A j \in Server : WF_vars(NetAccept(s, j))
       /\ WF_vars(ServerReady(s))
       /\ \A c \in Client : WF_vars(ProxyAccept(s, c))
       /\ WF_vars(ReceiverWait(s)) /\ WF_vars(SigInt(s))
       /\ WF_vars(CmdReceiverExit(s)) /\ WF_vars(KVSExecutorExit(s))
       /\ WF_vars(MsgRouterExit(s)) /\ WF_vars(MsgSerializerExit(s))
       /\ WF_vars(ExecutorExit(s)) /\ WF_vars(MsgHandlerExit(s))
       /\ WF_vars(ServerMainReturn(s)) /\ WF_vars(ProxyEpilogue(s))
       /\ WF_vars(NetworkEpilogue(s)) /\ WF_vars(ServerExit(s))

LiveSpec == Spec /\ Fairness

-----------------------------------------------------------------------------
(* Properties                                                              *)

TypeOK ==
  /\ ctl \in {"connect", "waitClients", "waitServers", "done", "panicked"}
  /\ accepted \subseteq Actor
  /\ idx \in 0 .. (IF NC > NS THEN NC ELSE NS) - 1
  /\ toCtl \in [Actor -> 0 .. 2] /\ rd \in [Actor -> 0 .. 2]
  /\ fromCtl \in [Actor -> BOOLEAN]
  /\ cpc \in [Client -> {"init", "waitStart", "loop", "epilogue", "exited", "panicked"}]
  /\ sent \in [Client -> 0 .. NReq] /\ rcvd \in [Client -> 0 .. NReq]
  /\ spc \in [Server -> {"init", "prologue", "main", "proxyClose", "netClose",
                         "wgWait", "exited", "panicked"}]
  /\ rcv \in [Server -> {"none", "wait", "sleep", "ended"}]
  /\ done \in [Server -> BOOLEAN]
  /\ run \in [Server -> SUBSET Goroutine]
  /\ toSer \in [Server -> BOOLEAN]
  /\ dialIdx \in [Server -> 0 .. NS] /\ acc \in [Server -> SUBSET Server]
  /\ ccn \in [Client -> BOOLEAN] /\ pacc \in [Server -> SUBSET Client]
  /\ wr \in [Client -> 0 .. NReq] /\ held \in [Client -> BOOLEAN]
  /\ inProxy \in [Client -> 0 .. NReq] /\ answered \in [Client -> 0 .. NReq]
  /\ got \in [Client -> 0 .. NReq]
  /\ closedLoop \in BOOLEAN

\* No process of the run panics: not the controller on a failed read or an
\* unexpected message, not a client in writeToLog or on a failed read of
\* the start message, not a server's Receiver goroutine.
NoPanic ==
  /\ ctl # "panicked"
  /\ \A c \in Client : cpc[c] # "panicked"
  /\ \A s \in Server : spc[s] # "panicked"

\* The controller stops the servers only after every client has finished:
\* while a client is still sending or waiting for replies, no server has
\* closed Done (so its proxy and the consensus can still answer).
ServersOutliveClients ==
  \A c \in Client, s \in Server : cpc[c] \in {"loop", "epilogue"} => ~done[s]

\* The controller's barrier covers the peer mesh: no client starts its
\* request loop before every server's NetTCP.Connect has returned, because
\* a server reports ready only after Network.Prologue and the controller
\* starts the clients only after every server has reported.
ClientsStartAfterMesh ==
  \A c \in Client : cpc[c] \notin {"init", "waitStart"} => \A s \in Server : MeshUp(s)

\* A normal run: the controller returns from RunController after every
\* client and every server has reported its exit, and all of them exited.
Finished ==
  /\ ctl = "done"
  /\ \A c \in Client : cpc[c] = "exited"
  /\ \A s \in Server : spc[s] = "exited"

\* No process hangs: whatever the loop mode, the controller, every client
\* and every server process eventually ends, normally or by a panic (a
\* client waiting for replies, a server in s.Wg.Wait or in ProxyTCP.Close
\* behind a RecvHandler blocked on the unbuffered ClientsToProxy, or the
\* controller in a wait loop forever would violate it).
EveryProcessEnds ==
  <>(CtlGone /\ \A c \in Client : CliGone(c) /\ \A s \in Server : SvrGone(s))

\* With open-loop clients every client receives all its replies before the
\* servers stop, and the run ends normally, without any panic.
OpenLoopFinishes == ~closedLoop => <>Finished

====
