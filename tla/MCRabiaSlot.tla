---------------------------- MODULE MCRabiaSlot ----------------------------
(* Instances of RabiaSlot for TLC: two proxy batches from different        *)
(* proxies, so that servers can propose different requests.                *)
EXTENDS RabiaSlot, TLC

CONSTANTS s1, s2, s3

MCServer == {s1, s2, s3}

\* Within one slot a server's identity is only an address (the streams and
\* ProposalRequest's requester field), so permuting servers is a symmetry.
MCSymmetry == Permutations(MCServer)

MCReqs == {[proId |-> 0, proSeq |-> 0, isNull |-> FALSE],
           [proId |-> 1, proSeq |-> 0, isNull |-> FALSE]}

\* the first flips of the common coin after ResetCommonCoin; the runs try
\* both values of a flip since the bits of seed 42 are fixed but unknown here
MCCoin1  == <<1>>
MCCoin0  == <<0>>
MCCoin11 == <<1, 1>>
MCCoin00 == <<0, 0>>
MCCoinNone == <<>>

(***************************************************************************)
(* Once a server's slot is done, its MsgHandler leaves the slot alone      *)
(* (binConMsgHandling returns on IsDone) and its executor has left it, so  *)
(* the only fields still read are those a ProposalRequest reads            *)
(* (RecvProposals and the proposal count) and those the properties read    *)
(* (Decision, MyProposal).  Its mailbox, tallies, phase, round and the     *)
(* replies still routed to its executor never influence a later step.      *)
(* States that differ only there have the same futures, so TLC may         *)
(* identify them.                                                          *)
(***************************************************************************)
LiveSlot(i) ==
  IF slot[i].isDone
  THEN [decision |-> slot[i].decision, myProposal |-> slot[i].myProposal,
        recvProps |-> slot[i].recvProps, nProps |-> slot[i].recvBCT[0][1]]
  ELSE slot[i]
DoneView ==
  <<net, pc, [i \in MCServer |-> LiveSlot(i)],
   [i \in MCServer |-> IF slot[i].isDone THEN <<>> ELSE replyIn[i]]>>

====
