---------------------------- MODULE MCNounsBots ----------------------------
(***************************************************************************)
(* The two loops of the bots share their process and redis, but no key of  *)
(* it: a behaviour is of one loop, with the other left alone.              *)
(***************************************************************************)
EXTENDS NounsBotsAuction, NounsBotsGovernance

VARIABLE watched
vars == <<watched, auctionVars, governanceVars>>

MCInit == Init /\ GovernanceInit /\ watched \in {"auction", "governance"}

Auction(A) == watched = "auction" /\ A /\ UNCHANGED <<watched, governanceVars>>
Governance(A) == watched = "governance" /\ A /\ UNCHANGED <<watched, auctionVars>>

Next == Auction(AuctionNext) \/ Governance(GovernanceNext)

\* The timers keep starting ticks, and every promise settles: a call that takes for ever
\* is not one the clients allow.
Spec ==
    /\ MCInit /\ [][Next]_vars
    /\ WF_vars(Auction(Setup) \/ Governance(SetupGovernance))
    /\ WF_vars(Governance(\E message \in voteMessages : TellVote(message)))
    /\ \A t \in Ticks : WF_vars(Auction(Timer(t)) \/ Governance(GovernanceTimer(t)))

\* Failures, restarts and overlapping ticks included, what redis holds of the auctions,
\* bids and proposals agrees with the subgraph in the end: an older tick may write over
\* what a younger one stored, but not for good.
CachesCatchUp ==
    <>[](IF watched = "auction" THEN AuctionsCaughtUp ELSE RecordsCaughtUp)
=============================================================================
