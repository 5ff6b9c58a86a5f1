------------------------------- MODULE MCWeb -------------------------------
(***************************************************************************)
(* The parts of the web application for TLC.  Each has state of its own:   *)
(* a behaviour is of one of them, with the others left alone.              *)
(***************************************************************************)
EXTENDS WebAuction, WebBid, WebProposalForm, WebLogs, WebVote, WebPlayground, WebLocale

VARIABLE page
vars == <<page, auctionPageVars, bidVars, proposalFormVars, logsVars, voteVars,
          playgroundVars, localeVars>>

MCMaxBids == [n \in 1..MaxNoun |-> IF n = 1 THEN 2 ELSE 1]

\* The token contract is a plain one; the treasury a proxy, whose ABI is of two functions.
Mint == "mint(uint256)"
SendTo == "send(address,uint256)"
MCABIs == {{Mint}, {Mint, SendTo}}
MCPublished == [a \in Addresses |-> IF a = "token" THEN {Mint} ELSE {Mint, SendTo}]
MCInputs == [f \in Functions |-> IF f = Mint THEN 1 ELSE 2]

MCShipped == [background |-> <<"cool", "warm">>, head |-> <<"h1", "h2">>, glasses |-> <<"g1">>]

Auctions(A) ==
    /\ page = "auction" /\ A
    /\ UNCHANGED <<page, bidVars, proposalFormVars, logsVars, voteVars, playgroundVars,
                   localeVars>>
BidPanel(A) ==
    /\ page = "bid" /\ A
    /\ UNCHANGED <<page, auctionPageVars, proposalFormVars, logsVars, voteVars,
                   playgroundVars, localeVars>>
CreateProposal(A) ==
    /\ page = "create-proposal" /\ A
    /\ UNCHANGED <<page, auctionPageVars, bidVars, logsVars, voteVars, playgroundVars,
                   localeVars>>
Logs(A) ==
    /\ page = "logs" /\ A
    /\ UNCHANGED <<page, auctionPageVars, bidVars, proposalFormVars, voteVars,
                   playgroundVars, localeVars>>
Vote(A) ==
    /\ page = "vote" /\ A
    /\ UNCHANGED <<page, auctionPageVars, bidVars, proposalFormVars, logsVars,
                   playgroundVars, localeVars>>
Playground(A) ==
    /\ page = "playground" /\ A
    /\ UNCHANGED <<page, auctionPageVars, bidVars, proposalFormVars, logsVars, voteVars,
                   localeVars>>
Locale(A) ==
    /\ page = "locale" /\ A
    /\ UNCHANGED <<page, auctionPageVars, bidVars, proposalFormVars, logsVars, voteVars,
                   playgroundVars>>

\* The initial choices of a part that is left alone do not matter.
MCInit ==
    /\ AuctionPageInit /\ BidInit /\ ProposalFormInit /\ LogsInit /\ VoteInit
    /\ PlaygroundInit /\ LocaleInit
    /\ page \in {"auction", "bid", "create-proposal", "logs", "vote", "playground", "locale"}
    /\ page # "auction" => path = Null
    /\ page # "bid" => account = Null
    /\ page # "logs" => count[0] = 0
    /\ page # "vote" => votes = 0 /\ ~connected
    /\ page # "locale" => lang = Null /\ navigator = DEFAULT_LOCALE

Next ==
    \/ Auctions(AuctionPageNext) \/ BidPanel(BidNext) \/ CreateProposal(ProposalFormNext)
    \/ Logs(LogsNext) \/ Vote(VoteNext) \/ Playground(PlaygroundNext)
    \/ Locale(LocaleNext)

Spec == MCInit /\ [][Next]_vars
=============================================================================
