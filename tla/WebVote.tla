------------------------------- MODULE WebVote -------------------------------
(***************************************************************************)
(* The page of a proposal: when it offers to vote, the modal the vote is   *)
(* cast from, and the button that queues and executes the proposal.  The   *)
(* DAO is kept to when it takes these calls (module NounsDAOLogicV1 has it *)
(* in full).  An effect of React runs in the step of the change it depends *)
(* on.                                                                     *)
(***************************************************************************)
EXTENDS Integers, WebTransactions

CONSTANTS
    StartBlock, EndBlock, \* of the proposal
    BlockTime,            \* AVERAGE_BLOCK_TIME_IN_SECS, in milliseconds
    Lags,                 \* milliseconds between the two readings of the clock in a render
    MaxBlock,             \* bound: blocks
    MaxVoteTx             \* bound: transactions sent from the page

ASSUME WebVoteAssumption ==
    /\ {StartBlock, EndBlock, MaxBlock, MaxVoteTx, BlockTime} \subseteq Nat /\ Null \notin Nat
    /\ Lags \subseteq 0..BlockTime - 1

VARIABLES
    (* The DAO. *)
    block,      \* the last block
    canceled,   \* the proposal is canceled or vetoed
    voted,      \* the block that has the vote of the account, Null for none
    stage,      \* once voting is over: "succeeded", "queued", "executed"
    (* The page. *)
    seen,       \* the block the page's answers are of
    known,      \* canceled and stage as of that block
    connected,  \* a wallet is
    votes,      \* availableVotes, as of the block of creation
    alert,      \* the alert shown
    isQueuePending, isExecutePending,
    (* VoteModal. *)
    showVoteModal, vote, isLoading, isVoteSuccessful, isVoteFailed,
    (* Transactions. *)
    txs,        \* those sent, of this page and of a modal mounted before
    remounted   \* history: the modal was mounted anew after a vote was sent

daoVars == <<block, canceled, voted, stage>>
modalVars == <<showVoteModal, vote, isLoading, isVoteSuccessful, isVoteFailed>>
pendingVars == <<isQueuePending, isExecutePending>>
votePageVars == <<seen, known, connected, votes, alert, pendingVars>>
voteVars == <<daoVars, votePageVars, modalVars, txs, remounted>>

ASSUME VotingPeriodAssumption == 0 < StartBlock /\ StartBlock < EndBlock

VoteInit ==
    /\ block = 0 /\ canceled = FALSE /\ voted = Null /\ stage = "succeeded"
    /\ seen = 0 /\ known = [canceled |-> FALSE, stage |-> "succeeded"]
    /\ connected \in BOOLEAN /\ votes \in 0..1 /\ alert = Null
    /\ isQueuePending = FALSE /\ isExecutePending = FALSE
    /\ showVoteModal = FALSE /\ vote = Null /\ isLoading = FALSE
    /\ isVoteSuccessful = FALSE /\ isVoteFailed = FALSE
    /\ txs = <<>> /\ remounted = FALSE

-----------------------------------------------------------------------------
(* The DAO.                                                                *)

\* castVoteInternal, in block b.
Counts(b) == ~canceled /\ voted = Null /\ StartBlock < b /\ b <= EndBlock

\* queue and execute, in block b: the proposal succeeds, and the delay of the timelock is
\* left out.
After == [queue |-> "queued", execute |-> "executed"]
Moves(b, kind) ==
    /\ ~canceled /\ EndBlock < b
    /\ stage = IF kind = "queue" THEN "succeeded" ELSE "queued"

\* A block without a transaction of the page; others may cancel the proposal or move it.
NextBlock ==
    /\ block < MaxBlock /\ block' = block + 1
    /\ \/ UNCHANGED <<canceled, stage>>
       \/ stage # "executed" /\ canceled' = TRUE /\ UNCHANGED stage
       \/ \E kind \in DOMAIN After :
             Moves(block', kind) /\ stage' = After[kind] /\ UNCHANGED canceled
    /\ UNCHANGED <<voted, votePageVars, modalVars, txs, remounted>>

\* The page's calls are answered for the last block.
See ==
    /\ seen # block /\ seen' = block
    /\ known' = [canceled |-> canceled, stage |-> stage]
    /\ UNCHANGED <<daoVars, connected, votes, alert, pendingVars, modalVars, txs, remounted>>

-----------------------------------------------------------------------------
(* The modal.                                                              *)

\* The dates that a render at block b works out, counted from its first reading of the clock.
startDate(b) == BlockTime * (StartBlock - b)
endDate(b) == BlockTime * (EndBlock - b)

\* Fault: the end block counts as open.
isActiveForVoting_ToTheEnd(b, lag) == startDate(b) < lag /\ endDate(b) >= lag

\* isBefore and isAfter compare them with a second reading, now, a lag later: at the start
\* block itself the vote is open only if the clock has moved in between.
isActiveForVoting(b, lag) == startDate(b) < lag /\ endDate(b) > lag

hasVoted == voted # Null /\ voted <= seen
disableVoteButton == ~connected \/ votes = 0 \/ hasVoted

\* The button of ProposalHeader.
OpenVoteModal ==
    /\ \E lag \in Lags : isActiveForVoting(seen, lag)
    /\ ~disableVoteButton
    /\ showVoteModal' = TRUE
    /\ UNCHANGED <<daoVars, votePageVars, vote, isLoading, isVoteSuccessful, isVoteFailed, txs,
                   remounted>>

SetVote(v) ==
    /\ showVoteModal /\ ~isVoteFailed /\ ~isVoteSuccessful
    /\ vote' = v
    /\ UNCHANGED <<daoVars, votePageVars, showVoteModal, isLoading, isVoteSuccessful,
                   isVoteFailed, txs, remounted>>

\* A vote with a reason is sent through a hook of its own.
Submit(kind) ==
    /\ showVoteModal /\ ~isVoteFailed /\ ~isVoteSuccessful
    /\ vote # Null /\ ~isLoading
    /\ isLoading' = TRUE
    /\ Len(txs) < MaxVoteTx /\ txs' = Append(txs, [kind |-> kind, stage |-> "signing"])
    /\ UNCHANGED <<daoVars, votePageVars, showVoteModal, vote, isVoteSuccessful, isVoteFailed,
                   remounted>>

\* resetNonSuccessStateAndHideModal, whether or not a vote is being mined.
Dismiss ==
    /\ showVoteModal /\ showVoteModal' = FALSE
    /\ isLoading' = FALSE /\ isVoteFailed' = FALSE
    /\ UNCHANGED <<daoVars, votePageVars, vote, isVoteSuccessful, txs, remounted>>

\* The timeout after a successful vote.
AutoClose ==
    /\ isVoteSuccessful /\ showVoteModal /\ showVoteModal' = FALSE
    /\ isVoteFailed' = FALSE
    /\ UNCHANGED <<daoVars, votePageVars, vote, isLoading, isVoteSuccessful, txs, remounted>>

\* The proposal's logs cannot be fetched for a block: a spinner takes the page's place, and
\* the modal that comes back has forgotten everything.
Remount ==
    /\ vote' = Null /\ isLoading' = FALSE
    /\ isVoteSuccessful' = FALSE /\ isVoteFailed' = FALSE
    /\ txs' = [t \in DOMAIN txs |->
                  IF txs[t].kind \in {"vote", "reason"} THEN [txs[t] EXCEPT !.kind = "forgotten"]
                  ELSE txs[t]]
    /\ remounted' = (remounted \/ \E t \in DOMAIN txs : txs[t].kind \in {"vote", "reason"})
    /\ UNCHANGED <<daoVars, votePageVars, showVoteModal>>

\* Fault: the state of votes with a reason is not followed.
Followed_VotesOnly == {"vote"}

Followed == {"vote", "reason"}

handleVoteStateChange(status) ==
    /\ isLoading' = (status = "Mining")
    /\ isVoteSuccessful' = (isVoteSuccessful \/ status = "Success")
    /\ isVoteFailed' = (isVoteFailed \/ status \in {"Fail", "Exception"})

-----------------------------------------------------------------------------
(* Queue and execute.                                                      *)

IsOver == EndBlock < seen /\ ~known.canceled
hasSucceeded == IsOver /\ known.stage = "succeeded"
isAwaitingStateChange == IsOver /\ known.stage \in {"succeeded", "queued"}

\* The button queues a succeeded proposal and executes a queued one.
moveStateAction ==
    /\ isAwaitingStateChange /\ ~isQueuePending /\ ~isExecutePending
    /\ Len(txs) < MaxVoteTx
    /\ txs' = Append(txs, [kind |-> IF hasSucceeded THEN "queue" ELSE "execute",
                           stage |-> "signing"])
    /\ UNCHANGED <<daoVars, votePageVars, modalVars, remounted>>

\* One effect for each of the two hooks, with its own setPending.
onTransactionStateChange(kind, status) ==
    /\ isQueuePending' = IF kind = "queue" THEN status = "Mining" ELSE isQueuePending
    /\ isExecutePending' = IF kind = "execute" THEN status = "Mining" ELSE isExecutePending
    /\ alert' = IF status = "Mining" THEN alert ELSE status

DismissAlert ==
    /\ alert # Null /\ alert' = Null
    /\ UNCHANGED <<daoVars, seen, known, connected, votes, pendingVars, modalVars, txs,
                   remounted>>

-----------------------------------------------------------------------------
(* A transaction: signed, mined, and its state reported.                   *)

VoteTxTo(t, to) == txs' = Progress(txs, t, to)

ReportVoteTx(t, status) ==
    /\ IF txs[t].kind \in Followed THEN handleVoteStateChange(status)
       ELSE UNCHANGED <<isLoading, isVoteSuccessful, isVoteFailed>>
    /\ IF txs[t].kind \in DOMAIN After THEN onTransactionStateChange(txs[t].kind, status)
       ELSE UNCHANGED <<pendingVars, alert>>
    /\ UNCHANGED <<seen, known, connected, votes, showVoteModal, vote, remounted>>

SignVoteTx(t) ==
    /\ txs[t].stage = "signing"
    /\ VoteTxTo(t, "mining") /\ ReportVoteTx(t, "Mining")
    /\ UNCHANGED daoVars

RejectVoteTx(t) ==
    /\ txs[t].stage = "signing"
    /\ VoteTxTo(t, "dead") /\ ReportVoteTx(t, "Exception")
    /\ UNCHANGED daoVars

\* The transaction is in the next block.
MineVoteTx(t) ==
    LET kind == txs[t].kind
        ok == IF kind \in DOMAIN After THEN Moves(block', kind) ELSE Counts(block')
    IN  /\ txs[t].stage = "mining"
        /\ block < MaxBlock /\ block' = block + 1
        /\ VoteTxTo(t, IF ok THEN "mined" ELSE "reverted")
        /\ voted' = IF ok /\ kind \notin DOMAIN After THEN block' ELSE voted
        /\ stage' = IF ok /\ kind \in DOMAIN After THEN After[kind] ELSE stage
        /\ UNCHANGED <<canceled, votePageVars, modalVars, remounted>>

VoteTxMined(t) ==
    /\ IsMined(txs[t])
    /\ VoteTxTo(t, "dead")
    /\ ReportVoteTx(t, Outcome(txs[t]))
    /\ UNCHANGED daoVars

-----------------------------------------------------------------------------
VoteNext ==
    \/ NextBlock \/ See
    \/ OpenVoteModal \/ Dismiss \/ AutoClose \/ Remount
    \/ \E v \in {"FOR", "AGAINST", "ABSTAIN"} : SetVote(v)
    \/ \E kind \in {"vote", "reason"} : Submit(kind)
    \/ moveStateAction \/ DismissAlert
    \/ \E t \in DOMAIN txs :
          SignVoteTx(t) \/ RejectVoteTx(t) \/ MineVoteTx(t) \/ VoteTxMined(t)

-----------------------------------------------------------------------------
(* Correctness.                                                            *)

\* A second vote may be sent after the modal was dismissed with the first being mined, and
\* their states arrive in any order: once all have, the modal tells of success if and only
\* if the DAO has the account's vote.
VoteTold ==
    (~remounted /\ AllTold(txs)) =>
        (isVoteSuccessful <=> voted # Null)

\* The page works out from dates whether the vote is open: whenever it offers to vote, a
\* vote in the next block counts, unless the proposal is canceled.
OfferIsOpen ==
    (seen = block /\ (\E lag \in Lags : isActiveForVoting(seen, lag)) /\ ~disableVoteButton
                  /\ ~canceled) =>
        Counts(block + 1)
=============================================================================
