------------------------ MODULE NounsBotsGovernance ------------------------
(***************************************************************************)
(* The bots' governance loop: every minute processGovernanceTick fetches   *)
(* all proposals and, for each on its own, compares the record in redis    *)
(* with it, has Discord told of what is new and then stores the new record.*)
(* Nothing awaits a tick, nor a tick its proposals, nor a proposal its     *)
(* votes: all of these overlap.  Twitter has no handlers for governance.   *)
(***************************************************************************)
EXTENDS Integers, FiniteSets

CONSTANTS
    Proposals,       \* proposal ids
    Voters,          \* accounts; a vote is named after its voter and proposal
    Weightless,      \* those of them that vote without votes
    GovernanceTicks, \* how many ticks may be under way at once
    MaxMishaps,      \* bound: failed calls and restarts
    MaxRaces         \* bound: ticks that overlap another or the setup

ASSUME GovernanceAssumption ==
    Weightless \subseteq Voters /\ MaxMishaps \in Nat /\ MaxRaces \in Nat

VARIABLES
    (* The subgraph, module NounsSubgraph, as the query getAllProposals sees it. *)
    proposals,     \* Proposal, by id
    expiring,      \* whether it expires within two days if it is queued
    (* Redis. *)
    proposalCache, \* the record stored last, by id
    warned,        \* proposals whose expiry warning was sent
    (* The process. *)
    jobs,          \* what each tick does about each proposal
    voteMessages,  \* messages of new votes under way: <<proposal, voter>>
    governanceSetup, \* setupGovernance: how far it is, and what it fetched
    (* History. *)
    heard,         \* <<proposal, what>>: what Discord was told
    seeded,        \* <<proposal, what>>: what was there when the record was first stored
    races,         \* ticks that overlapped
    mishaps        \* failed calls and restarts

subgraph == <<proposals, expiring>>
records == <<proposalCache, warned>>
governanceVars == <<subgraph, records, jobs, voteMessages, governanceSetup, heard, seeded,
                    races, mishaps>>

NoProposal == [status |-> "NONE", votes |-> {}]
Created == {p \in Proposals : proposals[p] # NoProposal}
Rest == [pc |-> "rest"]
NotSetUp == [pc |-> "fetch", found |-> [p \in Proposals |-> NoProposal]]

GovernanceInit ==
    /\ proposals = [p \in Proposals |-> NoProposal]
    /\ expiring = [p \in Proposals |-> FALSE]
    /\ proposalCache = [p \in Proposals |-> NoProposal]
    /\ warned = {} /\ voteMessages = {}
    /\ jobs = [t \in GovernanceTicks |-> [p \in Proposals |-> Rest]]
    /\ governanceSetup = NotSetUp
    /\ heard = {} /\ seeded = {} /\ races = 0 /\ mishaps = 0

-----------------------------------------------------------------------------
(* The subgraph's proposals move on.                                       *)

SubgraphStep(p, record, near) ==
    /\ proposals' = [proposals EXCEPT ![p] = record]
    /\ expiring' = [expiring EXCEPT ![p] = near]
    /\ UNCHANGED <<records, jobs, voteMessages, governanceSetup, heard, seeded, races, mishaps>>

ProposalCreated(p) ==
    /\ proposals[p] = NoProposal
    /\ SubgraphStep(p, [status |-> "PENDING", votes |-> {}], FALSE)

VoteCast(p, v) ==
    /\ proposals[p].status \in {"PENDING", "ACTIVE"} /\ v \notin proposals[p].votes
    /\ SubgraphStep(p, [status |-> "ACTIVE", votes |-> proposals[p].votes \cup {v}], FALSE)

ProposalQueued(p) ==
    /\ proposals[p].status = "ACTIVE"
    /\ SubgraphStep(p, [proposals[p] EXCEPT !.status = "QUEUED"], FALSE)

\* Time passes until two days are left.
ExpiryNears(p) ==
    /\ proposals[p].status = "QUEUED" /\ ~expiring[p]
    /\ SubgraphStep(p, proposals[p], TRUE)

ProposalExecuted(p) ==
    /\ proposals[p].status = "QUEUED"
    /\ SubgraphStep(p, [proposals[p] EXCEPT !.status = "EXECUTED"], expiring[p])

SubgraphNext ==
    \E p \in Proposals :
        \/ ProposalCreated(p) \/ ProposalQueued(p) \/ ExpiryNears(p) \/ ProposalExecuted(p)
        \/ \E v \in Voters : VoteCast(p, v)

-----------------------------------------------------------------------------
(* setupGovernance: all records are stored, and nobody is told.            *)

\* What a first record of p holds.
Seeds(p, record) == {<<p, record.status>>} \cup {<<p, v>> : v \in record.votes}

FetchProposals ==
    /\ governanceSetup.pc = "fetch"
    /\ governanceSetup' = [pc |-> "store", found |-> proposals]
    /\ UNCHANGED <<subgraph, records, jobs, voteMessages, heard, seeded, races,
                   mishaps>>

SeedRecords ==
    /\ governanceSetup.pc = "store"
    /\ LET found == governanceSetup.found
           there == {p \in Proposals : found[p] # NoProposal}
       IN  /\ proposalCache' = [p \in Proposals |->
                  IF p \in there THEN found[p] ELSE proposalCache[p]]
           /\ seeded' = seeded \cup UNION {Seeds(p, found[p]) : p \in there}
    /\ governanceSetup' = [NotSetUp EXCEPT !.pc = "done"]
    /\ UNCHANGED <<subgraph, warned, jobs, voteMessages, heard, races, mishaps>>

SetupGovernance == FetchProposals \/ SeedRecords

-----------------------------------------------------------------------------
(* processGovernanceTick.                                                  *)

Resting(t) == \A p \in Proposals : jobs[t][p] = Rest
Quiet == governanceSetup.pc = "done" /\ voteMessages = {} /\ \A t \in GovernanceTicks : Resting(t)

\* getAllProposals, and a job for each.
StartJobs(t) ==
    /\ Resting(t)
    /\ jobs' = [jobs EXCEPT ![t] = [p \in Proposals |->
           IF p \in Created THEN [pc |-> "read", now |-> proposals[p]] ELSE Rest]]
    /\ IF Quiet THEN UNCHANGED races
       ELSE races < MaxRaces /\ races' = races + 1
    /\ UNCHANGED <<subgraph, records, voteMessages, governanceSetup, heard, seeded, mishaps>>

Do(t, p, job) == jobs' = [jobs EXCEPT ![t][p] = job]

\* Fault: only the first vote is news.
extractNewVotes_First(before, after) ==
    IF before.votes = {} THEN after.votes \ Weightless ELSE {}

extractNewVotes(before, after) == (after.votes \ before.votes) \ Weightless

\* Fault: a change of status that comes with votes is told as votes only.
IsNewStatus_NoVotes(before, now) ==
    before.status # now.status /\ before.votes = now.votes

IsNewStatus(before, now) == before.status # now.status

isAtRiskOfExpiry(p, now) == now.status = "QUEUED" /\ expiring[p]

\* What was told, with what is told now.
Hear(news) ==
    /\ heard' = heard \cup news

\* The status is no news, or news told of just now: the messages of new votes are sent
\* off, and the job goes on with the expiry.
SendVotes(t, p, before, now, news) ==
    LET new == {<<p, v>> : v \in extractNewVotes(before, now)}
    IN  /\ voteMessages' = voteMessages \cup new
        /\ heard' = heard \cup news
        /\ Do(t, p, [pc |-> IF isAtRiskOfExpiry(p, now) THEN "warned" ELSE "store",
                     now |-> now])

\* getProposalCache.
ReadRecord(t, p) ==
    LET now == jobs[t][p].now
        before == proposalCache[p]
    IN  /\ jobs[t][p].pc = "read"
        /\ IF before # NoProposal /\ ~IsNewStatus(before, now)
           THEN SendVotes(t, p, before, now, {})
           ELSE /\ Do(t, p, [pc |-> IF before = NoProposal THEN "tellNew" ELSE "tellStatus",
                             now |-> now, before |-> before])
                /\ UNCHANGED <<voteMessages, heard>>
        /\ UNCHANGED <<subgraph, records, governanceSetup, seeded, races, mishaps>>

\* The votes it comes with are not told.
TellNewProposal(t, p) ==
    LET now == jobs[t][p].now
    IN  /\ jobs[t][p].pc = "tellNew"
        /\ Hear({<<p, "NEW">>})
        /\ seeded' = seeded \cup Seeds(p, now)
        /\ Do(t, p, [pc |-> "store", now |-> now])
        /\ UNCHANGED <<subgraph, records, voteMessages, governanceSetup, races, mishaps>>

TellStatus(t, p) ==
    LET job == jobs[t][p]
    IN  /\ job.pc = "tellStatus"
        /\ SendVotes(t, p, job.before, job.now, {<<p, job.now.status>>})
        /\ UNCHANGED <<subgraph, records, governanceSetup, seeded, races, mishaps>>

\* hasWarnedOfExpiry.
ReadWarned(t, p) ==
    /\ jobs[t][p].pc = "warned"
    /\ Do(t, p, [pc |-> IF p \in warned THEN "store" ELSE "tellRisk",
                 now |-> jobs[t][p].now])
    /\ UNCHANGED <<subgraph, records, voteMessages, governanceSetup, heard, seeded, races,
                   mishaps>>

TellRisk(t, p) ==
    /\ jobs[t][p].pc = "tellRisk"
    /\ Hear({<<p, "RISK">>})
    /\ Do(t, p, [pc |-> "flag", now |-> jobs[t][p].now])
    /\ UNCHANGED <<subgraph, records, voteMessages, governanceSetup, seeded, races, mishaps>>

SetWarned(t, p) ==
    /\ jobs[t][p].pc = "flag"
    /\ warned' = warned \cup {p}
    /\ Do(t, p, [pc |-> "store", now |-> jobs[t][p].now])
    /\ UNCHANGED <<subgraph, proposalCache, voteMessages, governanceSetup, heard, seeded,
                   races, mishaps>>

\* updateProposalCache.
StoreRecord(t, p) ==
    /\ jobs[t][p].pc = "store"
    /\ proposalCache' = [proposalCache EXCEPT ![p] = jobs[t][p].now]
    /\ Do(t, p, Rest)
    /\ UNCHANGED <<subgraph, warned, voteMessages, governanceSetup, heard, seeded, races,
                   mishaps>>

Job(t, p) ==
    \/ ReadRecord(t, p)
    \/ TellNewProposal(t, p) \/ TellStatus(t, p)
    \/ ReadWarned(t, p) \/ TellRisk(t, p) \/ SetWarned(t, p)
    \/ StoreRecord(t, p)

\* A message of a new vote gets through.
TellVote(message) ==
    /\ message \in voteMessages
    /\ voteMessages' = voteMessages \ {message}
    /\ heard' = heard \cup {message}
    /\ UNCHANGED <<subgraph, records, jobs, governanceSetup, seeded, races, mishaps>>

-----------------------------------------------------------------------------
(* Failures: a rejected promise ends a job or loses a message, a restart   *)
(* ends and loses them all.                                                *)

FailJob(t, p) ==
    /\ jobs[t][p] # Rest /\ mishaps < MaxMishaps
    /\ mishaps' = mishaps + 1
    /\ Do(t, p, Rest)
    /\ UNCHANGED <<subgraph, records, voteMessages, governanceSetup, heard, seeded, races>>

\* What was being told had got through, to one of the two webhooks or both.
FailTold(t, p) ==
    /\ jobs[t][p].pc \in {"tellNew", "tellStatus", "tellRisk"} /\ mishaps < MaxMishaps
    /\ mishaps' = mishaps + 1
    /\ Do(t, p, Rest)
    /\ Hear({<<p, CASE jobs[t][p].pc = "tellNew" -> "NEW"
                    [] jobs[t][p].pc = "tellStatus" -> jobs[t][p].now.status
                    [] jobs[t][p].pc = "tellRisk" -> "RISK">>})
    /\ UNCHANGED <<subgraph, records, voteMessages, governanceSetup, seeded, races>>

LoseVote(message) ==
    /\ message \in voteMessages /\ mishaps < MaxMishaps
    /\ mishaps' = mishaps + 1
    /\ voteMessages' = voteMessages \ {message}
    /\ UNCHANGED <<subgraph, records, jobs, governanceSetup, heard, seeded, races>>

RestartGovernance ==
    /\ mishaps < MaxMishaps
    /\ mishaps' = mishaps + 1
    /\ jobs' = [t \in GovernanceTicks |-> [p \in Proposals |-> Rest]]
    /\ voteMessages' = {}
    /\ governanceSetup' = NotSetUp
    /\ UNCHANGED <<subgraph, records, heard, seeded, races>>

-----------------------------------------------------------------------------
GovernanceTimer(t) == StartJobs(t) \/ \E p \in Proposals : Job(t, p)

GovernanceNext ==
    \/ SubgraphNext
    \/ SetupGovernance
    \/ \E t \in GovernanceTicks :
           \/ GovernanceTimer(t)
           \/ \E p \in Proposals : FailJob(t, p) \/ FailTold(t, p)
    \/ \E message \in voteMessages : TellVote(message) \/ LoseVote(message)
    \/ RestartGovernance

-----------------------------------------------------------------------------
(* Correctness.                                                            *)

\* The order of processGovernanceTick (told, then stored) makes news at-least-once:
\* whatever fails or overlaps, redis holds no proposal, status or warning that Discord
\* was not told of, but for what was there when the proposal was first stored.
ToldBeforeStored ==
    \A p \in Proposals :
        /\ proposalCache[p] # NoProposal =>
               <<p, proposalCache[p].status>> \in heard \cup seeded
        /\ p \in warned => <<p, "RISK">> \in heard

\* Votes are told on the side, which makes them at-most-once.  Without a failure none is
\* skipped even so: a vote in redis was told, is being told, has no votes, or was there
\* when the proposal was first stored.
NoVoteSkipped ==
    mishaps = 0 =>
        \A p \in Proposals : \A v \in proposalCache[p].votes :
            v \in Weightless \/ <<p, v>> \in heard \cup voteMessages \cup seeded

\* What redis holds of the proposals agrees with the subgraph, and a proposal about to
\* expire has been warned of.
RecordsCaughtUp ==
    \A p \in Proposals :
        /\ proposalCache[p] = proposals[p]
        /\ proposals[p].status = "QUEUED" /\ expiring[p] => p \in warned
=============================================================================
