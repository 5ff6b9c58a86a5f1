--------------------------- MODULE NounsBotsProofs ---------------------------
(***************************************************************************)
(* What holds of the bots' two loops for any number of ticks, proposals    *)
(* and voters, and whatever the bounds on failures and overlaps.           *)
(***************************************************************************)
EXTENDS MCNounsBots, FiniteSetTheorems, WellFoundedInduction, TLAPS

-----------------------------------------------------------------------------
(* Each loop on its own.                                                   *)

AuctionSpec == Init /\ [][AuctionNext]_auctionVars
GovernanceSpec == GovernanceInit /\ [][GovernanceNext]_governanceVars

\* The process as a whole is one loop, with the other left alone.
LEMMA Loops == Spec => AuctionSpec /\ GovernanceSpec
  <1>1. MCInit => Init /\ GovernanceInit
    BY DEF MCInit
  <1>2. [Next]_vars => [AuctionNext]_auctionVars /\ [GovernanceNext]_governanceVars
    BY DEF Next, Auction, Governance, vars
  <1> QED
    BY <1>1, <1>2, PTL DEF Spec, AuctionSpec, GovernanceSpec

-----------------------------------------------------------------------------
(* Governance: what the store holds was told.                              *)

ProposalStatuses == {"NONE", "PENDING", "ACTIVE", "QUEUED", "EXECUTED"}
ProposalRecords == [status : ProposalStatuses, votes : SUBSET Voters]
Fetched == [pc : {"read", "store", "warned", "tellRisk", "flag"}, now : ProposalRecords]
Telling ==
    [pc : {"tellNew", "tellStatus"}, now : ProposalRecords, before : ProposalRecords]
Jobs == {Rest} \cup Fetched \cup Telling

GovernanceTyped ==
    /\ proposals \in [Proposals -> ProposalRecords]
    /\ proposalCache \in [Proposals -> ProposalRecords]
    /\ jobs \in [GovernanceTicks -> [Proposals -> Jobs]]
    /\ governanceSetup \in [pc : {"fetch", "store", "done"},
                            found : [Proposals -> ProposalRecords]]
    /\ warned \subseteq Proposals
    /\ mishaps \in Nat

\* Discord was told of a record of p, or it is what was there when p was first stored;
\* as to its votes, unless something failed, the message may be under way.
Accounted(p, record) ==
    /\ <<p, record.status>> \in heard \cup seeded
    /\ mishaps = 0 =>
           \A v \in record.votes :
               v \in Weightless \/ <<p, v>> \in heard \cup voteMessages \cup seeded

\* The jobs that will store the record they fetched have told of it ...
ToldBy(p, job) ==
    /\ job.pc \in {"warned", "tellRisk", "flag", "store"} => Accounted(p, job.now)
    /\ job.pc = "flag" => <<p, "RISK">> \in heard
    \* ... and those about to tell of a status compare with a record that was told.
    /\ job.pc = "tellStatus" => Accounted(p, job.before)

JobsAccounted == \A t \in GovernanceTicks, p \in Proposals : ToldBy(p, jobs[t][p])

RecordsAccounted ==
    \A p \in Proposals :
        /\ proposalCache[p] # NoProposal => Accounted(p, proposalCache[p])
        /\ p \in warned => <<p, "RISK">> \in heard

GovernanceInv == GovernanceTyped /\ JobsAccounted /\ RecordsAccounted

\* Nothing told is forgotten, and a message under way gets through unless something
\* fails.
Remembered ==
    /\ heard \subseteq heard' /\ seeded \subseteq seeded'
    /\ mishaps' = 0 => mishaps = 0 /\ voteMessages \subseteq heard' \cup voteMessages'

LEMMA AccountedStays ==
    ASSUME Remembered
    PROVE  \A p, record : Accounted(p, record) => Accounted(p, record)'
  BY DEF Remembered, Accounted

\* A job goes on, and all others stay.
LEMMA JobGoesOn ==
    ASSUME GovernanceTyped, Remembered, NEW t \in GovernanceTicks, NEW p \in Proposals,
           NEW job \in Jobs, Do(t, p, job), ToldBy(p, job)', JobsAccounted
    PROVE  /\ jobs' \in [GovernanceTicks -> [Proposals -> Jobs]]
           /\ JobsAccounted'
  <1>1. jobs' = [jobs EXCEPT ![t][p] = job] /\ jobs \in [GovernanceTicks -> [Proposals -> Jobs]]
    BY DEF Do, GovernanceTyped
  <1>2. jobs' \in [GovernanceTicks -> [Proposals -> Jobs]]
    BY <1>1
  <1>3. \A u \in GovernanceTicks, q \in Proposals :
            jobs'[u][q] = IF u = t /\ q = p THEN job ELSE jobs[u][q]
    BY <1>1
  <1>4. \A q \in Proposals, j \in Jobs : ToldBy(q, j) => ToldBy(q, j)'
    BY AccountedStays DEF ToldBy, Remembered
  <1>5. \A u \in GovernanceTicks, q \in Proposals : \A j : j = jobs'[u][q] => ToldBy(q, j)'
    <2> SUFFICES ASSUME NEW u \in GovernanceTicks, NEW q \in Proposals
                 PROVE  \A j : j = jobs'[u][q] => ToldBy(q, j)'
      OBVIOUS
    <2>1. jobs[u][q] \in Jobs /\ ToldBy(q, jobs[u][q])
      BY <1>1 DEF JobsAccounted
    <2>2. \A j : j = jobs[u][q] => ToldBy(q, j)'
      BY <1>4, <2>1
    <2> QED
      BY <1>3, <2>2
  <1> QED
    BY <1>2, <1>5 DEF JobsAccounted, ToldBy, Accounted

LEMMA RecordsStay ==
    ASSUME Remembered, UNCHANGED records, RecordsAccounted
    PROVE  RecordsAccounted'
  BY AccountedStays DEF records, Remembered, RecordsAccounted, Accounted

\* The status was told before or is told now, and the votes that were not there before
\* are sent off.
LEMMA SentVotes ==
    ASSUME GovernanceTyped, JobsAccounted, NEW t \in GovernanceTicks, NEW p \in Proposals,
           NEW before \in ProposalRecords, NEW now \in ProposalRecords, NEW fresh,
           Accounted(p, before), <<p, now.status>> \in heard \cup fresh \cup seeded,
           SendVotes(t, p, before, now, fresh), UNCHANGED <<seeded, mishaps>>
    PROVE  /\ jobs' \in [GovernanceTicks -> [Proposals -> Jobs]]
           /\ JobsAccounted' /\ Remembered
  <1> DEFINE new == {<<p, v>> : v \in extractNewVotes(before, now)}
  <1>0. PICK next : next = [pc |-> IF isAtRiskOfExpiry(p, now) THEN "warned" ELSE "store",
                            now |-> now]
    OBVIOUS
  <1>1. voteMessages' = voteMessages \cup new /\ heard' = heard \cup fresh /\ Do(t, p, next)
    BY <1>0 DEF SendVotes
  <1>2. Remembered
    BY <1>1 DEF Remembered
  <1>3. next \in Jobs
    BY <1>0 DEF Jobs, Fetched
  <1>4. Accounted(p, now)'
    <2>1. <<p, now.status>> \in heard' \cup seeded'
      BY <1>1
    <2>2. ASSUME mishaps' = 0, NEW v \in now.votes
          PROVE  v \in Weightless \/ <<p, v>> \in heard' \cup voteMessages' \cup seeded'
      <3>1. CASE v \in before.votes
        BY <1>1, <2>2, <3>1 DEF Accounted
      <3>2. CASE v \notin before.votes /\ v \notin Weightless
        <4>1. <<p, v>> \in new
          BY <3>2 DEF extractNewVotes
        <4> QED
          BY <1>1, <4>1
      <3> QED
        BY <3>1, <3>2
    <2> QED
      BY <2>1, <2>2 DEF Accounted
  <1>5. next.now = now /\ next.pc \in {"warned", "store"}
    BY <1>0
  <1>6. ToldBy(p, next)'
    BY <1>3, <1>4, <1>5 DEF ToldBy, Accounted
  <1> QED
    BY <1>1, <1>2, <1>3, <1>6, JobGoesOn

\* A job goes on without storing anything.
LEMMA JobMoves ==
    ASSUME GovernanceInv, NEW t \in GovernanceTicks, NEW p \in Proposals, NEW next \in Jobs,
           Do(t, p, next), ToldBy(p, next)', Remembered, mishaps' \in Nat,
           UNCHANGED <<subgraph, records, governanceSetup>>
    PROVE  GovernanceInv'
  <1>1. jobs' \in [GovernanceTicks -> [Proposals -> Jobs]] /\ JobsAccounted'
    BY JobGoesOn DEF GovernanceInv
  <1>2. RecordsAccounted'
    BY RecordsStay DEF GovernanceInv
  <1>3. UNCHANGED <<proposals, proposalCache, warned>>
    BY DEF subgraph, records
  <1> QED
    BY <1>1, <1>2, <1>3 DEF GovernanceInv, GovernanceTyped

\* What the job of a proposal is, by how far it is.
LEMMA JobFields ==
    ASSUME GovernanceTyped, JobsAccounted, NEW t \in GovernanceTicks, NEW p \in Proposals
    PROVE  /\ jobs[t][p] \in Jobs /\ ToldBy(p, jobs[t][p])
           /\ jobs[t][p].pc # "rest" => jobs[t][p].now \in ProposalRecords
           /\ jobs[t][p].pc = "tellStatus" => jobs[t][p].before \in ProposalRecords
           /\ proposalCache[p] \in ProposalRecords
  <1>1. jobs[t][p] \in Jobs
    BY DEF GovernanceTyped
  <1> QED
    BY <1>1 DEF JobsAccounted, GovernanceTyped, Jobs, Fetched, Telling, Rest

LEMMA JobAccounted ==
    ASSUME GovernanceInv, NEW t \in GovernanceTicks, NEW p \in Proposals, Job(t, p)
    PROVE  GovernanceInv'
  <1>j. PICK job, now : job = jobs[t][p] /\ now = job.now
    OBVIOUS
  <1>0. /\ GovernanceTyped /\ JobsAccounted /\ RecordsAccounted
        /\ job \in Jobs /\ ToldBy(p, job) /\ proposalCache[p] \in ProposalRecords
        /\ job.pc # "rest" => now \in ProposalRecords
        /\ job.pc = "tellStatus" => job.before \in ProposalRecords
    BY <1>j, JobFields DEF GovernanceInv
  <1>r. /\ UNCHANGED subgraph => UNCHANGED proposals
        /\ UNCHANGED records => UNCHANGED <<proposalCache, warned>>
    BY DEF subgraph, records
  <1>1. CASE ReadRecord(t, p)
    <2>b. PICK before : before = proposalCache[p]
      OBVIOUS
    <2>1. /\ job.pc = "read" /\ now \in ProposalRecords
          /\ UNCHANGED <<subgraph, records, governanceSetup, seeded, races, mishaps>>
      BY <1>0, <1>1, <1>j DEF ReadRecord
    <2>2. CASE before # NoProposal /\ ~IsNewStatus(before, now)
      <3>1. SendVotes(t, p, before, now, {})
        BY <1>1, <1>j, <2>b, <2>2 DEF ReadRecord
      <3>2. Accounted(p, before) /\ now.status = before.status
        BY <1>0, <2>b, <2>2 DEF RecordsAccounted, IsNewStatus
      <3>3. <<p, now.status>> \in heard \cup {} \cup seeded
        BY <3>2 DEF Accounted
      <3>4. /\ jobs' \in [GovernanceTicks -> [Proposals -> Jobs]]
            /\ JobsAccounted' /\ Remembered
        BY <1>0, <2>b, <2>1, <3>1, <3>2, <3>3, SentVotes
      <3> QED
        BY <1>0, <1>r, <2>1, <3>4, RecordsStay DEF GovernanceInv, GovernanceTyped
    <2>3. CASE ~(before # NoProposal /\ ~IsNewStatus(before, now))
      <3>0. PICK next : next = [pc |-> IF before = NoProposal THEN "tellNew" ELSE "tellStatus",
                                now |-> now, before |-> before]
        OBVIOUS
      <3>1. Do(t, p, next) /\ UNCHANGED <<voteMessages, heard>>
        BY <1>1, <1>j, <2>b, <2>3, <3>0 DEF ReadRecord
      <3>2. next \in Jobs
        BY <1>0, <2>b, <2>1, <3>0 DEF Jobs, Telling
      <3>3. Remembered
        BY <2>1, <3>1 DEF Remembered
      <3>4. ToldBy(p, next)'
        <4>1. before # NoProposal => Accounted(p, before)
          BY <1>0, <2>b DEF RecordsAccounted
        <4>2. before # NoProposal => Accounted(p, before)'
          BY <3>3, <4>1, AccountedStays
        <4> QED
          BY <3>0, <4>2 DEF ToldBy, Accounted
      <3> QED
        BY <1>0, <2>1, <3>1, <3>2, <3>3, <3>4, JobMoves DEF GovernanceTyped
    <2> QED
      BY <2>2, <2>3
  <1>2. CASE TellNewProposal(t, p)
    <2>0. PICK next : next = [pc |-> "store", now |-> now]
      OBVIOUS
    <2>1. /\ job.pc = "tellNew" /\ heard' = heard \cup {<<p, "NEW">>} /\ Do(t, p, next)
          /\ seeded' = seeded \cup Seeds(p, now)
          /\ UNCHANGED <<subgraph, records, voteMessages, governanceSetup, mishaps>>
      BY <1>2, <1>j, <2>0 DEF TellNewProposal, Hear
    <2>2. Remembered
      BY <2>1 DEF Remembered
    <2>3. Accounted(p, now)'
      BY <2>1 DEF Accounted, Seeds
    <2>4. next \in Jobs /\ ToldBy(p, next)'
      BY <1>0, <2>0, <2>1, <2>3 DEF Jobs, Fetched, ToldBy, Accounted
    <2> QED
      BY <1>0, <2>1, <2>2, <2>4, JobMoves DEF GovernanceTyped
  <1>3. CASE TellStatus(t, p)
    <2>0. PICK before, fresh : before = job.before /\ fresh = {<<p, now.status>>}
      OBVIOUS
    <2>1. /\ job.pc = "tellStatus" /\ SendVotes(t, p, before, now, fresh)
          /\ UNCHANGED <<subgraph, records, governanceSetup, seeded, mishaps>>
      BY <1>3, <1>j, <2>0 DEF TellStatus
    <2>2. Accounted(p, before) /\ before \in ProposalRecords
      BY <1>0, <2>0, <2>1 DEF ToldBy
    <2>3. <<p, now.status>> \in heard \cup fresh \cup seeded
      BY <2>0
    <2>4. /\ jobs' \in [GovernanceTicks -> [Proposals -> Jobs]]
          /\ JobsAccounted' /\ Remembered
      BY <1>0, <2>1, <2>2, <2>3, SentVotes
    <2> QED
      BY <1>0, <1>r, <2>1, <2>4, RecordsStay DEF GovernanceInv, GovernanceTyped
  <1>4. CASE ReadWarned(t, p)
    <2>0. PICK next : next = [pc |-> IF p \in warned THEN "store" ELSE "tellRisk", now |-> now]
      OBVIOUS
    <2>1. /\ job.pc = "warned" /\ Do(t, p, next)
          /\ UNCHANGED <<subgraph, records, governanceSetup, heard, seeded, voteMessages,
                         mishaps>>
      BY <1>4, <1>j, <2>0 DEF ReadWarned
    <2>2. Remembered /\ Accounted(p, now)
      BY <1>0, <1>j, <2>1 DEF Remembered, ToldBy
    <2>3. next \in Jobs /\ ToldBy(p, next)'
      BY <1>0, <2>0, <2>1, <2>2, AccountedStays DEF Jobs, Fetched, ToldBy, Accounted
    <2> QED
      BY <1>0, <2>1, <2>2, <2>3, JobMoves DEF GovernanceTyped
  <1>5. CASE TellRisk(t, p)
    <2>0. PICK next : next = [pc |-> "flag", now |-> now]
      OBVIOUS
    <2>1. /\ job.pc = "tellRisk" /\ Do(t, p, next) /\ heard' = heard \cup {<<p, "RISK">>}
          /\ UNCHANGED <<subgraph, records, governanceSetup, seeded, voteMessages, mishaps>>
      BY <1>5, <1>j, <2>0 DEF TellRisk, Hear
    <2>2. Remembered /\ Accounted(p, now)
      BY <1>0, <1>j, <2>1 DEF Remembered, ToldBy
    <2>3. next \in Jobs /\ ToldBy(p, next)'
      BY <1>0, <2>0, <2>1, <2>2, AccountedStays DEF Jobs, Fetched, ToldBy, Accounted
    <2> QED
      BY <1>0, <2>1, <2>2, <2>3, JobMoves DEF GovernanceTyped
  <1>6. CASE SetWarned(t, p)
    <2>0. PICK next : next = [pc |-> "store", now |-> now]
      OBVIOUS
    <2>1. /\ job.pc = "flag" /\ Do(t, p, next) /\ warned' = warned \cup {p}
          /\ UNCHANGED <<subgraph, proposalCache, voteMessages, governanceSetup, heard,
                         seeded, mishaps>>
      BY <1>6, <1>j, <2>0 DEF SetWarned
    <2>2. Remembered /\ Accounted(p, now) /\ <<p, "RISK">> \in heard
      BY <1>0, <1>j, <2>1 DEF Remembered, ToldBy
    <2>3. next \in Jobs /\ ToldBy(p, next)'
      BY <1>0, <2>0, <2>1, <2>2, AccountedStays DEF Jobs, Fetched, ToldBy, Accounted
    <2>4. RecordsAccounted'
      BY <1>0, <2>1, <2>2, AccountedStays DEF RecordsAccounted, Accounted
    <2>5. jobs' \in [GovernanceTicks -> [Proposals -> Jobs]] /\ JobsAccounted'
      BY <1>0, <2>1, <2>2, <2>3, JobGoesOn
    <2> QED
      BY <1>0, <1>r, <2>1, <2>4, <2>5 DEF GovernanceInv, GovernanceTyped
  <1>7. CASE StoreRecord(t, p)
    <2>1. /\ job.pc = "store" /\ Do(t, p, Rest)
          /\ proposalCache' = [proposalCache EXCEPT ![p] = now]
          /\ UNCHANGED <<subgraph, warned, voteMessages, governanceSetup, heard, seeded,
                         mishaps>>
      BY <1>7, <1>j DEF StoreRecord
    <2>2. Remembered /\ Accounted(p, now) /\ now \in ProposalRecords
      BY <1>0, <1>j, <2>1 DEF Remembered, ToldBy
    <2>3. Rest \in Jobs /\ ToldBy(p, Rest)'
      BY DEF Jobs, Rest, ToldBy
    <2>4. /\ proposalCache' \in [Proposals -> ProposalRecords]
          /\ \A q \in Proposals : proposalCache'[q] = IF q = p THEN now ELSE proposalCache[q]
      BY <1>0, <2>1, <2>2 DEF GovernanceTyped
    <2>5. RecordsAccounted'
      BY <1>0, <2>1, <2>2, <2>4, AccountedStays DEF RecordsAccounted, Accounted
    <2>6. jobs' \in [GovernanceTicks -> [Proposals -> Jobs]] /\ JobsAccounted'
      BY <1>0, <2>1, <2>2, <2>3, JobGoesOn
    <2> QED
      BY <1>0, <1>r, <2>1, <2>4, <2>5, <2>6 DEF GovernanceInv, GovernanceTyped
  <1> QED
    BY <1>1, <1>2, <1>3, <1>4, <1>5, <1>6, <1>7 DEF Job

LEMMA JobsStay ==
    ASSUME Remembered, UNCHANGED jobs, JobsAccounted
    PROVE  JobsAccounted'
  <1>1. \A q, j : ToldBy(q, j) => ToldBy(q, j)'
    BY AccountedStays DEF ToldBy, Remembered
  <1>2. \A t \in GovernanceTicks, q \in Proposals : \A j : j = jobs'[t][q] => ToldBy(q, j)'
    BY <1>1 DEF JobsAccounted
  <1> QED
    BY <1>2 DEF JobsAccounted, ToldBy, Accounted

\* What happens outside the jobs.
LEMMA SubgraphAccounted ==
    ASSUME GovernanceInv, SubgraphNext
    PROVE  GovernanceInv'
  <1>1. /\ proposals' \in [Proposals -> ProposalRecords]
        /\ UNCHANGED <<records, jobs, voteMessages, governanceSetup, heard, seeded, mishaps>>
    <2>1. PICK p \in Proposals :
              \/ ProposalCreated(p) \/ ProposalQueued(p) \/ ExpiryNears(p) \/ ProposalExecuted(p)
              \/ \E v \in Voters : VoteCast(p, v)
      BY DEF SubgraphNext
    <2>2. proposals \in [Proposals -> ProposalRecords] /\ proposals[p] \in ProposalRecords
      BY DEF GovernanceInv, GovernanceTyped
    <2>3. \E record \in ProposalRecords, near \in {TRUE, FALSE, expiring[p]} :
              SubgraphStep(p, record, near)
      <3>1. CASE ProposalCreated(p)
        BY <3>1 DEF ProposalCreated, ProposalRecords, ProposalStatuses
      <3>2. CASE ProposalQueued(p)
        BY <2>2, <3>2 DEF ProposalQueued, ProposalRecords, ProposalStatuses
      <3>3. CASE ExpiryNears(p)
        BY <2>2, <3>3 DEF ExpiryNears
      <3>4. CASE ProposalExecuted(p)
        BY <2>2, <3>4 DEF ProposalExecuted, ProposalRecords, ProposalStatuses
      <3>5. CASE \E v \in Voters : VoteCast(p, v)
        <4>1. PICK v \in Voters : VoteCast(p, v)
          BY <3>5
        <4>2. [status |-> "ACTIVE", votes |-> proposals[p].votes \cup {v}] \in ProposalRecords
          BY <2>2 DEF ProposalRecords, ProposalStatuses
        <4> QED
          BY <4>1, <4>2 DEF VoteCast
      <3> QED
        BY <2>1, <3>1, <3>2, <3>3, <3>4, <3>5
    <2> QED
      BY <2>2, <2>3 DEF SubgraphStep
  <1>2. Remembered
    BY <1>1 DEF Remembered
  <1>3. JobsAccounted' /\ RecordsAccounted'
    BY <1>1, <1>2, JobsStay, RecordsStay DEF GovernanceInv
  <1> QED
    BY <1>1, <1>3 DEF GovernanceInv, GovernanceTyped, records

LEMMA SetupAccounted ==
    ASSUME GovernanceInv, SetupGovernance
    PROVE  GovernanceInv'
  <1>1. Remembered /\ UNCHANGED <<proposals, jobs, warned, mishaps>>
    BY DEF SetupGovernance, FetchProposals, SeedRecords, Remembered, records, subgraph
  <1>2. JobsAccounted'
    BY <1>1, JobsStay DEF GovernanceInv
  <1>3. CASE FetchProposals
    <2>1. governanceSetup' \in [pc : {"fetch", "store", "done"},
                                found : [Proposals -> ProposalRecords]]
      BY <1>3 DEF FetchProposals, GovernanceInv, GovernanceTyped
    <2>2. UNCHANGED records
      BY <1>3 DEF FetchProposals
    <2> QED
      BY <1>1, <1>2, <2>1, <2>2, RecordsStay DEF GovernanceInv, GovernanceTyped, records
  <1>4. CASE SeedRecords
    <2>0. PICK found, there : /\ found = governanceSetup.found
                              /\ there = {p \in Proposals : found[p] # NoProposal}
      OBVIOUS
    <2>1. /\ proposalCache' = [p \in Proposals |->
                 IF p \in there THEN found[p] ELSE proposalCache[p]]
          /\ seeded' = seeded \cup UNION {Seeds(p, found[p]) : p \in there}
          /\ governanceSetup' = [NotSetUp EXCEPT !.pc = "done"]
      BY <1>4, <2>0 DEF SeedRecords
    <2>2. found \in [Proposals -> ProposalRecords]
      BY <2>0 DEF GovernanceInv, GovernanceTyped
    <2>3. governanceSetup' \in [pc : {"fetch", "store", "done"},
                                found : [Proposals -> ProposalRecords]]
      BY <2>1 DEF NotSetUp, NoProposal, ProposalRecords, ProposalStatuses
    <2>4. proposalCache' \in [Proposals -> ProposalRecords]
      BY <2>1, <2>2 DEF GovernanceInv, GovernanceTyped
    <2>5. \A p \in there : Accounted(p, found[p])'
      <3> SUFFICES ASSUME NEW p \in there, NEW record, record = found[p]
                   PROVE  Accounted(p, record)'
        OBVIOUS
      <3>1. Seeds(p, record) \subseteq seeded'
        BY <2>1
      <3> QED
        BY <3>1 DEF Accounted, Seeds
    <2>6. RecordsAccounted'
      <3>1. \A p \in Proposals :
                \A record : record = proposalCache'[p] /\ record # NoProposal
                                => Accounted(p, record)'
        BY <1>1, <2>0, <2>1, <2>5, AccountedStays DEF GovernanceInv, RecordsAccounted
      <3>2. \A p \in Proposals : p \in warned' => <<p, "RISK">> \in heard'
        BY <1>1 DEF GovernanceInv, RecordsAccounted, Remembered
      <3> QED
        BY <3>1, <3>2 DEF RecordsAccounted, Accounted
    <2> QED
      BY <1>1, <1>2, <2>3, <2>4, <2>6 DEF GovernanceInv, GovernanceTyped
  <1> QED
    BY <1>3, <1>4 DEF SetupGovernance

LEMMA StartAccounted ==
    ASSUME GovernanceInv, NEW t \in GovernanceTicks, StartJobs(t)
    PROVE  GovernanceInv'
  <1>1. /\ jobs' = [jobs EXCEPT ![t] = [p \in Proposals |->
                IF p \in Created THEN [pc |-> "read", now |-> proposals[p]] ELSE Rest]]
        /\ UNCHANGED <<subgraph, records, voteMessages, governanceSetup, heard, seeded, mishaps>>
    BY DEF StartJobs
  <1>2. Remembered
    BY <1>1 DEF Remembered
  <1>3. \A p \in Proposals : /\ [pc |-> "read", now |-> proposals[p]] \in Jobs
                             /\ Rest \in Jobs
    BY DEF Jobs, Fetched, GovernanceInv, GovernanceTyped
  <1>4. /\ jobs' \in [GovernanceTicks -> [Proposals -> Jobs]]
        /\ \A u \in GovernanceTicks, p \in Proposals :
               jobs'[u][p] = jobs[u][p] \/ jobs'[u][p].pc \in {"read", "rest"}
    BY <1>1, <1>3 DEF GovernanceInv, GovernanceTyped, Rest
  <1>5. JobsAccounted'
    <2>1. \A q, j : ToldBy(q, j) => ToldBy(q, j)'
      BY <1>2, AccountedStays DEF ToldBy, Remembered
    <2>2. \A q, j : j.pc \in {"read", "rest"} => ToldBy(q, j)'
      BY DEF ToldBy
    <2>3. \A u \in GovernanceTicks, q \in Proposals : \A j : j = jobs'[u][q] => ToldBy(q, j)'
      BY <1>4, <2>1, <2>2 DEF GovernanceInv, JobsAccounted
    <2> QED
      BY <2>3 DEF JobsAccounted, ToldBy, Accounted
  <1> QED
    BY <1>1, <1>2, <1>4, <1>5, RecordsStay DEF GovernanceInv, GovernanceTyped, subgraph, records

\* A job that fails leaves what it did.
LEMMA FailureAccounted ==
    ASSUME GovernanceInv, NEW t \in GovernanceTicks, NEW p \in Proposals,
           FailJob(t, p) \/ FailTold(t, p)
    PROVE  GovernanceInv'
  <1>1. /\ Do(t, p, Rest) /\ mishaps' = mishaps + 1 /\ mishaps \in Nat
        /\ heard \subseteq heard'
        /\ UNCHANGED <<subgraph, records, voteMessages, governanceSetup, seeded>>
    BY DEF FailJob, FailTold, Hear, GovernanceInv, GovernanceTyped
  <1>2. Remembered /\ mishaps' \in Nat
    BY <1>1 DEF Remembered
  <1>3. Rest \in Jobs /\ ToldBy(p, Rest)'
    BY DEF Jobs, Rest, ToldBy
  <1> QED
    BY <1>1, <1>2, <1>3, JobMoves

LEMMA MessageAccounted ==
    ASSUME GovernanceInv, NEW message, TellVote(message) \/ LoseVote(message)
    PROVE  GovernanceInv'
  <1>1. /\ UNCHANGED <<subgraph, records, jobs, governanceSetup>>
        /\ mishaps' \in Nat /\ Remembered
    BY DEF TellVote, LoseVote, Remembered, GovernanceInv, GovernanceTyped
  <1> QED
    BY <1>1, JobsStay, RecordsStay DEF GovernanceInv, GovernanceTyped, subgraph, records

LEMMA RestartAccounted ==
    ASSUME GovernanceInv, RestartGovernance
    PROVE  GovernanceInv'
  <1>1. /\ jobs' = [t \in GovernanceTicks |-> [p \in Proposals |-> Rest]]
        /\ governanceSetup' = NotSetUp /\ mishaps' = mishaps + 1 /\ mishaps \in Nat
        /\ UNCHANGED <<subgraph, records, heard, seeded>>
    BY DEF RestartGovernance, GovernanceInv, GovernanceTyped
  <1>2. Remembered /\ mishaps' \in Nat
    BY <1>1 DEF Remembered
  <1>3. governanceSetup' \in [pc : {"fetch", "store", "done"},
                              found : [Proposals -> ProposalRecords]]
    BY <1>1 DEF NotSetUp, NoProposal, ProposalRecords, ProposalStatuses
  <1>4. /\ jobs' \in [GovernanceTicks -> [Proposals -> Jobs]]
        /\ \A t \in GovernanceTicks, p \in Proposals : jobs'[t][p] = Rest
    BY <1>1 DEF Jobs
  <1>5. JobsAccounted'
    BY <1>4 DEF JobsAccounted, ToldBy, Rest
  <1> QED
    BY <1>1, <1>2, <1>3, <1>4, <1>5, RecordsStay DEF GovernanceInv, GovernanceTyped, subgraph,
       records

LEMMA GovernanceInvariance == GovernanceSpec => []GovernanceInv
  <1>1. GovernanceInit => GovernanceInv
    <2> SUFFICES ASSUME GovernanceInit PROVE GovernanceInv
      OBVIOUS
    <2>1. NoProposal \in ProposalRecords /\ Rest \in Jobs
      BY DEF NoProposal, ProposalRecords, ProposalStatuses, Jobs
    <2>2. GovernanceTyped
      BY <2>1 DEF GovernanceInit, GovernanceTyped, NotSetUp
    <2>3. JobsAccounted /\ RecordsAccounted
      BY DEF GovernanceInit, JobsAccounted, RecordsAccounted, ToldBy, Rest
    <2> QED
      BY <2>2, <2>3 DEF GovernanceInv
  <1>2. GovernanceInv /\ [GovernanceNext]_governanceVars => GovernanceInv'
    <2> SUFFICES ASSUME GovernanceInv, [GovernanceNext]_governanceVars PROVE GovernanceInv'
      OBVIOUS
    <2>1. ASSUME GovernanceNext PROVE GovernanceInv'
      BY <2>1, SubgraphAccounted, SetupAccounted, StartAccounted, JobAccounted,
         FailureAccounted, MessageAccounted, RestartAccounted
      DEF GovernanceNext, GovernanceTimer
    <2>2. ASSUME UNCHANGED governanceVars PROVE GovernanceInv'
      <3>1. /\ Remembered /\ UNCHANGED <<jobs, records, subgraph>>
            /\ UNCHANGED <<governanceSetup, mishaps>>
        BY <2>2 DEF governanceVars, Remembered
      <3> QED
        BY <3>1, JobsStay, RecordsStay DEF GovernanceInv, GovernanceTyped, subgraph, records
    <2> QED
      BY <2>1, <2>2
  <1> QED
    BY <1>1, <1>2, PTL DEF GovernanceSpec

\* The store is written last: whatever fails, starts anew or overlaps, it holds no
\* proposal, status or warning that Discord was not told of, but for what was there when
\* the proposal was first stored.
THEOREM ToldFirst == Spec => []ToldBeforeStored
  <1>1. GovernanceInv => ToldBeforeStored
    BY DEF GovernanceInv, RecordsAccounted, Accounted, ToldBeforeStored
  <1> QED
    BY <1>1, Loops, GovernanceInvariance, PTL

\* Unless a call fails or the process is restarted, no vote gets into the store that
\* Discord was not told of, is not about to be, and would have been.
THEOREM NoVotePassedOver == Spec => []NoVoteSkipped
  <1>1. GovernanceInv => NoVoteSkipped
    <2>1. NoProposal.votes = {}
      BY DEF NoProposal
    <2> QED
      BY <2>1 DEF GovernanceInv, RecordsAccounted, Accounted, NoVoteSkipped
  <1> QED
    BY <1>1, Loops, GovernanceInvariance, PTL

-----------------------------------------------------------------------------
(* The auctions that the bots query.  Bids are never lost or moved, and    *)
(* the last bid of the current auction comes after all others: in a later  *)
(* auction, in a later block, or before them in the order of ids.          *)

StoreTyped ==
    /\ block \in Nat /\ lastTx \in Txs \cup {Null}
    /\ auctions \in [AuctionIds -> Auctions \cup {Null}]
    /\ bids \in [Txs -> Bids \cup {Null}]
    /\ closing \in BOOLEAN

\* Auctions come one after another, each when the last is settled.
OneAfterAnother ==
    /\ \E last \in 0..MaxAuction : Stored = 1..last
    /\ \A tx \in Txs : bids[tx] # Null => bids[tx].auction \in Stored

\* A transaction that may bid again has bid for the current auction in this block.
MayBidAgain ==
    lastTx # Null =>
        /\ Stored # {} /\ ~auctions[Current].settled
        /\ bids[lastTx] # Null
        /\ bids[lastTx].auction = Current /\ bids[lastTx].blockNumber = block

StoreInv == StoreTyped /\ OneAfterAnother /\ MayBidAgain

Before(t, u) ==
    /\ bids[t] # Null /\ bids[u] # Null
    /\ \/ bids[t].auction < bids[u].auction
       \/ /\ bids[t].auction = bids[u].auction
          /\ \/ bids[t].blockNumber < bids[u].blockNumber
             \/ bids[t].blockNumber = bids[u].blockNumber /\ t > u

\* What is stored stays where it is.
Stays ==
    /\ Stored \subseteq Stored'
    /\ \A tx \in Txs : bids[tx] # Null =>
           /\ bids'[tx] # Null /\ bids'[tx].auction = bids[tx].auction
           /\ bids'[tx].blockNumber = bids[tx].blockNumber

\* A set of natural numbers that is not empty has a smallest member.
LEMMA LeastIs ==
    ASSUME NEW T \in SUBSET Nat, T # {}
    PROVE  Least(T) \in T /\ \A k \in T : Least(T) <= k
  <1> DEFINE R == OpToRel(<, Nat)
  <1>1. IsWellFoundedOn(R, Nat)
    BY NatLessThanWellFounded
  <1>2. PICK m \in T : \A k \in T : ~(<<k, m>> \in R)
    <2> HIDE DEF R
    <2> QED
      BY <1>1, WFMin
  <1>3. \A k \in T : <<k, m>> \in R <=> k < m
    BY DEF OpToRel
  <1> HIDE DEF R
  <1>4. \A k \in T : ~(k < m)
    BY <1>2, <1>3
  <1>5. \A k \in T : m <= k
    BY <1>4
  <1> QED
    BY <1>5 DEF Least

\* The current auction is the last one stored.
LEMMA CurrentIs ==
    ASSUME OneAfterAnother
    PROVE  /\ \A last \in Nat : Stored = 1..last /\ last > 0 => Current = last
           /\ Stored # {} => Current \in Stored /\ \A a \in Stored : a <= Current
           /\ Stored \subseteq AuctionIds
  <1>1. PICK last \in 0..MaxAuction : Stored = 1..last
    BY DEF OneAfterAnother
  <1>2. last \in Nat /\ MaxAuction \in Nat
    BY AuctionsAssumption
  <1>3. ASSUME NEW l \in Nat, Stored = 1..l, l > 0
        PROVE  Current = l
    <2>1. l \in 1..l /\ \A y \in 1..l : y <= l
      BY <1>3
    <2>2. \A x \in 1..l : (\A y \in 1..l : y <= x) => x = l
      BY <1>3, <2>1
    <2> QED
      BY <1>3, <2>1, <2>2 DEF Current, Greatest
  <1>4. Stored # {} => last > 0
    BY <1>1, <1>2
  <1>5. Stored \subseteq AuctionIds
    BY DEF Stored
  <1> QED
    BY <1>1, <1>2, <1>3, <1>4, <1>5

\* The query returns the last bid.
LEMMA LastBidLast ==
    ASSUME StoreInv, LastBid(Current) # Null
    PROVE  /\ LastBid(Current) \in Txs /\ bids[LastBid(Current)] # Null
           /\ \A tx \in Txs : bids[tx] # Null =>
                  tx = LastBid(Current) \/ Before(tx, LastBid(Current))
  <1> DEFINE latest == {tx \in BidsOf(Current) : \A other \in BidsOf(Current) :
                            bids[other].blockNumber <= bids[tx].blockNumber}
  <1>1. latest # {} /\ LastBid(Current) = Least(latest)
    BY DEF LastBid
  <1>2. BidsOf(Current) \subseteq Txs /\ latest \subseteq Nat
    BY AuctionsAssumption DEF BidsOf
  <1>3. Least(latest) \in latest /\ \A k \in latest : Least(latest) <= k
    <2> HIDE DEF latest
    <2> QED
      BY <1>1, <1>2, LeastIs
  <1>4. PICK b : b = LastBid(Current)
    OBVIOUS
  <1>5. /\ b \in Txs /\ b \in Nat /\ bids[b] # Null /\ bids[b].auction = Current
        /\ \A k \in latest : b <= k
        /\ \A other \in BidsOf(Current) : bids[other].blockNumber <= bids[b].blockNumber
    BY <1>1, <1>2, <1>3, <1>4 DEF BidsOf
  <1>6. ASSUME NEW tx \in Txs, bids[tx] # Null PROVE tx = b \/ Before(tx, b)
    <2>1. /\ bids[tx].auction \in Stored /\ bids[tx].auction <= Current
          /\ bids[tx] \in Bids /\ bids[b] \in Bids /\ Current \in Nat
      <3>1. bids[tx].auction \in Stored
        BY <1>6 DEF StoreInv, OneAfterAnother
      <3>2. bids[tx] \in Bids /\ bids[b] \in Bids
        BY <1>5, <1>6 DEF StoreInv, StoreTyped
      <3> QED
        BY <1>5, <3>1, <3>2, CurrentIs DEF StoreInv, Bids, AuctionIds
    <2>2. CASE bids[tx].auction = Current
      <3>1. tx \in BidsOf(Current) /\ bids[tx].blockNumber <= bids[b].blockNumber
        BY <1>5, <1>6, <2>2 DEF BidsOf
      <3>2. bids[tx].blockNumber = bids[b].blockNumber => tx \in latest
        BY <1>5, <3>1
      <3>3. tx \in Nat
        BY AuctionsAssumption
      <3> QED
        BY <1>5, <1>6, <2>1, <2>2, <3>1, <3>2, <3>3 DEF Before, Bids
    <2>3. CASE bids[tx].auction # Current
      BY <1>5, <1>6, <2>1, <2>3 DEF Before, Bids, AuctionIds
    <2> QED
      BY <2>2, <2>3
  <1> QED
    BY <1>4, <1>5, <1>6

LEMMA StoreStarts == StoreInit => StoreInv
  <1> SUFFICES ASSUME StoreInit PROVE StoreInv
    OBVIOUS
  <1>1. StoreTyped
    BY DEF StoreInit, StoreTyped
  <1>2. Stored = {} /\ 0 \in 0..MaxAuction /\ 1..0 = {}
    BY AuctionsAssumption DEF StoreInit, Stored
  <1>3. OneAfterAnother
    BY <1>2 DEF StoreInit, OneAfterAnother
  <1> QED
    BY <1>1, <1>3 DEF StoreInit, StoreInv, MayBidAgain

\* While no auction is added, the current one stays.
LEMMA StoreKept ==
    ASSUME StoreInv, StoreTyped', UNCHANGED bids, Stored' = Stored,
           lastTx' \in {lastTx, Null}, lastTx' # Null => block' = block,
           lastTx' # Null /\ Stored # {} => auctions'[Current].settled = auctions[Current].settled
    PROVE  StoreInv' /\ Stays
  <1>1. OneAfterAnother'
    BY DEF StoreInv, OneAfterAnother
  <1>2. Current' = Current
    BY DEF Current, Greatest
  <1>3. MayBidAgain'
    BY <1>2 DEF StoreInv, MayBidAgain
  <1> QED
    BY <1>1, <1>3 DEF StoreInv, Stays

LEMMA StoreNextInv ==
    ASSUME StoreInv, StoreNext
    PROVE  StoreInv' /\ Stays
  <1>0. /\ StoreTyped /\ OneAfterAnother /\ MayBidAgain
        /\ \A a \in AuctionIds : a \in Stored <=> auctions[a] # Null
        /\ \A a \in AuctionIds : a \in Stored' <=> auctions'[a] # Null
        /\ Stored \subseteq AuctionIds /\ Stored' \subseteq AuctionIds
        /\ \A a \in Stored : auctions[a] \in Auctions
        /\ Stored # {} => Current \in Stored /\ auctions[Current] \in Auctions
        /\ Null \notin Auctions /\ Null \notin Bids /\ Null \notin Txs /\ MaxAuction \in Nat
    BY CurrentIs, AuctionsAssumption DEF StoreInv, Stored, StoreTyped
  <1>1. CASE handleAuctionCreated
    <2> DEFINE a == Cardinality(Stored) + 1
    <2>1. PICK last \in 0..MaxAuction : Stored = 1..last
      BY <1>0 DEF OneAfterAnother
    <2>2. last \in Nat /\ a = last + 1
      BY <1>0, <2>1, FS_Interval
    <2>3. /\ a \in AuctionIds /\ a \notin Stored
          /\ \A b \in Stored : auctions[b].settled
          /\ auctions' = [auctions EXCEPT ![a] = [amount |-> 0, settled |-> FALSE]]
          /\ closing' = FALSE /\ UNCHANGED <<block, lastTx, bids>>
      BY <1>0, <1>1, <2>1, <2>2 DEF handleAuctionCreated, AuctionIds
    <2>4. lastTx = Null
      BY <1>0, <2>3 DEF MayBidAgain
    <2> HIDE DEF a
    <2>5. [amount |-> 0, settled |-> FALSE] \in Auctions
      BY DEF Auctions
    <2>6. StoreTyped'
      BY <1>0, <2>3, <2>5 DEF StoreTyped
    <2>7. Stored' = Stored \cup {a}
      BY <1>0, <2>3, <2>5 DEF Stored, StoreTyped
    <2>8. a \in 0..MaxAuction /\ Stored' = 1..a
      BY <1>0, <2>1, <2>2, <2>3, <2>7 DEF AuctionIds
    <2>9. OneAfterAnother'
      BY <1>0, <2>3, <2>7, <2>8 DEF OneAfterAnother
    <2> QED
      BY <2>3, <2>4, <2>6, <2>7, <2>9 DEF StoreInv, MayBidAgain, Stays
  <1>2. ASSUME NEW tx \in Txs, handleAuctionBid(tx) PROVE StoreInv' /\ Stays
    <2>0. PICK current, bid : current = Current /\ bid = BidAfter(tx)
      OBVIOUS
    <2>1. /\ Stored # {} /\ ~auctions[current].settled /\ current \in Stored
          /\ current \in AuctionIds /\ auctions[current] \in Auctions
          /\ tx = lastTx \/ bids[tx] = Null
          /\ auctions' = [auctions EXCEPT ![current].amount = @ + 1]
          /\ bids' = [bids EXCEPT ![tx] = bid]
          /\ lastTx' = tx /\ UNCHANGED <<block, closing>>
      BY <1>0, <1>2, <2>0 DEF handleAuctionBid
    <2>2. /\ bid \in Bids /\ bid.auction = current /\ bid.blockNumber = block /\ bid # Null
      BY <1>0, <2>0, <2>1 DEF BidAfter, Bids, Auctions, StoreTyped
    <2>3. /\ auctions'[current] \in Auctions /\ ~auctions'[current].settled
          /\ \A b \in AuctionIds : b # current => auctions'[b] = auctions[b]
          /\ auctions' \in [AuctionIds -> Auctions \cup {Null}]
      <3>1. auctions \in [AuctionIds -> Auctions \cup {Null}]
        BY <1>0 DEF StoreTyped
      <3>2. auctions'[current] = [auctions[current] EXCEPT !.amount = @ + 1]
        BY <2>1, <3>1
      <3>3. auctions'[current] \in Auctions /\ auctions'[current].settled = auctions[current].settled
        BY <2>1, <3>2 DEF Auctions
      <3>4. \A b \in AuctionIds : b # current => auctions'[b] = auctions[b]
        BY <2>1, <3>1
      <3>5. auctions' \in [AuctionIds -> Auctions \cup {Null}]
        <4>1. DOMAIN auctions' = AuctionIds
          BY <2>1, <3>1
        <4>2. auctions' = [b \in AuctionIds |-> auctions'[b]]
          BY <2>1, <3>1
        <4>3. \A b \in AuctionIds : auctions'[b] \in Auctions \cup {Null}
          BY <3>1, <3>3, <3>4
        <4> QED
          BY <4>2, <4>3
      <3> QED
        BY <2>1, <3>3, <3>4, <3>5
    <2>4. /\ bids' \in [Txs -> Bids \cup {Null}] /\ bids'[tx] = bid
          /\ \A t \in Txs : t # tx => bids'[t] = bids[t]
      BY <1>0, <2>1, <2>2 DEF StoreTyped
    <2>5. Stored' = Stored
      <3>1. auctions'[current] # Null /\ auctions[current] # Null
        BY <1>0, <2>1, <2>3
      <3>2. \A b \in AuctionIds : auctions'[b] # Null <=> auctions[b] # Null
        BY <2>3, <3>1
      <3> QED
        BY <3>2 DEF Stored
    <2>6. StoreTyped'
      BY <1>0, <2>1, <2>3, <2>4 DEF StoreTyped
    <2>7. Current' = current
      BY <2>0, <2>5 DEF Current, Greatest
    <2>8. OneAfterAnother'
      BY <1>0, <2>1, <2>2, <2>4, <2>5 DEF OneAfterAnother
    <2>9. MayBidAgain'
      BY <1>0, <2>1, <2>2, <2>3, <2>4, <2>5, <2>7 DEF MayBidAgain
    <2>10. Stays
      <3>1. bids[tx] # Null => bids[tx].auction = current /\ bids[tx].blockNumber = block
        BY <1>0, <2>0, <2>1 DEF MayBidAgain
      <3> QED
        BY <2>2, <2>4, <2>5, <3>1 DEF Stays
    <2> QED
      BY <2>6, <2>8, <2>9, <2>10 DEF StoreInv
  <1>3. CASE handleAuctionSettled
    <2>0. PICK current : current = Current
      OBVIOUS
    <2>1. /\ Stored # {} /\ current \in Stored /\ current \in AuctionIds /\ lastTx = Null
          /\ auctions[current] \in Auctions
          /\ auctions' = [auctions EXCEPT ![current].settled = TRUE]
          /\ UNCHANGED <<block, lastTx, bids, closing>>
      BY <1>0, <1>3, <2>0 DEF handleAuctionSettled
    <2>2. /\ auctions'[current] \in Auctions
          /\ \A b \in AuctionIds : b # current => auctions'[b] = auctions[b]
          /\ auctions' \in [AuctionIds -> Auctions \cup {Null}]
      <3>1. auctions \in [AuctionIds -> Auctions \cup {Null}]
        BY <1>0 DEF StoreTyped
      <3>2. auctions'[current] = [auctions[current] EXCEPT !.settled = TRUE]
        BY <2>1, <3>1
      <3>3. auctions'[current] \in Auctions
        BY <2>1, <3>2 DEF Auctions
      <3>4. \A b \in AuctionIds : b # current => auctions'[b] = auctions[b]
        BY <2>1, <3>1
      <3>5. auctions' = [b \in AuctionIds |-> auctions'[b]]
        BY <2>1, <3>1
      <3>6. \A b \in AuctionIds : auctions'[b] \in Auctions \cup {Null}
        BY <3>1, <3>3, <3>4
      <3> QED
        BY <3>3, <3>4, <3>5, <3>6
    <2>3. Stored' = Stored
      <3>1. auctions'[current] # Null /\ auctions[current] # Null
        BY <1>0, <2>1, <2>2
      <3>2. \A b \in AuctionIds : auctions'[b] # Null <=> auctions[b] # Null
        BY <2>2, <3>1
      <3> QED
        BY <3>2 DEF Stored
    <2>4. StoreTyped'
      BY <1>0, <2>1, <2>2 DEF StoreTyped
    <2> QED
      BY <2>1, <2>3, <2>4, StoreKept
  <1>4. CASE EndTimeNears \/ NextBlock
    <2>1. /\ UNCHANGED <<auctions, bids>> /\ lastTx' \in {lastTx, Null}
          /\ lastTx' # Null => block' = block
          /\ block' \in Nat /\ closing' \in BOOLEAN /\ lastTx' \in Txs \cup {Null}
      <3>1. block \in Nat /\ block + 1 \in Nat /\ lastTx \in Txs \cup {Null}
            /\ closing \in BOOLEAN
        BY <1>0 DEF StoreTyped
      <3>2. CASE EndTimeNears
        BY <3>1, <3>2 DEF EndTimeNears
      <3>3. CASE NextBlock
        BY <3>1, <3>3 DEF NextBlock
      <3> QED
        BY <1>4, <3>2, <3>3
    <2>2. StoreTyped' /\ Stored' = Stored
      BY <1>0, <2>1 DEF StoreTyped, Stored
    <2> QED
      BY <2>1, <2>2, StoreKept
  <1> QED
    BY <1>1, <1>2, <1>3, <1>4 DEF StoreNext

\* An order that does not change.
LEMMA BeforeStays ==
    ASSUME Stays
    PROVE  \A t, u \in Txs : Before(t, u) => Before(t, u)'
  BY DEF Stays, Before

LEMMA BeforeOrders ==
    ASSUME StoreInv
    PROVE  /\ \A t \in Txs : ~Before(t, t)
           /\ \A t, u, v \in Txs : Before(t, u) /\ Before(u, v) => Before(t, v)
  <1>1. /\ \A t \in Txs : bids[t] # Null =>
               bids[t].auction \in Nat /\ bids[t].blockNumber \in Nat
        /\ Txs \subseteq Nat
    <2>1. \A t \in Txs : bids[t] # Null => bids[t] \in Bids
      BY DEF StoreInv, StoreTyped
    <2> QED
      BY <2>1, AuctionsAssumption DEF Bids, AuctionIds
  <1>2. \A t \in Txs : ~Before(t, t)
    BY <1>1 DEF Before
  <1>3. \A t, u, v \in Txs : Before(t, u) /\ Before(u, v) => Before(t, v)
    BY <1>1 DEF Before
  <1> QED
    BY <1>2, <1>3

-----------------------------------------------------------------------------
(* Auctions: nothing is told twice, and nothing stored untold.             *)

Caches == 0..MaxAuction
TxsOrNone == Txs \cup {Null}
Threads == AuctionIds \cup {Null}
Lasts == [id : AuctionIds, bid : TxsOrNone]
Steps ==
    [pc : {"readBid"}, auction : Caches]
    \cup [pc : {"readSoon"}, auction : Caches, bid : TxsOrNone]
    \cup [pc : {"fetch"}, auction : Caches, bid : TxsOrNone, soon : Caches]
    \cup [pc : {"auction", "tellAuction"}, bid : TxsOrNone, soon : Caches, last : Lasts]
    \cup [pc : {"bid", "tellBid"}, soon : Caches, last : Lasts]
    \cup [pc : {"repliedBid"}, soon : Caches, last : Lasts, thread : Threads]
    \cup [pc : {"soon", "tellSoon"}, id : AuctionIds]
    \cup [pc : {"repliedSoon"}, thread : Threads]
TickStates == {Idle} \cup Steps
News == (({"auction", "soon"} \X AuctionIds) \cup ({"bid"} \X Txs)) \X Channels

AuctionTyped ==
    /\ tick \in [Ticks -> TickStates]
    /\ setup \in [pc : {"fetch", "store", "done"}, id : Caches]
    /\ auctionCache \in Caches /\ soonCache \in Caches
    /\ bidCache \in TxsOrNone /\ replyTweet \in Threads
    /\ told \subseteq News
    /\ overlaps \in Nat /\ faults \in Nat

\* What redis and the process know of the store is there.
Fetching(k) == k.pc \in {"auction", "tellAuction", "bid", "tellBid", "repliedBid"}
Found ==
    /\ auctionCache \in Stored \cup {0}
    /\ bidCache # Null => bids[bidCache] # Null
    /\ setup.pc = "store" => setup.id \in Stored
    /\ \A t \in Ticks : Fetching(tick[t]) =>
           /\ tick[t].last.id \in Stored
           /\ tick[t].last.bid # Null => bids[tick[t].last.bid] # Null

\* Some channel was told.
Heard(kind, x) == \E c \in Channels : <<<<kind, x>>, c>> \in told

\* Until ticks overlap, there is one tick at most, after setup ...
Alone ==
    /\ \A t, u \in Ticks : tick[t] # Idle /\ tick[u] # Idle => t = u
    /\ setup.pc # "done" => \A t \in Ticks : tick[t] = Idle

\* ... so that a tick knows what redis holds, and goes on to what is newer.
Newer(k) ==
    /\ k.pc \in {"readBid", "readSoon", "fetch"} => k.auction = auctionCache
    /\ k.pc \in {"readSoon", "fetch", "auction", "tellAuction"} => k.bid = bidCache
    /\ k.pc \in {"fetch", "auction", "tellAuction", "bid", "tellBid", "repliedBid"} =>
           k.soon = soonCache
    /\ k.pc = "auction" => auctionCache < k.last.id
    /\ k.pc = "tellAuction" =>
           auctionCache = k.last.id /\ \A i \in AuctionIds : Heard("auction", i) => i < k.last.id
    /\ k.pc \in {"auction", "tellAuction", "bid"} /\ k.last.bid # Null /\ bidCache # Null =>
           bidCache = k.last.bid \/ Before(bidCache, k.last.bid)
    /\ k.pc = "bid" => k.last.bid \notin {Null, bidCache}
    /\ k.pc = "tellBid" =>
           /\ bidCache = k.last.bid /\ bidCache # Null
           /\ \A x \in Txs : Heard("bid", x) => Before(x, bidCache)
    /\ k.pc = "soon" => soonCache < k.id
    /\ k.pc = "tellSoon" =>
           soonCache = k.id /\ \A i \in AuctionIds : Heard("soon", i) => i < k.id

\* What was told is no newer than what redis holds, and than what setup will put there.
Older ==
    /\ \A i \in AuctionIds : Heard("auction", i) =>
           i <= auctionCache /\ (setup.pc = "store" => i <= setup.id)
    /\ \A x \in Txs : Heard("bid", x) => bidCache # Null /\ (x = bidCache \/ Before(x, bidCache))
    /\ \A i \in AuctionIds : Heard("soon", i) => i <= soonCache

\* Without failures either, what redis holds was told, or will be.
AllTold(kind, x, channels) == \A c \in channels : <<<<kind, x>>, c>> \in told
AuctionAnnounced ==
    \/ setup.pc # "done" \/ auctionCache = setup.id
    \/ AllTold("auction", auctionCache, Channels)
    \/ \E t \in Ticks : tick[t].pc = "tellAuction"
BidAnnounced ==
    /\ setup.pc # "done" => bidCache = Null
    /\ \/ bidCache = Null \/ AllTold("bid", bidCache, {"discord"})
       \/ \E t \in Ticks : tick[t].pc = "tellBid"

Orderly ==
    /\ overlaps = 0 => Alone /\ Older /\ \A t \in Ticks : Newer(tick[t])
    /\ overlaps = 0 /\ faults = 0 => AuctionAnnounced /\ BidAnnounced
    /\ overlaps # 0 => told = {}
    /\ ~repeated

AuctionInv == StoreInv /\ AuctionTyped /\ Found /\ Orderly

\* The fields of the ticks that have them.
LEMMA TickFields ==
    ASSUME NEW k \in TickStates
    PROVE  /\ Idle.pc = "idle"
           /\ k # Idle <=> k.pc # "idle"
           /\ k.pc \in {"readBid", "readSoon", "fetch"} => k.auction \in Caches
           /\ k.pc \in {"readSoon", "fetch", "auction", "tellAuction"} => k.bid \in TxsOrNone
           /\ k.pc \in {"fetch", "auction", "tellAuction", "bid", "tellBid", "repliedBid"} =>
                  k.soon \in Caches
           /\ Fetching(k) => k.last \in Lasts /\ k.last.id \in AuctionIds
                             /\ k.last.bid \in TxsOrNone
           /\ k.pc \in {"soon", "tellSoon"} => k.id \in AuctionIds
           /\ k.pc \in {"repliedBid", "repliedSoon"} => k.thread \in Threads
  BY DEF TickStates, Steps, Idle, Fetching, Lasts

\* Bots leave the subgraph alone.
LEMMA StoreSame ==
    ASSUME StoreInv, UNCHANGED storeVars
    PROVE  /\ StoreInv' /\ Stored' = Stored /\ bids' = bids
           /\ \A t, u : Before(t, u)' = Before(t, u)
  BY DEF storeVars, StoreInv, StoreTyped, OneAfterAnother, MayBidAgain, Stored, Current,
         Greatest, Before

\* The subgraph moves on.
LEMMA WorldKept ==
    ASSUME AuctionInv, World
    PROVE  AuctionInv'
  <1>1. /\ StoreInv' /\ Stays
        /\ UNCHANGED <<tick, setup, auctionCache, bidCache, soonCache, replyTweet, told,
                       repeated, overlaps, faults>>
    BY StoreNextInv DEF World, AuctionInv, redis, news
  <1>2. AuctionTyped'
    BY <1>1 DEF AuctionInv, AuctionTyped
  <1>3. bidCache \in TxsOrNone /\ \A t \in Ticks : tick[t] \in TickStates
    BY DEF AuctionInv, AuctionTyped
  <1>4. Found'
    <2>1. \A b \in TxsOrNone : b # Null /\ bids[b] # Null => bids'[b] # Null
      BY <1>1 DEF Stays, TxsOrNone
    <2>2. \A t \in Ticks : Fetching(tick[t]) => tick[t].last.bid \in TxsOrNone
      BY <1>3, TickFields
    <2> QED
      BY <1>1, <1>3, <2>1, <2>2 DEF AuctionInv, Found, Stays, Fetching
  <1>5. \A kind, x : Heard(kind, x)' = Heard(kind, x)
    BY <1>1 DEF Heard
  <1>6. \A b, c \in TxsOrNone : b # Null /\ c # Null /\ Before(b, c) => Before(b, c)'
    BY <1>1, BeforeStays DEF TxsOrNone
  <1>7. ASSUME Alone PROVE Alone'
    BY <1>1, <1>7 DEF Alone
  <1>8. ASSUME Older PROVE Older'
    <2>1. \A x \in Txs : x # Null /\ x \in TxsOrNone
      BY AuctionsAssumption DEF TxsOrNone
    <2> QED
      BY <1>1, <1>3, <1>5, <1>6, <1>8, <2>1 DEF Older
  <1>9. ASSUME NEW t \in Ticks, Newer(tick[t]) PROVE \A k : k = tick[t] => Newer(k)'
    <2>1. PICK k : k = tick[t]
      OBVIOUS
    <2>2. Fetching(k) => k.last.bid \in TxsOrNone
      BY <1>3, <2>1, TickFields
    <2>3. \A x \in Txs : x # Null /\ x \in TxsOrNone
      BY AuctionsAssumption DEF TxsOrNone
    <2>4. Newer(k)
      BY <1>9, <2>1
    <2>5. k.pc \in {"auction", "tellAuction", "bid"} /\ k.last.bid # Null /\ bidCache # Null =>
              bidCache = k.last.bid \/ Before(bidCache, k.last.bid)'
      BY <1>1, <1>3, <1>6, <2>2, <2>4 DEF Newer, Fetching
    <2>6. k.pc = "tellBid" => \A x \in Txs : Heard("bid", x) => Before(x, bidCache)'
      BY <1>1, <1>3, <1>6, <2>3, <2>4 DEF Newer
    <2> QED
      BY <1>1, <1>5, <2>1, <2>4, <2>5, <2>6 DEF Newer
  <1>10. (\A t \in Ticks : Newer(tick[t])) => \A t \in Ticks : Newer(tick[t])'
    BY <1>1, <1>9 DEF Newer
  <1>11. (AuctionAnnounced => AuctionAnnounced') /\ (BidAnnounced => BidAnnounced')
    BY <1>1 DEF AuctionAnnounced, BidAnnounced, AllTold
  <1>12. Orderly'
    BY <1>1, <1>7, <1>8, <1>10, <1>11 DEF AuctionInv, Orderly
  <1> QED
    BY <1>1, <1>2, <1>4, <1>12 DEF AuctionInv

\* A tick goes on with k.
LEMMA TickGoesOn ==
    ASSUME AuctionInv, NEW t \in Ticks, tick[t] # Idle, NEW k \in TickStates, Go(t, k),
           Fetching(k) => /\ k.last.id \in Stored
                          /\ k.last.bid # Null => bids[k.last.bid] # Null,
           auctionCache' \in Stored \cup {0}, bidCache' # Null => bids[bidCache'] # Null,
           UNCHANGED <<storeVars, setup, overlaps>>
    PROVE  /\ tick' \in [Ticks -> TickStates] /\ StoreInv' /\ Found'
           /\ \A u \in Ticks : tick'[u] = IF u = t THEN k ELSE tick[u]
           /\ overlaps = 0 => /\ Alone' /\ setup.pc = "done"
                              /\ Newer(tick[t]) /\ Older
                              /\ Newer(k)' => \A u \in Ticks : Newer(tick[u])'
  <1>1. tick' = [tick EXCEPT ![t] = k] /\ tick \in [Ticks -> TickStates]
    BY DEF Go, AuctionInv, AuctionTyped
  <1>2. /\ tick' \in [Ticks -> TickStates]
        /\ \A u \in Ticks : tick'[u] = IF u = t THEN k ELSE tick[u]
    BY <1>1
  <1>3. StoreInv' /\ Stored' = Stored /\ bids' = bids
    BY StoreSame DEF AuctionInv
  <1>4. Found'
    BY <1>2, <1>3 DEF AuctionInv, Found, Fetching
  <1>5. ASSUME overlaps = 0
        PROVE  /\ Alone' /\ setup.pc = "done" /\ Newer(tick[t]) /\ Older
               /\ Newer(k)' => \A u \in Ticks : Newer(tick[u])'
    <2>1. Alone /\ Older /\ \A u \in Ticks : Newer(tick[u])
      BY <1>5 DEF AuctionInv, Orderly
    <2>2. \A u \in Ticks : u # t => tick[u] = Idle
      BY <2>1 DEF Alone
    <2>3. setup.pc = "done"
      BY <2>1 DEF Alone
    <2>4. Alone'
      BY <1>2, <2>2, <2>3 DEF Alone
    <2>5. ASSUME Newer(k)', NEW u \in Ticks PROVE \A j : j = tick'[u] => Newer(j)'
      <3>1. Idle.pc = "idle"
        BY DEF Idle
      <3>2. Newer(Idle)'
        BY <3>1 DEF Newer, Idle
      <3>3. tick'[u] = k \/ tick'[u] = Idle
        BY <1>2, <2>2
      <3> QED
        BY <2>5, <3>2, <3>3 DEF Idle
    <2>6. Newer(k)' => \A u \in Ticks : Newer(tick[u])'
      BY <2>5 DEF Newer
    <2> QED
      BY <2>1, <2>3, <2>4, <2>6
  <1> QED
    BY <1>2, <1>3, <1>4, <1>5

\* What was announced stays so while the tick that goes on is not about to tell.
LEMMA AnnouncedStays ==
    ASSUME NEW t \in Ticks, NEW k, \A u \in Ticks : tick'[u] = IF u = t THEN k ELSE tick[u],
           told \subseteq told', UNCHANGED setup
    PROVE  /\ AuctionAnnounced /\ auctionCache' = auctionCache /\ tick[t].pc # "tellAuction"
                  => AuctionAnnounced'
           /\ BidAnnounced /\ bidCache' = bidCache /\ tick[t].pc # "tellBid" => BidAnnounced'
  BY DEF AuctionAnnounced, BidAnnounced, AllTold

\* Some channels are told of something that none was told of yet.
LEMMA Tells ==
    ASSUME AuctionInv, NEW kind, NEW x, NEW channels \in SUBSET Channels,
           <<kind, x>> \in ({"auction", "soon"} \X AuctionIds) \cup ({"bid"} \X Txs),
           overlaps = 0 => ~Heard(kind, x), Tell(<<kind, x>>, channels)
    PROVE  /\ told \subseteq told' /\ told' \subseteq News /\ ~repeated'
           /\ overlaps # 0 => told' = {}
           /\ overlaps = 0 =>
                  /\ \A c \in channels : <<<<kind, x>>, c>> \in told'
                  /\ \A what, y : Heard(what, y)' => Heard(what, y) \/ (what = kind /\ y = x)
  <1>0. /\ told \subseteq News /\ ~repeated /\ (overlaps # 0 => told = {})
    BY DEF AuctionInv, AuctionTyped, Orderly
  <1>1. CASE overlaps = 0
    <2> DEFINE new == {<<<<kind, x>>, c>> : c \in channels}
    <2>1. told' = told \cup new /\ (repeated' <=> (repeated \/ told \cap new # {}))
      <3>1. overlaps \in Nat /\ ~(overlaps > 0)
        BY <1>1
      <3>2. told' = told \cup new /\ repeated' = (repeated \/ told \cap new # {})
        BY <3>1 DEF Tell
      <3> QED
        BY <3>2
    <2>2. told \cap new = {}
      BY <1>1 DEF Heard
    <2>3. new \subseteq News
      BY DEF News
    <2>4. \A what, y : \A c \in Channels : <<<<what, y>>, c>> \in new => what = kind /\ y = x
      OBVIOUS
    <2>5. \A c \in channels : <<<<kind, x>>, c>> \in new
      OBVIOUS
    <2> HIDE DEF new
    <2> QED
      BY <1>0, <1>1, <2>1, <2>2, <2>3, <2>4, <2>5 DEF Heard
  <1>2. CASE overlaps # 0
    <2>1. overlaps > 0
      BY <1>2 DEF AuctionInv, AuctionTyped
    <2>2. told' = told /\ repeated' = repeated
      BY <2>1 DEF Tell, news
    <2> QED
      BY <1>0, <1>2, <2>2
  <1> QED
    BY <1>1, <1>2

\* How a tick goes on that is past the auction, and past bids.
LEMMA ToSoonIs ==
    ASSUME NEW k, k.last \in Lasts, k.soon \in Caches, NEW r, r = ToSoon(k)
    PROVE  /\ r \in TickStates /\ r.pc \in {"idle", "soon"}
           /\ r.pc = "soon" => k.soon < r.id
  BY DEF ToSoon, TickStates, Steps, Idle, Lasts

LEMMA ToBidIs ==
    ASSUME NEW k, k.last \in Lasts, k.soon \in Caches, NEW r, r = ToBid(k)
    PROVE  /\ r \in TickStates /\ r.pc \in {"idle", "soon", "bid"}
           /\ r.pc = "soon" => k.soon < r.id
           /\ r.pc = "bid" => /\ r.last = k.last /\ r.soon = k.soon
                              /\ k.last.bid # Null /\ k.last.bid # k.bid
  <1>1. CASE IsNewBid(k.bid, k.last)
    <2>1. r = [pc |-> "bid", soon |-> k.soon, last |-> k.last]
      BY <1>1 DEF ToBid
    <2> QED
      BY <1>1, <2>1 DEF IsNewBid, TickStates, Steps
  <1>2. CASE ~IsNewBid(k.bid, k.last)
    BY <1>2, ToSoonIs DEF ToBid
  <1> QED
    BY <1>1, <1>2

LEMMA FetchKept ==
    ASSUME AuctionInv, NEW t \in Ticks, Fetch(t)
    PROVE  AuctionInv'
  <1>0. PICK j, last, k, r :
            /\ j = tick[t] /\ last = getLastAuctionBids
            /\ k = [pc |-> "auction", bid |-> j.bid, soon |-> j.soon, last |-> last]
            /\ r = IF Stored = {} THEN Idle
                   ELSE IF IsNewAuction(j.auction) THEN k ELSE ToBid(k)
    OBVIOUS
  <1>1. /\ j.pc = "fetch" /\ Go(t, r)
        /\ UNCHANGED <<storeVars, setup, redis, news, overlaps, faults>>
    BY <1>0 DEF Fetch
  <1>2. /\ j \in TickStates /\ j # Idle /\ j.auction \in Caches /\ j.bid \in TxsOrNone
        /\ j.soon \in Caches /\ AuctionTyped /\ Found /\ Orderly /\ StoreInv
        /\ auctionCache \in Caches /\ bidCache \in TxsOrNone /\ soonCache \in Caches
    <2>1. j \in TickStates
      BY <1>0 DEF AuctionInv, AuctionTyped
    <2> QED
      BY <1>1, <2>1, TickFields DEF AuctionInv, AuctionTyped
  <1>3. UNCHANGED <<auctionCache, bidCache, soonCache, replyTweet, told, repeated>>
    BY <1>1 DEF redis, news
  <1>4. Stored # {} => /\ last.id = Current /\ last.bid = LastBid(Current) /\ last \in Lasts
                       /\ last.id \in Stored /\ (last.bid # Null => bids[last.bid] # Null)
    <2>1. last.id = Current /\ last.bid = LastBid(Current) /\ last = [id |-> Current, bid |-> LastBid(Current)]
      BY <1>0 DEF getLastAuctionBids
    <2>2. Stored # {} => Current \in Stored /\ Current \in AuctionIds
      BY <1>2, CurrentIs DEF StoreInv
    <2>3. LastBid(Current) # Null => LastBid(Current) \in Txs /\ bids[LastBid(Current)] # Null
      BY <1>2, LastBidLast
    <2> QED
      BY <2>1, <2>2, <2>3 DEF Lasts, TxsOrNone
  <1>5. /\ k.pc = "auction" /\ k.bid = j.bid /\ k.soon = j.soon /\ k.last = last
    BY <1>0
  <1>6. r \in TickStates /\ r.pc \in {"idle", "auction", "bid", "soon"}
        /\ (r.pc = "soon" => j.soon < r.id)
        /\ (r.pc = "bid" => /\ Stored # {} /\ r.last = last /\ r.soon = j.soon
                            /\ last.bid # Null /\ last.bid # j.bid)
        /\ (r.pc = "auction" => /\ Stored # {} /\ r = k /\ j.auction < last.id)
    <2>1. CASE Stored = {}
      BY <1>0, <2>1 DEF Idle, TickStates
    <2>2. CASE Stored # {} /\ IsNewAuction(j.auction)
      <3>1. r = k
        BY <1>0, <2>2
      <3>2. k \in TickStates
        BY <1>0, <1>2, <1>4, <2>2 DEF TickStates, Steps
      <3> QED
        BY <1>4, <1>5, <2>2, <3>1, <3>2 DEF IsNewAuction
    <2>3. CASE Stored # {} /\ ~IsNewAuction(j.auction)
      <3>1. r = ToBid(k)
        BY <1>0, <2>3
      <3>2. k.last \in Lasts /\ k.soon \in Caches
        BY <1>2, <1>4, <1>5, <2>3
      <3>3. /\ r \in TickStates /\ r.pc \in {"idle", "soon", "bid"}
            /\ r.pc = "soon" => k.soon < r.id
            /\ r.pc = "bid" => /\ r.last = k.last /\ r.soon = k.soon
                               /\ k.last.bid # Null /\ k.last.bid # k.bid
        BY <3>1, <3>2, ToBidIs
      <3> QED
        BY <1>5, <2>3, <3>3
    <2> QED
      BY <2>1, <2>2, <2>3
  <1>7. Fetching(r) => /\ r.last.id \in Stored /\ (r.last.bid # Null => bids[r.last.bid] # Null)
    BY <1>4, <1>5, <1>6 DEF Fetching
  <1>8. /\ tick' \in [Ticks -> TickStates] /\ StoreInv' /\ Found'
        /\ \A u \in Ticks : tick'[u] = IF u = t THEN r ELSE tick[u]
        /\ overlaps = 0 => /\ Alone' /\ setup.pc = "done" /\ Newer(j) /\ Older
                           /\ Newer(r)' => \A u \in Ticks : Newer(tick[u])'
    BY <1>0, <1>1, <1>2, <1>3, <1>6, <1>7, TickGoesOn DEF Found
  <1>9. AuctionTyped'
    BY <1>1, <1>2, <1>3, <1>8 DEF AuctionTyped
  <1>10. \A kind, x : Heard(kind, x)' = Heard(kind, x)
    BY <1>3 DEF Heard
  <1>11. \A b, c : Before(b, c)' = Before(b, c)
    BY <1>1, <1>2, StoreSame
  <1>12. ASSUME overlaps = 0 PROVE Newer(r)' /\ Older'
    <2>1. j.auction = auctionCache /\ j.bid = bidCache /\ j.soon = soonCache
      BY <1>1, <1>8, <1>12 DEF Newer
    <2>2. ASSUME r.pc \in {"auction", "bid"}, last.bid # Null, bidCache # Null
          PROVE  bidCache = last.bid \/ Before(bidCache, last.bid)
      <3>1. Stored # {} /\ last.bid = LastBid(Current)
        BY <1>4, <1>6, <2>2
      <3>2. bidCache \in Txs /\ bids[bidCache] # Null
        BY <1>2, <2>2 DEF Found, TxsOrNone
      <3> QED
        BY <1>2, <2>2, <3>1, <3>2, LastBidLast
    <2>3. Newer(r)'
      <3>1. \A b, c : b = bidCache /\ c = last.bid /\ r.pc \in {"auction", "bid"} /\ c # Null /\ b # Null
                => b = c \/ Before(b, c)'
        BY <1>11, <2>2
      <3> QED
        BY <1>3, <1>5, <1>6, <2>1, <3>1 DEF Newer
    <2>4. Older'
      BY <1>1, <1>3, <1>8, <1>10, <1>11, <1>12 DEF Older
    <2> QED
      BY <2>3, <2>4
  <1>13. overlaps = 0 /\ faults = 0 => AuctionAnnounced' /\ BidAnnounced'
    BY <1>0, <1>1, <1>2, <1>3, <1>8, AnnouncedStays DEF Orderly
  <1>14. Orderly'
    BY <1>1, <1>2, <1>3, <1>8, <1>12, <1>13 DEF Orderly
  <1> QED
    BY <1>8, <1>9, <1>14 DEF AuctionInv

\* What a step of a tick has to keep.
LEMMA StepKept ==
    ASSUME AuctionInv, NEW t \in Ticks, tick[t] # Idle, NEW k \in TickStates, Go(t, k),
           Fetching(k) => /\ k.last.id \in Stored
                          /\ k.last.bid # Null => bids[k.last.bid] # Null,
           UNCHANGED <<storeVars, setup, overlaps>>,
           auctionCache' \in Stored \cup {0}, soonCache' \in Caches, replyTweet' \in Threads,
           bidCache' \in TxsOrNone, bidCache' # Null => bids[bidCache'] # Null,
           told' \subseteq News, ~repeated', overlaps # 0 => told' = {}, faults' \in Nat,
           overlaps = 0 => Newer(k)' /\ Older',
           overlaps = 0 /\ faults' = 0 => AuctionAnnounced' /\ BidAnnounced'
    PROVE  AuctionInv'
  <1>1. /\ tick' \in [Ticks -> TickStates] /\ StoreInv' /\ Found'
        /\ overlaps = 0 => /\ Alone'
                           /\ Newer(k)' => \A u \in Ticks : Newer(tick[u])'
    BY TickGoesOn
  <1>2. auctionCache' \in Caches
    <2>1. Stored \subseteq AuctionIds
      BY DEF Stored
    <2> QED
      BY <2>1, AuctionsAssumption DEF AuctionIds, Caches
  <1>3. AuctionTyped'
    BY <1>1, <1>2 DEF AuctionInv, AuctionTyped
  <1>4. Orderly'
    BY <1>1 DEF Orderly
  <1> QED
    BY <1>1, <1>3, <1>4 DEF AuctionInv

\* What is known of a tick under way that is about to do something.
LEMMA TickKnown ==
    ASSUME AuctionInv, NEW t \in Ticks, NEW j, j = tick[t], j # Idle
    PROVE  /\ j \in TickStates /\ AuctionTyped /\ Found /\ Orderly /\ StoreInv
           /\ auctionCache \in Stored \cup {0} /\ auctionCache \in Nat
           /\ bidCache \in TxsOrNone /\ (bidCache # Null => bids[bidCache] # Null)
           /\ soonCache \in Caches /\ soonCache \in Nat /\ replyTweet \in Threads
           /\ told \subseteq News /\ ~repeated /\ (overlaps # 0 => told = {})
           /\ faults \in Nat /\ overlaps \in Nat
           /\ Fetching(j) => /\ j.last \in Lasts /\ j.last.id \in Stored
                             /\ j.last.id \in AuctionIds /\ j.last.bid \in TxsOrNone
                             /\ j.last.bid # Null => bids[j.last.bid] # Null
           /\ overlaps = 0 => setup.pc = "done" /\ Newer(j) /\ Older /\ Alone
  <1>1. /\ AuctionTyped /\ Found /\ Orderly /\ StoreInv /\ j \in TickStates
    BY DEF AuctionInv, AuctionTyped
  <1>2. auctionCache \in Nat /\ soonCache \in Nat
    BY <1>1, AuctionsAssumption DEF AuctionTyped, Caches
  <1>3. Fetching(j) => /\ j.last \in Lasts /\ j.last.id \in AuctionIds
                       /\ j.last.bid \in TxsOrNone /\ j.last.id \in Stored
                       /\ j.last.bid # Null => bids[j.last.bid] # Null
    BY <1>1, TickFields DEF Found
  <1>4. overlaps = 0 => setup.pc = "done" /\ Newer(j) /\ Older /\ Alone
    BY <1>1 DEF Orderly, Alone
  <1> QED
    BY <1>1, <1>2, <1>3, <1>4 DEF AuctionTyped, Found, Orderly

\* A tick reads what redis holds.
LEMMA ReadsKept ==
    ASSUME AuctionInv, NEW t \in Ticks, ReadBid(t) \/ ReadSoon(t)
    PROVE  AuctionInv'
  <1>0. PICK j, k :
            /\ j = tick[t]
            /\ k = IF j.pc = "readBid"
                   THEN [pc |-> "readSoon", auction |-> j.auction, bid |-> bidCache]
                   ELSE [pc |-> "fetch", auction |-> j.auction, bid |-> j.bid, soon |-> soonCache]
    OBVIOUS
  <1>1. /\ j.pc \in {"readBid", "readSoon"} /\ j # Idle /\ Go(t, k)
        /\ UNCHANGED <<storeVars, setup, redis, news, overlaps, faults>>
    BY <1>0 DEF ReadBid, ReadSoon, Idle
  <1>2. UNCHANGED <<auctionCache, bidCache, soonCache, replyTweet, told, repeated>>
    BY <1>1 DEF redis, news
  <1>3. /\ j \in TickStates /\ AuctionTyped /\ Found /\ Orderly /\ StoreInv
        /\ auctionCache \in Stored \cup {0}
        /\ bidCache \in TxsOrNone /\ (bidCache # Null => bids[bidCache] # Null)
        /\ soonCache \in Caches /\ replyTweet \in Threads
        /\ told \subseteq News /\ ~repeated /\ (overlaps # 0 => told = {})
        /\ faults \in Nat
        /\ overlaps = 0 => setup.pc = "done" /\ Newer(j) /\ Older /\ Alone
    BY <1>0, <1>1, TickKnown
  <1>4. /\ k \in TickStates /\ ~Fetching(k) /\ k.auction = j.auction
        /\ k.pc = IF j.pc = "readBid" THEN "readSoon" ELSE "fetch"
        /\ k.bid = IF j.pc = "readBid" THEN bidCache ELSE j.bid
        /\ k.pc = "fetch" => k.soon = soonCache
    <2>1. j.auction \in Caches /\ (j.pc = "readSoon" => j.bid \in TxsOrNone)
      BY <1>1, <1>3, TickFields
    <2> QED
      BY <1>0, <1>1, <1>3, <2>1 DEF TickStates, Steps, Fetching
  <1>5. /\ \A kind, x : Heard(kind, x)' = Heard(kind, x)
        /\ \A b, c : Before(b, c)' = Before(b, c)
    BY <1>1, <1>2, <1>3, StoreSame DEF Heard
  <1>6. overlaps = 0 => Newer(k)'
    BY <1>1, <1>2, <1>3, <1>4 DEF Newer
  <1>7. overlaps = 0 => Older'
    BY <1>1, <1>2, <1>3, <1>5 DEF Older
  <1>8. overlaps = 0 /\ faults' = 0 => AuctionAnnounced' /\ BidAnnounced'
    <2>1. \A u \in Ticks : tick'[u] = IF u = t THEN k ELSE tick[u]
      BY <1>0, <1>1, <1>3 DEF Go, AuctionTyped
    <2>2. tick[t].pc # "tellAuction" /\ tick[t].pc # "tellBid"
      BY <1>0, <1>1
    <2>3. /\ AuctionAnnounced => AuctionAnnounced'
          /\ BidAnnounced => BidAnnounced'
      BY <1>1, <1>2, <2>1, <2>2, AnnouncedStays
    <2> QED
      BY <1>1, <1>3, <2>3 DEF Orderly
  <1> QED
    BY <1>0, <1>1, <1>2, <1>3, <1>4, <1>6, <1>7, <1>8, StepKept

LEMMA NewAuctionKept ==
    ASSUME AuctionInv, NEW t \in Ticks, NewAuction(t)
    PROVE  AuctionInv'
  <1>0. PICK j, k : j = tick[t] /\ k = [j EXCEPT !.pc = "tellAuction"]
    OBVIOUS
  <1>1. /\ j.pc = "auction" /\ Go(t, k) /\ auctionCache' = j.last.id
        /\ UNCHANGED <<storeVars, setup, bidCache, soonCache, replyTweet, told, repeated,
                       overlaps, faults>>
    BY <1>0 DEF NewAuction, AuctionCacheAfter, news
  <1>2. j # Idle
    BY <1>1 DEF Idle
  <1>3. Fetching(j)
    BY <1>1 DEF Fetching
  <1>4. /\ k \in TickStates /\ k.pc = "tellAuction" /\ k.bid = j.bid /\ k.soon = j.soon
        /\ k.last = j.last
    <2>1. j \in [pc : {"auction", "tellAuction"}, bid : TxsOrNone, soon : Caches, last : Lasts]
      BY <1>0, <1>1, <1>2, TickKnown DEF TickStates, Steps, Idle
    <2> QED
      BY <1>0, <2>1 DEF TickStates, Steps
  <1>5. /\ \A kind, x : Heard(kind, x)' = Heard(kind, x)
        /\ \A b, c : Before(b, c)' = Before(b, c)
    BY <1>1, StoreSame DEF Heard, AuctionInv
  <1>6. ASSUME overlaps = 0 PROVE Newer(k)' /\ Older'
    <2>1. Newer(j) /\ Older /\ setup.pc = "done" /\ auctionCache \in Nat /\ j.last.id \in Nat
      BY <1>0, <1>2, <1>3, <1>6, TickKnown DEF AuctionIds
    <2>2. \A i \in AuctionIds : Heard("auction", i) => i < j.last.id
      BY <1>1, <2>1 DEF Newer, Older, AuctionIds
    <2>3. Newer(k)'
      BY <1>1, <1>4, <1>5, <2>1, <2>2 DEF Newer
    <2>4. Older'
      BY <1>1, <1>5, <2>1, <2>2 DEF Older, AuctionIds
    <2> QED
      BY <2>3, <2>4
  <1>7. ASSUME overlaps = 0, faults' = 0 PROVE AuctionAnnounced' /\ BidAnnounced'
    <2>1. \A u \in Ticks : tick'[u] = IF u = t THEN k ELSE tick[u]
      BY <1>1 DEF Go, AuctionInv, AuctionTyped
    <2>2. BidAnnounced
      BY <1>1, <1>7 DEF AuctionInv, Orderly
    <2> QED
      BY <1>0, <1>1, <1>4, <2>1, <2>2, AnnouncedStays DEF AuctionAnnounced
  <1>8. /\ k.last.id \in Stored /\ (k.last.bid # Null => bids[k.last.bid] # Null)
        /\ auctionCache' \in Stored \cup {0} /\ soonCache' \in Caches /\ replyTweet' \in Threads
        /\ bidCache' \in TxsOrNone /\ (bidCache' # Null => bids[bidCache'] # Null)
        /\ told' \subseteq News /\ ~repeated' /\ (overlaps # 0 => told' = {}) /\ faults' \in Nat
    BY <1>0, <1>1, <1>2, <1>3, <1>4, TickKnown
  <1> QED
    BY <1>0, <1>1, <1>2, <1>4, <1>6, <1>7, <1>8, StepKept

LEMMA TellNewAuctionKept ==
    ASSUME AuctionInv, NEW t \in Ticks, NEW drawn \in SUBSET Channels, TellNewAuction(t, drawn)
    PROVE  AuctionInv'
  <1>0. PICK j, k, id : j = tick[t] /\ k = ToBid(j) /\ id = j.last.id
    OBVIOUS
  <1>1. /\ j.pc = "tellAuction" /\ Go(t, k) /\ Tell(<<"auction", id>>, drawn)
        /\ replyTweet' = ThreadAfter(id, drawn)
        /\ faults' = IF drawn = Channels THEN faults ELSE faults + 1
        /\ UNCHANGED <<storeVars, setup, auctionCache, bidCache, soonCache, overlaps>>
    BY <1>0 DEF TellNewAuction
  <1>2. j # Idle /\ Fetching(j)
    BY <1>1 DEF Idle, Fetching
  <1>3. /\ j \in TickStates /\ j.last \in Lasts /\ id \in AuctionIds /\ j.soon \in Caches
        /\ j.bid \in TxsOrNone /\ id \in Nat
    BY <1>0, <1>1, <1>2, TickKnown, TickFields DEF AuctionIds
  <1>4. /\ k \in TickStates /\ k.pc \in {"idle", "soon", "bid"}
        /\ k.pc = "soon" => j.soon < k.id
        /\ k.pc = "bid" => /\ k.last = j.last /\ k.soon = j.soon
                           /\ j.last.bid # Null /\ j.last.bid # j.bid
    BY <1>0, <1>3, ToBidIs
  <1>5. overlaps = 0 => ~Heard("auction", id)
    BY <1>0, <1>1, <1>2, <1>3, TickKnown DEF Newer
  <1>6. /\ told \subseteq told' /\ told' \subseteq News /\ ~repeated'
        /\ overlaps # 0 => told' = {}
        /\ overlaps = 0 =>
               /\ \A c \in drawn : <<<<"auction", id>>, c>> \in told'
               /\ \A what, y : Heard(what, y)' => Heard(what, y) \/ (what = "auction" /\ y = id)
    <2>1. <<"auction", id>> \in ({"auction", "soon"} \X AuctionIds) \cup ({"bid"} \X Txs)
      BY <1>3
    <2> QED
      BY <1>1, <1>5, <2>1, Tells
  <1>7. \A b, c : Before(b, c)' = Before(b, c)
    BY <1>1, StoreSame DEF AuctionInv
  <1>8. ASSUME overlaps = 0 PROVE Newer(k)' /\ Older'
    <2>1. Newer(j) /\ Older /\ setup.pc = "done"
      BY <1>0, <1>2, <1>8, TickKnown
    <2>2. auctionCache = id /\ j.bid = bidCache /\ j.soon = soonCache
      BY <1>0, <1>1, <2>1 DEF Newer
    <2>3. Newer(k)'
      BY <1>1, <1>4, <1>7, <2>1, <2>2 DEF Newer
    <2>4. Older'
      BY <1>1, <1>3, <1>6, <1>7, <1>8, <2>1, <2>2 DEF Older
    <2> QED
      BY <2>3, <2>4
  <1>9. ASSUME overlaps = 0, faults' = 0 PROVE AuctionAnnounced' /\ BidAnnounced'
    <2>1. \A u \in Ticks : tick'[u] = IF u = t THEN k ELSE tick[u]
      BY <1>1 DEF Go, AuctionInv, AuctionTyped
    <2>2. drawn = Channels /\ faults = 0
      BY <1>0, <1>1, <1>2, <1>9, TickKnown
    <2>3. BidAnnounced /\ auctionCache = id
      BY <1>0, <1>1, <1>2, <1>9, <2>2, TickKnown DEF Orderly, Newer
    <2>4. AllTold("auction", auctionCache, Channels)'
      BY <1>1, <1>6, <1>9, <2>2, <2>3 DEF AllTold, Channels
    <2> QED
      BY <1>0, <1>1, <1>6, <2>1, <2>3, <2>4, AnnouncedStays DEF AuctionAnnounced
  <1>10. Fetching(k) => k.last = j.last
    BY <1>4 DEF Fetching
  <1>11. replyTweet' \in Threads /\ faults' \in Nat
    BY <1>0, <1>1, <1>2, <1>3, TickKnown DEF ThreadAfter, Threads
  <1> QED
    BY <1>0, <1>1, <1>2, <1>4, <1>6, <1>8, <1>9, <1>10, <1>11, StepKept, TickKnown

LEMMA NewBidKept ==
    ASSUME AuctionInv, NEW t \in Ticks, NewBid(t)
    PROVE  AuctionInv'
  <1>0. PICK j, k, bid : j = tick[t] /\ k = [j EXCEPT !.pc = "tellBid"] /\ bid = j.last.bid
    OBVIOUS
  <1>1. /\ j.pc = "bid" /\ Go(t, k) /\ bidCache' = bid
        /\ UNCHANGED <<storeVars, setup, auctionCache, soonCache, replyTweet, told, repeated,
                       overlaps, faults>>
    BY <1>0 DEF NewBid, news
  <1>2. j # Idle /\ Fetching(j)
    BY <1>1 DEF Idle, Fetching
  <1>3. /\ k \in TickStates /\ k.pc = "tellBid" /\ k.soon = j.soon /\ k.last = j.last
    <2>1. j \in [pc : {"bid", "tellBid"}, soon : Caches, last : Lasts]
      BY <1>0, <1>1, <1>2, TickKnown DEF TickStates, Steps, Idle
    <2> QED
      BY <1>0, <2>1 DEF TickStates, Steps
  <1>4. /\ \A kind, x : Heard(kind, x)' = Heard(kind, x)
        /\ \A b, c : Before(b, c)' = Before(b, c)
    BY <1>1, StoreSame DEF Heard, AuctionInv
  <1>5. ASSUME overlaps = 0 PROVE Newer(k)' /\ Older'
    <2>1. Newer(j) /\ Older /\ setup.pc = "done" /\ bidCache \in TxsOrNone /\ bid \in TxsOrNone
      BY <1>0, <1>2, <1>5, TickKnown
    <2>2. /\ bid # Null /\ bid # bidCache /\ bid \in Txs /\ j.soon = soonCache
          /\ bidCache # Null => Before(bidCache, bid) /\ bidCache \in Txs
      BY <1>0, <1>1, <2>1 DEF Newer, TxsOrNone
    <2>3. \A x \in Txs : Heard("bid", x) => Before(x, bid)
      <3>1. \A x \in Txs : Heard("bid", x) => bidCache # Null /\ (x = bidCache \/ Before(x, bidCache))
        BY <2>1 DEF Older
      <3>2. \A x, u, v \in Txs : Before(x, u) /\ Before(u, v) => Before(x, v)
        BY BeforeOrders DEF AuctionInv
      <3> QED
        BY <2>2, <3>1, <3>2
    <2>4. Newer(k)'
      BY <1>0, <1>1, <1>3, <1>4, <2>2, <2>3 DEF Newer
    <2>5. Older'
      BY <1>1, <1>4, <2>1, <2>2, <2>3 DEF Older
    <2> QED
      BY <2>4, <2>5
  <1>6. ASSUME overlaps = 0, faults' = 0 PROVE AuctionAnnounced' /\ BidAnnounced'
    <2>1. \A u \in Ticks : tick'[u] = IF u = t THEN k ELSE tick[u]
      BY <1>1 DEF Go, AuctionInv, AuctionTyped
    <2>2. AuctionAnnounced /\ setup.pc = "done"
      BY <1>0, <1>1, <1>2, <1>6, TickKnown DEF Orderly
    <2> QED
      BY <1>0, <1>1, <1>3, <2>1, <2>2, AnnouncedStays DEF BidAnnounced
  <1>7. /\ k.last.id \in Stored /\ (k.last.bid # Null => bids[k.last.bid] # Null)
        /\ auctionCache' \in Stored \cup {0} /\ soonCache' \in Caches /\ replyTweet' \in Threads
        /\ bidCache' \in TxsOrNone /\ (bidCache' # Null => bids[bidCache'] # Null)
        /\ told' \subseteq News /\ ~repeated' /\ (overlaps # 0 => told' = {}) /\ faults' \in Nat
    BY <1>0, <1>1, <1>2, <1>3, TickKnown
  <1> QED
    BY <1>0, <1>1, <1>2, <1>3, <1>5, <1>6, <1>7, StepKept

\* Whom a bid, or an auction that ends soon, is told to.
LEMMA Audiences ==
    \A thread : /\ Repliers(thread) \in SUBSET Channels
                /\ BidAudience(thread) \in SUBSET Channels /\ "discord" \in BidAudience(thread)
  BY DEF Repliers, BidAudience, Channels

LEMMA TellNewBidKept ==
    ASSUME AuctionInv, NEW t \in Ticks, TellNewBid(t)
    PROVE  AuctionInv'
  <1>0. PICK j, bid, channels, k :
            /\ j = tick[t] /\ bid = j.last.bid /\ channels = BidAudience(replyTweet)
            /\ k = [pc |-> "repliedBid", soon |-> j.soon, last |-> j.last,
                    thread |-> replyTweet]
    OBVIOUS
  <1>1. /\ j.pc = "tellBid" /\ Go(t, k) /\ Tell(<<"bid", bid>>, channels)
        /\ UNCHANGED <<storeVars, setup, auctionCache, bidCache, soonCache, replyTweet,
                       overlaps, faults>>
    BY <1>0 DEF TellNewBid, redis
  <1>2. j # Idle /\ Fetching(j)
    BY <1>1 DEF Idle, Fetching
  <1>3. /\ j \in TickStates /\ j.last \in Lasts /\ j.soon \in Caches /\ bid \in TxsOrNone
        /\ replyTweet \in Threads
    BY <1>0, <1>1, <1>2, TickKnown, TickFields
  <1>4. k \in TickStates /\ k.pc = "repliedBid" /\ k.last = j.last /\ k.soon = j.soon
    BY <1>0, <1>3 DEF TickStates, Steps
  <1>5. overlaps = 0 => /\ Newer(j) /\ Older /\ bid = bidCache /\ bid # Null /\ bid \in Txs
                        /\ ~Heard("bid", bid) /\ j.soon = soonCache /\ setup.pc = "done"
    <2> SUFFICES ASSUME overlaps = 0
                 PROVE  /\ Newer(j) /\ Older /\ bid = bidCache /\ bid # Null /\ bid \in Txs
                        /\ ~Heard("bid", bid) /\ j.soon = soonCache /\ setup.pc = "done"
      OBVIOUS
    <2>1. Newer(j) /\ Older /\ setup.pc = "done"
      BY <1>0, <1>2, TickKnown
    <2>2. /\ bid = bidCache /\ bid # Null /\ bid \in Txs /\ j.soon = soonCache
          /\ \A x \in Txs : Heard("bid", x) => Before(x, bid)
      BY <1>0, <1>1, <1>3, <2>1 DEF Newer, TxsOrNone
    <2>3. ~Before(bid, bid)
      BY <2>2, BeforeOrders DEF AuctionInv
    <2> QED
      BY <2>1, <2>2, <2>3
  <1>6. /\ told \subseteq told' /\ told' \subseteq News /\ ~repeated'
        /\ overlaps # 0 => told' = {}
        /\ overlaps = 0 =>
               /\ \A c \in channels : <<<<"bid", bid>>, c>> \in told'
               /\ \A what, y : Heard(what, y)' => Heard(what, y) \/ (what = "bid" /\ y = bid)
    <2>1. channels \in SUBSET Channels
      BY <1>0, Audiences
    <2>2. CASE overlaps = 0
      <3>1. <<"bid", bid>> \in ({"auction", "soon"} \X AuctionIds) \cup ({"bid"} \X Txs)
        BY <1>5, <2>2
      <3> QED
        BY <1>1, <1>5, <2>1, <3>1, Tells
    <2>3. CASE overlaps # 0
      <3>1. told' = told /\ repeated' = repeated
        <4>1. overlaps > 0
          BY <2>3 DEF AuctionInv, AuctionTyped
        <4> QED
          BY <1>1, <4>1 DEF Tell, news
      <3> QED
        BY <1>0, <1>2, <2>3, <3>1, TickKnown
    <2> QED
      BY <2>2, <2>3
  <1>7. \A b, c : Before(b, c)' = Before(b, c)
    BY <1>1, StoreSame DEF AuctionInv
  <1>8. ASSUME overlaps = 0 PROVE Newer(k)' /\ Older'
    <2>1. Newer(k)'
      BY <1>1, <1>4, <1>5, <1>8 DEF Newer
    <2>2. Older'
      BY <1>1, <1>5, <1>6, <1>7, <1>8 DEF Older
    <2> QED
      BY <2>1, <2>2
  <1>9. ASSUME overlaps = 0, faults' = 0 PROVE AuctionAnnounced' /\ BidAnnounced'
    <2>1. \A u \in Ticks : tick'[u] = IF u = t THEN k ELSE tick[u]
      BY <1>1 DEF Go, AuctionInv, AuctionTyped
    <2>2. AuctionAnnounced
      BY <1>1, <1>9 DEF AuctionInv, Orderly
    <2>3. "discord" \in channels
      BY <1>0, Audiences
    <2>4. AllTold("bid", bidCache, {"discord"})'
      BY <1>1, <1>5, <1>6, <1>9, <2>3 DEF AllTold
    <2> QED
      BY <1>0, <1>1, <1>5, <1>6, <1>9, <2>1, <2>2, <2>4, AnnouncedStays DEF BidAnnounced
  <1>10. /\ k.last.id \in Stored /\ (k.last.bid # Null => bids[k.last.bid] # Null)
         /\ auctionCache' \in Stored \cup {0} /\ soonCache' \in Caches /\ replyTweet' \in Threads
         /\ bidCache' \in TxsOrNone /\ (bidCache' # Null => bids[bidCache'] # Null)
         /\ faults' \in Nat
    BY <1>0, <1>1, <1>2, <1>4, TickKnown
  <1> QED
    BY <1>0, <1>1, <1>2, <1>4, <1>6, <1>8, <1>9, <1>10, StepKept

\* A step that stores nothing but the thread, and tells nothing.
LEMMA QuietStep ==
    ASSUME AuctionInv, NEW t \in Ticks, NEW j, j = tick[t], j # Idle,
           j.pc \notin {"tellAuction", "tellBid"}, NEW k \in TickStates, Go(t, k),
           k.pc \in {"idle", "soon"}, k.pc = "soon" /\ overlaps = 0 => soonCache < k.id,
           replyTweet' \in Threads,
           UNCHANGED <<storeVars, setup, auctionCache, bidCache, soonCache, told, repeated,
                       overlaps, faults>>
    PROVE  AuctionInv'
  <1>1. /\ \A kind, x : Heard(kind, x)' = Heard(kind, x)
        /\ \A b, c : Before(b, c)' = Before(b, c)
    BY StoreSame DEF Heard, AuctionInv
  <1>2. ASSUME overlaps = 0 PROVE Newer(k)' /\ Older'
    <2>1. Older
      BY <1>2, TickKnown
    <2>2. Older'
      BY <1>1, <2>1 DEF Older
    <2> QED
      BY <1>2, <2>2 DEF Newer
  <1>3. ASSUME overlaps = 0, faults' = 0 PROVE AuctionAnnounced' /\ BidAnnounced'
    <2>1. \A u \in Ticks : tick'[u] = IF u = t THEN k ELSE tick[u]
      BY DEF Go, AuctionInv, AuctionTyped
    <2>2. AuctionAnnounced /\ BidAnnounced
      BY <1>3 DEF AuctionInv, Orderly
    <2> QED
      BY <2>1, <2>2, AnnouncedStays
  <1>4. /\ ~Fetching(k)
        /\ auctionCache' \in Stored \cup {0} /\ soonCache' \in Caches
        /\ bidCache' \in TxsOrNone /\ (bidCache' # Null => bids[bidCache'] # Null)
        /\ told' \subseteq News /\ ~repeated' /\ (overlaps # 0 => told' = {}) /\ faults' \in Nat
    BY TickKnown DEF Fetching
  <1> QED
    BY <1>2, <1>3, <1>4, StepKept

LEMMA StoreRepliesKept ==
    ASSUME AuctionInv, NEW t \in Ticks, StoreBidReply(t) \/ StoreSoonReply(t)
    PROVE  AuctionInv'
  <1>0. PICK j : j = tick[t]
    OBVIOUS
  <1>1. j.pc \in {"repliedBid", "repliedSoon"} /\ j # Idle /\ replyTweet' \in Threads
    <2>1. j.pc \in {"repliedBid", "repliedSoon"} /\ replyTweet' = Replied(t)
      BY <1>0 DEF StoreBidReply, StoreSoonReply
    <2>2. j # Idle
      BY <2>1 DEF Idle
    <2> QED
      BY <1>0, <2>1, <2>2, TickKnown, TickFields DEF Replied
  <1>2. UNCHANGED <<storeVars, setup, auctionCache, bidCache, soonCache, told, repeated,
                    overlaps, faults>>
    BY DEF StoreBidReply, StoreSoonReply, news
  <1>3. CASE StoreBidReply(t)
    <2>0. PICK k : k = ToSoon(j)
      OBVIOUS
    <2>1. j.pc = "repliedBid" /\ Go(t, k)
      BY <1>0, <1>3, <2>0 DEF StoreBidReply
    <2>2. j.last \in Lasts /\ j.soon \in Caches
      BY <1>0, <1>1, <2>1, TickKnown, TickFields DEF Fetching
    <2>3. k \in TickStates /\ k.pc \in {"idle", "soon"} /\ (k.pc = "soon" => j.soon < k.id)
      BY <2>0, <2>2, ToSoonIs
    <2>4. overlaps = 0 => j.soon = soonCache
      BY <1>0, <1>1, <2>1, TickKnown DEF Newer
    <2> QED
      BY <1>0, <1>1, <1>2, <2>1, <2>3, <2>4, QuietStep
  <1>4. CASE StoreSoonReply(t)
    <2>1. Go(t, Idle) /\ Idle \in TickStates /\ Idle.pc = "idle"
      BY <1>4 DEF StoreSoonReply, TickStates, Idle
    <2> QED
      BY <1>0, <1>1, <1>2, <2>1, QuietStep
  <1> QED
    BY <1>3, <1>4

LEMMA EndingSoonKept ==
    ASSUME AuctionInv, NEW t \in Ticks, EndingSoon(t)
    PROVE  AuctionInv'
  <1>0. PICK j, k : j = tick[t] /\ k = [j EXCEPT !.pc = "tellSoon"]
    OBVIOUS
  <1>1. /\ j.pc = "soon" /\ Go(t, k) /\ soonCache' = j.id
        /\ UNCHANGED <<storeVars, setup, auctionCache, bidCache, replyTweet, told, repeated,
                       overlaps, faults>>
    BY <1>0 DEF EndingSoon, news
  <1>2. j # Idle
    BY <1>1 DEF Idle
  <1>3. /\ k \in TickStates /\ k.pc = "tellSoon" /\ k.id = j.id /\ j.id \in AuctionIds
        /\ j.id \in Caches /\ j.id \in Nat /\ AuctionIds \subseteq Nat
    <2>1. j \in [pc : {"soon", "tellSoon"}, id : AuctionIds]
      BY <1>0, <1>1, <1>2, TickKnown DEF TickStates, Steps, Idle
    <2> QED
      BY <1>0, <2>1 DEF TickStates, Steps, AuctionIds, Caches
  <1>4. /\ \A kind, x : Heard(kind, x)' = Heard(kind, x)
        /\ \A b, c : Before(b, c)' = Before(b, c)
    BY <1>1, StoreSame DEF Heard, AuctionInv
  <1>5. ASSUME overlaps = 0 PROVE Newer(k)' /\ Older'
    <2>1. Newer(j) /\ Older /\ setup.pc = "done" /\ soonCache \in Nat
      BY <1>0, <1>2, <1>5, TickKnown
    <2>2. \A i \in AuctionIds : Heard("soon", i) => i < j.id
      BY <1>1, <1>3, <2>1 DEF Newer, Older
    <2>3. Newer(k)'
      BY <1>1, <1>3, <1>4, <2>2 DEF Newer
    <2>4. Older'
      BY <1>1, <1>3, <1>4, <2>1, <2>2 DEF Older
    <2> QED
      BY <2>3, <2>4
  <1>6. ASSUME overlaps = 0, faults' = 0 PROVE AuctionAnnounced' /\ BidAnnounced'
    <2>1. \A u \in Ticks : tick'[u] = IF u = t THEN k ELSE tick[u]
      BY <1>1 DEF Go, AuctionInv, AuctionTyped
    <2>2. AuctionAnnounced /\ BidAnnounced
      BY <1>1, <1>6 DEF AuctionInv, Orderly
    <2> QED
      BY <1>0, <1>1, <2>1, <2>2, AnnouncedStays
  <1>7. /\ ~Fetching(k)
        /\ auctionCache' \in Stored \cup {0} /\ soonCache' \in Caches /\ replyTweet' \in Threads
        /\ bidCache' \in TxsOrNone /\ (bidCache' # Null => bids[bidCache'] # Null)
        /\ told' \subseteq News /\ ~repeated' /\ (overlaps # 0 => told' = {}) /\ faults' \in Nat
    BY <1>0, <1>1, <1>2, <1>3, TickKnown DEF Fetching
  <1> QED
    BY <1>0, <1>1, <1>2, <1>3, <1>5, <1>6, <1>7, StepKept

LEMMA TellEndingSoonKept ==
    ASSUME AuctionInv, NEW t \in Ticks, TellEndingSoon(t)
    PROVE  AuctionInv'
  <1>0. PICK j, id, channels, k :
            /\ j = tick[t] /\ id = j.id /\ channels = Repliers(replyTweet)
            /\ k = [pc |-> "repliedSoon", thread |-> replyTweet]
    OBVIOUS
  <1>1. /\ j.pc = "tellSoon" /\ Go(t, k) /\ Tell(<<"soon", id>>, channels)
        /\ UNCHANGED <<storeVars, setup, auctionCache, bidCache, soonCache, replyTweet,
                       overlaps, faults>>
    BY <1>0 DEF TellEndingSoon, redis
  <1>2. j # Idle
    BY <1>1 DEF Idle
  <1>3. j \in TickStates /\ id \in AuctionIds /\ id \in Nat /\ replyTweet \in Threads
    BY <1>0, <1>1, <1>2, TickKnown, TickFields DEF AuctionIds
  <1>4. k \in TickStates /\ k.pc = "repliedSoon"
    BY <1>0, <1>3 DEF TickStates, Steps
  <1>5. overlaps = 0 => /\ Older /\ id = soonCache /\ ~Heard("soon", id)
    BY <1>0, <1>1, <1>2, <1>3, TickKnown DEF Newer
  <1>6. /\ told \subseteq told' /\ told' \subseteq News /\ ~repeated'
        /\ overlaps # 0 => told' = {}
        /\ overlaps = 0 =>
               \A what, y : Heard(what, y)' => Heard(what, y) \/ (what = "soon" /\ y = id)
    <2>1. channels \in SUBSET Channels
      BY <1>0, Audiences
    <2>2. <<"soon", id>> \in ({"auction", "soon"} \X AuctionIds) \cup ({"bid"} \X Txs)
      BY <1>3
    <2> QED
      BY <1>1, <1>5, <2>1, <2>2, Tells
  <1>7. \A b, c : Before(b, c)' = Before(b, c)
    BY <1>1, StoreSame DEF AuctionInv
  <1>8. ASSUME overlaps = 0 PROVE Newer(k)' /\ Older'
    <2>1. Newer(k)'
      BY <1>4 DEF Newer
    <2>2. Older'
      BY <1>1, <1>3, <1>5, <1>6, <1>7, <1>8 DEF Older
    <2> QED
      BY <2>1, <2>2
  <1>9. ASSUME overlaps = 0, faults' = 0 PROVE AuctionAnnounced' /\ BidAnnounced'
    <2>1. \A u \in Ticks : tick'[u] = IF u = t THEN k ELSE tick[u]
      BY <1>1 DEF Go, AuctionInv, AuctionTyped
    <2>2. AuctionAnnounced /\ BidAnnounced
      BY <1>1, <1>9 DEF AuctionInv, Orderly
    <2> QED
      BY <1>0, <1>1, <1>6, <2>1, <2>2, AnnouncedStays
  <1>10. /\ ~Fetching(k)
         /\ auctionCache' \in Stored \cup {0} /\ soonCache' \in Caches /\ replyTweet' \in Threads
         /\ bidCache' \in TxsOrNone /\ (bidCache' # Null => bids[bidCache'] # Null)
         /\ faults' \in Nat
    BY <1>0, <1>1, <1>2, <1>4, TickKnown DEF Fetching
  <1> QED
    BY <1>0, <1>1, <1>2, <1>4, <1>6, <1>8, <1>9, <1>10, StepKept

\* A call fails: of what was being told, some may have got through.
LEMMA FailKept ==
    ASSUME AuctionInv, NEW t \in Ticks, Fail(t)
    PROVE  AuctionInv'
  <1>0. PICK j : j = tick[t]
    OBVIOUS
  <1>1. /\ j # Idle /\ faults' = faults + 1 /\ Go(t, Idle)
        /\ UNCHANGED <<storeVars, setup, auctionCache, bidCache, soonCache, replyTweet, overlaps>>
        /\ \/ UNCHANGED <<told, repeated>>
           \/ \E through \in SUBSET Audience(j) : Tell(Subject(j), through)
    BY <1>0 DEF Fail, Go, redis, news
  <1>2. Idle \in TickStates /\ Idle.pc = "idle" /\ faults' \in Nat /\ faults' # 0
    BY <1>0, <1>1, TickKnown DEF TickStates, Idle
  <1>3. \A b, c : Before(b, c)' = Before(b, c)
    BY <1>1, StoreSame DEF AuctionInv
  <1>4. ASSUME overlaps = 0 PROVE Newer(Idle)' /\ Older /\ setup.pc = "done" /\ Newer(j)
    <2>1. Newer(Idle)'
      BY DEF Newer, Idle
    <2> QED
      BY <1>0, <1>1, <1>4, <2>1, TickKnown
  <1>5. /\ ~Fetching(Idle)
        /\ auctionCache' \in Stored \cup {0} /\ soonCache' \in Caches /\ replyTweet' \in Threads
        /\ bidCache' \in TxsOrNone /\ (bidCache' # Null => bids[bidCache'] # Null)
    BY <1>0, <1>1, <1>2, TickKnown DEF Fetching
  <1>6. SUFFICES /\ told' \subseteq News /\ ~repeated' /\ (overlaps # 0 => told' = {})
                 /\ overlaps = 0 => Older'
    BY <1>0, <1>1, <1>2, <1>4, <1>5, StepKept
  <1>7. CASE UNCHANGED <<told, repeated>>
    <2>1. \A kind, x : Heard(kind, x)' = Heard(kind, x)
      BY <1>7 DEF Heard
    <2>2. overlaps = 0 => Older'
      BY <1>1, <1>3, <1>4, <2>1 DEF Older
    <2> QED
      BY <1>0, <1>1, <1>7, <2>2, TickKnown
  <1>8. ASSUME NEW through \in SUBSET Audience(j), Tell(Subject(j), through), overlaps # 0
        PROVE  UNCHANGED <<told, repeated>>
    <2>1. overlaps > 0
      BY <1>8 DEF AuctionInv, AuctionTyped
    <2> QED
      BY <1>8, <2>1 DEF Tell, news
  <1>9. ASSUME NEW through \in SUBSET Audience(j), Tell(Subject(j), through), overlaps = 0,
               through # {}
        PROVE  told' \subseteq News /\ ~repeated' /\ Older'
    <2>0. Newer(j) /\ Older /\ setup.pc = "done"
      BY <1>4, <1>9
    <2>1. j.pc \in {"tellAuction", "tellBid", "tellSoon"} /\ through \in SUBSET Channels
      BY <1>9, Audiences DEF Audience
    <2>2. PICK kind, x : /\ <<kind, x>> = Subject(j) /\ ~Heard(kind, x)
                         /\ <<kind, x>> \in ({"auction", "soon"} \X AuctionIds) \cup ({"bid"} \X Txs)
                         /\ kind = "auction" => x = auctionCache
                         /\ kind = "bid" => x = bidCache /\ bidCache # Null
                         /\ kind = "soon" => x = soonCache
      <3>1. CASE j.pc = "tellAuction"
        <4>1. Subject(j) = <<"auction", j.last.id>>
          BY <3>1 DEF Subject
        <4>2. j.last.id \in AuctionIds /\ j.last.id \in Nat
          BY <1>0, <1>1, <3>1, TickKnown DEF Fetching, AuctionIds
        <4>3. j.last.id = auctionCache /\ ~Heard("auction", j.last.id)
          BY <2>0, <3>1, <4>2 DEF Newer
        <4> QED
          BY <4>1, <4>2, <4>3
      <3>2. CASE j.pc = "tellBid"
        <4>1. Subject(j) = <<"bid", j.last.bid>>
          BY <3>2 DEF Subject
        <4>2. j.last.bid \in TxsOrNone
          BY <1>0, <1>1, <3>2, TickKnown DEF Fetching
        <4>3. j.last.bid = bidCache /\ bidCache # Null /\ bidCache \in Txs
          BY <2>0, <3>2, <4>2 DEF Newer, TxsOrNone
        <4>4. ~Heard("bid", bidCache)
          BY <2>0, <3>2, <4>3, BeforeOrders DEF Newer, AuctionInv
        <4> QED
          BY <4>1, <4>3, <4>4
      <3>3. CASE j.pc = "tellSoon"
        <4>1. Subject(j) = <<"soon", j.id>>
          BY <3>3 DEF Subject
        <4>2. j.id \in AuctionIds /\ j.id \in Nat
          BY <1>0, <1>1, <3>3, TickKnown, TickFields DEF AuctionIds
        <4>3. j.id = soonCache /\ ~Heard("soon", j.id)
          BY <2>0, <3>3, <4>2 DEF Newer
        <4> QED
          BY <4>1, <4>2, <4>3
      <3> QED
        BY <2>1, <3>1, <3>2, <3>3
    <2>3. /\ told' \subseteq News /\ ~repeated'
          /\ \A what, y : Heard(what, y)' => Heard(what, y) \/ (what = kind /\ y = x)
      BY <1>9, <2>1, <2>2, Tells
    <2>4. auctionCache \in Nat /\ soonCache \in Nat /\ AuctionIds \subseteq Nat
      BY <1>0, <1>1, TickKnown DEF AuctionIds
    <2>5. Older'
      BY <1>1, <1>3, <2>0, <2>2, <2>3, <2>4 DEF Older
    <2> QED
      BY <2>3, <2>5
  <1>10. ASSUME Tell(Subject(j), {}), overlaps = 0 PROVE UNCHANGED told /\ ~repeated'
    <2>1. ~(overlaps > 0) /\ ~repeated
      BY <1>0, <1>1, <1>10, TickKnown
    <2>2. /\ told' = told \cup {<<Subject(j), c>> : c \in {}}
          /\ repeated' = (repeated \/ told \cap {<<Subject(j), c>> : c \in {}} # {})
      BY <1>10, <2>1 DEF Tell
    <2>3. {<<Subject(j), c>> : c \in {}} = {}
      OBVIOUS
    <2> QED
      BY <2>1, <2>2, <2>3
  <1>11. ASSUME UNCHANGED told, ~repeated', overlaps = 0 PROVE told' \subseteq News /\ Older'
    <2>1. \A kind, x : Heard(kind, x)' = Heard(kind, x)
      BY <1>11 DEF Heard
    <2> QED
      BY <1>0, <1>1, <1>3, <1>4, <1>11, <2>1, TickKnown DEF Older
  <1> QED
    BY <1>1, <1>7, <1>8, <1>9, <1>10, <1>11

\* A tick that starts knows what redis holds; one that overlaps ends the account of what
\* was told.
LEMMA StartTickKept ==
    ASSUME AuctionInv, NEW t \in Ticks, StartTick(t)
    PROVE  AuctionInv'
  <1>0. PICK k : k = [pc |-> "readBid", auction |-> auctionCache]
    OBVIOUS
  <1>1. /\ tick[t] = Idle /\ tick' = [tick EXCEPT ![t] = k]
        /\ UNCHANGED <<storeVars, setup, auctionCache, bidCache, soonCache, replyTweet, faults>>
        /\ IF Busy \/ setup.pc # "done"
           THEN overlaps' = overlaps + 1 /\ told' = {} /\ repeated' = FALSE
           ELSE UNCHANGED <<overlaps, told, repeated>>
    BY <1>0 DEF StartTick, redis, news
  <1>2. /\ AuctionTyped /\ Found /\ Orderly /\ StoreInv
        /\ tick \in [Ticks -> TickStates] /\ overlaps \in Nat
    BY DEF AuctionInv, AuctionTyped
  <1>3. k \in TickStates /\ k.pc = "readBid" /\ ~Fetching(k) /\ k.auction = auctionCache
    BY <1>0, <1>2 DEF TickStates, Steps, Fetching, AuctionTyped
  <1>4. /\ tick' \in [Ticks -> TickStates]
        /\ \A u \in Ticks : tick'[u] = IF u = t THEN k ELSE tick[u]
    BY <1>1, <1>2, <1>3
  <1>5. /\ StoreInv' /\ Stored' = Stored /\ bids' = bids
        /\ \A b, c : Before(b, c)' = Before(b, c)
    BY <1>1, StoreSame DEF AuctionInv
  <1>6. AuctionTyped'
    BY <1>1, <1>2, <1>4 DEF AuctionTyped
  <1>7. Found'
    BY <1>1, <1>2, <1>3, <1>4, <1>5 DEF Found, Fetching
  <1>8. CASE Busy \/ setup.pc # "done"
    <2>1. overlaps' # 0 /\ told' = {} /\ ~repeated'
      BY <1>1, <1>2, <1>8
    <2>2. Orderly'
      BY <2>1 DEF Orderly
    <2> QED
      BY <1>5, <1>6, <1>7, <2>2 DEF AuctionInv
  <1>9. CASE ~(Busy \/ setup.pc # "done")
    <2>1. setup.pc = "done" /\ \A u \in Ticks : tick[u] = Idle
      BY <1>9 DEF Busy
    <2>2. Alone'
      BY <1>1, <1>4, <2>1 DEF Alone
    <2>3. \A kind, x : Heard(kind, x)' = Heard(kind, x)
      BY <1>1, <1>9 DEF Heard
    <2>4. Older => Older'
      BY <1>1, <1>5, <2>3 DEF Older
    <2>5. \A u \in Ticks : Newer(tick[u])'
      <3>1. Newer(k)' /\ Newer(Idle)'
        BY <1>1, <1>3 DEF Newer, Idle
      <3>2. \A u \in Ticks : \A j : j = tick'[u] => Newer(j)'
        BY <1>4, <2>1, <3>1 DEF Idle
      <3> QED
        BY <3>2 DEF Newer
    <2>6. (AuctionAnnounced => AuctionAnnounced') /\ (BidAnnounced => BidAnnounced')
      <3>1. Idle.pc = "idle"
        BY DEF Idle
      <3> QED
        BY <1>1, <1>9, <2>1, <3>1 DEF AuctionAnnounced, BidAnnounced, AllTold
    <2>7. Orderly'
      BY <1>1, <1>2, <1>9, <2>2, <2>4, <2>5, <2>6 DEF Orderly
    <2> QED
      BY <1>5, <1>6, <1>7, <2>7 DEF AuctionInv
  <1> QED
    BY <1>8, <1>9

\* Setup, during which there is no tick.
LEMMA SetupKept ==
    ASSUME AuctionInv, SetupFetch \/ SetupStore
    PROVE  AuctionInv'
  <1>1. /\ UNCHANGED <<storeVars, tick, bidCache, soonCache, replyTweet, told, repeated,
                       overlaps, faults>>
        /\ setup.pc \in {"fetch", "store"}
    BY DEF SetupFetch, SetupStore, redis, news
  <1>2. /\ AuctionTyped /\ Found /\ Orderly /\ StoreInv
        /\ setup \in [pc : {"fetch", "store", "done"}, id : Caches] /\ auctionCache \in Caches
    BY DEF AuctionInv, AuctionTyped
  <1>3. /\ StoreInv' /\ Stored' = Stored /\ bids' = bids
        /\ \A b, c : Before(b, c)' = Before(b, c)
    BY <1>1, StoreSame DEF AuctionInv
  <1>4. Stored # {} => Current \in Stored /\ \A a \in Stored : a <= Current
    BY CurrentIs DEF AuctionInv, StoreInv
  <1>5. Stored \subseteq Caches /\ 0 \in Caches /\ Caches \subseteq Nat /\ AuctionIds \subseteq Nat
    BY AuctionsAssumption DEF Stored, AuctionIds, Caches
  <1>6. \A kind, x : Heard(kind, x)' = Heard(kind, x)
    BY <1>1 DEF Heard
  <1>7. /\ setup' \in [pc : {"fetch", "store", "done"}, id : Caches]
        /\ auctionCache' \in Caches
        /\ auctionCache' \in Stored \cup {0}
        /\ setup'.pc = "store" => setup'.id \in Stored
        /\ setup'.pc \in {"store", "done"}
    <2>1. CASE SetupFetch
      BY <1>2, <1>4, <1>5, <2>1 DEF SetupFetch, redis, Found
    <2>2. CASE SetupStore
      BY <1>2, <1>5, <2>2 DEF SetupStore, Found
    <2> QED
      BY <2>1, <2>2
  <1>8. AuctionTyped'
    BY <1>1, <1>2, <1>7 DEF AuctionTyped
  <1>9. Found'
    BY <1>1, <1>2, <1>3, <1>7 DEF Found, Fetching
  <1>10. ASSUME overlaps = 0 PROVE Alone' /\ Older' /\ \A t \in Ticks : Newer(tick[t])'
    <2>1. Alone /\ Older /\ \A t \in Ticks : tick[t] = Idle
      BY <1>1, <1>2, <1>10 DEF Orderly, Alone
    <2>2. Alone'
      BY <1>1, <2>1 DEF Alone
    <2>3. \A t \in Ticks : Newer(tick[t])'
      BY <1>1, <2>1 DEF Newer, Idle
    <2>4. \A i \in AuctionIds : Heard("auction", i) =>
              i <= auctionCache' /\ (setup'.pc = "store" => i <= setup'.id)
      <3>1. CASE SetupFetch
        <4>1. auctionCache' = auctionCache
          BY <3>1 DEF SetupFetch, redis
        <4>2. setup'.pc = "store" => setup'.id = Current /\ Stored # {}
          BY <3>1 DEF SetupFetch
        <4>3. PICK c : c = Current
          OBVIOUS
        <4>4. Stored # {} => c \in Nat /\ auctionCache <= c
          <5> SUFFICES ASSUME Stored # {} PROVE c \in Nat /\ auctionCache <= c
            OBVIOUS
          <5>1. c \in Nat /\ \A a \in Stored : a <= c
            BY <1>4, <1>5, <4>3
          <5>2. auctionCache \in Stored \/ auctionCache = 0
            BY <1>2 DEF Found
          <5> QED
            BY <5>1, <5>2
        <4>5. auctionCache \in Nat
          BY <1>2, <1>5
        <4> SUFFICES ASSUME NEW i \in AuctionIds, Heard("auction", i)
                     PROVE  i <= auctionCache' /\ (setup'.pc = "store" => i <= setup'.id)
          OBVIOUS
        <4>6. i \in Nat /\ i <= auctionCache
          BY <1>5, <2>1 DEF Older
        <4>7. setup'.pc = "store" => i <= c
          BY <4>2, <4>4, <4>5, <4>6
        <4> QED
          BY <4>1, <4>2, <4>3, <4>6, <4>7
      <3>2. CASE SetupStore
        BY <1>2, <2>1, <3>2 DEF SetupStore, Older
      <3> QED
        BY <3>1, <3>2
    <2>5. Older'
      BY <1>1, <1>3, <1>6, <2>1, <2>4 DEF Older
    <2> QED
      BY <2>2, <2>3, <2>5
  <1>11. ASSUME overlaps = 0, faults = 0 PROVE AuctionAnnounced' /\ BidAnnounced'
    <2>1. bidCache = Null
      BY <1>1, <1>2, <1>11 DEF Orderly, BidAnnounced
    <2>2. BidAnnounced'
      BY <1>1, <2>1 DEF BidAnnounced
    <2>3. AuctionAnnounced'
      <3>1. CASE SetupStore
        BY <1>2, <3>1 DEF SetupStore, AuctionAnnounced
      <3>2. CASE SetupFetch /\ Stored # {}
        BY <3>2 DEF SetupFetch, AuctionAnnounced
      <3>3. CASE SetupFetch /\ Stored = {}
        BY <1>2, <3>3 DEF SetupFetch, AuctionAnnounced, Found, redis
      <3> QED
        BY <3>1, <3>2, <3>3
    <2> QED
      BY <2>2, <2>3
  <1>12. Orderly'
    BY <1>1, <1>2, <1>10, <1>11 DEF Orderly
  <1> QED
    BY <1>3, <1>8, <1>9, <1>12 DEF AuctionInv

LEMMA RestartKept ==
    ASSUME AuctionInv, Restart
    PROVE  AuctionInv'
  <1>1. /\ tick' = [t \in Ticks |-> Idle] /\ setup' = Starting /\ faults' = faults + 1
        /\ UNCHANGED <<storeVars, auctionCache, bidCache, soonCache, replyTweet, told, repeated,
                       overlaps>>
    BY DEF Restart, redis, news
  <1>2. AuctionTyped /\ Found /\ Orderly /\ faults \in Nat /\ faults + 1 # 0
    BY DEF AuctionInv, AuctionTyped
  <1>3. /\ StoreInv' /\ Stored' = Stored /\ bids' = bids
        /\ \A b, c : Before(b, c)' = Before(b, c)
    BY <1>1, StoreSame DEF AuctionInv
  <1>4. /\ setup' \in [pc : {"fetch", "store", "done"}, id : Caches] /\ setup'.pc = "fetch"
    BY <1>1, AuctionsAssumption DEF Starting, Caches
  <1>5. tick' \in [Ticks -> TickStates] /\ \A t \in Ticks : tick'[t] = Idle
    BY <1>1 DEF TickStates
  <1>6. Idle.pc = "idle" /\ ~Fetching(Idle) /\ \A k : k = Idle => Newer(k)'
    BY DEF Idle, Fetching, Newer
  <1>7. AuctionTyped'
    BY <1>1, <1>2, <1>4, <1>5 DEF AuctionTyped
  <1>8. Found'
    BY <1>1, <1>2, <1>3, <1>4, <1>5, <1>6 DEF Found, Fetching
  <1>9. Alone' /\ \A t \in Ticks : Newer(tick[t])'
    BY <1>4, <1>5, <1>6 DEF Alone, Newer
  <1>10. \A kind, x : Heard(kind, x)' = Heard(kind, x)
    BY <1>1 DEF Heard
  <1>11. Older => Older'
    BY <1>1, <1>3, <1>4, <1>10 DEF Older
  <1>12. Orderly'
    BY <1>1, <1>2, <1>9, <1>11 DEF Orderly
  <1> QED
    BY <1>3, <1>7, <1>8, <1>12 DEF AuctionInv

LEMMA AuctionStarts ==
    ASSUME Init
    PROVE  AuctionInv
  <1>1. StoreInv
    BY StoreStarts DEF Init
  <1>2. /\ \A t \in Ticks : tick[t] = Idle
        /\ setup.pc = "fetch" /\ bidCache = Null /\ told = {} /\ repeated = FALSE
        /\ auctionCache = 0
    BY DEF Init, Starting
  <1>3. AuctionTyped
    BY AuctionsAssumption
    DEF Init, AuctionTyped, TickStates, Starting, Caches, TxsOrNone, Threads
  <1>4. Idle.pc = "idle"
    BY DEF Idle
  <1>5. Found
    BY <1>2, <1>4 DEF Found, Fetching
  <1>6. \A kind, x : ~Heard(kind, x)
    BY <1>2 DEF Heard
  <1>7. Alone /\ Older /\ \A t \in Ticks : Newer(tick[t])
    BY <1>2, <1>4, <1>6 DEF Alone, Older, Newer
  <1>8. AuctionAnnounced /\ BidAnnounced
    BY <1>2 DEF AuctionAnnounced, BidAnnounced
  <1> QED
    BY <1>1, <1>2, <1>3, <1>5, <1>7, <1>8 DEF AuctionInv, Orderly

LEMMA AuctionInvariance == AuctionSpec => []AuctionInv
  <1>1. Init => AuctionInv
    BY AuctionStarts
  <1>2. AuctionInv /\ [AuctionNext]_auctionVars => AuctionInv'
    <2> SUFFICES ASSUME AuctionInv, [AuctionNext]_auctionVars PROVE AuctionInv'
      OBVIOUS
    <2>1. ASSUME NEW t \in Ticks, Proceed(t) PROVE AuctionInv'
      BY <2>1, ReadsKept, FetchKept, NewAuctionKept, TellNewAuctionKept, NewBidKept, TellNewBidKept,
         StoreRepliesKept, EndingSoonKept, TellEndingSoonKept DEF Proceed
    <2>2. ASSUME AuctionNext PROVE AuctionInv'
      BY <2>1, <2>2, WorldKept, SetupKept, StartTickKept, FailKept, RestartKept
      DEF AuctionNext, Timer, Setup
    <2>3. ASSUME UNCHANGED auctionVars PROVE AuctionInv'
      <3>1. /\ UNCHANGED <<storeVars, tick, setup, auctionCache, bidCache, soonCache, replyTweet,
                           told, repeated, overlaps, faults>>
        BY <2>3 DEF auctionVars, redis, news
      <3>2. /\ StoreInv' /\ Stored' = Stored /\ bids' = bids
            /\ \A b, c : Before(b, c)' = Before(b, c)
        BY <3>1, StoreSame DEF AuctionInv
      <3>3. AuctionTyped' /\ Found'
        BY <3>1, <3>2 DEF AuctionInv, AuctionTyped, Found, Fetching
      <3>4. \A kind, x : Heard(kind, x)' = Heard(kind, x)
        BY <3>1 DEF Heard
      <3>5. /\ Alone => Alone'
            /\ Older => Older'
            /\ AuctionAnnounced => AuctionAnnounced'
            /\ BidAnnounced => BidAnnounced'
        BY <3>1, <3>2, <3>4 DEF Alone, Older, AuctionAnnounced, BidAnnounced, AllTold
      <3>6. ASSUME NEW t \in Ticks, Newer(tick[t]) PROVE Newer(tick[t])'
        BY <3>1, <3>2, <3>4, <3>6 DEF Newer
      <3>7. Orderly'
        BY <3>1, <3>5, <3>6 DEF AuctionInv, Orderly
      <3> QED
        BY <3>2, <3>3, <3>7 DEF AuctionInv
    <2> QED
      BY <2>2, <2>3
  <1> QED
    BY <1>1, <1>2, PTL DEF AuctionSpec

\* The caches are written before anybody is told: whatever fails or starts anew, no channel
\* is told of an auction, a bid, or that an auction ends soon, twice, as long as ticks do
\* not overlap each other or setup.
THEOREM NothingTwice == Spec => []NeverToldTwice
  <1>1. AuctionInv => NeverToldTwice
    BY DEF AuctionInv, Orderly, NeverToldTwice
  <1> QED
    BY <1>1, Loops, AuctionInvariance, PTL

\* Without a failure, a restart or an overlap, what the caches hold between ticks was told:
\* the auction on both channels (but for the one setup found), the bid on Discord.
THEOREM NothingUntold == Spec => []NothingSkipped
  <1>1. AuctionInv => NothingSkipped
    <2> SUFFICES ASSUME AuctionInv, faults = 0, overlaps = 0, ~Busy, setup.pc = "done"
                 PROVE  /\ auctionCache = setup.id \/ AllTold("auction", auctionCache, Channels)
                        /\ bidCache # Null => AllTold("bid", bidCache, {"discord"})
      BY DEF NothingSkipped, AllTold
    <2>1. \A t \in Ticks : tick[t] = Idle /\ Idle.pc = "idle"
      BY DEF Busy, Idle
    <2>2. AuctionAnnounced /\ BidAnnounced
      BY DEF AuctionInv, Orderly
    <2> QED
      BY <2>1, <2>2 DEF AuctionAnnounced, BidAnnounced
  <1> QED
    BY <1>1, Loops, AuctionInvariance, PTL
=============================================================================
