---------------------------- MODULE NounsSubgraph ----------------------------
(***************************************************************************)
(* The subgraph: handlers that fold the events of the token and of the DAO *)
(* into a store of entities, which the web application, its functions and  *)
(* the bots read.  (Its auction entities are in NounsSubgraphAuctions.)    *)
(*                                                                         *)
(* The chain is what its own modules promise: a ledger on which every noun *)
(* is one vote of the delegate of its owner (NoVoteLost of                 *)
(* ERC721Checkpointable, nobody having signed a delegation to zero), and   *)
(* proposals that live as ProposalLifecycle says.  A handler reads nothing *)
(* but its event and the store, so nothing is lost by letting the next     *)
(* transaction wait until the events of the last one are handled.          *)
(***************************************************************************)
EXTENDS ProposalLifecycle, Integers, FiniteSets, Sequences

CONSTANTS
    Accounts,    \* all addresses but zero
    Zero,        \* address(0)
    Creator,     \* owner() of the token, to whom a mint is first credited
    Recipients,  \* to whom nouns are minted: the auction house, the nounders
    Null,        \* the value of an entity's field that is not set
    MaxNouns,    \* bound: nouns ever minted
    MaxTx        \* bound: transactions

ASSUME SubgraphAssumption ==
    /\ Zero \notin Accounts /\ Null \notin Accounts \cup {Zero}
    /\ Null \notin {"PENDING", "ACTIVE", "CANCELLED", "VETOED", "QUEUED", "EXECUTED"}
    /\ Creator \in Accounts
    /\ Recipients \subseteq Accounts
    /\ MaxNouns \in Nat /\ MaxTx \in Nat

VARIABLES
    (* The chain. *)
    nounOwner,    \* the owner of each noun minted, Zero when burned
    delegateOf,   \* _delegates: Zero for accounts that never delegated
    receipts,     \* the weight of each vote cast, Null for none
    log,          \* the events not handled yet, oldest first
    txs,          \* how many transactions there were
    (* The store. *)
    nouns,        \* Noun and Seed
    accounts,     \* Account
    delegates,    \* Delegate
    governance,   \* Governance, the one entity of aggregates
    proposals,    \* Proposal
    votes,        \* Vote, by proposal and voter as its id has it
    (* History, which no handler reads. *)
    selfMoved,    \* accounts that sent a noun to themselves
    unfollowed    \* nouns whose listing under a delegate went astray, see below

chainVars == <<nounOwner, delegateOf, stage, receipts, txs>>
tokenEntities == <<nouns, accounts, delegates>>
daoEntities == <<proposals, votes>>
storeVars == <<tokenEntities, governance, daoEntities>>
history == <<selfMoved, unfollowed>>
vars == <<chainVars, log, storeVars, history>>

NounIds == 1..MaxNouns
Addresses == Accounts \cup {Zero}

-----------------------------------------------------------------------------
(* The chain: each transaction leaves its events in the log.               *)

Minted == DOMAIN nounOwner
Owned(a) == {n \in Minted : nounOwner[n] = a}
DelegateOf(a) == IF a = Zero \/ delegateOf[a] = Zero THEN a ELSE delegateOf[a]
Represented(d) == {n \in Minted : nounOwner[n] # Zero /\ DelegateOf(nounOwner[n]) = d}
Votes(d) == Cardinality(Represented(d))

VotesChanged(d, change) ==
    [type |-> "DelegateVotesChanged", delegate |-> d,
     previousBalance |-> Votes(d), newBalance |-> Votes(d) + change]

Transferred(from, to, n) == [type |-> "Transfer", from |-> from, to |-> to, tokenId |-> n]

\* What _moveDelegates emits, source first.
MoveEvents(src, dst, amount) ==
    IF src = dst \/ amount = 0 THEN << >>
    ELSE (IF src = Zero THEN << >> ELSE <<VotesChanged(src, -amount)>>)
         \o (IF dst = Zero THEN << >> ELSE <<VotesChanged(dst, amount)>>)

\* A transaction: everything before it has been handled.
Transact(events) ==
    /\ log = << >> /\ txs < MaxTx
    /\ txs' = txs + 1
    /\ log' = events
    /\ UNCHANGED storeVars

\* Nouns that to gets, or already has, while it delegates to somebody else.
Astray(to, ns) == IF to # Zero /\ DelegateOf(to) # to THEN ns ELSE {}

\* Fault: the seed is announced before the noun.
MintEvents_SeedFirst(to, n) ==
    MoveEvents(Zero, DelegateOf(to), 1)
    \o <<[type |-> "NounCreated", tokenId |-> n],
         Transferred(Zero, Creator, n), Transferred(Creator, to, n)>>

\* The owner of the contract is credited first, and passes the noun on; to itself, if it
\* is the one the noun is minted to.
MintEvents(to, n) ==
    MoveEvents(Zero, DelegateOf(to), 1)
    \o <<Transferred(Zero, Creator, n), Transferred(Creator, to, n),
         [type |-> "NounCreated", tokenId |-> n]>>

Mint(to) ==
    LET n == Len(nounOwner) + 1
    IN  /\ n <= MaxNouns
        /\ nounOwner' = Append(nounOwner, to)
        /\ Transact(MintEvents(to, n))
        /\ selfMoved' = selfMoved \cup (IF to = Creator THEN {to} ELSE {})
        /\ unfollowed' = unfollowed \cup Astray(to, {n}) \cup Astray(Creator, {n})
                            \cup (IF to = Creator THEN {n} ELSE {})
        /\ UNCHANGED <<delegateOf, stage, receipts>>

\* A transfer, to oneself too, or a burn.
MoveNoun(n, to) ==
    LET from == nounOwner[n]
    IN  /\ from # Zero
        /\ nounOwner' = [nounOwner EXCEPT ![n] = to]
        /\ Transact(MoveEvents(DelegateOf(from), DelegateOf(to), 1)
                    \o <<Transferred(from, to, n)>>)
        /\ selfMoved' = selfMoved \cup (IF from = to THEN {from} ELSE {})
        /\ unfollowed' = unfollowed \cup Astray(to, {n})
                            \cup (IF from = to THEN {n} ELSE {})
        /\ UNCHANGED <<delegateOf, stage, receipts>>

\* delegate(); a delegation may be renewed.
Delegate(delegator, delegatee) ==
    LET old == DelegateOf(delegator)
    IN  /\ delegateOf' = [delegateOf EXCEPT ![delegator] = delegatee]
        /\ Transact(<<[type |-> "DelegateChanged", delegator |-> delegator,
                       fromDelegate |-> old, toDelegate |-> delegatee]>>
                    \o MoveEvents(old, delegatee, Cardinality(Owned(delegator))))
        /\ unfollowed' = unfollowed \cup (IF old = delegatee THEN Owned(delegator) ELSE {})
        /\ UNCHANGED <<nounOwner, stage, receipts, selfMoved>>

\* A step of the DAO on a proposal, with the event it emits.
OnProposal(id, to, events) ==
    /\ stage' = [stage EXCEPT ![id] = to]
    /\ Transact(events)
    /\ UNCHANGED <<nounOwner, delegateOf, history>>

ProposalEvent(type, id) == <<[type |-> type, id |-> id]>>

Propose(id, proposer) ==
    /\ stage[id] = "None" /\ Votes(proposer) > 0
    /\ OnProposal(id, "Pending", <<[type |-> "ProposalCreatedWithRequirements",
                                    id |-> id, proposer |-> proposer]>>)
    /\ UNCHANGED receipts

\* Of any weight, none too; votes are counted as they were at the proposal's
\* creation, so that any weight is possible.
CastVote(id, voter, weight) ==
    /\ stage[id] = "Active" /\ receipts[id][voter] = Null
    /\ receipts' = [receipts EXCEPT ![id][voter] = weight]
    /\ OnProposal(id, "Active", <<[type |-> "VoteCast", voter |-> voter,
                                   proposalId |-> id, votes |-> weight]>>)

Queue(id) ==
    /\ stage[id] = "Succeeded"
    /\ OnProposal(id, "Queued", ProposalEvent("ProposalQueued", id))
    /\ UNCHANGED receipts

Execute(id) ==
    /\ stage[id] = "Queued"
    /\ OnProposal(id, "Executed", ProposalEvent("ProposalExecuted", id))
    /\ UNCHANGED receipts

\* Canceling what is vetoed or canceled emits the event once more.
Cancel(id) ==
    /\ stage[id] \notin {"None", "Executed"}
    /\ OnProposal(id, IF stage[id] = "Vetoed" THEN "Vetoed" ELSE "Canceled",
                  ProposalEvent("ProposalCanceled", id))
    /\ UNCHANGED receipts

Veto(id) ==
    /\ Vetoable(stage[id])
    /\ OnProposal(id, "Vetoed", ProposalEvent("ProposalVetoed", id))
    /\ UNCHANGED receipts

\* Blocks and time move a proposal on without any event.
Passes(id, to) ==
    /\ log = << >>
    /\ to \in Successors(stage[id]) \cap {"Active", "Defeated", "Succeeded", "Expired"}
    /\ stage' = [stage EXCEPT ![id] = to]
    /\ UNCHANGED <<nounOwner, delegateOf, receipts, txs, log, storeVars, history>>

-----------------------------------------------------------------------------
(* The store.  Lists of nouns may hold one twice, and their order does not *)
(* matter: they are counts.  An account or a vote that is not stored yet   *)
(* is as getOrCreate makes it.  loaded entities are copies: what a handler *)
(* saves replaces what was saved since it loaded.                          *)

NoNouns == [n \in NounIds |-> 0]
Push(list, n) == [list EXCEPT ![n] = @ + 1]

Without(list, ns) == [n \in NounIds |-> IF n \in ns THEN 0 ELSE list[n]]

Init ==
    /\ LifecycleInit
    /\ nounOwner = << >>
    /\ delegateOf = [a \in Accounts |-> Zero]
    /\ receipts = [id \in Ids |-> [a \in Accounts |-> Null]]
    /\ log = << >> /\ txs = 0
    /\ nouns = [n \in NounIds |-> [owner |-> Null, seed |-> FALSE]]
    /\ accounts = [a \in Addresses |->
                       [tokenBalance |-> 0, nouns |-> NoNouns, delegate |-> Null]]
    /\ delegates = [a \in Addresses |->
                       [stored |-> FALSE, delegatedVotes |-> 0,
                        tokenHoldersRepresented |-> 0, nounsRepresented |-> NoNouns]]
    /\ governance = [proposals |-> 0, totalTokenHolders |-> 0, currentTokenHolders |-> 0,
                     currentDelegates |-> 0, totalDelegates |-> 0, delegatedVotes |-> 0,
                     proposalsQueued |-> 0]
    /\ proposals = [id \in Ids |-> [status |-> Null, executionETA |-> FALSE]]
    /\ votes = [id \in Ids |-> [a \in Accounts |-> Null]]
    /\ selfMoved = {} /\ unfollowed = {}

\* getOrCreateDelegate: a new delegate is counted in the aggregates as stored.
CountDelegate(g, ds, id) ==
    IF ds[id].stored \/ id = Zero THEN g ELSE [g EXCEPT !.totalDelegates = @ + 1]

Handle(type) == log # << >> /\ Head(log).type = type /\ log' = Tail(log)

-----------------------------------------------------------------------------
(* Handlers of the token's events.                                         *)

\* Fails, leaving the noun without a seed, when the noun is not stored.
handleNounCreated ==
    /\ Handle("NounCreated")
    /\ LET n == Head(log).tokenId
       IN  nouns' = IF nouns[n].owner = Null THEN nouns ELSE [nouns EXCEPT ![n].seed = TRUE]
    /\ UNCHANGED <<chainVars, accounts, delegates, governance, daoEntities, history>>

\* Both delegates are loaded before either is saved, the new one last.
handleDelegateChanged ==
    LET e == Head(log)
        holder == accounts[e.delegator]
        previous == delegates[e.fromDelegate]
        new == delegates[e.toDelegate]
        own == {n \in NounIds : holder.nouns[n] > 0}
    IN  /\ Handle("DelegateChanged")
        /\ accounts' = [accounts EXCEPT ![e.delegator].delegate = e.toDelegate]
        /\ delegates' =
               [d \in Addresses |->
                   CASE d = e.toDelegate ->
                            [new EXCEPT !.stored = TRUE,
                                        !.tokenHoldersRepresented = @ + 1,
                                        !.nounsRepresented =
                                            [n \in NounIds |-> @[n] + holder.nouns[n]]]
                     [] d = e.fromDelegate /\ d # e.toDelegate ->
                            [previous EXCEPT !.stored = TRUE,
                                             !.tokenHoldersRepresented = @ - 1,
                                             !.nounsRepresented = Without(@, own)]
                     [] OTHER -> delegates[d]]
        /\ governance' =
               IF e.fromDelegate = e.toDelegate
               THEN CountDelegate(governance, delegates, e.toDelegate)
               ELSE CountDelegate(CountDelegate(governance, delegates, e.fromDelegate),
                                  delegates, e.toDelegate)
        /\ UNCHANGED <<chainVars, nouns, daoEntities, history>>

\* Fault: a delegate that gets more votes counts as a new one.
DelegatesAfter_AnyGain(e) ==
    governance.currentDelegates
      + (IF e.newBalance > e.previousBalance THEN 1 ELSE 0)
      - (IF e.newBalance = 0 THEN 1 ELSE 0)

DelegatesAfter(e) ==
    governance.currentDelegates
      + (IF e.previousBalance = 0 /\ e.newBalance > 0 THEN 1 ELSE 0)
      - (IF e.newBalance = 0 THEN 1 ELSE 0)

\* The aggregates are loaded before the delegate, and saved after it: that a
\* delegate is new is not counted.
handleDelegateVotesChanged ==
    LET e == Head(log)
    IN  /\ Handle("DelegateVotesChanged")
        /\ delegates' = [delegates EXCEPT ![e.delegate].stored = TRUE,
                                          ![e.delegate].delegatedVotes = e.newBalance]
        /\ governance' = [governance EXCEPT
               !.currentDelegates = DelegatesAfter(e),
               !.delegatedVotes = @ + e.newBalance - e.previousBalance]
        /\ UNCHANGED <<chainVars, nouns, accounts, daoEntities, history>>

\* The sender after the transfer.
Sent(holder, n) ==
    [tokenBalance |-> holder.tokenBalance - 1,
     nouns |-> Without(holder.nouns, {n}),
     delegate |-> IF holder.tokenBalance = 1 THEN Null ELSE holder.delegate]

\* The receiver after it, its own delegate if it had nothing before.
Received(holder, to, n) ==
    [tokenBalance |-> holder.tokenBalance + 1,
     nouns |-> Push(holder.nouns, n),
     delegate |-> IF holder.tokenBalance = 0 THEN to ELSE holder.delegate]

\* Holders counted in and out; the zero address, after a burn, is one too.
HoldersGained(to) == IF accounts[to].tokenBalance = 0 THEN 1 ELSE 0
HoldersLost(from) == IF from # Zero /\ accounts[from].tokenBalance = 1 THEN 1 ELSE 0

\* Fault: the noun stays listed under the delegate of the sender.
Unlisted_Kept(from, n) == delegates

\* The noun is taken from the delegate that the sender is stored with ...
Unlisted(from, n) ==
    LET d == accounts[from].delegate
    IN  IF from = Zero \/ d = Null THEN delegates
        ELSE [delegates EXCEPT ![d].nounsRepresented = Without(@, {n})]

\* ... and listed under the receiver itself, whoever its delegate is.
Listed(from, to, n) ==
    LET ds == Unlisted(from, n)
    IN  [ds EXCEPT ![to].stored = TRUE, ![to].nounsRepresented = Push(@, n)]

\* Both are loaded before either is saved: a transfer to oneself adds a noun.
AccountsAfter(from, to, n) ==
    LET sent == IF from = Zero THEN accounts
                ELSE [accounts EXCEPT ![from] = Sent(accounts[from], n)]
    IN  [sent EXCEPT ![to] = Received(accounts[to], to, n)]

\* The aggregates, too, are loaded first; they are saved again, over what
\* getOrCreateDelegate counted, whenever the receiver had no noun.
GovernanceAfter(from, to) ==
    LET counted == [governance EXCEPT
            !.totalTokenHolders = @ + (IF from = Zero THEN 1 ELSE 0)
                                    - (IF to = Zero THEN 1 ELSE 0),
            !.currentTokenHolders = @ + HoldersGained(to) - HoldersLost(from)]
    IN  IF accounts[to].tokenBalance = 0 THEN counted
        ELSE CountDelegate(counted, delegates, to)

handleTransfer ==
    LET e == Head(log)
    IN  /\ Handle("Transfer")
        /\ governance' = GovernanceAfter(e.from, e.to)
        /\ delegates' = Listed(e.from, e.to, e.tokenId)
        /\ accounts' = AccountsAfter(e.from, e.to, e.tokenId)
        /\ nouns' = [nouns EXCEPT ![e.tokenId].owner = e.to]
        /\ UNCHANGED <<chainVars, daoEntities, history>>

-----------------------------------------------------------------------------
(* Handlers of the DAO's events.                                           *)

\* The votingDelay being at least a block, the vote has not started.
handleProposalCreatedWithRequirements ==
    LET e == Head(log)
    IN  /\ Handle("ProposalCreatedWithRequirements")
        /\ governance' = CountDelegate([governance EXCEPT !.proposals = @ + 1],
                                       delegates, e.proposer)
        /\ delegates' = [delegates EXCEPT ![e.proposer].stored = TRUE]
        /\ proposals' = [proposals EXCEPT ![e.id].status = "PENDING"]
        /\ UNCHANGED <<chainVars, nouns, accounts, votes, history>>

SetStatus(id, status) == proposals' = [proposals EXCEPT ![id].status = status]

handleProposalCanceled ==
    /\ Handle("ProposalCanceled")
    /\ SetStatus(Head(log).id, "CANCELLED")
    /\ UNCHANGED <<chainVars, tokenEntities, governance, votes, history>>

handleProposalVetoed ==
    /\ Handle("ProposalVetoed")
    /\ SetStatus(Head(log).id, "VETOED")
    /\ UNCHANGED <<chainVars, tokenEntities, governance, votes, history>>

handleProposalQueued ==
    /\ Handle("ProposalQueued")
    /\ proposals' = [proposals EXCEPT ![Head(log).id] =
                         [status |-> "QUEUED", executionETA |-> TRUE]]
    /\ governance' = [governance EXCEPT !.proposalsQueued = @ + 1]
    /\ UNCHANGED <<chainVars, tokenEntities, votes, history>>

QueueAfterExecution == governance.proposalsQueued - 1

handleProposalExecuted ==
    /\ Handle("ProposalExecuted")
    /\ proposals' = [proposals EXCEPT ![Head(log).id] =
                         [status |-> "EXECUTED", executionETA |-> FALSE]]
    /\ governance' = [governance EXCEPT !.proposalsQueued = QueueAfterExecution]
    /\ UNCHANGED <<chainVars, tokenEntities, votes, history>>

\* A vote in a pending proposal makes it active.
StatusAfterVote(id) ==
    IF proposals[id].status = "PENDING" THEN "ACTIVE" ELSE proposals[id].status

\* Fault: the entity is named after the proposal alone.
VotesAfter_ByProposal(e) ==
    [votes EXCEPT ![e.proposalId] = [a \in Accounts |-> IF a = e.voter THEN e.votes ELSE Null]]

VotesAfter(e) == [votes EXCEPT ![e.proposalId][e.voter] = e.votes]

\* A voter without votes becomes a delegate here.
handleVoteCast ==
    LET e == Head(log)
    IN  /\ Handle("VoteCast")
        /\ votes' = VotesAfter(e)
        /\ governance' = CountDelegate(governance, delegates, e.voter)
        /\ delegates' = [delegates EXCEPT ![e.voter].stored = TRUE]
        /\ SetStatus(e.proposalId, StatusAfterVote(e.proposalId))
        /\ UNCHANGED <<chainVars, nouns, accounts, history>>

-----------------------------------------------------------------------------
TokenTransaction ==
    \/ \E to \in Recipients : Mint(to)
    \/ \E n \in Minted, to \in Addresses : MoveNoun(n, to)
    \/ \E delegator, delegatee \in Accounts : Delegate(delegator, delegatee)

DAOTransaction ==
    \/ \E id \in Ids, a \in Accounts : Propose(id, a)
    \/ \E id \in Ids, a \in Accounts : \E weight \in {0, Votes(a)} : CastVote(id, a, weight)
    \/ \E id \in Ids : Queue(id)
    \/ \E id \in Ids : Execute(id)
    \/ \E id \in Ids : Cancel(id)
    \/ \E id \in Ids : Veto(id)
    \/ \E id \in Ids, to \in Stages : Passes(id, to)

Handlers ==
    \/ handleNounCreated
    \/ handleDelegateChanged
    \/ handleDelegateVotesChanged
    \/ handleTransfer
    \/ handleProposalCreatedWithRequirements
    \/ handleProposalCanceled
    \/ handleProposalVetoed
    \/ handleProposalQueued
    \/ handleProposalExecuted
    \/ handleVoteCast

Next == TokenTransaction \/ DAOTransaction \/ Handlers

Spec == Init /\ [][Next]_vars

-----------------------------------------------------------------------------
(* Correctness: what the store says once all events are handled.           *)

Settled == log = << >>

\* currentTokenHolders, "Total number of token holders currently".
HoldersCounted ==
    governance.currentTokenHolders = Cardinality({a \in Accounts : Owned(a) # {}})

\* Every noun has its owner and its seed, and every account the nouns it has, so
\* that balances are right: in the order the contract emits its events no handler
\* misses the entity it needs.  Accounts that sent a noun to themselves (or own the
\* contract, and had one minted to them) are the exception, as handleTransfer saves
\* the copy that had the noun already.  The number of holders is right as long as there
\* is no such account and no noun was burned (see GovernanceReported).
HoldingsFollow ==
    Settled =>
        /\ \A n \in Minted : nouns[n] = [owner |-> nounOwner[n], seed |-> TRUE]
        /\ \A a \in Addresses \ selfMoved :
               /\ accounts[a].tokenBalance = Cardinality(Owned(a))
               /\ \A n \in NounIds : accounts[a].nouns[n] = IF n \in Owned(a) THEN 1 ELSE 0
        /\ selfMoved = {} /\ Owned(Zero) = {} => HoldersCounted

\* The votes of each delegate, how many have any, and their sum.
VotesFollow ==
    Settled =>
        /\ \A d \in Accounts : delegates[d].delegatedVotes = Votes(d)
        /\ governance.currentDelegates = Cardinality({d \in Accounts : Votes(d) > 0})
        /\ governance.delegatedVotes = Cardinality(Minted) - Cardinality(Owned(Zero))

\* A noun is listed under the delegate that votes with it, and no other, from where
\* handleVoteCast takes the nouns of a vote.  That is so unless the noun came to
\* an account that delegates to another, or its owner renewed a delegation, or it
\* was sent to its own owner: then, and from then on, the lists may be wrong.
ListedOnce ==
    Settled =>
        \A n \in Minted \ unfollowed, d \in Accounts :
            delegates[d].nounsRepresented[n] = IF n \in Represented(d) THEN 1 ELSE 0

StatusOf(s) ==
    CASE s = "Pending" -> {"PENDING"}
      [] s \in {"Active", "Succeeded", "Defeated"} -> {"PENDING", "ACTIVE"}
      [] s \in {"Queued", "Expired"} -> {"QUEUED"}
      [] s = "Executed" -> {"EXECUTED"}
      [] s = "Canceled" -> {"CANCELLED"}
      [] s = "Vetoed" -> {"VETOED", "CANCELLED"}  \* vetoed, then canceled again
      [] OTHER -> {Null}

\* proposalsQueued, "Number of proposals currently queued for execution".
QueueCounted ==
    governance.proposalsQueued = Cardinality({id \in Ids : proposals[id].status = "QUEUED"})

\* A proposal that was canceled or vetoed while it was queued.
LeftQueue(id) == proposals[id].executionETA /\ proposals[id].status \in {"CANCELLED", "VETOED"}

\* The status of a proposal is one that fits its state on the chain, every vote has its
\* entity with its weight, and the queue is counted as long as no proposal was canceled
\* or vetoed in it (see GovernanceReported).
ProposalsFollow ==
    Settled =>
        /\ \A id \in Ids : proposals[id].status \in StatusOf(stage[id])
        /\ votes = receipts
        /\ (\A id \in Ids : ~LeftQueue(id)) => QueueCounted

-----------------------------------------------------------------------------
(* What the schema says of the store, and the handlers do not keep.        *)

\* currentTokenHolders is what schema.graphql:227 calls it, if nobody ever sent a noun to
\* themselves.
HoldersReported == selfMoved = {} => HoldersCounted

\* totalTokenHolders, "Total number of token holders" of schema.graphql:233, whether of now
\* or of all time, is not more than there are accounts.
TotalReported == governance.totalTokenHolders <= Cardinality(Accounts)

\* Whoever is in the queue was voted for: the chain of this module asks no more of a
\* proposal than its state.
QueuedByVotes ==
    \A id \in Ids : proposals[id].executionETA => \E a \in Accounts : votes[id][a] = 1

\* The aggregates of entity Governance once all events are handled, by the words of the
\* schema, proposalsQueued by those of line 245.  That one of the three is right is as
\* little as can be asked: the state in which this fails shows each of them wrong.
GovernanceReported ==
    Settled /\ QueuedByVotes => HoldersReported \/ TotalReported \/ QueueCounted
=============================================================================
