--------------------------- MODULE NounsDAOLogicV1 ---------------------------
(***************************************************************************)
(* NounsDAOLogicV1.sol: proposals are made, voted on, queued in the        *)
(* timelock and executed, unless canceled or vetoed on the way.  The       *)
(* token's vote ledger is kept to what getPriorVotes and totalSupply say   *)
(* of it (module ERC721Checkpointable has it in full).                     *)
(***************************************************************************)
EXTENDS NounsDAOExecutor

CONSTANTS
    Accounts,      \* voters, proposers, the vetoer
    Zero,          \* address(0)
    Timelock,      \* the address of the executor
    ActionLists,   \* the lists of calls that get proposed, each call a record of
                   \* the field it sets, "none" for a call elsewhere, and a value
    Limits,        \* the values each setter of the DAO accepts, by field
    AdminCalls,    \* the calls an admin other than the timelock may make
    InitialConfig, \* the settings initialize was called with
    InitialPower,  \* the votes of each account at the start
    InitialSupply, \* and the nouns there are
    InitialAdmin,  \* the executor as deployed
    Vetoers,       \* the accounts that are made vetoer
    TimeSteps,     \* the seconds from one block to the next
    Supports,      \* the votes cast: 0 against, 1 for, 2 abstain
    Powers,        \* bound: the ways in which votes get distributed
    LedgerBlocks,  \* bound: the blocks in which they are
    MaxProposals,  \* bound: the number of proposals
    MaxBlock       \* bound: the last block

Fields == {"votingDelay", "votingPeriod", "proposalThresholdBPS", "quorumVotesBPS"}

ASSUME DAOAssumption ==
    /\ Zero \notin Accounts /\ Timelock \notin Accounts /\ Zero # Timelock
    /\ InitialAdmin \in Accounts \cup {Timelock}
    /\ \A f \in Fields : Limits[f] \subseteq Nat
    /\ 0 \notin Limits["votingPeriod"]  \* MIN_VOTING_PERIOD
    /\ Limits["pendingAdmin"] \subseteq Accounts \cup {Zero}
    /\ \A f \in Fields : InitialConfig[f] \in Limits[f]
    /\ InitialPower \in [Accounts -> Nat]
    /\ InitialSupply \in Nat /\ InitialSupply >= SumFunction(InitialPower)
    /\ Vetoers \subseteq Accounts
    /\ TimeSteps \subseteq Nat \ {0}
    /\ Supports \subseteq 0..2 /\ MaxProposals \in Nat
    /\ \A actions \in ActionLists :  \* propose: must provide actions
           Len(actions) \in Nat \ {0} /\ DOMAIN actions = 1..Len(actions)

VARIABLES
    proposals,          \* proposals, by id; proposalCount is its length
    latestProposalIds,  \* 0 for who never proposed
    config,             \* votingDelay, votingPeriod and the two BPS settings
    admin, pendingAdmin,
    vetoer,
    block,              \* block.number
    power,              \* the votes of each account now
    supply,             \* totalSupply()
    history             \* the votes of each account at the end of past blocks

roleVars == <<admin, pendingAdmin, vetoer>>
ledgerVars == <<power, supply>>
chainVars == <<block, time, history>>
daoVars == <<proposals, latestProposalIds>>
vars == <<daoVars, config, roleVars, ledgerVars, chainVars, queuedTransactions, delay>>

Init ==
    /\ proposals = << >>
    /\ latestProposalIds = [a \in Accounts |-> 0]
    /\ config = InitialConfig
    /\ admin = InitialAdmin
    /\ pendingAdmin = Zero
    /\ vetoer \in Vetoers
    /\ power = InitialPower
    /\ supply = InitialSupply
    /\ block = 2
    /\ history = <<InitialPower>>
    /\ queuedTransactions = {}
    /\ delay \in Delays
    /\ time = 1

-----------------------------------------------------------------------------
(* Views.                                                                  *)

bps2Uint(bps, number) == (number * bps) \div 10000

\* nouns.getPriorVotes, which reverts unless b is a past block.
PriorVotes(a, b) == history[b][a]

ProposalIds == DOMAIN proposals

\* state(): the first of these that applies.
State(id) ==
    LET p == proposals[id]
    IN  IF p.vetoed THEN "Vetoed"
        ELSE IF p.canceled THEN "Canceled"
        ELSE IF block <= p.startBlock THEN "Pending"
        ELSE IF block <= p.endBlock THEN "Active"
        ELSE IF p.forVotes <= p.againstVotes \/ p.forVotes < p.quorumVotes THEN "Defeated"
        ELSE IF p.eta = 0 THEN "Succeeded"
        ELSE IF p.executed THEN "Executed"
        ELSE IF time >= p.eta + GracePeriod THEN "Expired"
        ELSE "Queued"

-----------------------------------------------------------------------------
(* propose.                                                                *)

\* Fault: only an active proposal stands in the way of the next.
HasLiveProposal_ActiveOnly(a) ==
    latestProposalIds[a] # 0 /\ State(latestProposalIds[a]) = "Active"

HasLiveProposal(a) ==
    latestProposalIds[a] # 0 /\ State(latestProposalIds[a]) \in {"Pending", "Active"}

Moment == [block |-> block, time |-> time]
NoMoment == [block |-> 0, time |-> 0]

NotVoted == [hasVoted |-> FALSE, support |-> 0, votes |-> 0]
Voted(support, votes) == [hasVoted |-> TRUE, support |-> support, votes |-> votes]

\* The threshold and the quorum are shares of the supply of this moment.
NewProposal(proposer, actions) ==
    LET startBlock == block + config["votingDelay"]
    IN  [proposer |-> proposer,
         proposalThreshold |-> bps2Uint(config["proposalThresholdBPS"], supply),
         quorumVotes |-> bps2Uint(config["quorumVotesBPS"], supply),
         eta |-> 0,
         actions |-> actions,
         startBlock |-> startBlock,
         endBlock |-> startBlock + config["votingPeriod"],
         forVotes |-> 0, againstVotes |-> 0, abstainVotes |-> 0,
         canceled |-> FALSE, vetoed |-> FALSE, executed |-> FALSE,
         receipts |-> [a \in Accounts |-> NotVoted],
         created |-> block, queued |-> NoMoment]  \* history: read by no call

Propose(proposer, actions) ==
    /\ Len(proposals) < MaxProposals
    /\ PriorVotes(proposer, block - 1) > bps2Uint(config["proposalThresholdBPS"], supply)
    /\ ~HasLiveProposal(proposer)
    /\ proposals' = Append(proposals, NewProposal(proposer, actions))
    /\ latestProposalIds' = [latestProposalIds EXCEPT ![proposer] = Len(proposals) + 1]
    /\ UNCHANGED <<config, roleVars, ledgerVars, chainVars, queuedTransactions, delay>>

-----------------------------------------------------------------------------
(* castVote, castVoteWithReason and castVoteBySig: castVoteInternal.       *)

SnapshotBlock_Start(p) == p.startBlock  \* fault: the votes when voting starts

\* The block whose votes count: meant to be that of the proposal's creation.
SnapshotBlock(p) == p.startBlock - config["votingDelay"]

MayVote_Again(id, voter) == State(id) = "Active"  \* fault: receipts are not read

MayVote(id, voter) ==
    State(id) = "Active" /\ ~proposals[id].receipts[voter].hasVoted

VotesIf(chosen, votes) == IF chosen THEN votes ELSE 0

CastVote(id, voter, support) ==
    LET p == proposals[id]
        votes == PriorVotes(voter, SnapshotBlock(p))
    IN  /\ MayVote(id, voter)
        /\ SnapshotBlock(p) \in DOMAIN history
        /\ proposals' = [proposals EXCEPT ![id] =
               [p EXCEPT !.againstVotes = p.againstVotes + VotesIf(support = 0, votes),
                         !.forVotes = p.forVotes + VotesIf(support = 1, votes),
                         !.abstainVotes = p.abstainVotes + VotesIf(support = 2, votes),
                         !.receipts = [p.receipts EXCEPT ![voter] = Voted(support, votes)]]]
        /\ UNCHANGED <<latestProposalIds, config, roleVars, ledgerVars, chainVars,
                       queuedTransactions, delay>>

-----------------------------------------------------------------------------
(* queue, cancel, veto and execute.                                        *)

Queue(id) ==
    LET eta == time + delay
    IN  /\ State(id) = "Succeeded"
        /\ QueueTransactions(proposals[id].actions, eta)
        /\ proposals' = [proposals EXCEPT ![id] =
               [proposals[id] EXCEPT !.eta = eta, !.queued = Moment]]
        /\ UNCHANGED <<latestProposalIds, config, roleVars, ledgerVars, chainVars, delay>>

\* A proposal that is defeated, expired, canceled or vetoed can be canceled too,
\* and its transactions are then cleared again.
Cancel(id, sender) ==
    LET p == proposals[id]
    IN  /\ State(id) # "Executed"
        /\ \/ sender = p.proposer
           \/ PriorVotes(p.proposer, block - 1) < p.proposalThreshold
        /\ proposals' = [proposals EXCEPT ![id] = [p EXCEPT !.canceled = TRUE]]
        /\ CancelTransactions(p.actions, p.eta)
        /\ UNCHANGED <<latestProposalIds, config, roleVars, ledgerVars, chainVars, delay>>

CanVeto_Always(id) == TRUE  \* fault: executed proposals too

CanVeto(id) == State(id) # "Executed"

Veto(id) ==
    /\ vetoer # Zero
    /\ CanVeto(id)
    /\ proposals' = [proposals EXCEPT ![id] = [proposals[id] EXCEPT !.vetoed = TRUE]]
    /\ CancelTransactions(proposals[id].actions, proposals[id].eta)
    /\ UNCHANGED <<latestProposalIds, config, roleVars, ledgerVars, chainVars, delay>>

\* Fault: the setters do not check their limits.
Permitted_Unlimited(sender, call) ==
    CASE call.field = "none"  -> TRUE
      [] call.field = "delay" -> sender = Timelock
      [] OTHER                -> sender = admin

\* _setVotingDelay, _setVotingPeriod, _setProposalThresholdBPS, _setQuorumVotesBPS
\* and _setPendingAdmin want the admin, setDelay wants the timelock itself.
Permitted(sender, call) ==
    CASE call.field = "none"  -> TRUE
      [] call.field = "delay" -> sender = Timelock /\ call.value \in Delays
      [] OTHER                -> sender = admin /\ call.value \in Limits[call.field]

\* What the calls leave in a field that held old.
ValueAfter(calls, field, old) ==
    LET setters == {i \in DOMAIN calls : calls[i].field = field}
    IN  IF setters = {} THEN old ELSE calls[Max(setters)].value

Calls(sender, calls) ==
    /\ \A i \in DOMAIN calls : Permitted(sender, calls[i])
    /\ config' = [f \in Fields |-> ValueAfter(calls, f, config[f])]
    /\ pendingAdmin' = ValueAfter(calls, "pendingAdmin", pendingAdmin)
    /\ delay' = ValueAfter(calls, "delay", delay)

\* One call that reverts reverts them all.
Execute(id) ==
    /\ State(id) = "Queued"
    /\ proposals' = [proposals EXCEPT ![id] = [proposals[id] EXCEPT !.executed = TRUE]]
    /\ ExecuteTransactions(proposals[id].actions, proposals[id].eta)
    /\ Calls(Timelock, proposals[id].actions)
    /\ UNCHANGED <<latestProposalIds, admin, vetoer, ledgerVars, chainVars>>

-----------------------------------------------------------------------------
(* Roles.                                                                  *)

CallAsAdmin(call) ==
    /\ admin \in Accounts
    /\ Calls(admin, <<call>>)
    /\ UNCHANGED <<daoVars, admin, vetoer, ledgerVars, chainVars, queuedTransactions>>

_acceptAdmin ==
    /\ pendingAdmin # Zero
    /\ admin' = pendingAdmin
    /\ pendingAdmin' = Zero
    /\ UNCHANGED <<daoVars, config, vetoer, ledgerVars, chainVars, queuedTransactions, delay>>

\* _burnVetoPower sets the vetoer to Zero, for good.
_setVetoer(new) ==
    /\ vetoer # Zero
    /\ vetoer' = new
    /\ UNCHANGED <<daoVars, config, admin, pendingAdmin, ledgerVars, chainVars,
                   queuedTransactions, delay>>

-----------------------------------------------------------------------------
(* The token and the chain.                                                *)

\* A noun is minted to a, or by a transfer or a delegation its vote moves from
\* a to b, or a noun of a is burned.
LedgerStep(newPower, newSupply) ==
    /\ block \in LedgerBlocks /\ newPower \in Powers
    /\ power' = newPower
    /\ supply' = newSupply
    /\ UNCHANGED <<daoVars, config, roleVars, chainVars, queuedTransactions, delay>>

Mint(a) == LedgerStep([power EXCEPT ![a] = @ + 1], supply + 1)

MoveVote(a, b) ==
    /\ a # b /\ power[a] > 0
    /\ LedgerStep([power EXCEPT ![a] = power[a] - 1, ![b] = power[b] + 1], supply)

Burn(a) == power[a] > 0 /\ LedgerStep([power EXCEPT ![a] = @ - 1], supply - 1)

NextBlock(step) ==
    /\ block < MaxBlock
    /\ block' = block + 1
    /\ time' = time + step
    /\ history' = Append(history, power)
    /\ UNCHANGED <<daoVars, config, roleVars, ledgerVars, queuedTransactions, delay>>

Next ==
    \/ \E a \in Accounts, actions \in ActionLists : Propose(a, actions)
    \/ \E id \in ProposalIds, a \in Accounts, support \in Supports : CastVote(id, a, support)
    \/ \E id \in ProposalIds : Queue(id)
    \/ \E id \in ProposalIds, a \in Accounts : Cancel(id, a)
    \/ \E id \in ProposalIds : Veto(id)
    \/ \E id \in ProposalIds : Execute(id)
    \/ \E call \in AdminCalls : CallAsAdmin(call)
    \/ _acceptAdmin
    \/ \E a \in Vetoers \cup {Zero} : _setVetoer(a)
    \/ \E a \in Accounts : Mint(a)
    \/ \E a, b \in Accounts : MoveVote(a, b)
    \/ \E a \in Accounts : Burn(a)
    \/ \E step \in TimeSteps : NextBlock(step)

Spec == Init /\ [][Next]_vars


-----------------------------------------------------------------------------
(* Correctness.                                                            *)

Receipt == [hasVoted : BOOLEAN, support : 0..2, votes : Nat]

Proposals ==
    [proposer : Accounts, proposalThreshold : Int, quorumVotes : Int, eta : Nat,
     actions : ActionLists, startBlock : Nat, endBlock : Nat,
     forVotes : Nat, againstVotes : Nat, abstainVotes : Nat,
     canceled : BOOLEAN, vetoed : BOOLEAN, executed : BOOLEAN,
     receipts : [Accounts -> Receipt],
     created : Nat, queued : [block : Nat, time : Nat]]

\* Every variable keeps its type, and every setting stays within the limits
\* of its setter, whatever proposals ask for.
TypeOK ==
    /\ proposals \in Seq(Proposals) /\ Len(proposals) <= MaxProposals
    /\ latestProposalIds \in [Accounts -> 0..Len(proposals)]
    /\ \A f \in Fields : config[f] \in Limits[f]
    /\ admin \in Accounts \cup {Timelock}
    /\ pendingAdmin \in Accounts \cup {Zero}
    /\ vetoer \in Accounts \cup {Zero}
    /\ power \in [Accounts -> Nat] /\ supply \in Int
    /\ history \in Seq([Accounts -> Nat]) /\ Len(history) = block - 1
    /\ block \in Nat \ {0} /\ time \in Nat /\ delay \in Delays
    /\ \A tx \in queuedTransactions : tx[2] \in Nat

\* Every vote has the weight its voter had when the proposal was made, as the
\* notes on votingDelay say: nouns acquired later do not vote.
VotesFromCreation ==
    \A id \in ProposalIds, a \in Accounts :
        proposals[id].receipts[a].hasVoted
        => proposals[id].receipts[a].votes = history[proposals[id].created][a]

Supporting(p, support) ==
    MapThenSumSet(LAMBDA a : history[p.created][a],
                  {a \in Accounts : /\ p.receipts[a].hasVoted
                                    /\ p.receipts[a].support = support})

\* A proposal is executed only if those who voted for it held, at its creation,
\* more votes than those against it, and the quorum, counting nobody twice; and
\* if nobody canceled or vetoed it, before or after.
ExecutedMeansPassed ==
    \A id \in ProposalIds :
        LET p == proposals[id]
        IN  p.executed => /\ Supporting(p, 1) > Supporting(p, 0)
                          /\ Supporting(p, 1) >= p.quorumVotes
                          /\ ~p.canceled /\ ~p.vetoed

\* A transaction waiting in the timelock belongs to a queued or expired proposal:
\* one that was canceled, vetoed or executed leaves nothing there to run.
NothingElseQueued ==
    \A tx \in queuedTransactions : \E id \in ProposalIds :
        /\ State(id) \in {"Queued", "Expired"}
        /\ tx \in Transactions(proposals[id].actions, proposals[id].eta)

\* execute(): a queued proposal can be executed once its eta has come, so all its
\* transactions are in the timelock.
QueuedCanExecute ==
    \A id \in ProposalIds :
        State(id) = "Queued"
        => Transactions(proposals[id].actions, proposals[id].eta) \subseteq queuedTransactions

\* They are, unless another proposal with one of its calls and the same eta was
\* canceled or vetoed.
QueuedUnlessShared ==
    \A id \in ProposalIds :
        LET own == Transactions(proposals[id].actions, proposals[id].eta)
        IN  State(id) = "Queued"
            => \/ own \subseteq queuedTransactions
               \/ \E other \in ProposalIds \ {id} :
                      /\ proposals[other].canceled \/ proposals[other].vetoed
                      /\ Transactions(proposals[other].actions, proposals[other].eta)
                             \cap own # {}

\* Nobody has two proposals pending or active: latestProposalIds is enough to
\* tell, though a proposer may lose and regain the votes to propose.
OneLiveProposal ==
    \A i, j \in ProposalIds :
        (/\ proposals[i].proposer = proposals[j].proposer
         /\ {State(i), State(j)} \subseteq {"Pending", "Active"}) => i = j

\* The state of each proposal, with "None" for those not made yet.
Stage == [id \in 1..MaxProposals |-> IF id \in ProposalIds THEN State(id) ELSE "None"]

Lifecycle == INSTANCE ProposalLifecycle WITH Ids <- 1..MaxProposals, stage <- Stage

\* What state() says of a proposal changes only forwards, although nothing stores
\* it: with the blocks, the votes and the clock, or to canceled or vetoed, from
\* anywhere but executed, and never back.  This is the abstract life that the
\* subgraph, the bots and the web application count on.
StatesMoveForward == Lifecycle!LifecycleSpec

Sets(calls, field, value) ==
    \E i \in DOMAIN calls : calls[i].field = field /\ calls[i].value = value

Resets == pendingAdmin' \notin {pendingAdmin, Zero}

\* What a step changes of what only an admin can change is what these calls say.
EffectOf(calls) ==
    /\ \A f \in Fields : config'[f] # config[f] => Sets(calls, f, config'[f])
    /\ delay' # delay => Sets(calls, "delay", delay')
    /\ Resets => Sets(calls, "pendingAdmin", pendingAdmin')

\* Queued after its vote, a proposal has waited for MINIMUM_DELAY by the clock.
Waited(p) == p.queued.block > p.endBlock /\ time >= p.queued.time + Min(Delays)

\* Under the timelock, what the settings, the timelock's delay and the pending admin
\* become is what the calls of the proposal say that the step executes; its vote was over
\* when it was queued, and since then at least MINIMUM_DELAY has passed, however often
\* the delay was changed meanwhile.
NoticeBeforeEffect ==
    [][ (admin = Timelock /\ (config' # config \/ delay' # delay \/ Resets))
        => \E id \in ProposalIds :
               /\ ~proposals[id].executed /\ proposals'[id].executed
               /\ Waited(proposals[id]) /\ EffectOf(proposals[id].actions) ]_vars
=============================================================================
