# Nouns: a TLA+ model of the monorepo

This directory models the programs of this repository in which something can go
wrong between two steps: the contracts (auction house, token and votes, DAO and
timelock), the subgraph that indexes them, the bots that tell of it, the web
application people bid and vote with, and the tools that encode the art and deploy
it all. TLC checks the models on small instances; TLAPS proves for all instances every
safety property that the runs check and the code fulfils. Paths below are relative to
`src/packages/`.

## The system

| Part | State it keeps | Operations | Talks to |
|---|---|---|---|
| `NounsAuctionHouse.sol` | the current auction, paused, owner, the rules of bidding, escrowed ETH | `createBid`, the two settle calls, `pause`, `unpause`, setters | mints, burns and transfers nouns; pays bidders and owner, in WETH if ETH is refused |
| `NounsToken.sol` | owners, next id, minter, nounders DAO, seeder, descriptor, locks | `mint`, `burn`, transfers, setters, locks | calls the seeder on every mint; every change of owner moves votes |
| `ERC721Checkpointable.sol` | delegates, checkpoints of votes, nonces | `delegate`, `delegateBySig`, `getPriorVotes`, the transfer hook | read by the DAO |
| `NounsDAOLogicV1.sol` | proposals, receipts, settings, admin, vetoer | `propose`, `castVote*`, `queue`, `execute`, `cancel`, `veto`, setters | reads votes of past blocks; drives the timelock |
| `NounsDAOExecutor.sol` | queued transactions, delay, admin | `queueTransaction`, `cancelTransaction`, `executeTransaction`, `setDelay` | calls anything, the DAO's setters among it; owns the house and the token |
| `NounsSeeder`, `NounsDescriptor`, `libs/` | lists of parts | adding and locking parts, drawing seeds, rendering | called by `mint` and `tokenURI` |
| `nouns-subgraph` | accounts, delegates, nouns, auctions, bids, proposals, votes, totals | one handler per event | reads the logs in order; read by bots and pages |
| `nouns-bots` | redis: the last auction, bid, ending auction and proposals told of | setup and two ticks on timers, notifications | polls the subgraph; tells Twitter and Discord |
| `nouns-webapp` | store of auction, bids, logs; forms and modals of each page | reducers, effects, timers and hooks | reads chain, subgraph and Etherscan; sends transactions |
| `nouns-sdk` | the encoder's palette and images | encoding of pictures, drawing of encoded ones | used by the page, the bots and `nouns-assets` |
| `nouns-assets`, `nouns-api` | `image-data.json`; a cache of metadata | `encode.ts`, seeds from block hashes, `getTokenMetadata` | read by page and bots; a copy in `nouns-contracts/files` is what `populate-descriptor` adds |
| `nouns-contracts/tasks` | nonces and addresses of a deployment | `deploy`, `deploy-local`, `run-local`, `populate-descriptor` | deploy the contracts |

What makes each part correct, and what is hard to test about it:

* house: it can always refund the standing bid and keeps nothing else; the lot is in
  its hands until it is delivered against its price; bidders have time to answer; no
  failed mint strands it; auctions end. Hard: a refund that fails in the middle of a
  bid, a mint that fails in the middle of a settlement, a token whose minter, seeder
  or rewards change, and rules that change, while an auction is running.
* votes: every noun is one vote of its owner's delegate; the past never changes. Hard:
  several changes of votes in a block, signatures submitted late or again.
* DAO: what is executed was voted for, by the votes of its creation, and announced
  before it happened; the timelock holds what is queued and nothing else; no proposal
  moves back. Hard: two proposals whose calls share a slot of the timelock, settings
  that change while a proposal is voted on or waits, states no variable stores.
* subgraph: its entities agree with the chain, though a handler sees one event at a
  time and the chain's later state never.
* bots: nothing is announced twice or skipped. Hard: ticks overlap each other, failing
  calls end a tick half way, a restart runs setup beside the timer.
* pages: what is shown and what is sent agrees with the chain once everything has
  arrived. Hard: fetches, events, timers, wallets and the user's own clicks in any
  order, with effects that run on whatever the state is by then.
* art and deployment: page, token and API have the same noun. Hard: transactions that are
  sent and not awaited, indexes that mean lists in two copies of a file and in a contract
  that is being filled, answers kept for good, addresses computed ahead.

## The modules

### Contracts

`NounsToken` - the ledger as the auction house sees it. One action per function;
`mint()` is the operators `RewardDue`, `MintedId`, `MintOutcome`, `WithMinted`, which
the house calls. `MintOutcome` tells a revert with a reason string from any other,
because `_createAuction` catches only the first. Setting the seeder or the descriptor
is modelled by what it may do to a mint. Functions of the token's owner may be called
at any time, for the owner is a DAO.

`NounsAuctionHouse` extends it. One action per external function, atomic because the
functions that pay are `nonReentrant` and a call that reverts leaves no trace. The
internal functions are operators: `Pay` is `_safeTransferETHWithFallback`, where
`accepted` chooses whether the recipient takes the ETH; `CreateAuction` is
`_createAuction`; `CanSettle`, `OwnersAfterSettle`, `Settled` and `PaySeller` are
`_settleAuction`. ETH and WETH are balances of every address, so money can be followed.

`NounSale` - what a seller and the bidders are promised, with no clock, escrow or
pause: lots are sold one at a time and never twice, the price never falls, and the lot
goes to the leader in the step in which the price goes from the leader to the seller.
`NounsAuctionHouse!SellsFairly` is the refinement: a trader's wealth is ETH, WETH and
the standing bid.

`ERC721Checkpointable` - the votes. Checkpoints are sequences; the binary search of
`getPriorVotes` is a recursive function of its two bounds. `_burn` is a transfer to the zero
address, which is how it moves votes. Signatures are made off chain (`Sign`) and
may be submitted at any later time (`DelegateBySig`). The history variables `history`,
`applied` and `disowned` are read by properties only.

`NounsDAOExecutor` - the timelock's operators, a flag per call and eta. The DAO's
calls run over all actions of a proposal in one transaction, so each operator takes
the whole list.

`NounsDAOLogicV1` extends it. `State(id)` is `state()`, in the order of the source.
A proposal's actions are records: the setting they change and its new value, or
`"none"` for a call elsewhere. `Calls` is what the calls of one transaction do, all or
nothing. The token is reduced to `power`, `supply` and the votes at the end of each
past block; that `getPriorVotes` answers with those is what `PriorVotesExact` of module
`ERC721Checkpointable` says. `created` and `queued` in a proposal, the moments of these
steps, are read by properties only.

`ProposalLifecycle` - the life of a proposal as everything off the chain counts on it:
a graph of states without votes or clocks. `NounsDAOLogicV1!StatesMoveForward` is the
refinement; `NounsSubgraph` is built on the same graph, so what the indexer is shown to
follow is what the DAO is shown to do.

### Indexer and bots

`NounsSubgraph` - the handlers of the token's and the DAO's events. A transaction on
the ledger leaves its events in `log`, in the order the contract emits them (a
transfer moves votes before it says so); each `handle...` action takes the oldest and
folds it into the entities. A handler reads nothing but its event and the store, so
nothing is lost by letting the next transaction wait for the handlers of the last.
The properties compare the store with the chain whenever the log is empty. Three ways
in which `handleTransfer` and `handleDelegateChanged` lose track of the nouns a
delegate represents are named by the history variable `unfollowed`, one in which an
account's nouns go wrong (a noun sent to its owner, or minted to the account that
creates nouns) by `selfMoved`; everything outside these is exact. Three aggregates are not
what the schema says of them: `currentTokenHolders` after a burn, `totalTokenHolders`, and
`proposalsQueued` once a proposal is canceled or vetoed in the queue. `HoldersReported`,
`TotalReported` and `QueueCounted`, at the end of the module, state what the schema says, and
run `governance_reported` refutes the three in one behaviour.

`NounsSubgraphAuctions` - the handlers of the auction house's events, and the queries
of the bots over their entities. A bid is stored under the hash of its transaction, so
a contract that bids twice in one is stored once.

`NounsBotsAuction` extends it: `setupAuction` and `processAuctionTick` with a step for
each await. A tick reads redis, asks the subgraph, writes redis and tells both
channels; ticks overlap, calls fail and end their tick, the process restarts and keeps
redis. `NounsBotsGovernance` - `setupGovernance` and `processGovernanceTick` in the
same way: each tick has a job for each proposal, and every vote is told by a promise
of its own. Both limit how many troubles there are, not where they strike.

### Web application

Each module is one page or one store slice with what feeds it; an effect of React runs
in the step of the change it depends on. `WebTransactions` has what the pages share:
a transaction is signed or not, mined or reverted, and the hook that sent it hears of
each stage later, whatever the page shows by then.

* `WebAuction` - `ChainSubscriber` (three calls and two listeners, with a block to
  fetch for the time of each bid), the slices `auction`, `onDisplayAuction` and
  `pastAuctions`, the path, the arrows, and what the page makes of them.
* `WebBid` - the panel of the running auction with its two timers, one of which changes
  pace, the bid form and its two transactions, the alerts, and the wallet in the
  navigation.
* `WebProposalForm` - `ProposalTransactionFormModal` with its ABI download and
  validators, the draft, the button of `CreateProposal` and what enables it.
* `WebLogs` - the `logs` slice and its updater, and the list of proposals that is made
  of contract answers and logs joined by position.
* `WebVote` - the page of a proposal: whether it offers a vote, the modal with its two
  hooks, and the buttons that queue and execute.
* `WebPlayground` - the selects, drawing nouns, and uploads that are read while the
  user goes on; the images are those the whole application draws from.
* `WebLocale` - the language: stored, imported, activated when the import ends.

### Art and deployment

`NounsImage` - `image.ts` and `png-collection-encoder.ts` as operators over pictures
(bounds, runs of one colour, one palette for all), and the two programs that draw an
encoded picture: `svg-builder.ts` and `MultiPartRLEToSVG.sol`, panics included.
`Seen` is what a viewer sees of the rects of an SVG, and `AsPainted` says that both
drawings look like the picture.

`NounsArt` extends it: `encode.ts`, run again when artists add images, and the copying of
`image-data.json` to `nouns-contracts`, which no code does; `populate-descriptor` with a
transaction per batch that is sent, and mined or out of gas later, into any of several
`NounsDescriptor`s; `NounsSeeder` with the bytes of its hash; the token's `mint`, `burn`,
`setDescriptor` and `dataURI`; `getNounSeedFromBlockHash`, `StandaloneNoun`, and the API, which
asks the token in one step and stores the answer in another. `released`, and `by` and `digest`
of a noun, are read by properties only.

`Deployment` - the tasks `deploy`, `deploy-local` and `run-local`, several runs of
which may use one account. An address is the nonce it came from, which is what the
computed addresses of proxies depend on.

Each `MC` module instantiates these for TLC. `MCNounsBots`, `MCWeb` and `MCRelease`
join modules that share no state: a behaviour is of one of them, chosen at the start.
`MCNounsDAOLogicV1` has scenes, chosen in the same way: what the accounts do and how far time
goes is bounded differently where proposals share a call and where one changes the settings.
Operators whose comment begins with "Fault" are not part of the specifications: they
are the mutations listed in `PROJECT.json` under which each property must fail.

## What TLC checks

| Run | Instance | What it shows |
|---|---|---|
| `auction_bids` | 2 bidders and a seller with 3 ETH each, all of whom may refuse ETH; 3 ids, the first a reward; buffers 0 and 2, increment 50%; 4 seconds | escrow exact, time to answer, every behaviour is a fair sale |
| `auction_token` | 1 bidder, another minter; 5 ids, rewards up to id 2; seeder ok, failing, panicking; 2 locks; 3 seconds | the lot is safe, an unpaused house is never idle, auctions end |
| `votes` | 2 accounts, 2 nouns, 4 blocks, one signer who signs for the other account or for zero, expiry at block 3 | votes agree with ownership, and the past with what happened; no signature counts twice |
| `governance` | scene `shared`: 2 accounts with 2 and 8 nouns, one of which is sold; 2 proposals that may share a call; 7 blocks. Scene `admin`: 1 proposal that may change voting period, delay or admin, within limits or not; nouns minted, sold and burned; blocks of 1 or 2 seconds; 8 blocks | votes of creation, only what passed is executed, the timelock's contents, one live proposal; no state goes back; what changes is what an executed proposal says, and was announced for the minimum delay |
| `indexer` | 3 accounts, 2 nouns, minted to one of them or to the account that creates them; 1 proposal, 6 transactions | owners, balances, votes, totals, represented nouns and proposals agree with the chain, but for the named exceptions |
| `bots` | 2 auctions with 2 bids in 2 blocks, 1 proposal with 2 voters, one of them without votes; 2 ticks of each loop; 1 failure or restart and 1 overlap | at most once for auctions and bids, at least once for proposals, nothing skipped for no reason, redis agrees in the end |
| `web` | see below | what each page shows or sends agrees with the chain |
| `release` | every picture of 3 by 3 pixels of two colours in a frame, and a second one after some of them; 2 editions of 7 and 8 files in 4 folders, batches of 2, 2 descriptors, 2 runs of `populate-descriptor` or single parts, one noun, one request to the API at a time; 2 runs of any deployment task | drawn as painted by both programs; page and token draw the same noun, the API has what the token says, seeds are foretold; proxies are where a run that was alone said |

`web`: three auctions of which the second follows a nounder noun, with two, one and one
bids, links to nouns 1 and 4; for the bid panel two auctions of three units, two
transactions and one other bidder; two functions and two ABIs of different lengths, one
transaction in the draft, two proposals being mined; five blocks and two listeners of
the logs; a vote over blocks 1 to 3 of 5 with two transactions; two uploads from three
files, one too large; two languages and a browser that may have a third.

The bounds suffice for the cases that matter. In three or four seconds an auction of
one second can be extended, ended, paused, settled and followed by another. 50% of
1 ETH rounds down to nothing and of 2 ETH does not, so both equal and raising bids
occur. Four blocks give the binary search an account with a checkpoint in each. In
seven blocks a proposal passes through every state, expiry included (delay and grace
period are one second), and both proposals can be made in one block and queued with
one eta, or one after the other by the same proposer. Threshold and quorum are the
largest the contract allows, 10% and 20%, which with ten nouns are 1 and 2 votes: the
account with two nouns can propose and reach the quorum, and cannot after selling one.
Periods and delays are scaled down from days to one or two blocks or seconds; `Limits`
and `Delays` keep what matters of their bounds, that there are values beyond them.
Six transactions suffice to mint, delegate, hand on, burn and vote, and to do one of
them twice. Two ticks and one of each trouble give every pair of steps its chance to
come in the wrong order. A byte has eight values and a seed's slice two bytes, so that
a palette can be full and a number too small to be cast. The two runs of a deployment, and
the two descriptors, are interchangeable and declared symmetric; every property treats them
alike. In `release` the second edition has another pair of glasses, painted in a further color,
so that both lists and the palette of one file begin with those of the other; a descriptor
can be filled while the token asks it, while it asks the other, twice, with a hole, or from
either edition. Five reductions bound that run (module `MCRelease`): nothing else happens
while `encode.ts` runs, which reads nothing of the rest (`Encodes`); once something has gone
wrong no further transaction is lost (`Lost`); a run first fails, or is first mixed with
another, in the palette or the heads, the lists that a seed and a drawing begin with
(`FailsThere`); artists add files while no transaction waits (`ReleasesApart`); single parts
are added to one list only (`AddsHeads`). A block lasts three units for `WebVote`, whose clock is read twice, up to two
units apart.

`CHECK_DEADLOCK FALSE` is set because time, blocks, ids and transactions are bounded:
at the bound the model stops.

Fairness is assumed for two properties. `AuctionsEnd`: blocks keep being produced, and
when an auction can be settled someone settles it, in whichever of the two ways the
house allows. The code leaves that call to everyone, and the bidder or seller has an
interest in it. Fairness is on the disjunction of the two calls, so it holds although
the owner may pause and unpause for ever. Three obstacles are named in `Blocked`.
`CachesCatchUp`: the timers of `nouns-bots/src/index.ts` keep starting ticks and every
promise settles, with an answer or an error; nothing is assumed of the subgraph.

Four runs are expected to fail, for disagreements between the code and what its
documentation, comments or tests say (`PROJECT.json`, findings):

* `votes_signed_away`: `delegateBySig` accepts a signature that delegates to zero.
  The signer's votes vanish, while `delegates()` goes on naming the signer, and the
  nouns can then not be transferred unless the signer has votes again.
* `snapshot_moves`: votes are looked up at `startBlock - votingDelay` with the current
  `votingDelay`; when a proposal changes it, votes on older proposals are no longer
  those of the block of creation. `VotesFromCreation` holds in run `governance`, where
  no proposal changes it.
* `canceled_twice`: a canceled proposal can be canceled again, which clears the slot
  that another proposal with the same call may have taken since. `QueuedUnlessShared`
  shows there is no other way to lose a queued transaction.
* `governance_reported`: the two numbers of token holders and the number of queued proposals
  are not what `schema.graphql` says (lines 227, 233 and 245). `GovernanceReported` asks only
  that one of the three be right once every event is handled, so that the state in which it
  fails shows each of them wrong: of four nouns minted to one account one was burned, and a
  proposal was queued and then canceled. The instance has two accounts, one of which owns the
  contract, so that there are more nouns than accounts; nouns are only minted and burned there
  (`MintedAndBurned`).
  `HoldingsFollow` and `ProposalsFollow` say until when they are right.

## What is proved

TLAPS checks the theorems below for all values of the constants, from the named
assumptions of the modules and nothing else. Each follows the same argument: an
inductive invariant strong enough to survive every action, with one step per action.

`NounsAuctionHouseProofs`, for any accounts, ids, settings, bounds and any mix of
refusing recipients, from the assumptions of `NounsToken` (`AddressAssumption`: zero
and the house are no accounts; `MintAssumption`) and `NounsAuctionHouse`
(`HouseAssumption`: types of the constants):

* `Invariance`: `IInv == TypeOK /\ Escrow /\ Custody /\ UnpausedMeansLive /\ Consistent`
  is inductive. None of its parts is so alone. `TypeOK` needs `Escrow`, or a refund
  could make the house's balance negative. `Escrow` needs `Consistent`: `createBid`
  does not ask whether the auction is settled, and only `settled => endTime <= now`
  keeps a bid from arriving after settlement. `Custody` needs that ids not yet
  minted have no owner and that the auctioned id was minted.
* `TypeCorrect`, `EscrowExact`, `NounInCustody`, `NeverIdleUnpaused` and
  `StateConsistent` follow from it.
* `TimeToAnswer`: the action property `BidsLeaveTimeToAnswer`. It needs
  `NewAuctionIsNew`, that a new auction never reuses the id of the last.
* `LotStays`: the action property `LotNotLost`. It rests on `Custody`: the one other
  call that takes a noun from the house is a burn by a minter that replaced it.
* `RewardsNotSold`: whatever the reward period, no reward noun is up for sale
  (`MintedIsNoReward`: a mint that hands out two ids returns the second).

The last part of the module is `Refinement`, under the same assumptions: the house
implements `NounSale`. `PayWealth` says that a payment makes its recipient richer by
its amount whether ETH or WETH is used, `BidIsRaise` that a bid makes nobody richer,
`SettleIsClose` and `CreateIsPutUp` that settling and creating are the two halves of a
sale; `StepRefines` puts them together, one step per action.

`ERC721CheckpointableProofs`, for any number of accounts, nouns, blocks and signers:
`IInv == TypeOK /\ NoVoteFromNowhere /\ NoVoteLost /\ NoReplay` is inductive. The heart
of it is counting: the nouns an account votes with are a finite set, `VotesMoved` says
what `_moveDelegates` writes, and `TransferCounts`, `MintCounts` and `DelegationCounts`
say by how much the sets of two delegates change, so that checkpoints and sets change
alike. `TypeCorrect`, `VotesAreNouns`, `VotesStay` and `SignatureOnce` follow.

`PastIsExact` is about the search of `getPriorVotes`. `Remembered` (blocks of checkpoints
ascend, and checkpoints and `history` say the same of every block that has ended) is
inductive; `SearchRight` says that the search, started with an answer between its bounds,
ends with the last checkpoint not after the block, by way of the smallest distance of the
bounds for which it would not; `PriorVotesSaid` adds the shortcuts taken before the search.

`NounsDAOLogicV1Proofs`, for any accounts, action lists, limits, delays and bounds:

* every action is first reduced to its effect on one proposal (`...Effect`), then
  `EveryStepTouches` and `EveryStepMoves` say once and for all what a step may do to
  each proposal, and `TimelockSteps` what to the timelock;
* `IInv`, the conjunction of `Typed`, `WellFormed`, `LatestIsLive`, `QueuedWaits`,
  `MissingIsShared` and `SharedIsWithdrawn`, is inductive, and `Snapshot` as long as
  `votingDelay` keeps its value (`[]DelayFixed`). `LatestIsLive` is why
  one remembered id per proposer is enough; `MissingIsShared` and `SharedIsWithdrawn`
  say that a transaction can only go missing to a proposal that was withdrawn;
  `Snapshot` relates each ballot to the block whose votes it took;
* from it `TypeCorrect` (with `RolesKept`: settings and the delay keep to their limits
  though executed proposals write them), `ProposersWait`, `TimelockClean`,
  `OnlyWithdrawalsTake`, `ExecutedWasPassed` and `LifeMovesForward`, the refinement of
  `ProposalLifecycle`;
* `VotesWeighAtCreation` and `ExecutedWasSupported` are about the behaviours in which
  `votingDelay` keeps its value: run `snapshot_moves` shows that they fail in the others.
  The second needs that tallies are sums of receipts, however many voters there are;
* `EffectsHaveNotice`: under the timelock a setting, the delay or the pending admin becomes
  only what a call of the proposal says that is executed in the step, which was queued after
  its vote and has waited for MINIMUM_DELAY by the clock. `Noticed` says of the moment of
  queueing that the shortest delay lies between it and the eta, whatever the delay was then,
  and no later step moves either.

`NounsSubgraphProofs`, for any accounts, nouns, proposals and transactions. The properties
speak of a log that has been handled; between two transactions the log holds the rest of
the events of one, and each invariant says what these will still put right:

* `TypeCorrect`: no handler meets an event or an entity of another kind;
* `ProposalsTold`, from `ProposalsInv`: one event of the DAO waits at most, and the status
  of a proposal fits its state on the chain, or that before the event which waits;
* `VotesAsOnChain`, from `VotesInv`: the changes of votes that wait start from what the
  store has and end with what the chain has, one for each delegate; the sum of the votes
  in the store and of the changes that wait is the number of nouns;
* `HoldingsAsOnChain`, from `HoldingsInv`: `Deliveries` says which noun is on its way, and
  with which events; the rest is counting, account by account (`TransferApplied`);
* `ListedAsVoted`, from `ListingInv`: lists agree with the owners and the delegates that
  the store knows by now (`KnownDelegate`), and a noun whose waiting transfer or delegation
  will go wrong is in `unfollowed` already.

The proof of `HoldingsAsOnChain` found the one case that the model had wrong: the account
that creates nouns may be minted to itself, the second of the transfers of a mint is then
one to its sender, and `Mint` did not say so. Run `indexer` has the case since.

`NounsBotsProofs`, for any numbers of ticks, proposals, voters, auctions and bids, and
without bounds on troubles; `Null` must be none of the values it is told from.

* Governance: `GovernanceInv` says of every job, and of every record in redis, that what it
  holds was told (`Accounted`), whichever ticks overlap and whatever fails. `ToldFirst` and
  `NoVotePassedOver` follow: a job writes to redis only what it has told or found there.
* Auctions: `AuctionInv` says that until ticks overlap there is one at a time, that
  redis is not older than anything told (`Older`) nor than what the tick has read
  (`Newer`), and without failures that the auction and the bid in redis are told or
  are being told. Bids are ordered by auction, block and transaction (`Before`), and the
  bid the subgraph answers with is the last of its auction (`LastBidLast`). `NothingTwice`
  and `NothingUntold` follow.

`WebProofs`, for any files, languages, logs, voters, bids, targets and pictures. `MCWeb` is
the pages side by side, and lemma `Pages` says that each keeps its own specification, so
that each has an invariant of its own. `Null` must be no number, record or ABI, and
`Random` no name of a picture.

* `ChosenLanguage`: every import that is waited for is of the language chosen last or of one
  that was being imported when it was chosen (`rivals`), and the page is in one of these or
  still to be in the chosen one (`LocaleInv`).
* `LogsInTheEnd`: the block fetched last is being fetched still, once, or its logs are in the
  store, and the store is never ahead of it (`LogsInv`).
* `VoteToldRight` and `OfferedIsOpen`: a success is told only if the DAO has the vote, and a
  vote that the DAO has comes from a transaction that the page remembers, or has
  forgotten by a reload (`VoteInv`). `DatesOrder` turns the estimated dates, and two readings
  of the clock, into blocks.
* `PanelIsTrue`: every auction that the panel shows or tells of is `Backed` by a bid that was
  placed; the poll and the timer of the time left are no further behind the clock than
  their periods (`PollInTime`, `TimerInTime`).
* `DraftIsEncoded`: every call of a draft has the arguments of its own function, and a
  function is chosen only where there is an ABI (`DraftInv`).
* `PartsAsShown`: the select of a part names what the next noun is drawn from, unless a file
  was chosen again while another was being read (`PlaygroundInv`).

Its last sections, for any nouns, bids, links and lengths of the lists, are about the page of
module `WebAuction`, and `PageInTheEnd` is their theorem. `Tells` says of the log what the
auction house's auction makes of it: nouns and amounts ascend, blocks do not descend, an
auction is settled for its last bid, the last extension counts. It holds after each of the
four kinds of events (`CreatedTells`, `BidTells`, `ExtendedTells`, `SettledTells`).
`LoadInv` is about the three calls of `loadState`; `LiveInv` says that, from the delivery of
the creation of the current auction on, and unless something was missed, the store has that
auction but for what still comes (`Stored`): each bid is in the store, or its block is being
fetched, or its event is in the rest of the log. Before that delivery nothing is claimed
but that it is to come, whatever the store holds of older auctions. `Null` must be no
auction.

`NounsImageProofs`, for any size of pictures, palette, colors and names, is about module
`NounsImage`; its specification `EncoderSpec` is of an encoder that is given any picture
under any name, again and again, or is replaced by a new one. `EncodedIsDrawn` is the theorem that it fulfils
`DrawnAsPainted`. `SizeAssumption` is all it assumes of the size: line 31 is the last of 32,
as `image.ts` has it, and a picture is not higher than wide, since
`MultiPartRLEToSVG.sol` has one table of 33 numbers for both coordinates.

* `Covers` is what encoder and drawings meet in: the rects of an image lead over every
  pixel between its bounds, line by line, each over pixels of its own color (`Stroke`,
  `Leads`), and nothing but clear pixels is outside.
* `BothDraw`: both programs place the same rects at the same places, though the contract
  gathers four at a time, and the contract panics where a number is beyond its tables or
  the palette. `CoversDraws`: so both draw the picture an image covers, and there is no
  panic. `DrawnSoFar` is the invariant of the drawing.
* `EncodeCovers`: the image of a framed picture covers it. `LineRuns` says it of the runs of
  a line, `RowLeads` of a line cut at the left and the right bound, where a whole rect may
  be left out, `BoundsAre` of the top and the bottom, which are zero until they are found.
  `BytesKept` says that nothing is lost in a byte.
* `EncoderInv`: every image covers its picture over the palette as it is now, which only
  grows (`ColorsGrow`, `CoversStays`).

`ReleaseProofs` is about the modules `NounsArt` (`ArtSpec`) and `Deployment`
(`DeploymentSpec`), for any files, hashes, sizes of batches, runs and failures.
`FilesAssumption` says that no folder is empty, that no file name is used twice and that
pictures are framed: all of the art is (`nouns-assets/src/image-data.json`: every image
keeps off the first line and the first and the last column, or is all clear).

* `ArtInv` is inductive. `Shipped` says of data in either file, in a run of
  `populate-descriptor` or in a descriptor that each image in it covers a picture. Of every
  descriptor `ReleasedInv` says that something went wrong or was added by hand, or that nothing
  is there yet and nothing on its way (`Unfilled`), or that it has what the first m transactions
  of one run add and the others are waiting, and that the nouns it minted have the seeds of the
  whole (`Filling`, `Seeded`): nothing can be minted before the last of them, since no seed can
  be drawn from an empty list and glasses come last. `PopulateTxsAre` and `FilledOn` say that
  the batches of `chunkArray` join to the lists they were cut from.
* `PageDrawsTheTokenAlways` follows by `CoversDraws`: the lists of the page begin with those of
  the descriptor (`PrefixIs`), every noun minted by the descriptor has its parts there
  (`FilledHas`, `TokenDraws`), and what the token draws the page draws alike (`PageDraws`). It
  says nothing of a descriptor that a run failed for, or that was added to by hand, nor of a
  page whose file does not begin with the copy that was added.
* `MetadataAgreesAlways`: an answer of the token is what its descriptor still says of the noun,
  whether the answer waits or is stored (`RequestsInv`, `MetadataInv`): lists are only ever
  added to, and colors added to a palette change no drawing (`GenerateStays`, `HasStays`,
  `URIStays`). No assumption is made on how the descriptor was filled.
* `SeedForetoldAlways`: shifted and cut to 48 bits, the number the page computes has the
  digits that the contract's shift and cast leave (`SameSlice`), unless it lost too many
  zeroes in front, and remainders of equal slices by equal counts are equal. The counts are
  those of the copy that was added, even while other nouns are minted by other descriptors.
* `FilesDrawnAsPainted`: `encode.ts` is an encoder of `EncoderSpec`, new with every edition.
* `DeployedAsPlannedAlways`: `DeploymentInv` says that a run which had its nonces for itself
  has its addresses in a row (`Positions`), and that the arguments in the ledger, from the
  moment they are sent, name the addresses that are yet to come (`Told`); transactions are
  appended by any run, and mining changes none (`ToldStays`, `SentAppends`).

Type correctness of all these is proved and not checked again in a run. Where a proof
needs an induction over data (the search, the sums, the answers that are the largest or
the least of a set, the folds that encode and draw) it argues with the smallest number, or
member of a finite set, for which the claim would fail, since the library's theorems of
induction cannot be used here.

Only model-checked: `AuctionsEnd` and `CachesCatchUp`, since liveness is beyond the
prover. That `InitialSupply` is the sum of the initial votes is left to the instances: the
proofs do not need it.

## What else was seen

Behaviours that the models have, or that the properties' exceptions name, and that
may surprise; no run is given to them:

* Auction house: the increment is rounded down, so that a small bid can be matched by an equal
  one, which takes the lead (`NounsAuctionHouse.sol:125`); `NounSale` allows it.
* Contracts: a proposal that holds a call twice can succeed but never be queued
  (`NounsDAOLogicV1.sol:298`).
* Subgraph: see `unfollowed` and `selfMoved` above; above all, a noun that comes to an account
  which delegates to another is listed under the receiver (`nouns-erc-721.ts:138`).
* Bots: a failure between the write to redis and a notification loses it; a state
  a proposal only passes through between two ticks is never told.
* Auction page: the subgraph's past auctions are asked for once, so a noun that was still
  running then is later shown with the bids it had; the noun before one whose start is
  unknown is dated 1 January 1970; bids of one block are sorted by time alone
  (`onDisplayAuction.ts:31`). `compareBids.ts` and `bidSorter.ts` are used nowhere.
* Governance pages: `CreateProposal` looks only at the latest proposal of all, so
  another account's newer one enables the button and the transaction reverts;
  `ProfileActivityFeed:69` joins an answer of the subgraph fetched once with
  proposals polled from the chain, by position.
* Playground: an upload moves the images that all pages draw from, until the
  application is loaded again; after a new file the select shows the old type.
* Language: a second choice can lose to an earlier, slower import (`rivals`); a browser language
  that is not supported is activated without a catalog (`useActivateLocale.ts:40`).
* Images: a picture without a clear frame loses its first line and column, which no
  shipped picture has; an index above 255 wraps, and the Playground starts at 240 colours.
* Seeds: `StandaloneNounWithSeed` leaves a noun with the all-zero seed blank. A shifted
  number with few digits is cut into its prefix `0x`, and `getNounSeedFromBlockHash` throws
  (`nouns-assets/src/utils.ts:50`); the last of the five numbers is that small about once in
  2^24 hashes. `SeedForetold` says that there is no other difference.
* Art: nothing copies `nouns-assets/src/image-data.json` to `nouns-contracts/files`. While they
  differ in more than what was added at the end, the page may draw other nouns than the token.
  `populate-descriptor` says that the descriptor is populated when its transactions are sent
  (`populate-descriptor.ts:46`): one that runs out of gas leaves a hole, and a second run adds
  everything again.
* API: what the token said of a noun is kept after the token was given another descriptor or
  the noun was burned (`nouns-api/src/utils.ts:42`); `MetadataAgrees` says that nothing else
  makes it wrong.
* Deployment: two deployments of one account that interleave leave a proxy elsewhere than
  where the timelock was told, without an error (`deploy.ts:52`).
* Tasks: `deploy-ci.ts` passes `noundersDAO` where `deploy` declares `noundersdao`.

## What is not modelled

* Contracts: events and views that only report; approvals and the marketplace registry;
  the 32 and 96 bit limits of checkpoints, out of reach of any supply of nouns; calls that
  an executed transaction makes back into the DAO; the proxies, which delegate every call,
  and replacing the code behind them; the timelock's own change of admin, after
  which every call of the DAO reverts; `ERC721Enumerable`, copied from OpenZeppelin, whose
  arrays nothing in the repository reads. A recipient of ETH may do nothing but accept or
  refuse: with 30,000 gas and the reentrancy guard it cannot come back to the house, and
  what else it may call is the token, whose calls may come before or after.
* Art: another seeder; a descriptor that is not a `NounsDescriptor`; its base URI and further
  palettes. The page's bundle is taken to have the `image-data.json` of the moment.
* Generated code: typechain's factories, the subgraph's schema classes, ABIs.
* Bots: counters kept for statistics, the text of messages, ENS names, pictures.
* Pages: delegation, profiles, noun history, ENS lookups, layout and text.
* Text: SVG, JSON, base64 and metadata are not put together character by character.
* Tasks: the prompt for gas, verification on Etherscan, `deploy-ci`, the tasks that mint.

What could come next: the timelock handed to another admin while proposals are queued;
`ERC721Enumerable`'s swap-and-pop as a refinement of a set of nouns per owner; the pages
of delegation, whose modal follows a transaction as the vote's does; the base URI
and the further palettes of `NounsDescriptor`.
