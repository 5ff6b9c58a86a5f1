------------------------- MODULE NounsAuctionHouse -------------------------
(***************************************************************************)
(* NounsAuctionHouse.sol: one noun after another is minted, auctioned and  *)
(* delivered to its highest bidder, while the bids are held in escrow.     *)
(* One action per external function; a call that reverts is no step.  The  *)
(* functions guarded by nonReentrant are atomic, and the ETH of a failed   *)
(* transfer is wrapped and sent as WETH.                                   *)
(***************************************************************************)
EXTENDS NounsToken

CONSTANTS
    Refusers,       \* accounts whose receive function may fail or run out of gas
    Owners,         \* the addresses ownership of the house may be given to
    Endowment,      \* the ETH every account starts with: bounds the bids
    Duration,       \* duration of an auction, set once by initialize
    TimeBuffers,    \* values the owner may give to timeBuffer,
    ReservePrices,  \* to reservePrice
    Percentages,    \* and to minBidIncrementPercentage
    MaxTime         \* bound: the last block.timestamp

ASSUME HouseAssumption ==
    /\ Refusers \subseteq Accounts
    /\ Owners \subseteq Accounts \cup {Zero}
    /\ Endowment \in Nat
    /\ Duration \in Nat
    /\ TimeBuffers \subseteq Nat
    /\ ReservePrices \subseteq Nat
    /\ Percentages \subseteq 0..255
    /\ MaxTime \in Nat

VARIABLES
    auction,    \* the Auction struct
    paused,
    owner,      \* owner() of the house, the NounsDAO executor once deployed
    params,     \* timeBuffer, reservePrice and minBidIncrementPercentage
    eth,        \* ETH balance of every address
    weth,       \* WETH balance of every address
    now         \* block.timestamp

houseVars == <<auction, paused, owner, params>>
moneyVars == <<eth, weth>>
vars == <<tokenVars, houseVars, moneyVars, now>>

Auctions == [nounId : NounIds, amount : Nat, startTime : Nat, endTime : Nat,
             bidder : Accounts \cup {Zero}, settled : BOOLEAN]

Params == [timeBuffer : TimeBuffers, reservePrice : ReservePrices,
           minBidIncrementPercentage : Percentages]

\* The struct as the constructor leaves it: every field zero.
NoAuction == [nounId |-> 0, amount |-> 0, startTime |-> 0, endTime |-> 0,
              bidder |-> Zero, settled |-> FALSE]

Init ==
    /\ TokenInit
    /\ auction = NoAuction
    /\ paused = TRUE
    /\ owner \in Owners \ {Zero}
    /\ params \in Params
    /\ eth = [a \in Anyone |-> IF a \in Accounts THEN Endowment ELSE 0]
    /\ weth = [a \in Anyone |-> 0]
    /\ now = 1

\* An auction that has begun and is not settled yet.
Live == auction.startTime # 0 /\ ~auction.settled

-----------------------------------------------------------------------------
(* _safeTransferETHWithFallback: escrow is the house's ETH and balances    *)
(* the ETH before the call.  accepted says whether the recipient took it.  *)

Accepts(to) == IF to \in Refusers THEN BOOLEAN ELSE {TRUE}

\* Fault: the wrapped ETH is never passed on.
Pay_KeepsWETH(balances, to, amount, accepted) ==
    IF accepted
    THEN /\ eth' = [balances EXCEPT ![House] = @ - amount, ![to] = @ + amount]
         /\ weth' = weth
    ELSE /\ eth' = [balances EXCEPT ![House] = @ - amount]
         /\ weth' = [weth EXCEPT ![House] = @ + amount]

Pay(balances, to, amount, accepted) ==
    IF accepted
    THEN /\ eth' = [balances EXCEPT ![House] = @ - amount, ![to] = @ + amount]
         /\ weth' = weth
    ELSE /\ eth' = [balances EXCEPT ![House] = @ - amount]
         /\ weth' = [weth EXCEPT ![to] = @ + amount]

-----------------------------------------------------------------------------
(* createBid(nounId) with msg.value = value.                               *)

MinimumBid_Dropped == 0  \* fault: the increment is not required

\* Solidity's integer division: an increment below one wei rounds to nothing.
MinimumBid ==
    auction.amount + (auction.amount * params.minBidIncrementPercentage) \div 100

EndAfterBid_Reset == now + params.timeBuffer  \* fault: extends unconditionally

\* A bid within timeBuffer of the end extends the auction.
EndAfterBid ==
    IF auction.endTime - now < params.timeBuffer
    THEN now + params.timeBuffer
    ELSE auction.endTime

WithBid(bidder, value) ==
    [auction EXCEPT !.amount = value, !.bidder = bidder, !.endTime = EndAfterBid]

CreateBid(nounId, bidder, value) ==
    /\ auction.nounId = nounId
    /\ now < auction.endTime
    /\ value >= params.reservePrice
    /\ value >= MinimumBid
    /\ value <= eth[bidder]
    /\ auction' = WithBid(bidder, value)
    /\ LET received == [eth EXCEPT ![bidder] = @ - value, ![House] = @ + value]
       IN  IF auction.bidder = Zero
           THEN eth' = received /\ weth' = weth
           ELSE \E accepted \in Accepts(auction.bidder) :
                    Pay(received, auction.bidder, auction.amount, accepted)
    /\ UNCHANGED <<tokenVars, paused, owner, params, now>>

-----------------------------------------------------------------------------
(* _settleAuction and _createAuction, the two halves of the settle calls.  *)

\* Fault: the house must be the minter also to deliver.
CanDeliver_Minting == minter = House /\ nounOwner[auction.nounId] # Zero

\* burn needs the house to be the minter still and the noun to exist;
\* transferFrom needs the house to own it.
CanDeliver ==
    IF auction.bidder = Zero
    THEN minter = House /\ nounOwner[auction.nounId] # Zero
    ELSE nounOwner[auction.nounId] = House

CanSettle_Early == Live /\ CanDeliver  \* fault: the end is not awaited

CanSettle ==
    /\ Live
    /\ now >= auction.endTime
    /\ CanDeliver

\* The noun goes to the bidder, or to nobody when it is burned.
OwnersAfterSettle == [nounOwner EXCEPT ![auction.nounId] = auction.bidder]

PaySeller ==
    IF auction.amount > 0
    THEN \E accepted \in Accepts(owner) : Pay(eth, owner, auction.amount, accepted)
    ELSE UNCHANGED moneyVars

\* Fault: a failed mint does not pause the house.
CreateAuction_Unpaused(owners, previous) ==
    /\ MintOutcome(House) = "error"
    /\ nounOwner' = owners
    /\ auction' = previous
    /\ paused' = FALSE
    /\ UNCHANGED nextId

\* try nouns.mint(): either an auction opens for the noun it returns, or it
\* reverts with a reason and the house pauses itself.  Any other revert is not
\* caught, and the call it is part of has no effect.
CreateAuction(owners, previous) ==
    \/ /\ MintOutcome(House) = "ok"
       /\ RoomToMint
       /\ nounOwner' = WithMinted(owners)
       /\ nextId' = MintedId + 1
       /\ auction' = [nounId |-> MintedId, amount |-> 0, startTime |-> now,
                      endTime |-> now + Duration, bidder |-> Zero, settled |-> FALSE]
       /\ paused' = FALSE
    \/ /\ MintOutcome(House) = "error"
       /\ nounOwner' = owners
       /\ auction' = previous
       /\ paused' = TRUE
       /\ UNCHANGED nextId

Settled_Forgotten == auction  \* fault: the flag is not set

Settled == [auction EXCEPT !.settled = TRUE]

SettleCurrentAndCreateNewAuction ==
    /\ ~paused
    /\ CanSettle
    /\ PaySeller
    /\ CreateAuction(OwnersAfterSettle, Settled)
    /\ UNCHANGED <<minter, noundersDAO, seeder, locked, owner, params, now>>

SettleAuction ==
    /\ paused
    /\ CanSettle
    /\ PaySeller
    /\ auction' = Settled
    /\ nounOwner' = OwnersAfterSettle
    /\ UNCHANGED <<nextId, minter, noundersDAO, seeder, locked, paused, owner,
                   params, now>>

-----------------------------------------------------------------------------
(* Calls only the owner may make: none once ownership is renounced.        *)

Pause ==
    /\ owner # Zero
    /\ ~paused
    /\ paused' = TRUE
    /\ UNCHANGED <<tokenVars, auction, owner, params, moneyVars, now>>

\* With no auction to resume, unpausing starts one; should its mint revert, the
\* house is paused again within the call.
Unpause ==
    /\ owner # Zero
    /\ paused
    /\ IF Live
       THEN paused' = FALSE /\ UNCHANGED <<nounOwner, nextId, auction>>
       ELSE CreateAuction(nounOwner, auction)
    /\ UNCHANGED <<minter, noundersDAO, seeder, locked, owner, params, moneyVars, now>>

\* setTimeBuffer, setReservePrice, setMinBidIncrementPercentage: each replaces
\* one field, also while an auction is running.
SetParams(new) ==
    /\ owner # Zero
    /\ \E field \in DOMAIN params : params' = [params EXCEPT ![field] = new[field]]
    /\ UNCHANGED <<tokenVars, auction, paused, owner, moneyVars, now>>

\* transferOwnership and renounceOwnership of OwnableUpgradeable.
TransferOwnership(new) ==
    /\ owner # Zero
    /\ owner' = new
    /\ UNCHANGED <<tokenVars, auction, paused, params, moneyVars, now>>

-----------------------------------------------------------------------------

Tick ==
    /\ now < MaxTime
    /\ now' = now + 1
    /\ UNCHANGED <<tokenVars, houseVars, moneyVars>>

TokenStep ==
    /\ TokenNext
    /\ UNCHANGED <<houseVars, moneyVars, now>>

Next ==
    \/ \E nounId \in NounIds, bidder \in Accounts, value \in 0..Endowment :
           CreateBid(nounId, bidder, value)
    \/ SettleCurrentAndCreateNewAuction
    \/ SettleAuction
    \/ Pause
    \/ Unpause
    \/ \E new \in Params : SetParams(new)
    \/ \E new \in Owners : TransferOwnership(new)
    \/ Tick
    \/ TokenStep

Spec == Init /\ [][Next]_vars

\* Anyone may settle an auction that is over, in whichever of the two ways the
\* house allows, and blocks keep being produced.
Fairness ==
    /\ WF_vars(Tick)
    /\ WF_vars(SettleCurrentAndCreateNewAuction \/ SettleAuction)

FairSpec == Spec /\ Fairness

-----------------------------------------------------------------------------
(* Correctness.                                                            *)

\* Every variable keeps its type; in particular no balance goes below zero.
TypeOK ==
    /\ TokenTypeOK
    /\ auction \in Auctions
    /\ paused \in BOOLEAN
    /\ owner \in Owners
    /\ params \in Params
    /\ eth \in [Anyone -> Nat]
    /\ weth \in [Anyone -> Nat]
    /\ now \in Nat

\* The noun on auction is in the house's hands, or another minter burned it
\* (_createAuction mints to the house and only _settleAuction gives it away).
Custody == Live => nounOwner[auction.nounId] \in {House, Zero}

\* The house leaves the noun on auction to others only by settling the auction;
\* without that, only a minter that replaced the house can burn it.
LotNotLost ==
    [][ (Live /\ nounOwner[auction.nounId] = House)
        => \/ nounOwner'[auction.nounId] = House
           \/ auction'.settled \/ auction'.nounId # auction.nounId
           \/ minter \in Accounts ]_vars

\* The house holds exactly the standing bid, whatever refunds and payments had
\* to be made in WETH: it can always refund, and keeps nothing for itself.
Escrow ==
    /\ eth[House] = IF Live THEN auction.amount ELSE 0
    /\ weth[House] = 0

\* An unpaused house is running an auction: a failed mint must have paused it,
\* or settleCurrentAndCreateNewAuction could never be called again.
UnpausedMeansLive == ~paused => Live

\* mint() returns the noun after the reward, so no reward is ever auctioned.
NeverSellsReward ==
    Live => ~(auction.nounId <= LastReward /\ auction.nounId % RewardPeriod = 0)

\* What the struct, the clock and the ids have to agree on for the guards of
\* createBid to be enough: it checks neither that an auction has begun nor that
\* it is unsettled, and relies on the clock having passed its end.
Consistent ==
    /\ now >= 1
    /\ auction.bidder = Zero => auction.amount = 0
    /\ auction.startTime = 0 => auction = NoAuction
    /\ auction.settled => auction.endTime <= now
    /\ auction.startTime # 0 => auction.nounId < nextId
    /\ \A n \in NounIds : n >= nextId => nounOwner[n] = Zero

\* No call moves the end of a running auction forward in time, and every bid
\* leaves the others at least timeBuffer to answer it, although timeBuffer may
\* change between two bids.
BidsLeaveTimeToAnswer ==
    [][ (Live /\ auction' # auction /\ auction'.nounId = auction.nounId
              /\ ~auction'.settled)
        => /\ auction'.endTime >= auction.endTime
           /\ auction'.endTime - now >= params.timeBuffer ]_vars

\* A bid, once there is one, is answered only by a bid at least as high: the
\* house delivers lots against payment, one at a time, and no one else's
\* wealth changes.
Sale == INSTANCE NounSale WITH
    Traders <- Accounts, Nobody <- Zero, Escrow <- House, Lots <- NounIds,
    open   <- Live,
    lot    <- IF auction.startTime = 0 THEN -1 ELSE auction.nounId,
    price  <- IF Live THEN auction.amount ELSE 0,
    leader <- IF Live THEN auction.bidder ELSE Zero,
    holder <- nounOwner,
    wealth <- [a \in Accounts \cup {Zero} |->
                  eth[a] + weth[a]
                  + IF Live /\ auction.bidder = a THEN auction.amount ELSE 0],
    seller <- owner

SellsFairly == Sale!SaleSpec

\* What can keep an auction that is over from being settled: a noun nobody bid
\* for while the house is not the minter, a noun another minter burned, and,
\* unless the house is paused, a mint that fails without a reason string.
Blocked ==
    \/ auction.bidder = Zero /\ minter # House
    \/ nounOwner[auction.nounId] = Zero
    \/ ~paused /\ MintOutcome(House) = "panic"

\* The model's own limits: time or noun ids run out.
BeyondBounds == auction.endTime > MaxTime \/ ~RoomToMint

\* Every auction is settled, even if the owner pauses and unpauses the house
\* over and over, unless something blocks it.
AuctionsEnd ==
    \A n \in NounIds :
        (Live /\ auction.nounId = n)
        ~> (~(Live /\ auction.nounId = n) \/ Blocked \/ BeyondBounds)
=============================================================================
