----------------------------- MODULE WebAuction -----------------------------
(***************************************************************************)
(* The auction page of the web application.  Its store is filled from two  *)
(* sides: ChainSubscriber asks the auction house for its auction and its   *)
(* bids and then listens to its events, PastAuctions asks the subgraph     *)
(* once.  What is shown follows the store, the path and the arrows.  The   *)
(* auction house is kept to its events (module NounsAuctionHouse has it in *)
(* full), with one bid per transaction.  An amount stands for its bidder:  *)
(* the two are always stored together.                                     *)
(***************************************************************************)
EXTENDS Integers, FiniteSets, WebTransactions

CONSTANTS
    MaxNoun,      \* bound: the last noun auctioned
    MaxBids,      \* bound: bids for each noun
    RewardEvery,  \* 10: each noun whose id it divides goes to the nounders
    Links,        \* nouns a link leads to
    Ours,         \* amounts the visitor bids
    HistoryMax    \* 3: bids listed under the current auction

\* What the auction house, and the store, have of an auction.
NounAuctions == [noun : Nat, amount : Nat, extensions : Nat, settled : BOOLEAN]

ASSUME WebAuctionAssumption ==
    /\ MaxNoun \in Nat /\ MaxBids \in [1..MaxNoun -> Nat]
    /\ Links \subseteq Nat /\ HistoryMax \in Nat
    /\ RewardEvery \in Nat \ {0, 1} /\ Null \notin Nat \cup NounAuctions

VARIABLES
    house,     \* the auction of the auction house
    log,       \* its events, in order
    (* ChainSubscriber. *)
    phase,     \* how far loadState is
    found,     \* how many events the query of past bids covers
    next,      \* the event delivered next
    blocks,    \* bid events whose block is being fetched, for its timestamp
    missed,    \* history: an event of this auction did not or will not get to the store
    (* The store. *)
    active,    \* auction.activeAuction
    bids,      \* auction.bids, by amount
    last,      \* onDisplayAuction.lastAuctionNounId
    onDisplay, \* onDisplayAuction.onDisplayAuctionNounId
    past,      \* how many events the subgraph's answer, in pastAuctions, covers
    (* The browser. *)
    path       \* the noun of the path, Null for "/"

chain == <<house, log>>
subscriber == <<phase, found, next, blocks, missed>>
auctionPageVars == <<chain, subscriber, active, bids, last, onDisplay, past, path>>

isNounderNoun(n) == n % RewardEvery = 0
HighestOf(S) == CHOOSE x \in S : \A y \in S : y <= x

Auction(n) == [noun |-> n, amount |-> 0, extensions |-> 0, settled |-> FALSE]

AuctionPageInit ==
    /\ house = Auction(1) /\ log = <<[kind |-> "created", noun |-> 1]>>
    /\ phase = "fetch" /\ found = 0 /\ next = 0 /\ blocks = {} /\ missed = FALSE
    /\ active = Null /\ bids = {} /\ last = Null /\ onDisplay = Null /\ past = Null
    /\ path \in {Null} \cup Links

-----------------------------------------------------------------------------
(* The auction house emits events.                                         *)

\* Whether the page hears of an event emitted now: the query covers bids up to found,
\* the subscription what comes after it was made.
Heard(kind) == phase \in {"fetch", "live"} \/ (kind = "bid" /\ phase = "query")

Emit(auction, events) ==
    /\ house' = auction
    /\ log' = log \o events
    /\ missed' = (missed \/ \E i \in 1..Len(events) : ~Heard(events[i].kind))
    /\ UNCHANGED <<phase, found, next, blocks, active, bids, last, onDisplay, past, path>>

\* createBid, which may extend the auction.  Two bids may be of one block.
Bid(extended, sameBlock) ==
    LET n == house.noun
        amount == house.amount + 1
        block == IF sameBlock THEN log[Len(log)].block ELSE Len(log) + 1
        extensions == house.extensions + (IF extended THEN 1 ELSE 0)
    IN  /\ ~house.settled /\ house.amount < MaxBids[n]
        /\ extended => amount = MaxBids[n]  \* bound: only the last bid extends
        /\ sameBlock => log[Len(log)].kind = "bid"
        /\ Emit([house EXCEPT !.amount = amount, !.extensions = extensions],
                <<[kind |-> "bid", noun |-> n, amount |-> amount, block |-> block]>>
                \o IF extended THEN <<[kind |-> "extended", noun |-> n,
                                       extensions |-> extensions]>> ELSE <<>>)

\* The auction is settled, and the next one created at once or after a pause.
Settle ==
    /\ ~house.settled
    /\ Emit([house EXCEPT !.settled = TRUE],
            <<[kind |-> "settled", noun |-> house.noun, amount |-> house.amount]>>)

Create ==
    LET n == IF isNounderNoun(house.noun + 1) THEN house.noun + 2 ELSE house.noun + 1
    IN  /\ house.settled /\ n <= MaxNoun
        /\ Emit(Auction(n), <<[kind |-> "created", noun |-> n]>>)

-----------------------------------------------------------------------------
(* loadState, a step from one await to the next.                           *)

\* setFullAuction and setLastAuctionNounId.
FetchAuction ==
    /\ phase = "fetch"
    /\ phase' = "query"
    /\ active' = house /\ last' = house.noun
    /\ UNCHANGED <<chain, found, next, blocks, missed, bids, onDisplay, past, path>>

QueryBids ==
    /\ phase = "query"
    /\ phase' = "subscribe" /\ found' = Len(log)
    /\ UNCHANGED <<chain, next, blocks, missed, active, bids, last, onDisplay, past, path>>

\* The bids found go the way of those to come.
Subscribe ==
    /\ phase = "subscribe"
    /\ phase' = "live" /\ next' = Len(log) + 1
    /\ blocks' = {i \in 1..found : log[i].kind = "bid"} /\ found' = 0
    /\ UNCHANGED <<chain, missed, active, bids, last, onDisplay, past, path>>

\* The rejection of one of these calls ends it, and nothing tries again.
LoadFails ==
    /\ phase \in {"fetch", "query", "subscribe"}
    /\ phase' = "failed"
    /\ UNCHANGED <<chain, found, next, blocks, missed, active, bids, last, onDisplay, past,
                   path>>

-----------------------------------------------------------------------------
(* Events and reducers.                                                    *)

auctionsEqual(event) == active # Null /\ active.noun = event.noun

Event == log[next]
Delivered(kind) ==
    /\ phase = "live" /\ next <= Len(log)
    /\ Event.kind = kind
    /\ next' = next + 1

\* setActiveAuction, then the new auction is displayed.  The path pushed is not that of
\* App's own BrowserRouter, which does not notice.
processAuctionCreated ==
    /\ Delivered("created")
    /\ active' = Auction(Event.noun) /\ bids' = {}
    /\ onDisplay' = Event.noun /\ last' = Event.noun
    /\ missed' = FALSE
    /\ UNCHANGED <<chain, phase, found, blocks, past, path>>

\* setAuctionExtended.
processAuctionExtended ==
    /\ Delivered("extended")
    /\ active' = IF auctionsEqual(Event)
                 THEN [active EXCEPT !.extensions = Event.extensions] ELSE active
    /\ UNCHANGED <<chain, phase, found, blocks, missed, bids, last, onDisplay, past, path>>

\* setAuctionSettled.
processAuctionSettled ==
    /\ Delivered("settled")
    /\ active' = IF auctionsEqual(Event)
                 THEN [active EXCEPT !.settled = TRUE, !.amount = Event.amount] ELSE active
    /\ UNCHANGED <<chain, phase, found, blocks, missed, bids, last, onDisplay, past, path>>

\* processBidFilter: the block is fetched first, while other events go ahead.
processBidFilter ==
    /\ Delivered("bid")
    /\ blocks' = blocks \cup {next}
    /\ UNCHANGED <<chain, phase, found, missed, active, bids, last, onDisplay, past, path>>

\* Fault: the bid that came last counts.
maxBid_Latest(S, event) == event.amount

maxBid(S, event) == HighestOf(S)

appendBid(i) ==
    LET event == log[i]
        after == bids \cup {event.amount}
    IN  /\ i \in blocks
        /\ blocks' = blocks \ {i}
        /\ IF auctionsEqual(event) /\ event.amount \notin bids
           THEN /\ bids' = after
                /\ active' = [active EXCEPT !.amount = maxBid(after, event)]
           ELSE UNCHANGED <<bids, active>>
        /\ UNCHANGED <<chain, phase, found, next, missed, last, onDisplay, past, path>>

\* The block cannot be fetched, and the bid is lost.
LoseBid(i) ==
    /\ i \in blocks
    /\ blocks' = blocks \ {i}
    /\ missed' = (missed \/ auctionsEqual(log[i]))
    /\ UNCHANGED <<chain, phase, found, next, active, bids, last, onDisplay, past, path>>

-----------------------------------------------------------------------------
(* What is displayed.                                                      *)

\* The events of a kind of noun n among the first k.
EventsOf(kind, n, k) == {i \in 1..k : log[i].kind = kind /\ log[i].noun = n}
BidsOf(n, k) == {log[i].amount : i \in EventsOf("bid", n, k)}

\* When the auction was created; 0 is the beginning of 1970.
StartTime(n, k) == HighestOf({0} \cup EventsOf("created", n, k))

\* What the subgraph answers after the first k events.
latestAuctionsQuery(k) ==
    [n \in {m \in 1..MaxNoun : EventsOf("created", m, k) # {}} |->
        [amount |-> HighestOf({0} \cup BidsOf(n, k)), startTime |-> StartTime(n, k),
         bids |-> BidsOf(n, k)]]

reduxSafePastAuctions(data) ==
    [n \in DOMAIN data |->
        [noun |-> n, amount |-> data[n].amount, startTime |-> data[n].startTime,
         bids |-> data[n].bids]]

\* The query is not polled: its result stays that of the first answer.
AddPastAuctions ==
    /\ past = Null
    /\ past' = Len(log)
    /\ UNCHANGED <<chain, subscriber, active, bids, last, onDisplay, path>>

pastAuctions == reduxSafePastAuctions(latestAuctionsQuery(IF past = Null THEN 0 ELSE past))
findAuction(n) == LET all == pastAuctions IN IF n \in DOMAIN all THEN all[n] ELSE Null

deserializeAuction(auction, startTime) ==
    [noun |-> auction.noun, amount |-> auction.amount, startTime |-> startTime]

\* A noun of the nounders has no auction: it is dated by the one above it.
generateEmptyNounderAuction(n) ==
    [noun |-> n, amount |-> 0,
     startTime |-> IF findAuction(n + 1) = Null THEN 0 ELSE findAuction(n + 1).startTime]

\* The auction shown, or Null.
useOnDisplayAuction ==
    IF onDisplay = Null \/ active = Null THEN Null
    ELSE IF onDisplay = active.noun
         THEN deserializeAuction(active, StartTime(active.noun, Len(log)))
    ELSE IF isNounderNoun(onDisplay) THEN generateEmptyNounderAuction(onDisplay)
    ELSE IF findAuction(onDisplay) = Null THEN Null
    ELSE deserializeAuction(findAuction(onDisplay), findAuction(onDisplay).startTime)

useAuctionBids(n) ==
    IF n = last THEN bids
    ELSE IF findAuction(n) = Null THEN {} ELSE findAuction(n).bids

\* deserializeBids sorts by the time of the block alone: bids of one block are left in
\* the order the chain's events or the subgraph gave them, which may be any.
Block(n, amount) ==
    log[CHOOSE i \in EventsOf("bid", n, Len(log)) : log[i].amount = amount].block
LaterThan(n, amount) == {b \in useAuctionBids(n) : Block(n, b) > Block(n, amount)}

\* The effect of AuctionPage, run after rendering.
OnDisplayAfterEffect ==
    IF last = Null THEN onDisplay
    ELSE IF path = Null \/ path > last THEN last
    ELSE IF useOnDisplayAuction = Null THEN path
    ELSE onDisplay

AuctionPageEffect ==
    /\ onDisplay' = OnDisplayAfterEffect /\ onDisplay' # onDisplay
    /\ UNCHANGED <<chain, subscriber, active, bids, last, past, path>>

\* The arrows, disabled at the first and the last noun.
AuctionNavigation(n) == [isFirstAuction |-> n = 0, isLastAuction |-> n = last]

prevAuctionHandler ==
    /\ last # Null /\ useOnDisplayAuction # Null
    /\ ~AuctionNavigation(useOnDisplayAuction.noun).isFirstAuction
    /\ onDisplay' = onDisplay - 1
    /\ path' = useOnDisplayAuction.noun - 1
    /\ UNCHANGED <<chain, subscriber, active, bids, last, past>>

nextAuctionHandler ==
    /\ last # Null /\ useOnDisplayAuction # Null
    /\ ~AuctionNavigation(useOnDisplayAuction.noun).isLastAuction
    /\ onDisplay' = onDisplay + 1
    /\ path' = useOnDisplayAuction.noun + 1
    /\ UNCHANGED <<chain, subscriber, active, bids, last, past>>

\* A click on the picture of a noun that exists.
onClickNoun(n) ==
    /\ onDisplay' = n /\ path' = n
    /\ UNCHANGED <<chain, subscriber, active, bids, last, past>>

\* A link within the application, or the browser's back and forward buttons.
Visit(p) ==
    /\ path' = p /\ p # path
    /\ UNCHANGED <<chain, subscriber, active, bids, last, onDisplay, past>>

-----------------------------------------------------------------------------
HouseNext == Settle \/ Create \/ \E extended, sameBlock \in BOOLEAN : Bid(extended, sameBlock)

SubscriberNext ==
    \/ FetchAuction \/ QueryBids \/ Subscribe \/ LoadFails
    \/ processAuctionCreated \/ processAuctionExtended \/ processAuctionSettled
    \/ processBidFilter
    \/ \E i \in blocks : appendBid(i) \/ LoseBid(i)

ViewNext ==
    \/ AddPastAuctions \/ AuctionPageEffect
    \/ prevAuctionHandler \/ nextAuctionHandler
    \/ \E n \in Links : n <= house.noun /\ onClickNoun(n)
    \/ \E p \in {Null} \cup Links : Visit(p)

AuctionPageNext == HouseNext \/ SubscriberNext \/ ViewNext

-----------------------------------------------------------------------------
(* The contents of the page.                                               *)

\* The bids listed, newest first, and the one with the trophy; any of those that tie.
BidHistory(n) ==
    {b \in useAuctionBids(n) : Cardinality(LaterThan(n, b)) < HistoryMax}
BidHistoryModal(n) == useAuctionBids(n)
Trophies(n) == {b \in useAuctionBids(n) : LaterThan(n, b) = {}}

\* Who is named as the winner; a bidder is known by the amount.
Winner(amount, isNounders) ==
    [name |-> IF isNounders THEN "nounders.eth"
              ELSE IF amount \in Ours THEN "You" ELSE "bidder",
     amount |-> amount]

CurrentBid(amount, auctionEnded) ==
    [title |-> IF auctionEnded THEN "Winning bid" ELSE "Current bid", amount |-> amount]

\* The day a noun was minted.
NounInfoRowBirthday(n) ==
    LET auction == findAuction(IF isNounderNoun(n) THEN n + 1 ELSE n)
    IN  IF auction = Null THEN 0 ELSE auction.startTime

NounInfoCard(n) ==
    [birthday |-> NounInfoRowBirthday(n), bidHistory |-> BidHistoryModal(n)]

NounderNounContent(auction) ==
    [panel |-> "nounders", noun |-> auction.noun, date |-> auction.startTime,
     currentBid |-> CurrentBid(Null, TRUE), winner |-> Winner(Null, TRUE)]

\* The current auction can be bid in, below its newest bids; one that is over has a card.
\* Whether it has ended is followed in module WebBid.
AuctionActivity(auction, auctionEnded) ==
    LET isLastAuction == auction.noun = last
    IN  [panel |-> "activity", noun |-> auction.noun, date |-> auction.startTime,
         currentBid |-> CurrentBid(auction.amount, auctionEnded),
         winner |-> IF auctionEnded THEN Winner(auction.amount, FALSE) ELSE Null,
         bid |-> isLastAuction,
         newest |-> IF isLastAuction THEN BidHistory(auction.noun) ELSE {},
         card |-> IF isLastAuction THEN Null ELSE NounInfoCard(auction.noun),
         allBids |-> isLastAuction /\ auction.amount # 0]

\* What is beside the noun's picture.
AuctionContent(auctionEnded) ==
    LET auction == useOnDisplayAuction
    IN  IF auction = Null THEN Null
        ELSE IF isNounderNoun(auction.noun) THEN NounderNounContent(auction)
        ELSE AuctionActivity(auction, auctionEnded)

\* Below it: the noun's votes, or the banner when the current auction is shown.
ActivityFeed == useOnDisplayAuction # Null /\ useOnDisplayAuction.noun # last

-----------------------------------------------------------------------------
(* Correctness.                                                            *)

Delivering == next <= Len(log) \/ blocks # {}

\* What is shown of an auction that runs, or was last, is what the auction house has.
CurrentShown(shown) ==
    /\ shown.bid /\ ~ActivityFeed /\ shown.card = Null
    /\ shown.currentBid.amount = house.amount
    /\ shown.allBids <=> house.amount > 0
    /\ \A b \in 1..house.amount : house.amount - b < HistoryMax => b \in shown.newest
    /\ house.amount > 0 => house.amount \in Trophies(house.noun)

\* One that was over when the subgraph answered is shown with its last bid and bidder.
PastShown(shown) ==
    LET n == shown.noun
        final == {log[i].amount : i \in EventsOf("settled", n, past)}
    IN  /\ ~shown.bid /\ ActivityFeed
        /\ shown.date = shown.card.birthday /\ shown.date \in EventsOf("created", n, past)
        /\ \A amount \in final :
            /\ shown.currentBid.amount = amount
            /\ shown.winner.name = "You" <=> amount \in Ours
            /\ shown.card.bidHistory = 1..amount
            /\ amount > 0 => amount \in Trophies(n)

\* Bids are stored late and in any order, between the events of other auctions.  When
\* everything is delivered and nothing of this auction was missed (between the calls of
\* loadState, or for want of a block), the store agrees with the auction house, and
\* whatever the path, the arrows and the events did, the page shows a noun that was
\* auctioned or given to the nounders, and of it what the chain has.
PageCatchesUp ==
    (phase = "live" /\ ~Delivering /\ ~missed) =>
        /\ active = house /\ bids = 1..house.amount
        /\ LET shown == AuctionContent(TRUE)
           IN  shown # Null =>
                /\ shown.noun \in 0..house.noun
                /\ IF shown.noun = house.noun
                   THEN CurrentShown(shown) /\ CurrentShown(AuctionContent(FALSE))
                   ELSE IF shown.panel = "nounders"
                   THEN shown.date \in {0} \cup EventsOf("created", shown.noun + 1, Len(log))
                   ELSE PastShown(shown)
=============================================================================
