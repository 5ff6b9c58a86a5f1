------------------------------- MODULE WebBid -------------------------------
(***************************************************************************)
(* The panel of the current auction on the web page: its timers, the bid   *)
(* form, the transactions it sends and the wallet that signs them.  The    *)
(* auction house is kept to what the panel learns of it, and its events    *)
(* come in order, some time later.  An effect of React runs in the step of *)
(* the change it depends on.  A step of an amount stands for the minimum   *)
(* increment, and amount 1 for the reserve price.                          *)
(***************************************************************************)
EXTENDS Integers, WebTransactions

CONSTANTS
    Users,        \* accounts the wallet may connect
    Rival,        \* the other bidders
    Duration,     \* of an auction, in units of the fast timer (1 s)
    TimeBuffer,   \* time left after a late bid
    FinalStretch, \* 300: when the panel starts to look at the clock at every unit
    SlowPoll,     \* 30: until then, it looks each time so much has passed
    SettleAfter,  \* 300: the settle button is enabled so long after the end
    MaxAmount,    \* bound: the highest bid
    MaxTime,      \* bound: the clock
    MaxAuctions,  \* bound: auctions
    MaxBidTx      \* bound: transactions sent from the page

ASSUME WebBidAssumption ==
    /\ Rival \notin Users /\ Null \notin Nat \cup Users \cup {Rival}
    /\ Duration \in Nat \ {0}
    /\ {TimeBuffer, SettleAfter, MaxAmount, MaxTime, MaxAuctions, MaxBidTx}
          \subseteq Nat
    /\ FinalStretch \in Nat /\ SlowPoll \in 1..FinalStretch

VARIABLES
    clock,      \* the time, of the block and of the browser
    sale,       \* the auction of the auction house
    placed,     \* history: the bids it has taken
    news,       \* what its events, not delivered yet, make of the auction
    auction,    \* the auction shown
    ended,      \* auctionEnded
    poll,       \* when the panel's timeout expires, Null for none
    timer,      \* AuctionTimer: the time left it shows, and when its timeout expires
    account,    \* activeAccount
    connecting, \* WalletConnectModal is shown: showConnectModal and no account
    form,       \* the state of Bid: input, loading, and of the two transactions it follows
    modal,      \* the alert shown, Null for none
    bidTxs      \* the transactions sent

panel == <<auction, ended, poll, timer>>
bidVars == <<clock, sale, placed, news, panel, account, connecting, form, modal, bidTxs>>

\* What is bid, or typed in: an emptied field is left out, as any other amount but the one
\* sent is the same to the page.
Amounts == 1..MaxAmount
EmptyForm == [input |-> 0, loading |-> FALSE, bid |-> "None", settle |-> "None"]
Opened(n) == [noun |-> n, amount |-> 0, bidder |-> Null, end |-> clock + Duration]

-----------------------------------------------------------------------------
(* The timers and effects.                                                 *)

PollAfter(left) == IF left > FinalStretch THEN SlowPoll ELSE 1

\* The effect of AuctionActivity, at time t.
Ends(a, t) == t >= a.end
NextPoll(a, t) == IF Ends(a, t) THEN Null ELSE t + PollAfter(a.end - t)

\* The effect of AuctionTimer: it does not trust its own count, but reads the clock.
TimerOf(a, t) ==
    IF Ends(a, t) THEN [left |-> 0, due |-> Null] ELSE [left |-> a.end - t, due |-> t + 1]

\* Fault: any transaction of the account will do.
isCorrectTx_Any(f, a) == TRUE

\* Allows the user to bid again so long as it is not the same transaction.
isCorrectTx(f, a) == f.input = a.amount

\* The effect that tells of a bid once the store has it.  The field is emptied, unless
\* React writes its own state back.
BidTold(f, a, who) ==
    /\ who # Null /\ f.bid = "Mining" /\ a.bidder = who
    /\ isCorrectTx(f, a)

\* The effects that follow the state of the two transactions.
FormOf(f, isEnded) ==
    LET status == IF isEnded THEN f.settle ELSE f.bid
    IN  CASE status = "Mining" -> [f EXCEPT !.loading = TRUE]
          [] status \in {"None", "Fail", "Exception"} -> [f EXCEPT !.loading = FALSE]
          [] status = "Success" /\ isEnded -> [f EXCEPT !.loading = FALSE]
          [] OTHER -> f
AlertOf(f, isEnded) ==
    LET status == IF isEnded THEN f.settle ELSE f.bid
    IN  CASE status \in {"Fail", "Exception"} -> [kind |-> "error"]
          [] status = "Success" /\ isEnded -> [kind |-> "settled"]
          [] OTHER -> modal

\* The panel is rendered with form f, auction a and account who; changed says whether
\* the state of a transaction, or that the auction ended, did.
Effects(f, a, who, isEnded, changed) ==
    LET g == IF changed THEN FormOf(f, isEnded) ELSE f
    IN  IF ~isEnded /\ BidTold(f, a, who)
        THEN /\ modal' = [kind |-> "placed", noun |-> a.noun, amount |-> f.input, by |-> who]
             /\ \E input \in {0, f.input} :
                   form' = [g EXCEPT !.bid = "Success", !.loading = FALSE, !.input = input]
        ELSE /\ form' = g
             /\ modal' = IF changed THEN AlertOf(f, isEnded) ELSE modal

\* The auction shown is looked at: after an event or a timeout.
Show(a) ==
    /\ auction' = a
    /\ ended' = Ends(a, clock) /\ poll' = NextPoll(a, clock)
    /\ timer' = IF a # auction THEN TimerOf(a, clock) ELSE timer
    /\ IF a.noun # auction.noun
       THEN form' = EmptyForm /\ UNCHANGED modal  \* Bid is mounted anew
       ELSE Effects(form, a, account, ended', ended' # ended)

-----------------------------------------------------------------------------
(* The auction house.                                                      *)

WillTake(noun, amount) ==
    noun = sale.noun /\ clock < sale.end /\ amount > sale.amount

\* A bid is an event, its extension of the auction another.
Take(who, amount) ==
    LET bid == [sale EXCEPT !.amount = amount, !.bidder = who]
        late == sale.end - clock < TimeBuffer
        after == IF late THEN [bid EXCEPT !.end = clock + TimeBuffer] ELSE bid
    IN  /\ sale' = after
        /\ placed' = placed \cup {[noun |-> sale.noun, amount |-> amount, by |-> who]}
        /\ news' = news \o (IF late THEN <<bid, after>> ELSE <<bid>>)

SettleHouse ==
    /\ sale' = Opened(sale.noun + 1)
    /\ news' = Append(news, Opened(sale.noun + 1))
    /\ UNCHANGED placed

RivalBids(amount) ==
    /\ WillTake(sale.noun, amount)
    /\ Take(Rival, amount)
    /\ UNCHANGED <<clock, panel, account, connecting, form, modal, bidTxs>>

OtherSettles ==
    /\ clock >= sale.end /\ sale.noun < MaxAuctions
    /\ SettleHouse
    /\ UNCHANGED <<clock, panel, account, connecting, form, modal, bidTxs>>

DeliverNews ==
    /\ news # <<>>
    /\ news' = Tail(news)
    /\ Show(Head(news))
    /\ UNCHANGED <<clock, sale, placed, account, connecting, bidTxs>>

\* Time does not pass a timeout that is due.
Tick ==
    /\ clock < MaxTime /\ poll # clock /\ timer.due # clock
    /\ clock' = clock + 1
    /\ UNCHANGED <<sale, placed, news, panel, account, connecting, form, modal,
                   bidTxs>>

Poll ==
    /\ poll = clock
    /\ Show(auction)
    /\ UNCHANGED <<clock, sale, placed, news, account, connecting, bidTxs>>

\* One less is left, until the effect has read the clock.
CountDown ==
    /\ timer.due = clock
    /\ timer' = TimerOf(auction, clock)
    /\ UNCHANGED <<clock, sale, placed, news, auction, ended, poll, account, connecting, form,
                   modal, bidTxs>>

-----------------------------------------------------------------------------
(* The form.                                                               *)

isDisabled == form.bid = "Mining" \/ form.settle = "Mining" \/ account = Null

bidInputHandler(amount) ==
    /\ ~ended
    /\ form' = [form EXCEPT !.input = amount]
    /\ UNCHANGED <<clock, sale, placed, news, panel, account, connecting, modal,
                   bidTxs>>

minBid == auction.amount + 1

SendBidTx(kind, stage) ==
    /\ Len(bidTxs) < MaxBidTx
    /\ bidTxs' = Append(bidTxs, [kind |-> kind, noun |-> auction.noun, amount |-> form.input,
                           by |-> account, stage |-> stage])

\* Another click is possible until the transaction is signed.
placeBidHandler ==
    /\ ~ended /\ ~isDisabled /\ form.input # 0
    /\ IF form.input < minBid
       THEN /\ modal' = [kind |-> "error"]
            /\ minBid <= MaxAmount /\ form' = [form EXCEPT !.input = minBid]
            /\ UNCHANGED bidTxs
       ELSE SendBidTx("bid", "estimating") /\ UNCHANGED <<form, modal>>
    /\ UNCHANGED <<clock, sale, placed, news, panel, account, connecting>>

\* SettleManuallyBtn, there while the auction is ended and a wallet connected.
settleEnabled == ended /\ account # Null /\ clock >= auction.end + SettleAfter

settleAuctionHandler ==
    /\ settleEnabled
    /\ SendBidTx("settle", "signing")
    /\ UNCHANGED <<clock, sale, placed, news, panel, account, connecting, form,
                   modal>>

-----------------------------------------------------------------------------
(* A transaction: estimated, signed, mined, and its state reported.        *)

\* Of a transaction that is over the page remembers nothing.
BidTxTo(t, stage) ==
    bidTxs' = IF stage = "dead" THEN [bidTxs EXCEPT ![t] = [stage |-> "dead"]]
              ELSE Progress(bidTxs, t, stage)

\* The state of the transaction is set, if the form it was sent from is still there.
ReportBidTx(t, status) ==
    IF bidTxs[t].noun # auction.noun THEN UNCHANGED <<form, modal>>
    ELSE IF bidTxs[t].kind = "bid"
    THEN Effects([form EXCEPT !.bid = status], auction, account, ended, ~ended)
    ELSE Effects([form EXCEPT !.settle = status], auction, account, ended, ended)

\* estimateGas fails for a bid that would be reverted, and nobody catches it.
Estimated(t) ==
    /\ bidTxs[t].stage = "estimating"
    /\ BidTxTo(t, IF WillTake(bidTxs[t].noun, bidTxs[t].amount) THEN "signing" ELSE "dead")
    /\ UNCHANGED <<clock, sale, placed, news, panel, account, connecting, form,
                   modal>>

SignBidTx(t) ==
    /\ bidTxs[t].stage = "signing" /\ account = bidTxs[t].by
    /\ BidTxTo(t, "mining") /\ ReportBidTx(t, "Mining")
    /\ UNCHANGED <<clock, sale, placed, news, panel, account, connecting>>

RejectBidTx(t) ==
    /\ bidTxs[t].stage = "signing"
    /\ BidTxTo(t, "dead") /\ ReportBidTx(t, "Exception")
    /\ UNCHANGED <<clock, sale, placed, news, panel, account, connecting>>

MineBidTx(t) ==
    LET ok == IF bidTxs[t].kind = "bid" THEN WillTake(bidTxs[t].noun, bidTxs[t].amount)
              ELSE clock >= sale.end /\ sale.noun < MaxAuctions
    IN  /\ bidTxs[t].stage = "mining"
        /\ BidTxTo(t, IF ok THEN "mined" ELSE "reverted")
        /\ IF ~ok THEN UNCHANGED <<sale, placed, news>>
           ELSE IF bidTxs[t].kind = "bid" THEN Take(bidTxs[t].by, bidTxs[t].amount)
           ELSE SettleHouse
        /\ UNCHANGED <<clock, panel, account, connecting, form, modal>>

BidTxMined(t) ==
    /\ IsMined(bidTxs[t])
    /\ BidTxTo(t, "dead")
    /\ ReportBidTx(t, Outcome(bidTxs[t]))
    /\ UNCHANGED <<clock, sale, placed, news, panel, account, connecting>>

-----------------------------------------------------------------------------
(* The wallet.                                                             *)

\* App copies the account of the wallet to the store.
setActiveAccount(who) ==
    /\ account' = who
    /\ Effects(form, auction, who, ended, FALSE)

switchWalletHandler ==
    /\ setActiveAccount(Null) /\ connecting' = TRUE
    /\ UNCHANGED <<clock, sale, placed, news, panel, bidTxs>>

disconnectWalletHandler ==
    /\ setActiveAccount(Null) /\ connecting' = FALSE
    /\ UNCHANGED <<clock, sale, placed, news, panel, bidTxs>>

setModalStateHandler(shown) ==
    /\ connecting' = shown
    /\ UNCHANGED <<clock, sale, placed, news, panel, account, form, modal, bidTxs>>

\* The menu of a connected wallet; without one the button that connects, and the modal's
\* own that dismisses it.
CustomMenu == switchWalletHandler \/ disconnectWalletHandler
NavWallet ==
    \/ account # Null /\ CustomMenu
    \/ account = Null /\ setModalStateHandler(~connecting)

\* A wallet of WalletConnectModal is chosen.
activate(who) ==
    /\ account = Null /\ connecting
    /\ setActiveAccount(who) /\ connecting' = FALSE
    /\ UNCHANGED <<clock, sale, placed, news, panel, bidTxs>>

CloseAlert ==
    /\ modal # Null /\ modal' = Null
    /\ UNCHANGED <<clock, sale, placed, news, panel, account, connecting, form,
                   bidTxs>>

-----------------------------------------------------------------------------
BidInit ==
    /\ clock = 0 /\ sale = Opened(1) /\ placed = {} /\ news = <<>>
    /\ auction = sale /\ ended = FALSE /\ poll = NextPoll(auction, 0)
    /\ timer = TimerOf(auction, 0)
    /\ account \in Users \cup {Null} /\ connecting = FALSE
    /\ form = EmptyForm /\ modal = Null /\ bidTxs = <<>>

BidNext ==
    \/ DeliverNews \/ Tick \/ Poll \/ CountDown \/ OtherSettles
    \/ \E amount \in Amounts : RivalBids(amount) \/ bidInputHandler(amount)
    \/ placeBidHandler \/ settleAuctionHandler
    \/ \E t \in DOMAIN bidTxs :
          Estimated(t) \/ SignBidTx(t) \/ RejectBidTx(t) \/ MineBidTx(t) \/ BidTxMined(t)
    \/ NavWallet \/ CloseAlert
    \/ \E who \in Users : activate(who)

-----------------------------------------------------------------------------
(* Correctness.                                                            *)

\* The page tells of a placed bid from the state of one transaction, the amount in the
\* field and the auction in the store, each of which changes on its own: the bid told of
\* is one that the connected account has placed.  And whether the auction shown has ended
\* it knows from one timeout, the time left from another, both started anew as the end
\* moves: once those that are due have expired, the two agree with the clock.
PanelTellsTruth ==
    /\ (modal # Null /\ modal.kind = "placed") =>
           [noun |-> modal.noun, amount |-> modal.amount, by |-> modal.by] \in placed
    /\ (poll # clock /\ timer.due # clock) =>
           /\ ended <=> clock >= auction.end
           /\ timer.left = IF ended THEN 0 ELSE auction.end - clock
=============================================================================
