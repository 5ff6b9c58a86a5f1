-------------------------- MODULE NounsBotsAuction --------------------------
(***************************************************************************)
(* The bots' auction loop: every 30 seconds a timer starts                 *)
(* processAuctionTick, which compares what redis holds with what the       *)
(* subgraph says and has Twitter and Discord told of what is new.  Ticks   *)
(* are not awaited: a slow one overlaps the next.  A rejected promise ends *)
(* its tick; the process may be restarted at any time, after which         *)
(* setupAuction runs next to the timer.  Redis survives.                   *)
(***************************************************************************)
EXTENDS NounsSubgraphAuctions

CONSTANTS
    Ticks,      \* how many ticks may be under way at once
    MaxTroubles \* bound: failed calls, restarts, and ticks that overlap another or setup

ASSUME BotsAssumption == MaxTroubles \in Nat

VARIABLES
    tick,          \* the ticks under way
    setup,         \* setupAuction: how far it is, and the auction it found, or 0
    auctionCache,  \* redis: the last auction told of, 0 when empty
    bidCache,      \* redis: the last bid told of
    soonCache,     \* redis: the last auction told to end soon
    replyTweet,    \* redis: the auction in whose thread Twitter replies, Null
    (* History: the first two are kept until ticks overlap. *)
    told,          \* what was told, and by whom
    repeated,      \* something was told twice by the same channel
    overlaps,      \* ticks started while another, or setup, was under way
    faults         \* failed calls and restarts so far

redis == <<auctionCache, bidCache, soonCache, replyTweet>>
news == <<told, repeated>>
auctionVars == <<storeVars, tick, setup, redis, news, overlaps, faults>>

Channels == {"twitter", "discord"}
Idle == [pc |-> "idle"]
Starting == [pc |-> "fetch", id |-> 0]

Init ==
    /\ StoreInit
    /\ tick = [t \in Ticks |-> Idle]
    /\ setup = Starting
    /\ auctionCache = 0 /\ bidCache = Null /\ soonCache = 0 /\ replyTweet = Null
    /\ told = {} /\ repeated = FALSE
    /\ overlaps = 0 /\ faults = 0

-----------------------------------------------------------------------------
(* setupAuction.  It fails when there is no auction yet.                   *)

SetupFetch ==
    /\ setup.pc = "fetch"
    /\ setup' = IF Stored = {} THEN [pc |-> "done", id |-> 0]
                ELSE [pc |-> "store", id |-> Current]
    /\ UNCHANGED <<storeVars, tick, redis, news, overlaps, faults>>

SetupStore ==
    /\ setup.pc = "store"
    /\ auctionCache' = setup.id
    /\ setup' = [setup EXCEPT !.pc = "done"]
    /\ UNCHANGED <<storeVars, tick, bidCache, soonCache, replyTweet, news, overlaps, faults>>

-----------------------------------------------------------------------------
(* processAuctionTick, a step from one await to the next.                  *)

Busy == \E t \in Ticks : tick[t] # Idle

\* The timer fires, and the tick reads the first of its three keys.
StartTick(t) ==
    /\ tick[t] = Idle
    /\ tick' = [tick EXCEPT ![t] = [pc |-> "readBid", auction |-> auctionCache]]
    /\ IF Busy \/ setup.pc # "done"
       THEN /\ faults + overlaps < MaxTroubles
            /\ overlaps' = overlaps + 1
            /\ told' = {} /\ repeated' = FALSE
       ELSE UNCHANGED <<overlaps, news>>
    /\ UNCHANGED <<storeVars, setup, redis, faults>>

\* tick t goes on with k.
Go(t, k) == tick' = [tick EXCEPT ![t] = k]

ReadBid(t) ==
    /\ tick[t].pc = "readBid"
    /\ Go(t, [pc |-> "readSoon", auction |-> tick[t].auction, bid |-> bidCache])
    /\ UNCHANGED <<storeVars, setup, redis, news, overlaps, faults>>

ReadSoon(t) ==
    /\ tick[t].pc = "readSoon"
    /\ Go(t, [pc |-> "fetch", auction |-> tick[t].auction, bid |-> tick[t].bid,
              soon |-> soonCache])
    /\ UNCHANGED <<storeVars, setup, redis, news, overlaps, faults>>

\* Fault: the cache is left as it is until the next tick.
AuctionCacheAfter_Kept(last) == auctionCache

AuctionCacheAfter(last) == last.id

IsNewBid(cached, last) == last.bid # Null /\ cached # last.bid

\* Fault: an auction is new to an empty cache only.
IsNewAuction_First(cached) == cached = 0

IsNewAuction(cached) == cached < Current

\* How a tick goes on once it is past bids: the time left is taken here, of the auction
\* it fetched.
ToSoon(k) ==
    IF (k.last.id < Current \/ closing) /\ k.soon < k.last.id
    THEN [pc |-> "soon", id |-> k.last.id]
    ELSE Idle

\* How it goes on once it is past the auction.
ToBid(k) ==
    IF IsNewBid(k.bid, k.last)
    THEN [pc |-> "bid", soon |-> k.soon, last |-> k.last]
    ELSE ToSoon(k)

\* The query; the tick fails when there is no auction.
Fetch(t) ==
    /\ tick[t].pc = "fetch"
    /\ LET k == [pc |-> "auction", bid |-> tick[t].bid, soon |-> tick[t].soon,
                 last |-> getLastAuctionBids]
       IN  Go(t, IF Stored = {} THEN Idle
                 ELSE IF IsNewAuction(tick[t].auction) THEN k ELSE ToBid(k))
    /\ UNCHANGED <<storeVars, setup, redis, news, overlaps, faults>>

\* A new auction: the cache is updated before anybody is told.
NewAuction(t) ==
    /\ tick[t].pc = "auction"
    /\ auctionCache' = AuctionCacheAfter(tick[t].last)
    /\ Go(t, [tick[t] EXCEPT !.pc = "tellAuction"])
    /\ UNCHANGED <<storeVars, setup, bidCache, soonCache, replyTweet, news, overlaps, faults>>

\* What channels tell of a subject; told twice is noted.
Tell(subject, channels) ==
    LET new == {<<subject, c>> : c \in channels}
    IN  IF overlaps > 0 THEN UNCHANGED news
        ELSE /\ told' = told \cup new
             /\ repeated' = (repeated \/ told \cap new # {})

ThreadAfter(id, drawn) == IF "twitter" \in drawn THEN id ELSE replyTweet

\* Each handler draws the noun first, and catches the error when that fails: then the
\* channel is not told, and nothing says so.  A new tweet starts the thread to reply to.
TellNewAuction(t, drawn) ==
    LET id == tick[t].last.id
    IN  /\ tick[t].pc = "tellAuction"
        /\ drawn # Channels => faults + overlaps < MaxTroubles
        /\ faults' = IF drawn = Channels THEN faults ELSE faults + 1
        /\ Tell(<<"auction", id>>, drawn)
        /\ replyTweet' = ThreadAfter(id, drawn)
        /\ Go(t, ToBid(tick[t]))
        /\ UNCHANGED <<storeVars, setup, auctionCache, bidCache, soonCache, overlaps>>

NewBid(t) ==
    /\ tick[t].pc = "bid"
    /\ bidCache' = tick[t].last.bid
    /\ Go(t, [tick[t] EXCEPT !.pc = "tellBid"])
    /\ UNCHANGED <<storeVars, setup, auctionCache, soonCache, replyTweet, news, overlaps,
                   faults>>

\* Twitter replies to the tweet it finds in redis, if any, and stores the reply in its
\* place: telling reads the key, the step after it writes it.
Repliers(thread) == IF thread = Null THEN {} ELSE {"twitter"}

\* Fault: without a tweet to reply to, nobody is told of a bid.
BidAudience_Repliers(thread) == IF thread = Null THEN {} ELSE Channels

BidAudience(thread) == {"discord"} \cup Repliers(thread)

TellNewBid(t) ==
    /\ tick[t].pc = "tellBid"
    /\ Tell(<<"bid", tick[t].last.bid>>, BidAudience(replyTweet))
    /\ Go(t, [pc |-> "repliedBid", soon |-> tick[t].soon, last |-> tick[t].last,
              thread |-> replyTweet])
    /\ UNCHANGED <<storeVars, setup, redis, overlaps, faults>>

\* The reply is the tweet to reply to next, in the thread it was made in.
Replied(t) == IF tick[t].thread = Null THEN replyTweet ELSE tick[t].thread

StoreBidReply(t) ==
    /\ tick[t].pc = "repliedBid"
    /\ replyTweet' = Replied(t)
    /\ Go(t, ToSoon(tick[t]))
    /\ UNCHANGED <<storeVars, setup, auctionCache, bidCache, soonCache, news, overlaps,
                   faults>>

EndingSoon(t) ==
    /\ tick[t].pc = "soon"
    /\ soonCache' = tick[t].id
    /\ Go(t, [tick[t] EXCEPT !.pc = "tellSoon"])
    /\ UNCHANGED <<storeVars, setup, auctionCache, bidCache, replyTweet, news, overlaps,
                   faults>>

\* Discord has no handler for this.
TellEndingSoon(t) ==
    /\ tick[t].pc = "tellSoon"
    /\ Tell(<<"soon", tick[t].id>>, Repliers(replyTweet))
    /\ Go(t, [pc |-> "repliedSoon", thread |-> replyTweet])
    /\ UNCHANGED <<storeVars, setup, redis, overlaps, faults>>

StoreSoonReply(t) ==
    /\ tick[t].pc = "repliedSoon"
    /\ replyTweet' = Replied(t)
    /\ Go(t, Idle)
    /\ UNCHANGED <<storeVars, setup, auctionCache, bidCache, soonCache, news, overlaps,
                   faults>>

Proceed(t) ==
    \/ ReadBid(t) \/ ReadSoon(t) \/ Fetch(t)
    \/ NewAuction(t)
    \/ \E drawn \in SUBSET Channels : TellNewAuction(t, drawn)
    \/ NewBid(t) \/ TellNewBid(t) \/ StoreBidReply(t)
    \/ EndingSoon(t) \/ TellEndingSoon(t) \/ StoreSoonReply(t)

-----------------------------------------------------------------------------
(* Failures.                                                               *)

\* What the channels are about to be told, and which.
Subject(k) ==
    CASE k.pc = "tellAuction" -> <<"auction", k.last.id>>
      [] k.pc = "tellBid"     -> <<"bid", k.last.bid>>
      [] k.pc = "tellSoon"    -> <<"soon", k.id>>

Audience(k) ==
    CASE k.pc = "tellAuction" -> Channels
      [] k.pc = "tellBid"     -> BidAudience(replyTweet)
      [] k.pc = "tellSoon"    -> Repliers(replyTweet)
      [] OTHER                -> {}

\* A call is rejected and ends the tick: of the channels told in parallel some have got
\* through, Twitter even if it is its storing of the new tweet that failed.
Fail(t) ==
    /\ tick[t] # Idle /\ faults + overlaps < MaxTroubles
    /\ faults' = faults + 1
    /\ tick' = [tick EXCEPT ![t] = Idle]
    /\ IF Audience(tick[t]) = {} THEN UNCHANGED news
       ELSE \E through \in SUBSET Audience(tick[t]) : Tell(Subject(tick[t]), through)
    /\ UNCHANGED <<storeVars, setup, redis, overlaps>>

\* The process starts anew.
Restart ==
    /\ faults + overlaps < MaxTroubles
    /\ faults' = faults + 1
    /\ tick' = [t \in Ticks |-> Idle]
    /\ setup' = Starting
    /\ UNCHANGED <<storeVars, redis, news, overlaps>>

-----------------------------------------------------------------------------
Setup == SetupFetch \/ SetupStore

World == StoreNext /\ UNCHANGED <<tick, setup, redis, news, overlaps, faults>>

\* The timer keeps starting ticks, and what is under way goes on (for a tick, one or the
\* other can happen); nothing says that there will be another auction or bid.
Timer(t) == StartTick(t) \/ Proceed(t)

AuctionNext ==
    \/ World
    \/ Setup
    \/ \E t \in Ticks : Timer(t) \/ Fail(t)
    \/ Restart

-----------------------------------------------------------------------------
(* Correctness.                                                            *)

\* The comment at handlers/twitter.ts:32: caches are updated first "to ensure we do not
\* double tweet a bid".  Nothing is told twice by the same channel, whatever fails, as
\* long as ticks do not overlap each other or setupAuction.
NeverToldTwice == ~repeated

\* Without a failure, restart or overlap nothing gets into redis untold: between ticks
\* the auction there is the one setupAuction found or was told by both channels, and
\* the bid by Discord.
NothingSkipped ==
    (faults = 0 /\ overlaps = 0 /\ ~Busy /\ setup.pc = "done") =>
        /\ auctionCache = setup.id \/ \A c \in Channels :
                                         <<<<"auction", auctionCache>>, c>> \in told
        /\ bidCache # Null => <<<<"bid", bidCache>>, "discord">> \in told

\* What redis holds of the auctions and bids agrees with the subgraph.
AuctionsCaughtUp ==
    Stored # {} => /\ auctionCache = Current
                   /\ LastBid(Current) # Null => bidCache = LastBid(Current)
=============================================================================
