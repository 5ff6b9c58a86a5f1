------------------------ MODULE NounsSubgraphAuctions ------------------------
(***************************************************************************)
(* The auctions and bids of the subgraph, and what the bots' query makes   *)
(* of them.  The auction house is kept to what it emits: one auction after *)
(* another (module NounsAuctionHouse has it in full).  A step of the house *)
(* and the handlers of its events are one action here: nothing comes       *)
(* between them that reads the store, except a query that is a little late *)
(* and which the bots may make a little earlier instead.                   *)
(***************************************************************************)
EXTENDS Integers, FiniteSets

CONSTANTS
    MaxAuction,  \* bound: the last auction, the first is 1
    Txs,         \* the hashes of the transactions that bid, in the order of ids
    MaxBlock,    \* bound: blocks
    MaxBids,     \* bound: bids for an auction
    Null         \* no value

AuctionIds == 1..MaxAuction
Bids == [auction : AuctionIds, amount : Nat, blockNumber : Nat]
Auctions == [amount : Nat, settled : BOOLEAN]

ASSUME AuctionsAssumption ==
    /\ MaxAuction \in Nat /\ MaxBlock \in Nat /\ MaxBids \in Nat
    /\ Txs \subseteq Nat /\ Null \notin Nat \cup Bids \cup Auctions

VARIABLES
    block,      \* block.number
    lastTx,     \* the transaction that bid last in this block, or Null
    auctions,   \* Auction, by noun, Null when there is none
    bids,       \* Bid, by the hash of its transaction
    closing     \* the current auction ends within 20 minutes, or has ended

storeVars == <<block, lastTx, auctions, bids, closing>>

Stored == {a \in AuctionIds : auctions[a] # Null}
Greatest(S) == CHOOSE x \in S : \A y \in S : y <= x
Least(S) == CHOOSE x \in S : \A y \in S : x <= y

StoreInit ==
    /\ block = 1 /\ lastTx = Null
    /\ auctions = [a \in AuctionIds |-> Null]
    /\ bids = [tx \in Txs |-> Null]
    /\ closing = FALSE

\* AuctionCreated, once the last auction was settled.
handleAuctionCreated ==
    LET a == Cardinality(Stored) + 1
    IN  /\ a <= MaxAuction
        /\ \A b \in Stored : auctions[b].settled
        /\ auctions' = [auctions EXCEPT ![a] = [amount |-> 0, settled |-> FALSE]]
        /\ closing' = FALSE
        /\ UNCHANGED <<block, lastTx, bids>>

Current == Greatest(Stored)

BidAfter(tx) ==
    [auction |-> Current, blockNumber |-> block, amount |-> auctions[Current].amount + 1]

\* AuctionBid.  A contract may bid twice in one transaction: its bid is then stored
\* over the first, as it is named after the transaction.
handleAuctionBid(tx) ==
    /\ Stored # {} /\ ~auctions[Current].settled
    /\ auctions[Current].amount < MaxBids
    /\ tx = lastTx \/ bids[tx] = Null
    /\ auctions' = [auctions EXCEPT ![Current].amount = @ + 1]
    /\ bids' = [bids EXCEPT ![tx] = BidAfter(tx)]
    /\ lastTx' = tx
    /\ UNCHANGED <<block, closing>>

\* AuctionSettled: the auction has ended, so that there was no bid in this block.
handleAuctionSettled ==
    /\ Stored # {} /\ closing /\ ~auctions[Current].settled
    /\ lastTx = Null
    /\ auctions' = [auctions EXCEPT ![Current].settled = TRUE]
    /\ UNCHANGED <<block, lastTx, bids, closing>>

\* The end of the auction draws near.  AuctionExtended stores a new endTime, but with a
\* time buffer of at most 20 minutes that is near as well.
EndTimeNears ==
    /\ Stored # {} /\ ~auctions[Current].settled /\ ~closing
    /\ closing' = TRUE
    /\ UNCHANGED <<block, lastTx, auctions, bids>>

NextBlock ==
    /\ block < MaxBlock
    /\ block' = block + 1 /\ lastTx' = Null
    /\ UNCHANGED <<auctions, bids, closing>>

StoreNext ==
    \/ handleAuctionCreated
    \/ \E tx \in Txs : handleAuctionBid(tx)
    \/ handleAuctionSettled
    \/ EndTimeNears
    \/ NextBlock

-----------------------------------------------------------------------------
(* getLastAuctionBids: the auction that started last, and the first of its *)
(* bids by falling block number, then by id.                               *)

BidsOf(a) == {tx \in Txs : bids[tx] # Null /\ bids[tx].auction = a}

LastBid(a) ==
    LET latest == {tx \in BidsOf(a) : \A other \in BidsOf(a) :
                       bids[other].blockNumber <= bids[tx].blockNumber}
    IN  IF latest = {} THEN Null ELSE Least(latest)

getLastAuctionBids == [id |-> Current, bid |-> LastBid(Current)]
=============================================================================
