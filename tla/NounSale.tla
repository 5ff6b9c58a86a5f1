------------------------------ MODULE NounSale ------------------------------
(***************************************************************************)
(* What the auction house promises, without its clock, its escrow, its     *)
(* refunds or its pauses: lots are sold one at a time and never twice, the *)
(* price of a lot never falls, and when the sale closes the lot goes to the *)
(* leader in the very step in which the price goes from the leader to the  *)
(* seller.  At no other moment does anyone become richer or poorer.        *)
(***************************************************************************)
EXTENDS Integers

CONSTANTS Traders, Nobody, Escrow, Lots

VARIABLES
    open,    \* a lot is on sale
    lot,     \* the last lot put on sale, -1 before the first
    price,   \* its highest bid
    leader,  \* the highest bidder
    holder,  \* who holds each lot
    wealth,  \* what each trader owns, its standing bid included
    seller   \* who is paid

saleVars == <<open, lot, price, leader, holder, wealth, seller>>

SaleInit ==
    /\ ~open
    /\ lot = -1
    /\ price = 0
    /\ leader = Nobody
    /\ holder = [n \in Lots |-> Nobody]
    /\ seller \in Traders

\* The lot changes hands against its price.
HolderAfterSale == [holder EXCEPT ![lot] = leader]
WealthAfterSale ==
    [t \in DOMAIN wealth |-> wealth[t] - (IF t = leader THEN price ELSE 0)
                                       + (IF t = seller THEN price ELSE 0)]

\* A lot never sold before goes into escrow; others may be given away with it.
PutUp(before) ==
    /\ open' = TRUE
    /\ price' = 0
    /\ leader' = Nobody
    /\ lot' \in Lots
    /\ lot' > lot
    /\ before[lot'] = Nobody
    /\ holder'[lot'] = Escrow
    /\ \A n \in Lots \ {lot'} :
           holder'[n] = before[n] \/ (n > lot /\ before[n] = Nobody)

Open ==
    /\ ~open
    /\ PutUp(holder)
    /\ UNCHANGED <<wealth, seller>>

Raise ==
    /\ open
    /\ leader' \in Traders
    /\ price' >= price
    /\ price' <= wealth[leader']
    /\ UNCHANGED <<open, lot, holder, wealth, seller>>

Close ==
    /\ open
    /\ open' = FALSE
    /\ price' = 0
    /\ leader' = Nobody
    /\ holder' = HolderAfterSale
    /\ wealth' = WealthAfterSale
    /\ UNCHANGED <<lot, seller>>

CloseAndOpen ==
    /\ open
    /\ wealth' = WealthAfterSale
    /\ PutUp(HolderAfterSale)
    /\ UNCHANGED seller

\* Holders do what they like with their own; a lot on sale can only vanish.
Trade ==
    /\ open => holder'[lot] \in {holder[lot], Nobody}
    /\ UNCHANGED <<open, lot, price, leader, wealth, seller>>

NewSeller ==
    /\ seller' \in Traders \cup {Nobody}
    /\ UNCHANGED <<open, lot, price, leader, holder, wealth>>

SaleNext == Open \/ Raise \/ Close \/ CloseAndOpen \/ Trade \/ NewSeller

SaleSpec == SaleInit /\ [][SaleNext]_saleVars
=============================================================================
