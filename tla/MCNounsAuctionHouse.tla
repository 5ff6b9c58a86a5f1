------------------------ MODULE MCNounsAuctionHouse ------------------------
(***************************************************************************)
(* Instances of the auction house for TLC: one on which bidders compete    *)
(* and the owner changes the rules, and one on which the token contract    *)
(* changes under the house.                                                *)
(***************************************************************************)
EXTENDS NounsAuctionHouse

CONSTANTS alice, bob, dao, zero, house

\* Two bidders that may refuse refunds, and a seller that may refuse payment.
BidAccounts == {alice, bob, dao}
BidOwners == {dao, zero}
BidRewardTakers == {dao}

\* One bidder; the minter, the seeder, the reward taker and the locks change.
TokenAccounts == {alice, dao}
TokenMinters == {house, dao}
TokenRewardTakers == {dao, zero}
TokenRecipients == {dao}
TokenOwners == {dao}
TokenLocks == {"minter", "seeder"}
=============================================================================
