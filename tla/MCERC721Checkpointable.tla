----------------------- MODULE MCERC721Checkpointable -----------------------
(* An instance of the vote ledger for TLC: one account signs delegations.  *)
EXTENDS ERC721Checkpointable

CONSTANTS alice, bob, zero

MCAccounts == {alice, bob}
MCSigners == {alice}
MCDelegatees == {bob, zero}
=============================================================================
