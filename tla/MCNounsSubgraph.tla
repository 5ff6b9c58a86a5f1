-------------------------- MODULE MCNounsSubgraph --------------------------
(* Instances of the subgraph for TLC.                                      *)
EXTENDS NounsSubgraph

CONSTANTS alice, bob, treasury, zero, null

\* The treasury owns the token contract, and can have nouns and delegate as any
\* other account, minted ones too.  Otherwise they are minted to alice, who stands for the
\* auction house.
MCAccounts == {alice, bob, treasury}
MCRecipients == {alice, treasury}

\* The accounts of a chain on which all nouns are minted to alice, more of them than there
\* are accounts.
FewAccounts == {alice, treasury}
OneRecipient == {alice}

\* Bound: nouns are minted and burned, but do not change hands, and nobody delegates.
MintedAndBurned ==
    /\ delegateOf' = delegateOf
    /\ \A n \in Minted : nounOwner'[n] = nounOwner[n] \/ nounOwner'[n] = Zero

ReportedSpec == Init /\ [][Next /\ MintedAndBurned]_vars
=============================================================================
