----------------------------- MODULE NounsToken -----------------------------
(***************************************************************************)
(* The ledger of NounsToken.sol as the auction house sees it: who owns     *)
(* each noun, which ids have been minted, who may mint, and what the       *)
(* seeder does when a noun is minted.  Voting power, which every transfer  *)
(* also moves, is the subject of module ERC721Checkpointable.              *)
(*                                                                         *)
(* Functions restricted to the contract's owner are open to any moment:    *)
(* the owner is a DAO that may send any call, and no property here depends *)
(* on which one it sends.                                                  *)
(***************************************************************************)
EXTENDS Integers

CONSTANTS
    Accounts,      \* addresses other than the zero address and the auction house
    Zero,          \* address(0), the owner of a noun that does not exist
    House,         \* the address of the auction house
    MaxNouns,      \* bound: the largest noun id
    RewardPeriod,  \* every RewardPeriod-th noun is a reward (10 in the contract)
    LastReward,    \* the last id that may be a reward (1820 in the contract)
    Minters,       \* the addresses the owner may make the minter
    RewardTakers,  \* the addresses that may be named the nounders DAO
    Recipients,    \* the addresses holders may transfer their nouns to
    Seeders,       \* outcomes of generateSeed: "ok", "error" (revert with a
                   \* reason string), "panic" (any other revert)
    Locks          \* the parts the owner may lock

ASSUME AddressAssumption ==
    /\ Zero # House
    /\ Zero \notin Accounts
    /\ House \notin Accounts

ASSUME MintAssumption ==
    /\ MaxNouns \in Nat
    /\ RewardPeriod \in Nat \ {0, 1}
    /\ LastReward \in Nat
    /\ Minters \subseteq Accounts \cup {House, Zero}
    /\ RewardTakers \subseteq Accounts \cup {Zero}
    /\ Recipients \subseteq Accounts \cup {House}
    /\ Seeders \subseteq {"ok", "error", "panic"}
    /\ "ok" \in Seeders
    /\ Locks \subseteq {"minter", "descriptor", "seeder"}

VARIABLES
    nounOwner,     \* _owners: the owner of each noun, Zero when there is none
    nextId,        \* _currentNounId
    minter,        \* who may mint and burn
    noundersDAO,   \* who receives the reward nouns
    seeder,        \* what a call of seeder.generateSeed would do now
    locked         \* isMinterLocked, isDescriptorLocked, isSeederLocked

tokenVars == <<nounOwner, nextId, minter, noundersDAO, seeder, locked>>

NounIds == 0..MaxNouns
Holders == Accounts \cup {House}
Anyone  == Holders \cup {Zero}

TokenTypeOK ==
    /\ nounOwner \in [NounIds -> Anyone]
    /\ nextId \in Nat
    /\ minter \in Anyone
    /\ noundersDAO \in RewardTakers
    /\ seeder \in Seeders
    /\ locked \subseteq Locks

\* Deployed with the auction house as the minter.
TokenInit ==
    /\ nounOwner = [n \in NounIds |-> Zero]
    /\ nextId = 0
    /\ minter = House
    /\ noundersDAO \in RewardTakers \ {Zero}
    /\ seeder = "ok"
    /\ locked = {}

-----------------------------------------------------------------------------
(* mint(): what a call by sender returns, and what it leaves behind.       *)

RewardDue == nextId <= LastReward /\ nextId % RewardPeriod = 0

\* The id mint() returns: a reward, when one is due, takes the id before it.
MintedId == IF RewardDue THEN nextId + 1 ELSE nextId

\* The guard on the bound: both nouns of a mint fit below MaxNouns.
RoomToMint == MintedId <= MaxNouns

\* "ok", a revert that carries a reason string, or any other revert.
MintOutcome(sender) ==
    IF sender # minter THEN "error"
    ELSE IF seeder # "ok" THEN seeder
    ELSE IF RewardDue /\ noundersDAO = Zero THEN "error"
    ELSE "ok"

\* Fault: the reward goes to the minter and the lot to the nounders.
WithMinted_Swapped(owners) ==
    [owners EXCEPT ![nextId] = minter,
                   ![MintedId] = IF RewardDue THEN noundersDAO ELSE minter]

\* owners with the nouns of one mint added.
WithMinted(owners) ==
    [owners EXCEPT ![nextId] = IF RewardDue THEN noundersDAO ELSE minter,
                   ![MintedId] = minter]

-----------------------------------------------------------------------------
(* Calls that do not come from the auction house.                          *)

\* A minter other than the house mints for itself.
MintByOther ==
    /\ minter \in Accounts
    /\ RoomToMint
    /\ MintOutcome(minter) = "ok"
    /\ nounOwner' = WithMinted(nounOwner)
    /\ nextId' = MintedId + 1
    /\ UNCHANGED <<minter, noundersDAO, seeder, locked>>

\* burn(nounId) by such a minter, whoever owns the noun.
BurnByOther(n) ==
    /\ minter \in Accounts
    /\ nounOwner[n] # Zero
    /\ nounOwner' = [nounOwner EXCEPT ![n] = Zero]
    /\ UNCHANGED <<nextId, minter, noundersDAO, seeder, locked>>

\* transferFrom by the holder or an approved account.  The auction house
\* approves nobody, so the nouns it holds move only by its own calls.
TransferNoun(n, to) ==
    /\ nounOwner[n] \in Accounts
    /\ nounOwner' = [nounOwner EXCEPT ![n] = to]
    /\ UNCHANGED <<nextId, minter, noundersDAO, seeder, locked>>

SetMinter(m) ==
    /\ "minter" \notin locked
    /\ minter' = m
    /\ UNCHANGED <<nounOwner, nextId, noundersDAO, seeder, locked>>

\* Only the nounders DAO itself can name its successor, the zero address too.
SetNoundersDAO(d) ==
    /\ noundersDAO # Zero
    /\ noundersDAO' = d
    /\ UNCHANGED <<nounOwner, nextId, minter, seeder, locked>>

\* setSeeder and setDescriptor: a seed is drawn by the one from the parts of
\* the other, so replacing either may change how generateSeed ends.
SetSeeding(part, s) ==
    /\ part \notin locked
    /\ seeder' = s
    /\ UNCHANGED <<nounOwner, nextId, minter, noundersDAO, locked>>

\* lockMinter, lockDescriptor, lockSeeder: no lock is ever released.
Lock(part) ==
    /\ part \notin locked
    /\ locked' = locked \cup {part}
    /\ UNCHANGED <<nounOwner, nextId, minter, noundersDAO, seeder>>

TokenNext ==
    \/ MintByOther
    \/ \E n \in NounIds : BurnByOther(n)
    \/ \E n \in NounIds, to \in Recipients : TransferNoun(n, to)
    \/ \E m \in Minters : SetMinter(m)
    \/ \E d \in RewardTakers : SetNoundersDAO(d)
    \/ \E part \in {"descriptor", "seeder"}, s \in Seeders : SetSeeding(part, s)
    \/ \E part \in Locks : Lock(part)
=============================================================================
