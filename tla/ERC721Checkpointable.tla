------------------------ MODULE ERC721Checkpointable ------------------------
(***************************************************************************)
(* ERC721Checkpointable.sol: every noun is one vote of the delegate of its *)
(* owner, and the votes of each delegate are kept as checkpoints, one per  *)
(* block in which they changed, so that the votes of a past block can be   *)
(* looked up.  Several calls may share a block.                            *)
(***************************************************************************)
EXTENDS Integers, FiniteSets, Sequences

CONSTANTS
    Accounts,    \* all addresses but zero
    Zero,        \* address(0)
    MaxNouns,    \* bound: nouns ever minted
    MaxBlock,    \* bound: the last block
    Signers,     \* accounts that sign delegations off chain
    Delegatees,  \* what they sign for, Zero or accounts
    Expiries,    \* the blocks after which they expire
    MaxNonce     \* bound: the largest nonce signed

ASSUME VotesAssumption ==
    /\ Zero \notin Accounts
    /\ MaxNouns \in Nat /\ MaxBlock \in Nat /\ MaxNonce \in Nat
    /\ Signers \subseteq Accounts
    /\ Delegatees \subseteq Accounts \cup {Zero}
    /\ Expiries \subseteq Nat

VARIABLES
    nounOwner,    \* _owners: the owner of each noun ever minted
    delegateOf,   \* _delegates: Zero for accounts that never delegated
    checkpoints,  \* checkpoints and numCheckpoints: a sequence per account
    nonces,       \* nonces
    signatures,   \* the delegations signed so far, for anyone to submit
    block,        \* block.number
    (* History variables, which no call reads. *)
    history,      \* the votes of every account at the end of each past block
    applied,      \* the signatures submitted with success
    disowned      \* somebody has signed a delegation to Zero and it was applied

chainVars == <<nounOwner, delegateOf, checkpoints, nonces, signatures, block>>
vars == <<chainVars, history, applied, disowned>>

NounIds == 1..MaxNouns
Checkpoint == [fromBlock : Nat, votes : Nat]
Signature == [signatory : Signers, delegatee : Delegatees,
              nonce : 0..MaxNonce, expiry : Expiries]

Init ==
    /\ nounOwner = << >>
    /\ delegateOf = [a \in Accounts |-> Zero]
    /\ checkpoints = [a \in Accounts |-> << >>]
    /\ nonces = [a \in Accounts |-> 0]
    /\ signatures = {}
    /\ block = 1
    /\ history = << >>
    /\ applied = {}
    /\ disowned = FALSE

-----------------------------------------------------------------------------
(* Views.                                                                  *)

Minted == DOMAIN nounOwner
Owned(a) == {n \in Minted : nounOwner[n] = a}

\* delegates(): oneself, unless one has delegated.
Delegates(a) == IF a = Zero \/ delegateOf[a] = Zero THEN a ELSE delegateOf[a]

CurrentVotes(a) ==
    IF checkpoints[a] = << >> THEN 0 ELSE checkpoints[a][Len(checkpoints[a])].votes

\* The binary search of getPriorVotes, on the invariant that the checkpoint
\* sought lies between lower and upper.
SearchPrior(cps, blockNumber) ==
    LET find[range \in (DOMAIN cps) \X (DOMAIN cps)] ==
            LET lower  == range[1]
                upper  == range[2]
                center == upper - (upper - lower) \div 2
            IN  IF upper <= lower THEN lower
                ELSE IF cps[center].fromBlock = blockNumber THEN center
                ELSE IF cps[center].fromBlock < blockNumber THEN find[<<center, upper>>]
                ELSE find[<<lower, center - 1>>]
    IN  cps[find[<<1, Len(cps)>>]].votes

\* Fault: off by one at the first checkpoint.
PriorVotes_AfterFirst(a, blockNumber) ==
    LET cps == checkpoints[a]
    IN  IF cps = << >> THEN 0
        ELSE IF cps[Len(cps)].fromBlock <= blockNumber THEN cps[Len(cps)].votes
        ELSE IF cps[1].fromBlock >= blockNumber THEN 0
        ELSE SearchPrior(cps, blockNumber)

\* Defined for finished blocks only: blockNumber < block.
PriorVotes(a, blockNumber) ==
    LET cps == checkpoints[a]
    IN  IF cps = << >> THEN 0
        ELSE IF cps[Len(cps)].fromBlock <= blockNumber THEN cps[Len(cps)].votes
        ELSE IF cps[1].fromBlock > blockNumber THEN 0
        ELSE SearchPrior(cps, blockNumber)

-----------------------------------------------------------------------------
(* _moveDelegates and _writeCheckpoint.                                    *)

\* A second change in the same block replaces the checkpoint of the first.
WriteCheckpoint(a, votes) ==
    LET cps == checkpoints[a]
        new == [fromBlock |-> block, votes |-> votes]
    IN  IF cps # << >> /\ cps[Len(cps)].fromBlock = block
        THEN [cps EXCEPT ![Len(cps)] = new]
        ELSE Append(cps, new)

\* Fault: votes are taken from src unchecked.
MoveDelegates_Unchecked(src, dst, amount) ==
    IF src = dst \/ amount = 0
    THEN UNCHANGED checkpoints
    ELSE checkpoints' = [a \in Accounts |->
                CASE a = src -> WriteCheckpoint(a, CurrentVotes(a) - amount)
                  [] a = dst -> WriteCheckpoint(a, CurrentVotes(a) + amount)
                  [] OTHER   -> checkpoints[a]]

\* sub96 reverts the whole call when src has fewer votes than are moved.
MoveDelegates(src, dst, amount) ==
    IF src = dst \/ amount = 0
    THEN UNCHANGED checkpoints
    ELSE /\ src # Zero => CurrentVotes(src) >= amount
         /\ checkpoints' = [a \in Accounts |->
                CASE a = src -> WriteCheckpoint(a, CurrentVotes(a) - amount)
                  [] a = dst -> WriteCheckpoint(a, CurrentVotes(a) + amount)
                  [] OTHER   -> checkpoints[a]]

-----------------------------------------------------------------------------
(* Calls.                                                                  *)

\* _mint, _transfer and _burn move one vote between the delegates of the owners,
\* before the noun changes hands.
Mint(to) ==
    /\ Len(nounOwner) < MaxNouns
    /\ MoveDelegates(Zero, Delegates(to), 1)
    /\ nounOwner' = Append(nounOwner, to)
    /\ UNCHANGED <<delegateOf, nonces, signatures, block, history, applied, disowned>>

Transfer(n, to) ==
    /\ nounOwner[n] # Zero
    /\ MoveDelegates(Delegates(nounOwner[n]), Delegates(to), 1)
    /\ nounOwner' = [nounOwner EXCEPT ![n] = to]
    /\ UNCHANGED <<delegateOf, nonces, signatures, block, history, applied, disowned>>

\* Fault: the current delegate is read after it was replaced.
SetDelegate_LateRead(delegator, delegatee) ==
    /\ delegateOf' = [delegateOf EXCEPT ![delegator] = delegatee]
    /\ MoveDelegates(Delegates(delegator)', delegatee, Cardinality(Owned(delegator)))

\* Fault: one vote is moved, whatever the balance.
SetDelegate_OneVote(delegator, delegatee) ==
    /\ delegateOf' = [delegateOf EXCEPT ![delegator] = delegatee]
    /\ MoveDelegates(Delegates(delegator), delegatee, 1)

\* _delegate moves as many votes as the delegator owns nouns.
SetDelegate(delegator, delegatee) ==
    /\ delegateOf' = [delegateOf EXCEPT ![delegator] = delegatee]
    /\ MoveDelegates(Delegates(delegator), delegatee, Cardinality(Owned(delegator)))

\* delegate(0) means delegating to oneself.
Delegate(delegator, delegatee) ==
    /\ SetDelegate(delegator, IF delegatee = Zero THEN delegator ELSE delegatee)
    /\ UNCHANGED <<nounOwner, nonces, signatures, block, history, applied, disowned>>

\* An EIP-712 signature is made off chain and may be submitted by anyone, at any
\* time, and again.
Sign(signature) ==
    /\ signatures' = signatures \cup {signature}
    /\ UNCHANGED <<nounOwner, delegateOf, checkpoints, nonces, block, history, applied, disowned>>

NoncesAfter_Kept(a) == nonces  \* fault: the nonce is not used up

NoncesAfter(a) == [nonces EXCEPT ![a] = @ + 1]

\* delegateBySig hands the delegatee on as it is, Zero too.
DelegateBySig(signature) ==
    /\ signature.nonce = nonces[signature.signatory]
    /\ nonces' = NoncesAfter(signature.signatory)
    /\ block <= signature.expiry
    /\ SetDelegate(signature.signatory, signature.delegatee)
    /\ applied' = applied \cup {signature}
    /\ disowned' = (disowned \/ signature.delegatee = Zero)
    /\ UNCHANGED <<nounOwner, signatures, block, history>>

NextBlock ==
    /\ block < MaxBlock
    /\ block' = block + 1
    /\ history' = Append(history, [a \in Accounts |-> CurrentVotes(a)])
    /\ UNCHANGED <<nounOwner, delegateOf, checkpoints, nonces, signatures, applied, disowned>>

Next ==
    \/ \E to \in Accounts : Mint(to)
    \/ \E n \in Minted, to \in Accounts \cup {Zero} : Transfer(n, to)
    \/ \E delegator \in Accounts, delegatee \in Accounts \cup {Zero} :
           Delegate(delegator, delegatee)
    \/ \E signature \in Signature : Sign(signature)
    \/ \E signature \in signatures : DelegateBySig(signature)
    \/ NextBlock

Spec == Init /\ [][Next]_vars

-----------------------------------------------------------------------------
(* Correctness.                                                            *)

TypeOK ==
    /\ nounOwner \in Seq(Accounts \cup {Zero}) /\ Len(nounOwner) <= MaxNouns
    /\ delegateOf \in [Accounts -> Accounts \cup {Zero}]
    /\ checkpoints \in [Accounts -> Seq(Checkpoint)]
    /\ nonces \in [Accounts -> Nat]
    /\ signatures \subseteq Signature
    /\ block \in Nat
    /\ history \in Seq([Accounts -> Nat]) /\ Len(history) = block - 1
    /\ applied \subseteq Signature

\* The nouns whose votes belong to d.
Represented(d) == {n \in Minted : nounOwner[n] # Zero /\ Delegates(nounOwner[n]) = d}

\* Delegation, transfers and burns never make a vote out of nothing.
NoVoteFromNowhere == \A d \in Accounts : CurrentVotes(d) <= Cardinality(Represented(d))

\* Every noun counts as one vote of the account that delegates() names.
VotesFollowDelegates ==
    \A d \in Accounts : CurrentVotes(d) = Cardinality(Represented(d))

\* So it does as long as nobody's signed delegation to Zero was applied.
NoVoteLost == ~disowned => VotesFollowDelegates

\* What getPriorVotes says of a past block is what held when the block ended,
\* whatever happened since: a vote cannot be cast with nouns acquired later.
PriorVotesExact ==
    \A a \in Accounts, b \in 1..(block - 1) : PriorVotes(a, b) = history[b][a]

\* A signature that was applied cannot be applied again.
NoReplay == \A s \in applied : nonces[s.signatory] > s.nonce
=============================================================================
