------------------------ MODULE NounsSubgraphProofs ------------------------
(***************************************************************************)
(* What holds of NounsSubgraph for all accounts, nouns, proposals and      *)
(* bounds: once its events are handled, the store says what the chain says.*)
(* Between two transactions the log holds what is left of the events of    *)
(* one; each invariant tells what the events that are left will still put  *)
(* right.                                                                  *)
(***************************************************************************)
EXTENDS NounsSubgraph, FiniteSetTheorems, SequenceTheorems, TLAPS

-----------------------------------------------------------------------------
(* Types.                                                                  *)

VoteEvents ==
    [type : {"DelegateVotesChanged"}, delegate : Accounts,
     previousBalance : Int, newBalance : Int]
TransferEvents == [type : {"Transfer"}, from : Addresses, to : Addresses, tokenId : NounIds]
SeedEvents == [type : {"NounCreated"}, tokenId : NounIds]
DelegationEvents ==
    [type : {"DelegateChanged"}, delegator : Accounts,
     fromDelegate : Accounts, toDelegate : Accounts]
CreationEvents ==
    [type : {"ProposalCreatedWithRequirements"}, id : Ids, proposer : Accounts]
StatusTypes == {"ProposalCanceled", "ProposalVetoed", "ProposalQueued", "ProposalExecuted"}
StatusEvents == [type : StatusTypes, id : Ids]
CastEvents == [type : {"VoteCast"}, voter : Accounts, proposalId : Ids, votes : Nat]

TokenEvents == VoteEvents \cup TransferEvents \cup SeedEvents \cup DelegationEvents
DAOEvents == CreationEvents \cup StatusEvents \cup CastEvents
Events == TokenEvents \cup DAOEvents

ChainTyped ==
    /\ nounOwner \in Seq(Addresses) /\ Len(nounOwner) <= MaxNouns
    /\ delegateOf \in [Accounts -> Addresses]
    /\ stage \in [Ids -> Stages]
    /\ receipts \in [Ids -> [Accounts -> Nat \cup {Null}]]
    /\ log \in Seq(Events)

Lists == [NounIds -> Int]
NounEntity == [owner : Addresses \cup {Null}, seed : BOOLEAN]
AccountEntity == [tokenBalance : Int, nouns : Lists, delegate : Addresses \cup {Null}]
DelegateEntity ==
    [stored : BOOLEAN, delegatedVotes : Int, tokenHoldersRepresented : Int,
     nounsRepresented : Lists]
GovernanceEntity ==
    [proposals : Int, totalTokenHolders : Int, currentTokenHolders : Int,
     currentDelegates : Int, totalDelegates : Int, delegatedVotes : Int,
     proposalsQueued : Int]
Statuses ==
    {Null, "PENDING", "ACTIVE", "QUEUED", "EXECUTED", "CANCELLED", "VETOED"}

StoreTyped ==
    /\ nouns \in [NounIds -> NounEntity]
    /\ accounts \in [Addresses -> AccountEntity]
    /\ delegates \in [Addresses -> DelegateEntity]
    /\ governance \in GovernanceEntity
    /\ proposals \in [Ids -> [status : Statuses, executionETA : BOOLEAN]]
    /\ votes \in [Ids -> [Accounts -> Nat \cup {Null}]]

Typed == ChainTyped /\ StoreTyped

\* The type of an event tells its fields.
LEMMA EventFields ==
    ASSUME NEW e \in Events
    PROVE  /\ e.type = "DelegateVotesChanged" => e \in VoteEvents
           /\ e.type = "Transfer" => e \in TransferEvents
           /\ e.type = "NounCreated" => e \in SeedEvents
           /\ e.type = "DelegateChanged" => e \in DelegationEvents
           /\ e.type = "ProposalCreatedWithRequirements" => e \in CreationEvents
           /\ e.type \in StatusTypes => e \in StatusEvents
           /\ e.type = "VoteCast" => e \in CastEvents
  BY DEF Events, TokenEvents, DAOEvents, VoteEvents, TransferEvents, SeedEvents,
         DelegationEvents, CreationEvents, StatusTypes, StatusEvents, CastEvents

\* Whoever votes with the nouns of an account is an account.
LEMMA DelegateTyped ==
    ASSUME ChainTyped
    PROVE  /\ \A a \in Accounts : DelegateOf(a) \in Accounts
           /\ DelegateOf(Zero) = Zero /\ Zero \notin Accounts /\ Zero \in Addresses
           /\ Accounts \subseteq Addresses
  BY SubgraphAssumption DEF ChainTyped, DelegateOf, Addresses

\* The nouns of an account, or of a delegate, can be counted.
LEMMA Countable ==
    ASSUME ChainTyped
    PROVE  /\ Minted = 1..Len(nounOwner) /\ Len(nounOwner) \in Nat
           /\ IsFiniteSet(Minted) /\ Minted \subseteq NounIds
           /\ \A n \in Minted : nounOwner[n] \in Addresses
           /\ \A a : IsFiniteSet(Owned(a)) /\ Cardinality(Owned(a)) \in Nat
           /\ \A d : IsFiniteSet(Represented(d)) /\ Votes(d) \in Nat
  <1>1. nounOwner \in Seq(Addresses) /\ Len(nounOwner) <= MaxNouns /\ MaxNouns \in Nat
    BY SubgraphAssumption DEF ChainTyped
  <1>2. Minted = 1..Len(nounOwner) /\ Len(nounOwner) \in Nat
    BY <1>1 DEF Minted
  <1>3. IsFiniteSet(Minted)
    BY <1>2, FS_Interval
  <1>4. Minted \subseteq NounIds
    BY <1>1, <1>2 DEF NounIds
  <1>5. \A a : Owned(a) \subseteq Minted
    BY DEF Owned
  <1>6. \A d : Represented(d) \subseteq Minted
    BY DEF Represented
  <1>7. \A S : S \subseteq Minted => IsFiniteSet(S) /\ Cardinality(S) \in Nat
    BY <1>3, FS_Subset, FS_CardinalityType
  <1>8. \A n \in Minted : nounOwner[n] \in Addresses
    BY <1>1, <1>2
  <1> QED
    BY <1>2, <1>3, <1>4, <1>5, <1>6, <1>7, <1>8 DEF Votes

\* Sequences written out, and joined.
LEMMA JoinNone ==
    ASSUME NEW S, NEW a \in S
    PROVE  << >> \o <<a>> = <<a>> /\ <<a>> \o << >> = <<a>> /\ <<a>> \in Seq(S)
  <1>1. <<a>> \in Seq(S)
    OBVIOUS
  <1> QED
    BY <1>1, ConcatEmptySeq

LEMMA JoinTwo ==
    ASSUME NEW S, NEW a \in S, NEW b \in S
    PROVE  <<a>> \o <<b>> = <<a, b>> /\ <<a, b>> \in Seq(S)
  <1>1. /\ <<a>> \in Seq(S) /\ <<b>> \in Seq(S) /\ <<a, b>> \in Seq(S)
        /\ Len(<<a>>) = 1 /\ Len(<<b>>) = 1 /\ Len(<<a, b>>) = 2
    OBVIOUS
  <1>2. /\ <<a>> \o <<b>> \in Seq(S) /\ Len(<<a>> \o <<b>>) = 2
        /\ \A i \in 1..2 : (<<a>> \o <<b>>)[i] = IF i <= 1 THEN <<a>>[i] ELSE <<b>>[i - 1]
    BY <1>1, ConcatProperties
  <1>3. \A i \in 1..2 : (<<a>> \o <<b>>)[i] = <<a, b>>[i]
    BY <1>2
  <1> QED
    BY <1>1, <1>2, <1>3, SeqEqual

LEMMA JoinLast ==
    ASSUME NEW S, NEW a \in S, NEW b \in S, NEW c \in S
    PROVE  <<a, b>> \o <<c>> = <<a, b, c>> /\ <<a, b, c>> \in Seq(S)
  <1>1. /\ <<a, b>> \in Seq(S) /\ <<c>> \in Seq(S) /\ <<a, b, c>> \in Seq(S)
        /\ Len(<<a, b>>) = 2 /\ Len(<<c>>) = 1 /\ Len(<<a, b, c>>) = 3
    OBVIOUS
  <1>2. /\ <<a, b>> \o <<c>> \in Seq(S) /\ Len(<<a, b>> \o <<c>>) = 3
        /\ \A i \in 1..3 : (<<a, b>> \o <<c>>)[i] = IF i <= 2 THEN <<a, b>>[i] ELSE <<c>>[i - 2]
    BY <1>1, ConcatProperties
  <1>3. \A i \in 1..3 : (<<a, b>> \o <<c>>)[i] = <<a, b, c>>[i]
    BY <1>2
  <1> QED
    BY <1>1, <1>2, <1>3, SeqEqual

LEMMA JoinFirst ==
    ASSUME NEW S, NEW a \in S, NEW b \in S, NEW c \in S
    PROVE  <<a>> \o <<b, c>> = <<a, b, c>> /\ <<a, b, c>> \in Seq(S)
  <1>1. /\ <<a>> \in Seq(S) /\ <<b, c>> \in Seq(S) /\ <<a, b, c>> \in Seq(S)
        /\ Len(<<a>>) = 1 /\ Len(<<b, c>>) = 2 /\ Len(<<a, b, c>>) = 3
    OBVIOUS
  <1>2. /\ <<a>> \o <<b, c>> \in Seq(S) /\ Len(<<a>> \o <<b, c>>) = 3
        /\ \A i \in 1..3 : (<<a>> \o <<b, c>>)[i] = IF i <= 1 THEN <<a>>[i] ELSE <<b, c>>[i - 1]
    BY <1>1, ConcatProperties
  <1>3. \A i \in 1..3 : (<<a>> \o <<b, c>>)[i] = <<a, b, c>>[i]
    BY <1>2
  <1> QED
    BY <1>1, <1>2, <1>3, SeqEqual

LEMMA JoinFour ==
    ASSUME NEW S, NEW a \in S, NEW b \in S, NEW c \in S, NEW d \in S
    PROVE  <<a>> \o <<b, c, d>> = <<a, b, c, d>> /\ <<a, b, c, d>> \in Seq(S)
  <1>1. /\ <<a>> \in Seq(S) /\ <<b, c, d>> \in Seq(S) /\ <<a, b, c, d>> \in Seq(S)
        /\ Len(<<a>>) = 1 /\ Len(<<b, c, d>>) = 3 /\ Len(<<a, b, c, d>>) = 4
    OBVIOUS
  <1>2. /\ <<a>> \o <<b, c, d>> \in Seq(S) /\ Len(<<a>> \o <<b, c, d>>) = 4
        /\ \A i \in 1..4 : (<<a>> \o <<b, c, d>>)[i] = IF i <= 1 THEN <<a>>[i] ELSE <<b, c, d>>[i - 1]
    BY <1>1, ConcatProperties
  <1>3. \A i \in 1..4 : (<<a>> \o <<b, c, d>>)[i] = <<a, b, c, d>>[i]
    BY <1>2
  <1> QED
    BY <1>1, <1>2, <1>3, SeqEqual

\* What _moveDelegates emits.
LEMMA MoveEventsAre ==
    ASSUME ChainTyped, NEW src \in Addresses, NEW dst \in Addresses, NEW amount \in Nat
    PROVE  /\ \A d \in Accounts, change \in Int : VotesChanged(d, change) \in VoteEvents
           /\ src = dst \/ amount = 0 => MoveEvents(src, dst, amount) = << >>
           /\ src # dst /\ amount # 0 /\ src = Zero =>
                  MoveEvents(src, dst, amount) = <<VotesChanged(dst, amount)>>
           /\ src # dst /\ amount # 0 /\ dst = Zero =>
                  MoveEvents(src, dst, amount) = <<VotesChanged(src, -amount)>>
           /\ src # dst /\ amount # 0 /\ src # Zero /\ dst # Zero =>
                  MoveEvents(src, dst, amount) =
                      <<VotesChanged(src, -amount), VotesChanged(dst, amount)>>
  <1>1. \A d \in Accounts, change \in Int : VotesChanged(d, change) \in VoteEvents
    BY Countable DEF VotesChanged, VoteEvents
  <1>2. CASE src = dst \/ amount = 0
    BY <1>1, <1>2 DEF MoveEvents
  <1>3. CASE src # dst /\ amount # 0
    <2> DEFINE less == VotesChanged(src, -amount)
               more == VotesChanged(dst, amount)
    <2>1. amount \in Int /\ -amount \in Int
      OBVIOUS
    <2>2. (src # Zero => less \in VoteEvents) /\ (dst # Zero => more \in VoteEvents)
      BY <1>1, <2>1 DEF Addresses
    <2>3. MoveEvents(src, dst, amount) =
              (IF src = Zero THEN << >> ELSE <<less>>) \o (IF dst = Zero THEN << >> ELSE <<more>>)
      BY <1>3 DEF MoveEvents
    <2> HIDE DEF less, more
    <2>4. CASE src = Zero
      BY <1>1, <1>3, <2>2, <2>3, <2>4, JoinNone DEF more
    <2>5. CASE dst = Zero
      BY <1>1, <1>3, <2>2, <2>3, <2>5, JoinNone DEF less
    <2>6. CASE src # Zero /\ dst # Zero
      <3>1. <<less>> \o <<more>> = <<less, more>>
        BY <2>2, <2>6, JoinTwo
      <3> QED
        BY <1>1, <1>3, <2>3, <2>6, <3>1 DEF less, more
    <2> QED
      BY <2>4, <2>5, <2>6
  <1> QED
    BY <1>2, <1>3

\* Token events are events.
LEMMA TokenLog == \A s \in Seq(TokenEvents) : s \in Seq(Events)
  <1>1. TokenEvents \subseteq Events
    BY DEF Events
  <1> QED
    BY <1>1, SeqMonotonic

\* What the transactions of the token leave in the log.
LEMMA MintEffect ==
    ASSUME Typed, NEW to \in Recipients, Mint(to)
    PROVE  LET n == Len(nounOwner) + 1
           IN  /\ log = << >> /\ n \in NounIds /\ n \notin Minted /\ to \in Accounts
               /\ nounOwner' = Append(nounOwner, to)
               /\ log' = <<VotesChanged(DelegateOf(to), 1), Transferred(Zero, Creator, n),
                           Transferred(Creator, to, n),
                           [type |-> "NounCreated", tokenId |-> n]>>
               /\ UNCHANGED <<delegateOf, stage, receipts, storeVars>>
               /\ log' \in Seq(TokenEvents) /\ Typed'
  <1> DEFINE n == Len(nounOwner) + 1
  <1>1. /\ log = << >> /\ n <= MaxNouns
        /\ nounOwner' = Append(nounOwner, to)
        /\ log' = MintEvents(to, n)
        /\ UNCHANGED <<delegateOf, stage, receipts, storeVars>>
    BY DEF Mint, Transact
  <1>2. to \in Accounts /\ Creator \in Accounts
    BY SubgraphAssumption
  <1>3. n \in NounIds /\ n \notin Minted
    BY <1>1, Countable, SubgraphAssumption DEF Typed, NounIds
  <1>4. MoveEvents(Zero, DelegateOf(to), 1) = <<VotesChanged(DelegateOf(to), 1)>>
    BY <1>2, MoveEventsAre, DelegateTyped DEF Typed
  <1>5. /\ VotesChanged(DelegateOf(to), 1) \in TokenEvents
        /\ Transferred(Zero, Creator, n) \in TokenEvents
        /\ Transferred(Creator, to, n) \in TokenEvents
        /\ [type |-> "NounCreated", tokenId |-> n] \in TokenEvents
    <2>1. VotesChanged(DelegateOf(to), 1) \in VoteEvents
      BY <1>2, MoveEventsAre, DelegateTyped DEF Typed
    <2>2. Transferred(Zero, Creator, n) \in TransferEvents
          /\ Transferred(Creator, to, n) \in TransferEvents
      <3> HIDE DEF n
      <3> QED
        BY <1>2, <1>3, DelegateTyped DEF Transferred, TransferEvents, Typed
    <2>3. [type |-> "NounCreated", tokenId |-> n] \in SeedEvents
      BY <1>3 DEF SeedEvents
    <2> QED
      BY <2>1, <2>2, <2>3 DEF TokenEvents
  <1>6. log' = <<VotesChanged(DelegateOf(to), 1), Transferred(Zero, Creator, n),
                 Transferred(Creator, to, n), [type |-> "NounCreated", tokenId |-> n]>>
    <2> DEFINE a == VotesChanged(DelegateOf(to), 1)
               b == Transferred(Zero, Creator, n)
               c == Transferred(Creator, to, n)
               d == [type |-> "NounCreated", tokenId |-> n]
    <2>1. log' = <<a>> \o <<b, c, d>>
      BY <1>1, <1>4 DEF MintEvents
    <2>2. a \in TokenEvents /\ b \in TokenEvents /\ c \in TokenEvents /\ d \in TokenEvents
      BY <1>5
    <2> HIDE DEF a, b, c, d
    <2>3. <<a>> \o <<b, c, d>> = <<a, b, c, d>>
      BY <2>2, JoinFour
    <2> QED
      BY <2>1, <2>3 DEF a, b, c, d
  <1>7. log' \in Seq(TokenEvents)
    BY <1>5, <1>6
  <1>8. nounOwner' \in Seq(Addresses) /\ Len(nounOwner') <= MaxNouns
    BY <1>1, <1>2 DEF Typed, ChainTyped, Addresses
  <1>9. Typed'
    BY <1>1, <1>7, <1>8, TokenLog
    DEF Typed, ChainTyped, StoreTyped, storeVars, tokenEntities, daoEntities
  <1> QED
    BY <1>1, <1>2, <1>3, <1>6, <1>7, <1>9

\* A transfer, or a burn.
LEMMA MoveEffect ==
    ASSUME Typed, NEW n \in Minted, NEW to \in Addresses, MoveNoun(n, to),
           NEW from, from = nounOwner[n], NEW src, src = DelegateOf(from),
           NEW dst, dst = DelegateOf(to), NEW moved, moved = Transferred(from, to, n)
    PROVE  /\ log = << >> /\ from \in Accounts /\ src \in Accounts /\ n \in NounIds
           /\ dst \in Addresses /\ (dst = Zero <=> to = Zero)
           /\ nounOwner' = [nounOwner EXCEPT ![n] = to]
           /\ src = dst => log' = <<moved>>
           /\ src # dst /\ to = Zero => log' = <<VotesChanged(src, -1), moved>>
           /\ src # dst /\ to # Zero =>
                  log' = <<VotesChanged(src, -1), VotesChanged(dst, 1), moved>>
           /\ UNCHANGED <<delegateOf, stage, receipts, storeVars>>
           /\ log' \in Seq(TokenEvents) /\ Typed'
  <1>1. /\ log = << >> /\ from # Zero
        /\ nounOwner' = [nounOwner EXCEPT ![n] = to]
        /\ log' = MoveEvents(src, dst, 1) \o <<moved>>
        /\ UNCHANGED <<delegateOf, stage, receipts, storeVars>>
    BY DEF MoveNoun, Transact
  <1>2. /\ from \in Accounts /\ src \in Accounts /\ n \in NounIds /\ src # Zero
        /\ dst \in Addresses /\ (dst = Zero <=> to = Zero) /\ (dst # Zero => dst \in Accounts)
    BY <1>1, Countable, DelegateTyped DEF Typed, Addresses
  <1>3. moved \in TokenEvents
    BY <1>2, DelegateTyped DEF Transferred, TokenEvents, TransferEvents, Typed
  <1> DEFINE less == VotesChanged(src, -1)
             more == VotesChanged(dst, 1)
  <1>4. /\ less \in TokenEvents /\ (dst # Zero => more \in TokenEvents)
        /\ src = dst => MoveEvents(src, dst, 1) = << >>
        /\ src # dst /\ to = Zero => MoveEvents(src, dst, 1) = <<less>>
        /\ src # dst /\ to # Zero => MoveEvents(src, dst, 1) = <<less, more>>
    <2>1. 1 \in Nat /\ 1 # 0 /\ 1 \in Int /\ -1 \in Int /\ src \in Addresses
      BY <1>2, DelegateTyped DEF Typed
    <2>2. less \in VoteEvents /\ (dst # Zero => more \in VoteEvents)
      BY <1>2, <2>1, MoveEventsAre DEF Typed
    <2> QED
      BY <1>2, <2>1, <2>2, MoveEventsAre DEF Typed, TokenEvents
  <1> HIDE DEF less, more
  <1>5. /\ src = dst => log' = <<moved>>
        /\ src # dst /\ to = Zero => log' = <<less, moved>>
        /\ src # dst /\ to # Zero => log' = <<less, more, moved>>
    <2>1. << >> \o <<moved>> = <<moved>> /\ <<less>> \o <<moved>> = <<less, moved>>
      BY <1>3, <1>4, JoinNone, JoinTwo
    <2>2. dst # Zero => <<less, more>> \o <<moved>> = <<less, more, moved>>
      BY <1>3, <1>4, JoinLast
    <2> QED
      BY <1>1, <1>2, <1>4, <2>1, <2>2
  <1>6. log' \in Seq(TokenEvents)
    <2>1. CASE src = dst
      BY <1>3, <1>5, <2>1, JoinNone
    <2>2. CASE src # dst /\ to = Zero
      BY <1>3, <1>4, <1>5, <2>2, JoinTwo
    <2>3. CASE src # dst /\ to # Zero
      <3>1. log' = <<less, more, moved>> /\ more \in TokenEvents
        BY <1>2, <1>4, <1>5, <2>3
      <3>2. <<less, more, moved>> \in Seq(TokenEvents)
        BY <1>3, <1>4, <3>1, JoinLast
      <3> QED
        BY <3>1, <3>2
    <2> QED
      BY <2>1, <2>2, <2>3
  <1>7. nounOwner' \in Seq(Addresses) /\ Len(nounOwner') = Len(nounOwner)
    BY <1>1, ExceptSeq, Countable DEF Typed, ChainTyped
  <1>8. Typed'
    BY <1>1, <1>6, <1>7, TokenLog
    DEF Typed, ChainTyped, StoreTyped, storeVars, tokenEntities, daoEntities
  <1> QED
    BY <1>1, <1>2, <1>5, <1>6, <1>8 DEF less, more

\* A delegation.
LEMMA DelegateEffect ==
    ASSUME Typed, NEW delegator \in Accounts, NEW delegatee \in Accounts,
           Delegate(delegator, delegatee),
           NEW old, old = DelegateOf(delegator),
           NEW amount, amount = Cardinality(Owned(delegator)),
           NEW changed, changed = [type |-> "DelegateChanged", delegator |-> delegator,
                                   fromDelegate |-> old, toDelegate |-> delegatee]
    PROVE  /\ log = << >> /\ old \in Accounts /\ amount \in Nat
           /\ delegateOf' = [delegateOf EXCEPT ![delegator] = delegatee]
           /\ old = delegatee \/ amount = 0 => log' = <<changed>>
           /\ ~(old = delegatee \/ amount = 0) =>
                  log' = <<changed, VotesChanged(old, -amount), VotesChanged(delegatee, amount)>>
           /\ UNCHANGED <<nounOwner, stage, receipts, storeVars>>
           /\ log' \in Seq(TokenEvents) /\ Typed'
  <1>1. /\ log = << >>
        /\ delegateOf' = [delegateOf EXCEPT ![delegator] = delegatee]
        /\ log' = <<changed>> \o MoveEvents(old, delegatee, amount)
        /\ UNCHANGED <<nounOwner, stage, receipts, storeVars>>
    BY DEF Delegate, Transact
  <1>2. old \in Accounts /\ amount \in Nat
    BY DelegateTyped, Countable DEF Typed
  <1>3. changed \in TokenEvents
    BY <1>2 DEF TokenEvents, DelegationEvents
  <1> DEFINE less == VotesChanged(old, -amount)
             more == VotesChanged(delegatee, amount)
  <1>4. /\ less \in TokenEvents /\ more \in TokenEvents
        /\ old = delegatee \/ amount = 0 => MoveEvents(old, delegatee, amount) = << >>
        /\ ~(old = delegatee \/ amount = 0) =>
               MoveEvents(old, delegatee, amount) = <<less, more>>
    <2>1. /\ -amount \in Int /\ amount \in Int
          /\ old \in Addresses /\ delegatee \in Addresses /\ old # Zero /\ delegatee # Zero
      BY <1>2, DelegateTyped DEF Typed
    <2>2. less \in VoteEvents /\ more \in VoteEvents
      BY <1>2, <2>1, MoveEventsAre DEF Typed
    <2> QED
      BY <1>2, <2>1, <2>2, MoveEventsAre DEF Typed, TokenEvents
  <1> HIDE DEF less, more
  <1>5. /\ old = delegatee \/ amount = 0 => log' = <<changed>>
        /\ ~(old = delegatee \/ amount = 0) => log' = <<changed, less, more>>
    <2>1. <<changed>> \o << >> = <<changed>> /\ <<changed>> \o <<less, more>> = <<changed, less, more>>
      BY <1>3, <1>4, JoinNone, JoinFirst
    <2> QED
      BY <1>1, <1>4, <2>1
  <1>6. log' \in Seq(TokenEvents)
    <2>1. CASE old = delegatee \/ amount = 0
      BY <1>3, <1>5, <2>1, JoinNone
    <2>2. CASE ~(old = delegatee \/ amount = 0)
      <3>1. <<changed, less, more>> \in Seq(TokenEvents)
        BY <1>3, <1>4, JoinFirst
      <3> QED
        BY <1>5, <2>2, <3>1
    <2> QED
      BY <2>1, <2>2
  <1>7. delegateOf' \in [Accounts -> Addresses]
    BY <1>1 DEF Typed, ChainTyped, Addresses
  <1>8. Typed'
    BY <1>1, <1>6, <1>7, TokenLog
    DEF Typed, ChainTyped, StoreTyped, storeVars, tokenEntities, daoEntities
  <1> QED
    BY <1>1, <1>2, <1>5, <1>6, <1>8 DEF less, more

\* A step of the DAO announces itself with one event.
LEMMA DAOEffect ==
    ASSUME Typed, NEW id \in Ids, NEW s \in Stages, NEW e \in DAOEvents,
           OnProposal(id, s, <<e>>), receipts' \in [Ids -> [Accounts -> Nat \cup {Null}]]
    PROVE  /\ log = << >> /\ log' = <<e>> /\ stage' = [stage EXCEPT ![id] = s]
           /\ UNCHANGED <<nounOwner, delegateOf, storeVars>>
           /\ Typed'
  <1>1. /\ log = << >> /\ log' = <<e>> /\ stage' = [stage EXCEPT ![id] = s]
        /\ UNCHANGED <<nounOwner, delegateOf, storeVars>>
    BY DEF OnProposal, Transact
  <1>2. log' \in Seq(Events)
    <2>1. e \in Events
      BY DEF Events
    <2> QED
      BY <1>1, <2>1, JoinNone
  <1>3. stage' \in [Ids -> Stages]
    BY <1>1 DEF Typed, ChainTyped
  <1> QED
    BY <1>1, <1>2, <1>3
    DEF Typed, ChainTyped, StoreTyped, storeVars, tokenEntities, daoEntities

\* Handling takes the first event out of the log and leaves the chain alone.
LEMMA Popped ==
    ASSUME log \in Seq(Events), log # << >>, log' = Tail(log)
    PROVE  /\ Head(log) = log[1] /\ log[1] \in Events /\ 1 \in DOMAIN log
           /\ Len(log) \in Nat /\ Len(log) > 0
           /\ log' \in Seq(Events) /\ Len(log') = Len(log) - 1
           /\ DOMAIN log = 1..Len(log) /\ DOMAIN log' = 1..(Len(log) - 1)
           /\ \A i \in DOMAIN log' : i + 1 \in DOMAIN log /\ log'[i] = log[i + 1]
           /\ log' = << >> <=> Len(log) = 1
  <1>1. Len(log) \in Nat /\ Len(log) > 0 /\ Head(log) = log[1] /\ DOMAIN log = 1..Len(log)
    BY EmptySeq, LenProperties
  <1>2. /\ log' \in Seq(Events) /\ Len(log') = Len(log) - 1
        /\ \A i \in 1..Len(log') : log'[i] = log[i + 1]
    BY HeadTailProperties
  <1>3. log[1] \in Events
    BY <1>1, ElementOfSeq
  <1>4. DOMAIN log' = 1..Len(log')
    BY <1>2, LenProperties
  <1>5. log' = << >> <=> Len(log') = 0
    BY <1>2, EmptySeq
  <1> QED
    BY <1>1, <1>2, <1>3, <1>4, <1>5

\* What every handler does with the log.
LEMMA Handled ==
    ASSUME Typed, NEW type, Handle(type), UNCHANGED chainVars
    PROVE  /\ log \in Seq(Events) /\ log # << >> /\ log' = Tail(log)
           /\ Head(log) = log[1] /\ log[1] \in Events /\ log[1].type = type
           /\ ChainTyped'
  <1>1. log \in Seq(Events) /\ log # << >> /\ log' = Tail(log) /\ Head(log).type = type
    BY DEF Handle, Typed, ChainTyped
  <1>2. Head(log) = log[1] /\ log[1] \in Events /\ log' \in Seq(Events)
    BY <1>1, Popped
  <1> QED
    BY <1>1, <1>2 DEF Typed, ChainTyped, chainVars

-----------------------------------------------------------------------------
(* The store keeps its types.                                              *)

\* What a handler does to the aggregates when it may create a delegate.
LEMMA CountTyped ==
    ASSUME NEW g \in GovernanceEntity, NEW ds, NEW d
    PROVE  /\ CountDelegate(g, ds, d) \in GovernanceEntity
           /\ \E total \in Int : CountDelegate(g, ds, d) = [g EXCEPT !.totalDelegates = total]
  <1>1. CASE ds[d].stored \/ d = Zero
    <2>1. CountDelegate(g, ds, d) = g
      BY <1>1 DEF CountDelegate
    <2>2. g = [g EXCEPT !.totalDelegates = g.totalDelegates] /\ g.totalDelegates \in Int
      BY DEF GovernanceEntity
    <2> QED
      BY <2>1, <2>2
  <1>2. CASE ~(ds[d].stored \/ d = Zero)
    <2>1. CountDelegate(g, ds, d) = [g EXCEPT !.totalDelegates = g.totalDelegates + 1]
      BY <1>2 DEF CountDelegate
    <2>2. g.totalDelegates + 1 \in Int
      BY DEF GovernanceEntity
    <2>3. [g EXCEPT !.totalDelegates = g.totalDelegates + 1] \in GovernanceEntity
      BY <2>2 DEF GovernanceEntity
    <2> QED
      BY <2>1, <2>2, <2>3
  <1> QED
    BY <1>1, <1>2

\* The handlers of the DAO's events.
LEMMA DAOHandlersTyped ==
    ASSUME Typed, \/ handleProposalCreatedWithRequirements \/ handleProposalCanceled
                  \/ handleProposalVetoed \/ handleProposalQueued
                  \/ handleProposalExecuted \/ handleVoteCast
    PROVE  Typed'
  <1> USE DEF Typed, StoreTyped
  <1>1. CASE handleProposalCreatedWithRequirements
    <2> DEFINE e == Head(log)
    <2>1. /\ Handle("ProposalCreatedWithRequirements")
          /\ governance' = CountDelegate([governance EXCEPT !.proposals = @ + 1],
                                         delegates, e.proposer)
          /\ delegates' = [delegates EXCEPT ![e.proposer].stored = TRUE]
          /\ proposals' = [proposals EXCEPT ![e.id].status = "PENDING"]
          /\ UNCHANGED <<chainVars, nouns, accounts, votes>>
      BY <1>1 DEF handleProposalCreatedWithRequirements
    <2>2. ChainTyped'
      BY <2>1, Handled
    <2>3. [governance EXCEPT !.proposals = @ + 1] \in GovernanceEntity
      BY DEF GovernanceEntity
    <2>4. governance' \in GovernanceEntity
      BY <2>1, <2>3, CountTyped
    <2> HIDE DEF e
    <2>5. delegates' \in [Addresses -> DelegateEntity]
      BY <2>1 DEF DelegateEntity
    <2>6. proposals' \in [Ids -> [status : Statuses, executionETA : BOOLEAN]]
      BY <2>1 DEF Statuses
    <2> QED
      BY <2>1, <2>2, <2>4, <2>5, <2>6
  <1>2. ASSUME NEW id, NEW status \in Statuses, SetStatus(id, status)
        PROVE  proposals' \in [Ids -> [status : Statuses, executionETA : BOOLEAN]]
    BY <1>2 DEF SetStatus
  <1>3. CASE handleProposalCanceled
    <2>1. Handle("ProposalCanceled") /\ UNCHANGED chainVars
      BY <1>3 DEF handleProposalCanceled
    <2>2. ChainTyped'
      BY <2>1, Handled
    <2>3. proposals' \in [Ids -> [status : Statuses, executionETA : BOOLEAN]]
      BY <1>2, <1>3 DEF handleProposalCanceled, Statuses
    <2> QED
      BY <1>3, <2>2, <2>3 DEF handleProposalCanceled, tokenEntities
  <1>4. CASE handleProposalVetoed
    <2>1. Handle("ProposalVetoed") /\ UNCHANGED chainVars
      BY <1>4 DEF handleProposalVetoed
    <2>2. ChainTyped'
      BY <2>1, Handled
    <2>3. proposals' \in [Ids -> [status : Statuses, executionETA : BOOLEAN]]
      BY <1>2, <1>4 DEF handleProposalVetoed, Statuses
    <2> QED
      BY <1>4, <2>2, <2>3 DEF handleProposalVetoed, tokenEntities
  <1>5. CASE handleProposalQueued
    <2>1. Handle("ProposalQueued") /\ UNCHANGED chainVars
      BY <1>5 DEF handleProposalQueued
    <2>2. ChainTyped'
      BY <2>1, Handled
    <2>3. proposals' \in [Ids -> [status : Statuses, executionETA : BOOLEAN]]
      BY <1>5 DEF handleProposalQueued, Statuses
    <2>4. governance' \in GovernanceEntity
      BY <1>5 DEF handleProposalQueued, GovernanceEntity
    <2> QED
      BY <1>5, <2>2, <2>3, <2>4 DEF handleProposalQueued, tokenEntities
  <1>6. CASE handleProposalExecuted
    <2>1. Handle("ProposalExecuted") /\ UNCHANGED chainVars
      BY <1>6 DEF handleProposalExecuted
    <2>2. ChainTyped'
      BY <2>1, Handled
    <2>3. proposals' \in [Ids -> [status : Statuses, executionETA : BOOLEAN]]
      BY <1>6 DEF handleProposalExecuted, Statuses
    <2>4. governance' \in GovernanceEntity
      BY <1>6 DEF handleProposalExecuted, QueueAfterExecution, GovernanceEntity
    <2> QED
      BY <1>6, <2>2, <2>3, <2>4 DEF handleProposalExecuted, tokenEntities
  <1>7. CASE handleVoteCast
    <2> DEFINE e == Head(log)
    <2>1. /\ Handle("VoteCast")
          /\ votes' = [votes EXCEPT ![e.proposalId][e.voter] = e.votes]
          /\ governance' = CountDelegate(governance, delegates, e.voter)
          /\ delegates' = [delegates EXCEPT ![e.voter].stored = TRUE]
          /\ SetStatus(e.proposalId, StatusAfterVote(e.proposalId))
          /\ UNCHANGED <<chainVars, nouns, accounts>>
      BY <1>7 DEF handleVoteCast, VotesAfter
    <2>2. ChainTyped' /\ Head(log) \in Events /\ Head(log).type = "VoteCast"
      BY <2>1, Handled
    <2>3. Head(log) \in CastEvents
      BY <2>2, EventFields
    <2>4. governance' \in GovernanceEntity
      BY <2>1, CountTyped
    <2>5. e.proposalId \in Ids /\ e.voter \in Accounts /\ e.votes \in Nat
      BY <2>3 DEF CastEvents
    <2> HIDE DEF e
    <2>6. delegates' \in [Addresses -> DelegateEntity]
      BY <2>1 DEF DelegateEntity
    <2>7. proposals' \in [Ids -> [status : Statuses, executionETA : BOOLEAN]]
      <3>1. StatusAfterVote(e.proposalId) \in Statuses
        BY <2>5 DEF StatusAfterVote, Statuses
      <3> QED
        BY <1>2, <2>1, <3>1
    <2>8. votes' \in [Ids -> [Accounts -> Nat \cup {Null}]]
      BY <2>1, <2>5
    <2> QED
      BY <2>1, <2>2, <2>4, <2>6, <2>7, <2>8
  <1> QED
    BY <1>1, <1>3, <1>4, <1>5, <1>6, <1>7

\* Lists of nouns.
LEMMA ListsTyped ==
    /\ NoNouns \in Lists
    /\ \A list \in Lists, n \in NounIds : Push(list, n) \in Lists
    /\ \A list \in Lists : \A ns : Without(list, ns) \in Lists
  BY DEF Lists, NoNouns, Push, Without

\* The handlers of the token's events.
LEMMA TokenHandlersTyped ==
    ASSUME Typed, \/ handleNounCreated \/ handleDelegateChanged
                  \/ handleDelegateVotesChanged \/ handleTransfer
    PROVE  Typed'
  <1> USE DEF Typed, StoreTyped
  <1>1. CASE handleNounCreated
    <2>1. Handle("NounCreated") /\ UNCHANGED chainVars
      BY <1>1 DEF handleNounCreated
    <2>2. ChainTyped'
      BY <2>1, Handled
    <2>3. nouns' \in [NounIds -> NounEntity]
      BY <1>1 DEF handleNounCreated, NounEntity
    <2> QED
      BY <1>1, <2>2, <2>3 DEF handleNounCreated, daoEntities
  <1>2. CASE handleDelegateChanged
    <2> DEFINE e == Head(log)
               holder == accounts[e.delegator]
    <2>1. Handle("DelegateChanged") /\ UNCHANGED chainVars
      BY <1>2 DEF handleDelegateChanged
    <2>2. ChainTyped' /\ e \in Events /\ e.type = "DelegateChanged"
      BY <2>1, Handled
    <2>3. /\ e.delegator \in Accounts /\ e.fromDelegate \in Addresses
          /\ e.toDelegate \in Addresses /\ e.delegator \in Addresses
      BY <2>2, EventFields DEF DelegationEvents, Addresses
    <2>4. accounts' \in [Addresses -> AccountEntity]
      BY <1>2, <2>3 DEF handleDelegateChanged, AccountEntity
    <2>5. holder.nouns \in Lists
      BY <2>3 DEF AccountEntity
    <2>6. delegates' \in [Addresses -> DelegateEntity]
      <3> DEFINE gained == [n \in NounIds |-> delegates[e.toDelegate].nounsRepresented[n] + holder.nouns[n]]
                 own == {n \in NounIds : holder.nouns[n] > 0}
                 kept == Without(delegates[e.fromDelegate].nounsRepresented, own)
                 more == [delegates[e.toDelegate] EXCEPT
                              !.stored = TRUE, !.tokenHoldersRepresented = @ + 1,
                              !.nounsRepresented = gained]
                 less == [delegates[e.fromDelegate] EXCEPT
                              !.stored = TRUE, !.tokenHoldersRepresented = @ - 1,
                              !.nounsRepresented = kept]
      <3>1. delegates[e.toDelegate] \in DelegateEntity /\ delegates[e.fromDelegate] \in DelegateEntity
        BY <2>3
      <3>2. gained \in Lists /\ kept \in Lists
        <4>1. /\ delegates[e.toDelegate].nounsRepresented \in Lists
              /\ delegates[e.fromDelegate].nounsRepresented \in Lists
          BY <3>1 DEF DelegateEntity
        <4> HIDE DEF e, holder, own
        <4>2. gained \in Lists
          BY <2>5, <4>1 DEF Lists
        <4>3. kept \in Lists
          BY <4>1, ListsTyped
        <4> QED
          BY <4>2, <4>3
      <3>3. delegates' = [d \in Addresses |->
                              CASE d = e.toDelegate -> more
                                [] d = e.fromDelegate /\ d # e.toDelegate -> less
                                [] OTHER -> delegates[d]]
        BY <1>2, <2>3 DEF handleDelegateChanged
      <3> HIDE DEF gained, kept, e
      <3>4. ASSUME NEW p \in DelegateEntity, NEW k \in {1, -1}, NEW list \in Lists
            PROVE  [p EXCEPT !.stored = TRUE, !.tokenHoldersRepresented = @ + k,
                             !.nounsRepresented = list] \in DelegateEntity
        <4> DEFINE represented == p.tokenHoldersRepresented + k
        <4>1. represented \in Int
          BY DEF DelegateEntity
        <4> HIDE DEF represented
        <4>2. [p EXCEPT !.stored = TRUE, !.tokenHoldersRepresented = represented,
                        !.nounsRepresented = list] \in DelegateEntity
          BY <3>4, <4>1 DEF DelegateEntity
        <4> QED
          BY <4>2 DEF represented
      <3>5. more \in DelegateEntity
        BY <3>1, <3>2, <3>4
      <3>6. less \in DelegateEntity
        <4>1. less = [delegates[e.fromDelegate] EXCEPT
                          !.stored = TRUE, !.tokenHoldersRepresented = @ + -1,
                          !.nounsRepresented = kept]
          BY <3>1 DEF DelegateEntity
        <4> QED
          BY <3>1, <3>2, <3>4, <4>1
      <3> HIDE DEF more, less
      <3> QED
        BY <3>3, <3>5, <3>6
    <2>7. governance' \in GovernanceEntity
      <3>1. CASE e.fromDelegate = e.toDelegate
        BY <1>2, <3>1, CountTyped DEF handleDelegateChanged
      <3>2. CASE e.fromDelegate # e.toDelegate
        <4>1. CountDelegate(governance, delegates, e.fromDelegate) \in GovernanceEntity
          BY CountTyped
        <4> QED
          BY <1>2, <3>2, <4>1, CountTyped DEF handleDelegateChanged
      <3> QED
        BY <3>1, <3>2
    <2> QED
      BY <1>2, <2>2, <2>4, <2>6, <2>7 DEF handleDelegateChanged, daoEntities
  <1>3. CASE handleDelegateVotesChanged
    <2> DEFINE e == Head(log)
    <2>1. Handle("DelegateVotesChanged") /\ UNCHANGED chainVars
      BY <1>3 DEF handleDelegateVotesChanged
    <2>2. ChainTyped' /\ e \in Events /\ e.type = "DelegateVotesChanged"
      BY <2>1, Handled
    <2>3. /\ e.delegate \in Addresses
          /\ e.newBalance \in Int /\ e.previousBalance \in Int
      BY <2>2, EventFields DEF VoteEvents, Addresses
    <2>4. delegates' \in [Addresses -> DelegateEntity]
      BY <1>3, <2>3 DEF handleDelegateVotesChanged, DelegateEntity
    <2>5. governance' \in GovernanceEntity
      <3>1. DelegatesAfter(e) \in Int
        BY <2>3 DEF DelegatesAfter, GovernanceEntity
      <3>2. governance.delegatedVotes + e.newBalance - e.previousBalance \in Int
        BY <2>3 DEF GovernanceEntity
      <3> QED
        BY <1>3, <3>1, <3>2 DEF handleDelegateVotesChanged, GovernanceEntity
    <2> QED
      BY <1>3, <2>2, <2>4, <2>5 DEF handleDelegateVotesChanged, daoEntities
  <1>4. CASE handleTransfer
    <2> DEFINE e == Head(log)
    <2>1. Handle("Transfer") /\ UNCHANGED chainVars
      BY <1>4 DEF handleTransfer
    <2>2. ChainTyped' /\ e \in Events /\ e.type = "Transfer"
      BY <2>1, Handled
    <2>3. e.from \in Addresses /\ e.to \in Addresses /\ e.tokenId \in NounIds
      BY <2>2, EventFields DEF TransferEvents
    <2>4. /\ governance' = GovernanceAfter(e.from, e.to)
          /\ delegates' = Listed(e.from, e.to, e.tokenId)
          /\ accounts' = AccountsAfter(e.from, e.to, e.tokenId)
          /\ nouns' = [nouns EXCEPT ![e.tokenId].owner = e.to]
          /\ UNCHANGED daoEntities
      BY <1>4 DEF handleTransfer
    <2> HIDE DEF e
    <2>5. nouns' \in [NounIds -> NounEntity]
      BY <2>3, <2>4 DEF NounEntity
    <2>6. accounts' \in [Addresses -> AccountEntity]
      <3>1. \A a \in Addresses : Sent(accounts[a], e.tokenId) \in AccountEntity
        BY <2>3, ListsTyped DEF Sent, AccountEntity
      <3>2. Received(accounts[e.to], e.to, e.tokenId) \in AccountEntity
        BY <2>3, ListsTyped DEF Received, AccountEntity
      <3> QED
        BY <2>3, <2>4, <3>1, <3>2 DEF AccountsAfter
    <2>7. delegates' \in [Addresses -> DelegateEntity]
      <3>1. ASSUME NEW ds \in [Addresses -> DelegateEntity], NEW d \in Addresses,
                   NEW list \in Lists
            PROVE  /\ [ds EXCEPT ![d].nounsRepresented = list] \in [Addresses -> DelegateEntity]
                   /\ [ds EXCEPT ![d].stored = TRUE, ![d].nounsRepresented = list]
                          \in [Addresses -> DelegateEntity]
        BY DEF DelegateEntity
      <3>2. Unlisted(e.from, e.tokenId) \in [Addresses -> DelegateEntity]
        <4> DEFINE d == accounts[e.from].delegate
        <4>1. d \in Addresses \cup {Null}
          BY <2>3 DEF AccountEntity
        <4>2. CASE e.from = Zero \/ d = Null
          BY <4>2 DEF Unlisted
        <4>3. CASE ~(e.from = Zero \/ d = Null)
          <5>1. d \in Addresses
            BY <4>1, <4>3
          <5>2. Without(delegates[d].nounsRepresented, {e.tokenId}) \in Lists
            BY <5>1, ListsTyped DEF DelegateEntity
          <5>3. Unlisted(e.from, e.tokenId)
                    = [delegates EXCEPT ![d].nounsRepresented =
                           Without(delegates[d].nounsRepresented, {e.tokenId})]
            BY <4>3, <5>1 DEF Unlisted
          <5>4. \A list \in Lists : [delegates EXCEPT ![d].nounsRepresented = list]
                                       \in [Addresses -> DelegateEntity]
            BY <3>1, <5>1
          <5> QED
            BY <5>2, <5>3, <5>4
        <4> QED
          BY <4>2, <4>3
      <3> DEFINE ds == Unlisted(e.from, e.tokenId)
      <3>3. delegates' = [ds EXCEPT ![e.to].stored = TRUE,
                                    ![e.to].nounsRepresented =
                                        Push(ds[e.to].nounsRepresented, e.tokenId)]
        BY <2>3, <2>4, <3>2 DEF Listed
      <3> HIDE DEF ds
      <3>4. Push(ds[e.to].nounsRepresented, e.tokenId) \in Lists
        BY <2>3, <3>2, ListsTyped DEF DelegateEntity, ds
      <3> QED
        BY <2>3, <3>1, <3>2, <3>3, <3>4 DEF ds
    <2>8. governance' \in GovernanceEntity
      <3> DEFINE counted == [governance EXCEPT
                     !.totalTokenHolders = @ + (IF e.from = Zero THEN 1 ELSE 0)
                                             - (IF e.to = Zero THEN 1 ELSE 0),
                     !.currentTokenHolders = @ + HoldersGained(e.to) - HoldersLost(e.from)]
      <3>1. HoldersGained(e.to) \in Int /\ HoldersLost(e.from) \in Int
        BY DEF HoldersGained, HoldersLost
      <3>2. counted \in GovernanceEntity
        <4> DEFINE x == governance.totalTokenHolders + (IF e.from = Zero THEN 1 ELSE 0)
                                                     - (IF e.to = Zero THEN 1 ELSE 0)
                   y == governance.currentTokenHolders + HoldersGained(e.to)
                                                       - HoldersLost(e.from)
        <4>1. x \in Int /\ y \in Int
          BY <3>1 DEF GovernanceEntity
        <4>2. counted = [governance EXCEPT !.totalTokenHolders = x, !.currentTokenHolders = y]
          BY DEF GovernanceEntity
        <4> HIDE DEF x, y, counted
        <4> QED
          BY <4>1, <4>2 DEF GovernanceEntity
      <3>3. governance' = IF accounts[e.to].tokenBalance = 0 THEN counted
                          ELSE CountDelegate(counted, delegates, e.to)
        BY <2>4 DEF GovernanceAfter
      <3> HIDE DEF counted
      <3> QED
        BY <3>2, <3>3, CountTyped
    <2> QED
      BY <2>2, <2>4, <2>5, <2>6, <2>7, <2>8 DEF daoEntities
  <1> QED
    BY <1>1, <1>2, <1>3, <1>4

\* What a transaction of the DAO emits, and of which stage the proposal then is.
LEMMA ProposalEffect ==
    ASSUME Typed, NEW id \in Ids
    PROVE  /\ \A a \in Accounts : Propose(id, a) =>
                  /\ stage[id] = "None" /\ UNCHANGED receipts
                  /\ [type |-> "ProposalCreatedWithRequirements", id |-> id, proposer |-> a]
                         \in CreationEvents
                  /\ OnProposal(id, "Pending", <<[type |-> "ProposalCreatedWithRequirements",
                                                  id |-> id, proposer |-> a]>>)
           /\ \A a \in Accounts : \A weight \in {0, Votes(a)} : CastVote(id, a, weight) =>
                  /\ stage[id] = "Active"
                  /\ receipts' = [receipts EXCEPT ![id][a] = weight]
                  /\ receipts' \in [Ids -> [Accounts -> Nat \cup {Null}]]
                  /\ [type |-> "VoteCast", voter |-> a, proposalId |-> id, votes |-> weight]
                         \in CastEvents
                  /\ OnProposal(id, "Active", <<[type |-> "VoteCast", voter |-> a,
                                                 proposalId |-> id, votes |-> weight]>>)
           /\ \A type \in StatusTypes :
                  ProposalEvent(type, id) = <<[type |-> type, id |-> id]>>
                  /\ [type |-> type, id |-> id] \in StatusEvents
  <1>1. \A type \in StatusTypes :
            ProposalEvent(type, id) = <<[type |-> type, id |-> id]>>
            /\ [type |-> type, id |-> id] \in StatusEvents
    BY DEF ProposalEvent, StatusEvents
  <1>2. ASSUME NEW a \in Accounts, Propose(id, a)
        PROVE  /\ stage[id] = "None" /\ UNCHANGED receipts
               /\ [type |-> "ProposalCreatedWithRequirements", id |-> id, proposer |-> a]
                      \in CreationEvents
               /\ OnProposal(id, "Pending", <<[type |-> "ProposalCreatedWithRequirements",
                                               id |-> id, proposer |-> a]>>)
    BY <1>2 DEF Propose, CreationEvents
  <1>3. ASSUME NEW a \in Accounts, NEW weight \in {0, Votes(a)}, CastVote(id, a, weight)
        PROVE  /\ stage[id] = "Active"
               /\ receipts' = [receipts EXCEPT ![id][a] = weight]
               /\ receipts' \in [Ids -> [Accounts -> Nat \cup {Null}]]
               /\ [type |-> "VoteCast", voter |-> a, proposalId |-> id, votes |-> weight]
                      \in CastEvents
               /\ OnProposal(id, "Active", <<[type |-> "VoteCast", voter |-> a,
                                              proposalId |-> id, votes |-> weight]>>)
    <2>1. weight \in Nat
      BY Countable DEF Typed
    <2>2. /\ stage[id] = "Active"
          /\ receipts' = [receipts EXCEPT ![id][a] = weight]
          /\ OnProposal(id, "Active", <<[type |-> "VoteCast", voter |-> a,
                                         proposalId |-> id, votes |-> weight]>>)
      BY <1>3 DEF CastVote
    <2>3. [type |-> "VoteCast", voter |-> a, proposalId |-> id, votes |-> weight] \in CastEvents
      BY <2>1 DEF CastEvents
    <2>4. receipts' \in [Ids -> [Accounts -> Nat \cup {Null}]]
      BY <2>1, <2>2 DEF Typed, ChainTyped
    <2> QED
      BY <2>2, <2>3, <2>4
  <1> QED
    BY <1>1, <1>2, <1>3

\* Where a transaction of the DAO leads.
LEMMA DAOSteps ==
    ASSUME Typed, DAOTransaction
    PROVE  \/ /\ \E id \in Ids, s \in Stages : Passes(id, s)
              /\ Typed'
           \/ \E id \in Ids, s \in Stages, e \in DAOEvents :
                  /\ log = << >> /\ log' = <<e>> /\ stage' = [stage EXCEPT ![id] = s]
                  /\ UNCHANGED <<nounOwner, delegateOf, storeVars>>
                  /\ Typed'
  <1>1. /\ CreationEvents \subseteq DAOEvents /\ StatusEvents \subseteq DAOEvents
        /\ CastEvents \subseteq DAOEvents
    BY DEF DAOEvents
  <1>2. ASSUME UNCHANGED receipts
        PROVE  receipts' \in [Ids -> [Accounts -> Nat \cup {Null}]]
    BY <1>2 DEF Typed, ChainTyped
  <1>3. ASSUME NEW id \in Ids, NEW a \in Accounts, Propose(id, a)
        PROVE  \E s \in Stages, e \in DAOEvents :
                  /\ log = << >> /\ log' = <<e>> /\ stage' = [stage EXCEPT ![id] = s]
                  /\ UNCHANGED <<nounOwner, delegateOf, storeVars>>
                  /\ Typed'
    <2> DEFINE e == [type |-> "ProposalCreatedWithRequirements", id |-> id, proposer |-> a]
    <2>1. e \in DAOEvents /\ OnProposal(id, "Pending", <<e>>) /\ UNCHANGED receipts
      BY <1>1, <1>3, ProposalEffect
    <2>2. "Pending" \in Stages
      BY DEF Stages
    <2> HIDE DEF e
    <2> QED
      BY <1>2, <2>1, <2>2, DAOEffect
  <1>4. ASSUME NEW id \in Ids, NEW a \in Accounts, NEW weight \in {0, Votes(a)},
               CastVote(id, a, weight)
        PROVE  \E s \in Stages, e \in DAOEvents :
                  /\ log = << >> /\ log' = <<e>> /\ stage' = [stage EXCEPT ![id] = s]
                  /\ UNCHANGED <<nounOwner, delegateOf, storeVars>>
                  /\ Typed'
    <2> DEFINE e == [type |-> "VoteCast", voter |-> a, proposalId |-> id, votes |-> weight]
    <2>1. /\ e \in DAOEvents /\ OnProposal(id, "Active", <<e>>)
          /\ receipts' \in [Ids -> [Accounts -> Nat \cup {Null}]]
      BY <1>1, <1>4, ProposalEffect
    <2>2. "Active" \in Stages
      BY DEF Stages
    <2> HIDE DEF e
    <2> QED
      BY <2>1, <2>2, DAOEffect
  <1>5. ASSUME NEW id \in Ids, NEW s \in Stages, NEW type \in StatusTypes,
               OnProposal(id, s, ProposalEvent(type, id)), UNCHANGED receipts
        PROVE  \E e \in DAOEvents :
                  /\ log = << >> /\ log' = <<e>> /\ stage' = [stage EXCEPT ![id] = s]
                  /\ UNCHANGED <<nounOwner, delegateOf, storeVars>>
                  /\ Typed'
    <2> DEFINE e == [type |-> type, id |-> id]
    <2>1. e \in DAOEvents /\ OnProposal(id, s, <<e>>)
      BY <1>1, <1>5, ProposalEffect
    <2> HIDE DEF e
    <2> QED
      BY <1>2, <1>5, <2>1, DAOEffect
  <1>6. ASSUME NEW id \in Ids, Queue(id) \/ Execute(id) \/ Cancel(id) \/ Veto(id)
        PROVE  \E s \in Stages, type \in StatusTypes :
                   OnProposal(id, s, ProposalEvent(type, id)) /\ UNCHANGED receipts
    BY <1>6 DEF Queue, Execute, Cancel, Veto, Stages, StatusTypes
  <1>7. ASSUME NEW id \in Ids, NEW s \in Stages, Passes(id, s)
        PROVE  Typed'
    <2>1. /\ stage' = [stage EXCEPT ![id] = s]
          /\ UNCHANGED <<nounOwner, delegateOf, receipts, log, storeVars>>
      BY <1>7 DEF Passes
    <2> QED
      BY <2>1 DEF Typed, ChainTyped, StoreTyped, storeVars, tokenEntities, daoEntities
  <1>8. CASE \E id \in Ids, s \in Stages : Passes(id, s)
    BY <1>7, <1>8
  <1>9. CASE \E id \in Ids : Queue(id) \/ Execute(id) \/ Cancel(id) \/ Veto(id)
    BY <1>5, <1>6, <1>9
  <1> QED
    BY <1>3, <1>4, <1>8, <1>9 DEF DAOTransaction

\* Whatever the program does, every variable of the chain and of the store has its type.
LEMMA InitTyped ==
    ASSUME Init
    PROVE  Typed
  <1>1. ChainTyped
    BY SubgraphAssumption
    DEF Init, LifecycleInit, Stages, ChainTyped, Addresses
  <1>2. NoNouns \in Lists
    BY ListsTyped
  <1>3. StoreTyped
    BY <1>2
    DEF Init, StoreTyped, NounEntity, AccountEntity, DelegateEntity, GovernanceEntity, Statuses
  <1> QED
    BY <1>1, <1>3 DEF Typed

LEMMA NextTyped ==
    ASSUME Typed, [Next]_vars
    PROVE  Typed'
  <1>1. CASE TokenTransaction
    BY <1>1, MintEffect, MoveEffect, DelegateEffect DEF TokenTransaction
  <1>2. CASE DAOTransaction
    BY <1>2, DAOSteps
  <1>3. CASE Handlers
    BY <1>3, DAOHandlersTyped, TokenHandlersTyped DEF Handlers
  <1>4. CASE UNCHANGED vars
    BY <1>4
    DEF Typed, ChainTyped, StoreTyped, vars, chainVars, storeVars, tokenEntities, daoEntities
  <1> QED
    BY <1>1, <1>2, <1>3, <1>4 DEF Next

\* Every event in the log is one a handler knows, every field of an entity has its type:
\* no handler meets an event or an entity of another kind, whatever happens on the chain.
THEOREM TypeCorrect == Spec => []Typed
  <1>1. Init => Typed
    BY InitTyped
  <1>2. Typed /\ [Next]_vars => Typed'
    BY NextTyped
  <1> QED
    BY <1>1, <1>2, PTL DEF Spec

-----------------------------------------------------------------------------
(* Proposals.  A transaction of the DAO leaves one event, and nothing else *)
(* is in the log then.  A proposal with no event left fits its stage; one  *)
(* with an event left is as the event finds it.                            *)

DAOTypes == {"ProposalCreatedWithRequirements", "VoteCast"} \cup StatusTypes

Subject(e) == IF e.type = "VoteCast" THEN e.proposalId ELSE e.id
Waiting(id) == log # << >> /\ log[1].type \in DAOTypes /\ Subject(log[1]) = id
WaitingVote(id, a) == Waiting(id) /\ log[1].type = "VoteCast" /\ log[1].voter = a

FitsStage(p, s) ==
    /\ p.status \in StatusOf(s)
    /\ s \in {"Queued", "Expired"} => p.executionETA
    /\ s \in {"None", "Pending", "Active", "Succeeded", "Defeated", "Executed"} =>
           ~p.executionETA

Announced(p, s, type) ==
    /\ type = "ProposalCreatedWithRequirements" => s = "Pending" /\ ~p.executionETA
    /\ type = "ProposalQueued" => s = "Queued" /\ ~p.executionETA
    /\ type = "ProposalExecuted" => s = "Executed" /\ p.executionETA
    /\ type = "ProposalCanceled" => s \in {"Canceled", "Vetoed"}
    /\ type = "ProposalVetoed" => s = "Vetoed"
    /\ type = "VoteCast" => s = "Active" /\ FitsStage(p, "Active")

InQueue == {id \in Ids : proposals[id].executionETA}

DAOEventAlone == \A i \in DOMAIN log : log[i].type \in DAOTypes => Len(log) = 1
QueueMatches == IsFiniteSet(InQueue) /\ governance.proposalsQueued = Cardinality(InQueue)
StagesMatch ==
    \A id \in Ids :
        /\ Waiting(id) => Announced(proposals[id], stage[id], log[1].type)
        /\ ~Waiting(id) => FitsStage(proposals[id], stage[id])
VotesMatch ==
    \A id \in Ids, a \in Accounts :
        /\ WaitingVote(id, a) => receipts[id][a] = log[1].votes
        /\ ~WaitingVote(id, a) => votes[id][a] = receipts[id][a]

ProposalsInv == DAOEventAlone /\ QueueMatches /\ StagesMatch /\ VotesMatch

\* What the invariant says once every event is handled.
LEMMA ProposalsSettled ==
    ASSUME Typed, ProposalsInv
    PROVE  ProposalsFollow
  <1> SUFFICES ASSUME log = << >>
               PROVE  /\ \A id \in Ids : proposals[id].status \in StatusOf(stage[id])
                      /\ votes = receipts
                      /\ (\A id \in Ids : ~LeftQueue(id)) => QueueCounted
    BY DEF ProposalsFollow, Settled
  <1>1. \A id \in Ids : FitsStage(proposals[id], stage[id])
    BY DEF ProposalsInv, StagesMatch, Waiting
  <1>2. votes = receipts
    BY DEF ProposalsInv, VotesMatch, WaitingVote, Waiting, Typed, ChainTyped, StoreTyped
  <1>3. ASSUME \A id \in Ids : ~LeftQueue(id)
        PROVE  QueueCounted
    <2>1. governance.proposalsQueued = Cardinality(InQueue)
      BY DEF ProposalsInv, QueueMatches
    <2>2. \A id \in Ids : proposals[id].executionETA <=> proposals[id].status = "QUEUED"
      <3> TAKE id \in Ids
      <3>1. stage[id] \in Stages /\ FitsStage(proposals[id], stage[id]) /\ ~LeftQueue(id)
        BY <1>1, <1>3 DEF Typed, ChainTyped
      <3>2. CASE stage[id] \in {"Canceled", "Vetoed"}
        BY <3>1, <3>2 DEF FitsStage, StatusOf, LeftQueue
      <3>3. CASE stage[id] \in {"Queued", "Expired"}
        BY <3>1, <3>3 DEF FitsStage, StatusOf
      <3>4. CASE stage[id] \in {"None", "Pending", "Active", "Succeeded", "Defeated", "Executed"}
        <4>1. ~proposals[id].executionETA
          BY <3>1, <3>4 DEF FitsStage
        <4>2. "QUEUED" \notin StatusOf(stage[id])
          BY <3>4, SubgraphAssumption DEF StatusOf
        <4> QED
          BY <3>1, <4>1, <4>2 DEF FitsStage
      <3> QED
        BY <3>1, <3>2, <3>3, <3>4 DEF Stages
    <2>3. InQueue = {id \in Ids : proposals[id].status = "QUEUED"}
      BY <2>2 DEF InQueue
    <2> QED
      BY <2>1, <2>3 DEF QueueCounted
  <1> QED
    BY <1>1, <1>2, <1>3 DEF FitsStage

LEMMA InitProposals ==
    ASSUME Init
    PROVE  ProposalsInv
  <1>1. InQueue = {}
    BY DEF Init, InQueue
  <1>2. QueueMatches
    BY <1>1, FS_EmptySet DEF Init, QueueMatches
  <1>3. DAOEventAlone /\ StagesMatch /\ VotesMatch
    BY DEF Init, LifecycleInit, DAOEventAlone, StagesMatch, VotesMatch, Waiting, WaitingVote,
           FitsStage, StatusOf
  <1> QED
    BY <1>2, <1>3 DEF ProposalsInv

\* A transaction of the token leaves the proposals as they are.
LEMMA TokenTransactionProposals ==
    ASSUME Typed, ProposalsInv, log = << >>, log' \in Seq(TokenEvents),
           UNCHANGED <<stage, receipts, storeVars>>
    PROVE  ProposalsInv'
  <1>1. \A e \in TokenEvents : e.type \notin DAOTypes
    BY DEF TokenEvents, VoteEvents, TransferEvents, SeedEvents, DelegationEvents,
           DAOTypes, StatusTypes
  <1>2. \A i \in DOMAIN log' : log'[i].type \notin DAOTypes
    BY <1>1, LenProperties, ElementOfSeq
  <1>3. log' # << >> => 1 \in DOMAIN log'
    BY EmptySeq, LenProperties
  <1>4. \A id : ~Waiting(id) /\ ~Waiting(id)'
    BY <1>2, <1>3 DEF Waiting
  <1>5. DAOEventAlone'
    BY <1>2 DEF DAOEventAlone
  <1>6. StagesMatch' /\ VotesMatch'
    BY <1>4 DEF ProposalsInv, StagesMatch, VotesMatch, WaitingVote, storeVars, daoEntities
  <1>7. QueueMatches'
    BY DEF ProposalsInv, QueueMatches, InQueue, storeVars, daoEntities
  <1> QED
    BY <1>5, <1>6, <1>7 DEF ProposalsInv

\* A handler of the token's events, too.
LEMMA TokenHandlerProposals ==
    ASSUME Typed, ProposalsInv,
           \/ handleNounCreated \/ handleDelegateChanged
           \/ handleDelegateVotesChanged \/ handleTransfer
    PROVE  ProposalsInv'
  <1>1. \E type \in {"NounCreated", "DelegateChanged", "DelegateVotesChanged", "Transfer"} :
            Handle(type)
    BY DEF handleNounCreated, handleDelegateChanged, handleDelegateVotesChanged, handleTransfer
  <1>2. UNCHANGED chainVars /\ UNCHANGED daoEntities
    BY DEF handleNounCreated, handleDelegateChanged, handleDelegateVotesChanged, handleTransfer
  <1>3. log \in Seq(Events) /\ log # << >> /\ log' = Tail(log) /\ log[1].type \notin DAOTypes
    BY <1>1, <1>2, Handled DEF DAOTypes, StatusTypes
  <1>4. /\ 1 \in DOMAIN log /\ Len(log) \in Nat /\ Len(log) > 0
        /\ \A i \in DOMAIN log' : i + 1 \in DOMAIN log /\ log'[i] = log[i + 1]
        /\ DOMAIN log = 1..Len(log) /\ DOMAIN log' = 1..(Len(log) - 1)
        /\ log' = << >> <=> Len(log) = 1
    BY <1>3, Popped
  <1>5. \A i \in DOMAIN log : log[i].type \notin DAOTypes
    BY <1>3, <1>4 DEF ProposalsInv, DAOEventAlone
  <1>6. \A i \in DOMAIN log' : log'[i].type \notin DAOTypes
    BY <1>4, <1>5
  <1>7. \A id : ~Waiting(id) /\ ~Waiting(id)'
    <2>1. log' # << >> => 1 \in DOMAIN log'
      BY <1>4
    <2> QED
      BY <1>3, <1>6, <2>1 DEF Waiting
  <1>8. governance'.proposalsQueued = governance.proposalsQueued
    <2>1. governance \in GovernanceEntity
      BY DEF Typed, StoreTyped
    <2>2. \A g \in GovernanceEntity : \A ds, d :
              CountDelegate(g, ds, d).proposalsQueued = g.proposalsQueued
      BY CountTyped DEF GovernanceEntity
    <2>3. CASE handleNounCreated
      BY <2>3 DEF handleNounCreated
    <2>4. CASE handleDelegateChanged
      <3> DEFINE first == CountDelegate(governance, delegates, Head(log).fromDelegate)
      <3>1. first \in GovernanceEntity /\ first.proposalsQueued = governance.proposalsQueued
        BY <2>1, <2>2, CountTyped
      <3>2. \/ governance' = CountDelegate(governance, delegates, Head(log).toDelegate)
            \/ governance' = CountDelegate(first, delegates, Head(log).toDelegate)
        BY <2>4 DEF handleDelegateChanged
      <3> HIDE DEF first
      <3> QED
        BY <2>1, <2>2, <3>1, <3>2
    <2>5. CASE handleDelegateVotesChanged
      BY <2>1, <2>5 DEF handleDelegateVotesChanged, GovernanceEntity
    <2>6. CASE handleTransfer
      <3> DEFINE e == Head(log)
                 counted == [governance EXCEPT
                     !.totalTokenHolders = @ + (IF e.from = Zero THEN 1 ELSE 0)
                                             - (IF e.to = Zero THEN 1 ELSE 0),
                     !.currentTokenHolders = @ + HoldersGained(e.to) - HoldersLost(e.from)]
      <3>1. governance' = IF accounts[e.to].tokenBalance = 0 THEN counted
                          ELSE CountDelegate(counted, delegates, e.to)
        BY <2>6 DEF handleTransfer, GovernanceAfter
      <3>2. counted.proposalsQueued = governance.proposalsQueued
        BY <2>1 DEF GovernanceEntity
      <3>3. CountDelegate(counted, delegates, e.to).proposalsQueued = counted.proposalsQueued
        BY <2>1 DEF CountDelegate, GovernanceEntity
      <3> HIDE DEF counted
      <3> QED
        BY <3>1, <3>2, <3>3
    <2> QED
      BY <2>3, <2>4, <2>5, <2>6
  <1>9. DAOEventAlone'
    BY <1>6 DEF DAOEventAlone
  <1>10. StagesMatch' /\ VotesMatch'
    BY <1>2, <1>7
    DEF ProposalsInv, StagesMatch, VotesMatch, WaitingVote, chainVars, daoEntities
  <1>11. QueueMatches'
    BY <1>2, <1>8 DEF ProposalsInv, QueueMatches, InQueue, daoEntities
  <1> QED
    BY <1>9, <1>10, <1>11 DEF ProposalsInv

\* A step of the DAO on one proposal: it is the one that waits, as its event tells.
LEMMA OneWaits ==
    ASSUME Typed, ProposalsInv, NEW id \in Ids, NEW s \in Stages, NEW e \in DAOEvents,
           log = << >>, log' = <<e>>, stage' = [stage EXCEPT ![id] = s],
           UNCHANGED storeVars, Subject(e) = id, Announced(proposals[id], s, e.type),
           \/ UNCHANGED receipts /\ e.type # "VoteCast"
           \/ /\ e \in CastEvents
              /\ \A i \in Ids, a \in Accounts :
                     receipts'[i][a] = IF i = id /\ a = e.voter THEN e.votes ELSE receipts[i][a]
    PROVE  ProposalsInv'
  <1>1. e.type \in DAOTypes
    BY DEF DAOEvents, DAOTypes, StatusTypes, CreationEvents, StatusEvents, CastEvents
  <1>2. log' # << >> /\ log'[1] = e /\ DOMAIN log' = 1..1 /\ Len(log') = 1
    OBVIOUS
  <1>3. \A i : ~Waiting(i) /\ (Waiting(i)' <=> i = id)
    BY <1>1, <1>2 DEF Waiting
  <1>4. DAOEventAlone'
    BY <1>2 DEF DAOEventAlone
  <1>5. QueueMatches'
    BY DEF ProposalsInv, QueueMatches, InQueue, storeVars, daoEntities
  <1>6. proposals' = proposals /\ votes' = votes
    BY DEF storeVars, daoEntities
  <1>7. StagesMatch'
    <2>1. stage'[id] = s /\ \A i \in Ids : i # id => stage'[i] = stage[i]
      BY DEF Typed, ChainTyped
    <2> QED
      BY <1>2, <1>3, <1>6, <2>1 DEF ProposalsInv, StagesMatch
  <1>8. VotesMatch'
    <2>1. CASE UNCHANGED receipts /\ e.type # "VoteCast"
      BY <1>2, <1>3, <1>6, <2>1 DEF ProposalsInv, VotesMatch, WaitingVote
    <2>2. CASE /\ e \in CastEvents
               /\ \A i \in Ids, a \in Accounts :
                      receipts'[i][a] = IF i = id /\ a = e.voter THEN e.votes ELSE receipts[i][a]
      <3>1. e.type = "VoteCast" /\ e.voter \in Accounts
        BY <2>2 DEF CastEvents
      <3>2. \A i, a : WaitingVote(i, a)' <=> i = id /\ a = e.voter
        BY <1>2, <1>3, <3>1 DEF WaitingVote
      <3>3. \A i \in Ids, a \in Accounts : votes[i][a] = receipts[i][a]
        BY <1>3 DEF ProposalsInv, VotesMatch, WaitingVote
      <3> QED
        BY <1>2, <1>6, <2>2, <3>2, <3>3 DEF VotesMatch
    <2> QED
      BY <2>1, <2>2
  <1> QED
    BY <1>4, <1>5, <1>7, <1>8 DEF ProposalsInv

\* The transactions of the DAO.
LEMMA DAOTransactionProposals ==
    ASSUME Typed, ProposalsInv, DAOTransaction
    PROVE  ProposalsInv'
  <1>1. \A id \in Ids : log = << >> => FitsStage(proposals[id], stage[id])
    BY DEF ProposalsInv, StagesMatch, Waiting
  <1>2. /\ CreationEvents \subseteq DAOEvents /\ StatusEvents \subseteq DAOEvents
        /\ CastEvents \subseteq DAOEvents
    BY DEF DAOEvents
  <1>3. \A id, s, e : OnProposal(id, s, <<e>>) =>
            /\ log = << >> /\ log' = <<e>> /\ stage' = [stage EXCEPT ![id] = s]
            /\ UNCHANGED storeVars
    BY DEF OnProposal, Transact
  <1>4. ASSUME NEW id \in Ids, NEW a \in Accounts, Propose(id, a)
        PROVE  ProposalsInv'
    <2> DEFINE e == [type |-> "ProposalCreatedWithRequirements", id |-> id, proposer |-> a]
    <2>1. /\ e \in DAOEvents /\ OnProposal(id, "Pending", <<e>>) /\ UNCHANGED receipts
          /\ stage[id] = "None"
      BY <1>2, <1>4, ProposalEffect
    <2>2. e.type = "ProposalCreatedWithRequirements" /\ Subject(e) = id
      BY DEF Subject
    <2> HIDE DEF e
    <2>3. Announced(proposals[id], "Pending", e.type)
      BY <1>1, <1>3, <2>1, <2>2 DEF Announced, FitsStage
    <2>4. "Pending" \in Stages
      BY DEF Stages
    <2> QED
      BY <1>3, <2>1, <2>2, <2>3, <2>4, OneWaits
  <1>5. ASSUME NEW id \in Ids, NEW a \in Accounts, NEW weight \in {0, Votes(a)},
               CastVote(id, a, weight)
        PROVE  ProposalsInv'
    <2> DEFINE e == [type |-> "VoteCast", voter |-> a, proposalId |-> id, votes |-> weight]
    <2>0. stage[id] = "Active"
      BY <1>5 DEF CastVote
    <2>1. /\ e \in CastEvents /\ OnProposal(id, "Active", <<e>>)
          /\ receipts' = [receipts EXCEPT ![id][a] = weight]
      <3>1. OnProposal(id, "Active", <<e>>) /\ receipts' = [receipts EXCEPT ![id][a] = weight]
        BY <1>5 DEF CastVote
      <3>2. weight \in Nat
        BY Countable DEF Typed
      <3>3. e \in CastEvents
        BY <3>2 DEF CastEvents
      <3> QED
        BY <3>1, <3>3
    <2>2. e.type = "VoteCast" /\ Subject(e) = id /\ e.voter = a /\ e.votes = weight
      BY DEF Subject
    <2> HIDE DEF e
    <2>3. Announced(proposals[id], "Active", e.type)
      BY <1>1, <1>3, <2>0, <2>1, <2>2 DEF Announced
    <2>4. "Active" \in Stages /\ e \in DAOEvents
      BY <1>2, <2>1 DEF Stages
    <2>5. \A i \in Ids, b \in Accounts :
              receipts'[i][b] = IF i = id /\ b = e.voter THEN e.votes ELSE receipts[i][b]
      BY <2>1, <2>2 DEF Typed, ChainTyped
    <2> QED
      BY <1>3, <2>1, <2>2, <2>3, <2>4, <2>5, OneWaits
  <1>6. ASSUME NEW id \in Ids, NEW s \in Stages, NEW type \in StatusTypes,
               OnProposal(id, s, ProposalEvent(type, id)), UNCHANGED receipts,
               Announced(proposals[id], s, type)
        PROVE  ProposalsInv'
    <2> DEFINE e == [type |-> type, id |-> id]
    <2>1. e \in DAOEvents /\ OnProposal(id, s, <<e>>)
      BY <1>2, <1>6, ProposalEffect
    <2>2. e.type = type /\ Subject(e) = id /\ type # "VoteCast"
      BY DEF Subject, StatusTypes
    <2> HIDE DEF e
    <2> QED
      BY <1>3, <1>6, <2>1, <2>2, OneWaits
  <1>7. ASSUME NEW id \in Ids, Queue(id)
        PROVE  ProposalsInv'
    <2>1. /\ OnProposal(id, "Queued", ProposalEvent("ProposalQueued", id))
          /\ UNCHANGED receipts /\ stage[id] = "Succeeded" /\ log = << >>
      BY <1>7 DEF Queue, OnProposal, Transact
    <2>2. Announced(proposals[id], "Queued", "ProposalQueued")
      BY <1>1, <2>1 DEF Announced, FitsStage
    <2> QED
      BY <1>6, <2>1, <2>2 DEF Stages, StatusTypes
  <1>8. ASSUME NEW id \in Ids, Execute(id)
        PROVE  ProposalsInv'
    <2>1. /\ OnProposal(id, "Executed", ProposalEvent("ProposalExecuted", id))
          /\ UNCHANGED receipts /\ stage[id] = "Queued" /\ log = << >>
      BY <1>8 DEF Execute, OnProposal, Transact
    <2>2. Announced(proposals[id], "Executed", "ProposalExecuted")
      BY <1>1, <2>1 DEF Announced, FitsStage
    <2> QED
      BY <1>6, <2>1, <2>2 DEF Stages, StatusTypes
  <1>9. ASSUME NEW id \in Ids, Cancel(id)
        PROVE  ProposalsInv'
    <2> DEFINE s == IF stage[id] = "Vetoed" THEN "Vetoed" ELSE "Canceled"
    <2>1. OnProposal(id, s, ProposalEvent("ProposalCanceled", id)) /\ UNCHANGED receipts
      BY <1>9 DEF Cancel
    <2>2. Announced(proposals[id], s, "ProposalCanceled") /\ s \in Stages
      BY DEF Announced, Stages
    <2> HIDE DEF s
    <2> QED
      BY <1>6, <2>1, <2>2 DEF StatusTypes
  <1>10. ASSUME NEW id \in Ids, Veto(id)
         PROVE  ProposalsInv'
    <2>1. OnProposal(id, "Vetoed", ProposalEvent("ProposalVetoed", id)) /\ UNCHANGED receipts
      BY <1>10 DEF Veto
    <2>2. Announced(proposals[id], "Vetoed", "ProposalVetoed")
      BY DEF Announced
    <2> QED
      BY <1>6, <2>1, <2>2 DEF Stages, StatusTypes
  <1>11. ASSUME NEW id \in Ids, NEW s \in Stages, Passes(id, s)
         PROVE  ProposalsInv'
    <2>1. /\ log = << >> /\ stage' = [stage EXCEPT ![id] = s]
          /\ s \in Successors(stage[id]) /\ s \in {"Active", "Defeated", "Succeeded", "Expired"}
          /\ UNCHANGED <<log, receipts, storeVars>>
      BY <1>11 DEF Passes
    <2>2. /\ s = "Active" => stage[id] = "Pending"
          /\ s \in {"Defeated", "Succeeded"} => stage[id] = "Active"
          /\ s = "Expired" => stage[id] = "Queued"
      BY <2>1 DEF Successors
    <2>3. FitsStage(proposals[id], s)
      BY <1>1, <2>1, <2>2 DEF FitsStage, StatusOf
    <2>4. stage'[id] = s /\ \A i \in Ids : i # id => stage'[i] = stage[i]
      BY <2>1 DEF Typed, ChainTyped
    <2>5. \A i : ~Waiting(i) /\ ~Waiting(i)'
      BY <2>1 DEF Waiting
    <2>6. StagesMatch'
      BY <2>1, <2>3, <2>4, <2>5 DEF ProposalsInv, StagesMatch, storeVars, daoEntities
    <2>7. QueueMatches' /\ VotesMatch' /\ DAOEventAlone'
      BY <2>1, <2>5 DEF ProposalsInv, QueueMatches, InQueue, VotesMatch, WaitingVote,
                        DAOEventAlone, storeVars, daoEntities
    <2> QED
      BY <2>6, <2>7 DEF ProposalsInv
  <1> QED
    BY <1>4, <1>5, <1>7, <1>8, <1>9, <1>10, <1>11 DEF DAOTransaction

\* What the handlers of the DAO's events find: the event of one proposal, alone in the log.
LEMMA OneHandled ==
    ASSUME Typed, ProposalsInv, NEW type \in DAOTypes, Handle(type), UNCHANGED chainVars
    PROVE  /\ Head(log) \in DAOEvents /\ Head(log).type = type /\ log' = << >>
           /\ type = "VoteCast" => Head(log) \in CastEvents
           /\ Subject(Head(log)) \in Ids
           /\ \A i \in Ids : i # Subject(Head(log)) => FitsStage(proposals[i], stage[i])
           /\ Announced(proposals[Subject(Head(log))], stage[Subject(Head(log))], type)
           /\ \A i \in Ids, a \in Accounts :
                  IF type = "VoteCast" /\ i = Head(log).proposalId /\ a = Head(log).voter
                  THEN receipts[i][a] = Head(log).votes ELSE votes[i][a] = receipts[i][a]
           /\ DAOEventAlone' /\ UNCHANGED <<stage, receipts>>
           /\ \A i : ~Waiting(i)'
  <1>1. /\ log \in Seq(Events) /\ log # << >> /\ log' = Tail(log)
        /\ Head(log) = log[1] /\ log[1] \in Events /\ log[1].type = type
    BY Handled
  <1>2. /\ 1 \in DOMAIN log
        /\ log' = << >> <=> Len(log) = 1
    BY <1>1, Popped
  <1>3. log' = << >>
    BY <1>1, <1>2 DEF ProposalsInv, DAOEventAlone
  <1>4. \/ type = "VoteCast" /\ log[1] \in CastEvents
        \/ type \in StatusTypes /\ log[1] \in StatusEvents
        \/ type = "ProposalCreatedWithRequirements" /\ log[1] \in CreationEvents
    BY <1>1, EventFields DEF DAOTypes
  <1>5. log[1] \in DAOEvents /\ (type = "VoteCast" => log[1] \in CastEvents)
        /\ Subject(log[1]) \in Ids
        /\ (type = "VoteCast" => Subject(log[1]) = log[1].proposalId)
    BY <1>1, <1>4 DEF DAOEvents, Subject, CastEvents, StatusEvents, CreationEvents, StatusTypes
  <1>6. \A i : Waiting(i) <=> i = Subject(log[1])
    BY <1>1 DEF Waiting
  <1>7. \A i \in Ids : i # Subject(log[1]) => FitsStage(proposals[i], stage[i])
    BY <1>6 DEF ProposalsInv, StagesMatch
  <1>8. Announced(proposals[Subject(log[1])], stage[Subject(log[1])], type)
    BY <1>1, <1>5, <1>6 DEF ProposalsInv, StagesMatch
  <1>9. \A i \in Ids, a \in Accounts :
            IF type = "VoteCast" /\ i = log[1].proposalId /\ a = log[1].voter
            THEN receipts[i][a] = log[1].votes ELSE votes[i][a] = receipts[i][a]
    BY <1>1, <1>5, <1>6 DEF ProposalsInv, VotesMatch, WaitingVote
  <1>10. DAOEventAlone' /\ \A i : ~Waiting(i)'
    BY <1>3 DEF DAOEventAlone, Waiting
  <1> QED
    BY <1>1, <1>3, <1>5, <1>7, <1>8, <1>9, <1>10 DEF chainVars

\* When nothing waits any more.
LEMMA AllHandled ==
    ASSUME DAOEventAlone', UNCHANGED <<stage, receipts>>, QueueMatches',
           \A i : ~Waiting(i)', NEW id \in Ids, FitsStage(proposals'[id], stage[id]),
           \A i \in Ids : i # id => proposals'[i] = proposals[i],
           \A i \in Ids : i # id => FitsStage(proposals[i], stage[i]),
           \A i \in Ids, a \in Accounts : votes'[i][a] = receipts[i][a]
    PROVE  ProposalsInv'
  <1>1. StagesMatch'
    BY DEF StagesMatch
  <1>2. VotesMatch'
    BY DEF VotesMatch, WaitingVote
  <1> QED
    BY <1>1, <1>2 DEF ProposalsInv

\* One proposal changes: how many have an eta.
LEMMA QueueChange ==
    ASSUME Typed, QueueMatches, NEW id \in Ids,
           \A i \in Ids : i # id => proposals'[i] = proposals[i],
           proposals'[id].executionETA \in BOOLEAN,
           governance'.proposalsQueued = governance.proposalsQueued
               + (IF proposals'[id].executionETA THEN 1 ELSE 0)
               - (IF proposals[id].executionETA THEN 1 ELSE 0)
    PROVE  QueueMatches'
  <1>1. /\ proposals[id].executionETA \in BOOLEAN
        /\ IsFiniteSet(InQueue) /\ Cardinality(InQueue) \in Nat
        /\ governance.proposalsQueued = Cardinality(InQueue)
    BY FS_CardinalityType DEF Typed, StoreTyped, QueueMatches
  <1>2. /\ IsFiniteSet(InQueue \cup {id}) /\ IsFiniteSet(InQueue \ {id})
        /\ Cardinality(InQueue \cup {id}) =
               IF id \in InQueue THEN Cardinality(InQueue) ELSE Cardinality(InQueue) + 1
        /\ Cardinality(InQueue \ {id}) =
               IF id \in InQueue THEN Cardinality(InQueue) - 1 ELSE Cardinality(InQueue)
    BY <1>1, FS_AddElement, FS_RemoveElement
  <1>3. id \in InQueue <=> proposals[id].executionETA
    BY DEF InQueue
  <1>4. CASE proposals'[id].executionETA
    <2>1. InQueue' = InQueue \cup {id}
      BY <1>4 DEF InQueue
    <2> QED
      BY <1>1, <1>2, <1>3, <1>4, <2>1 DEF QueueMatches
  <1>5. CASE ~proposals'[id].executionETA
    <2>1. InQueue' = InQueue \ {id}
      BY <1>5 DEF InQueue
    <2> QED
      BY <1>1, <1>2, <1>3, <1>5, <2>1 DEF QueueMatches
  <1> QED
    BY <1>4, <1>5

\* The handlers of the DAO's events.
LEMMA DAOHandlerProposals ==
    ASSUME Typed, ProposalsInv,
           \/ handleProposalCreatedWithRequirements \/ handleProposalCanceled
           \/ handleProposalVetoed \/ handleProposalQueued
           \/ handleProposalExecuted \/ handleVoteCast
    PROVE  ProposalsInv'
  <1> DEFINE e == Head(log)
             id == Subject(Head(log))
  <1>0. QueueMatches
    BY DEF ProposalsInv
  <1>1. \A i \in Ids : /\ proposals[i] \in [status : Statuses, executionETA : BOOLEAN]
                       /\ proposals[i].executionETA \in BOOLEAN
    BY DEF Typed, StoreTyped
  <1>2. governance \in GovernanceEntity
    BY DEF Typed, StoreTyped
  <1>3. \A type \in StatusTypes \cup {"ProposalCreatedWithRequirements"} :
            Head(log).type = type => Subject(Head(log)) = Head(log).id
    BY DEF Subject, StatusTypes
  <1>4. CASE handleProposalCreatedWithRequirements
    <2>1. Handle("ProposalCreatedWithRequirements") /\ UNCHANGED chainVars /\ UNCHANGED votes
      BY <1>4 DEF handleProposalCreatedWithRequirements
    <2>2. "ProposalCreatedWithRequirements" \in DAOTypes
      BY DEF DAOTypes
    <2>3. /\ e.type = "ProposalCreatedWithRequirements" /\ id \in Ids /\ id = e.id
          /\ \A i \in Ids : i # id => FitsStage(proposals[i], stage[i])
          /\ Announced(proposals[id], stage[id], "ProposalCreatedWithRequirements")
          /\ \A i \in Ids, a \in Accounts : votes[i][a] = receipts[i][a]
          /\ DAOEventAlone' /\ UNCHANGED <<stage, receipts>>
          /\ \A i : ~Waiting(i)'
      BY <1>3, <2>1, <2>2, OneHandled
    <2>4. proposals' = [proposals EXCEPT ![id].status = "PENDING"]
      BY <1>4, <2>3 DEF handleProposalCreatedWithRequirements
    <2>5. governance'.proposalsQueued = governance.proposalsQueued
      <3> DEFINE g == [governance EXCEPT !.proposals = @ + 1]
      <3>1. g \in GovernanceEntity /\ g.proposalsQueued = governance.proposalsQueued
        BY <1>2 DEF GovernanceEntity
      <3>2. governance' = CountDelegate(g, delegates, e.proposer)
        BY <1>4 DEF handleProposalCreatedWithRequirements
      <3> HIDE DEF g
      <3> QED
        BY <3>1, <3>2, CountTyped DEF GovernanceEntity
    <2> HIDE DEF e, id
    <2>6. ~proposals[id].executionETA /\ stage[id] = "Pending"
      BY <2>3 DEF Announced
    <2>7. /\ \A i \in Ids : i # id => proposals'[i] = proposals[i]
          /\ proposals'[id].status = "PENDING" /\ proposals'[id].executionETA = FALSE
      BY <1>1, <2>3, <2>4, <2>6 DEF Typed, StoreTyped
    <2>8. FitsStage(proposals'[id], stage[id])
      BY <2>6, <2>7 DEF FitsStage, StatusOf
    <2>9. QueueMatches'
      <3>1. governance'.proposalsQueued = governance.proposalsQueued
                + (IF proposals'[id].executionETA THEN 1 ELSE 0)
                - (IF proposals[id].executionETA THEN 1 ELSE 0)
        BY <1>2, <2>3, <2>5, <2>6, <2>7 DEF GovernanceEntity
      <3>2. proposals'[id].executionETA \in BOOLEAN
        BY <1>2, <2>3, <2>5, <2>6, <2>7
      <3> QED
        BY <1>0, <2>3, <2>7, <3>1, <3>2, QueueChange
    <2> QED
      BY <2>1, <2>3, <2>7, <2>8, <2>9, AllHandled
  <1>5. ASSUME NEW type \in {"ProposalCanceled", "ProposalVetoed"}, NEW status,
               Handle(type), SetStatus(Head(log).id, status),
               UNCHANGED <<chainVars, votes, governance>>,
               type = "ProposalCanceled" => status = "CANCELLED",
               type = "ProposalVetoed" => status = "VETOED"
        PROVE  ProposalsInv'
    <2>1. type \in DAOTypes /\ type \in StatusTypes /\ type # "VoteCast"
      BY DEF DAOTypes, StatusTypes
    <2>2. /\ e.type = type /\ id \in Ids /\ id = e.id
          /\ \A i \in Ids : i # id => FitsStage(proposals[i], stage[i])
          /\ Announced(proposals[id], stage[id], type)
          /\ \A i \in Ids, a \in Accounts : votes[i][a] = receipts[i][a]
          /\ DAOEventAlone' /\ UNCHANGED <<stage, receipts>>
          /\ \A i : ~Waiting(i)'
      BY <1>3, <1>5, <2>1, OneHandled
    <2>3. proposals' = [proposals EXCEPT ![id].status = status]
      BY <1>5, <2>2 DEF SetStatus
    <2> HIDE DEF e, id
    <2>4. /\ \A i \in Ids : i # id => proposals'[i] = proposals[i]
          /\ proposals'[id].status = status
          /\ proposals'[id].executionETA = proposals[id].executionETA
      BY <1>1, <2>2, <2>3 DEF Typed, StoreTyped
    <2>5. FitsStage(proposals'[id], stage[id])
      BY <1>5, <2>2, <2>4 DEF Announced, FitsStage, StatusOf
    <2>6. QueueMatches'
      BY <1>0, <1>1, <1>2, <1>5, <2>2, <2>4, QueueChange DEF GovernanceEntity
    <2> QED
      BY <1>5, <2>2, <2>4, <2>5, <2>6, AllHandled
  <1>6. CASE handleProposalCanceled
    BY <1>5, <1>6 DEF handleProposalCanceled
  <1>7. CASE handleProposalVetoed
    BY <1>5, <1>7 DEF handleProposalVetoed
  <1>8. CASE handleProposalQueued
    <2>1. Handle("ProposalQueued") /\ UNCHANGED chainVars /\ UNCHANGED votes
      BY <1>8 DEF handleProposalQueued
    <2>2. "ProposalQueued" \in DAOTypes /\ "ProposalQueued" \in StatusTypes
      BY DEF DAOTypes, StatusTypes
    <2>3. /\ e.type = "ProposalQueued" /\ id \in Ids /\ id = e.id
          /\ \A i \in Ids : i # id => FitsStage(proposals[i], stage[i])
          /\ Announced(proposals[id], stage[id], "ProposalQueued")
          /\ \A i \in Ids, a \in Accounts : votes[i][a] = receipts[i][a]
          /\ DAOEventAlone' /\ UNCHANGED <<stage, receipts>>
          /\ \A i : ~Waiting(i)'
      BY <1>3, <2>1, <2>2, OneHandled
    <2>4. /\ \A i \in Ids : i # id => proposals'[i] = proposals[i]
          /\ proposals'[id].status = "QUEUED" /\ proposals'[id].executionETA = TRUE
      BY <1>8, <2>3 DEF handleProposalQueued, Typed, StoreTyped
    <2>7. governance'.proposalsQueued = governance.proposalsQueued + 1
      BY <1>2, <1>8 DEF handleProposalQueued, GovernanceEntity
    <2> HIDE DEF e, id
    <2>5. ~proposals[id].executionETA /\ FitsStage(proposals'[id], stage[id])
      BY <2>3, <2>4 DEF Announced, FitsStage, StatusOf
    <2>6. QueueMatches'
      <3>1. governance'.proposalsQueued = governance.proposalsQueued
                + (IF proposals'[id].executionETA THEN 1 ELSE 0)
                - (IF proposals[id].executionETA THEN 1 ELSE 0)
        BY <1>2, <2>3, <2>4, <2>5, <2>7 DEF GovernanceEntity
      <3>2. proposals'[id].executionETA \in BOOLEAN
        BY <1>2, <2>3, <2>4, <2>5, <2>7
      <3> QED
        BY <1>0, <2>3, <2>4, <3>1, <3>2, QueueChange
    <2> QED
      BY <2>1, <2>3, <2>4, <2>5, <2>6, AllHandled
  <1>9. CASE handleProposalExecuted
    <2>1. Handle("ProposalExecuted") /\ UNCHANGED chainVars /\ UNCHANGED votes
      BY <1>9 DEF handleProposalExecuted
    <2>2. "ProposalExecuted" \in DAOTypes /\ "ProposalExecuted" \in StatusTypes
      BY DEF DAOTypes, StatusTypes
    <2>3. /\ e.type = "ProposalExecuted" /\ id \in Ids /\ id = e.id
          /\ \A i \in Ids : i # id => FitsStage(proposals[i], stage[i])
          /\ Announced(proposals[id], stage[id], "ProposalExecuted")
          /\ \A i \in Ids, a \in Accounts : votes[i][a] = receipts[i][a]
          /\ DAOEventAlone' /\ UNCHANGED <<stage, receipts>>
          /\ \A i : ~Waiting(i)'
      BY <1>3, <2>1, <2>2, OneHandled
    <2>4. /\ \A i \in Ids : i # id => proposals'[i] = proposals[i]
          /\ proposals'[id].status = "EXECUTED" /\ proposals'[id].executionETA = FALSE
      BY <1>9, <2>3 DEF handleProposalExecuted, Typed, StoreTyped
    <2>7. governance'.proposalsQueued = governance.proposalsQueued - 1
      BY <1>2, <1>9 DEF handleProposalExecuted, QueueAfterExecution, GovernanceEntity
    <2> HIDE DEF e, id
    <2>5. proposals[id].executionETA /\ FitsStage(proposals'[id], stage[id])
      BY <2>3, <2>4 DEF Announced, FitsStage, StatusOf
    <2>6. QueueMatches'
      <3>1. governance'.proposalsQueued = governance.proposalsQueued
                + (IF proposals'[id].executionETA THEN 1 ELSE 0)
                - (IF proposals[id].executionETA THEN 1 ELSE 0)
        BY <1>2, <2>3, <2>4, <2>5, <2>7 DEF GovernanceEntity
      <3>2. proposals'[id].executionETA \in BOOLEAN
        BY <1>2, <2>3, <2>4, <2>5, <2>7
      <3> QED
        BY <1>0, <2>3, <2>4, <3>1, <3>2, QueueChange
    <2> QED
      BY <2>1, <2>3, <2>4, <2>5, <2>6, AllHandled
  <1>10. CASE handleVoteCast
    <2>1. /\ Handle("VoteCast") /\ UNCHANGED chainVars
          /\ votes' = [votes EXCEPT ![e.proposalId][e.voter] = e.votes]
          /\ governance' = CountDelegate(governance, delegates, e.voter)
          /\ proposals' = [proposals EXCEPT ![e.proposalId].status =
                               StatusAfterVote(e.proposalId)]
      BY <1>10 DEF handleVoteCast, VotesAfter, SetStatus
    <2>2. "VoteCast" \in DAOTypes
      BY DEF DAOTypes
    <2>3. /\ e \in CastEvents /\ e.type = "VoteCast"
          /\ \A i \in Ids : i # id => FitsStage(proposals[i], stage[i])
          /\ Announced(proposals[id], stage[id], "VoteCast")
          /\ \A i \in Ids, a \in Accounts :
                 IF i = e.proposalId /\ a = e.voter
                 THEN receipts[i][a] = e.votes ELSE votes[i][a] = receipts[i][a]
          /\ DAOEventAlone' /\ UNCHANGED <<stage, receipts>>
          /\ \A i : ~Waiting(i)'
      BY <2>1, <2>2, OneHandled
    <2>4. id = e.proposalId /\ id \in Ids /\ e.voter \in Accounts
      BY <2>3 DEF Subject, CastEvents
    <2>5. governance'.proposalsQueued = governance.proposalsQueued
      BY <1>2, <2>1, CountTyped DEF GovernanceEntity
    <2> HIDE DEF e, id
    <2>6. /\ \A i \in Ids : i # id => proposals'[i] = proposals[i]
          /\ proposals'[id].status = StatusAfterVote(id)
          /\ proposals'[id].executionETA = proposals[id].executionETA
      BY <1>1, <2>1, <2>4 DEF Typed, StoreTyped
    <2>7. FitsStage(proposals'[id], stage[id])
      BY <2>3, <2>6 DEF Announced, FitsStage, StatusOf, StatusAfterVote
    <2>8. \A i \in Ids, a \in Accounts : votes'[i][a] = receipts[i][a]
      BY <2>1, <2>3, <2>4 DEF Typed, StoreTyped
    <2>9. QueueMatches'
      BY <1>0, <1>1, <1>2, <2>4, <2>5, <2>6, QueueChange DEF GovernanceEntity
    <2> QED
      BY <2>3, <2>4, <2>6, <2>7, <2>8, <2>9, AllHandled
  <1> QED
    BY <1>4, <1>6, <1>7, <1>8, <1>9, <1>10

\* Once every event is handled, the status of a proposal fits its state on the chain,
\* every vote is recorded with its weight, and proposalsQueued is the number of
\* proposals queued as long as none was canceled or vetoed in the queue.
THEOREM ProposalsTold == Spec => []ProposalsFollow
  <1>1. Init => Typed /\ ProposalsInv
    BY InitTyped, InitProposals
  <1>2. Typed /\ ProposalsInv /\ [Next]_vars => Typed' /\ ProposalsInv'
    <2> SUFFICES ASSUME Typed, ProposalsInv, [Next]_vars PROVE Typed' /\ ProposalsInv'
      OBVIOUS
    <2>1. Typed'
      BY NextTyped
    <2>2. ASSUME TokenTransaction PROVE ProposalsInv'
      BY <2>2, MintEffect, MoveEffect, DelegateEffect, TokenTransactionProposals
      DEF TokenTransaction
    <2>3. ASSUME DAOTransaction PROVE ProposalsInv'
      BY <2>3, DAOTransactionProposals
    <2>4. ASSUME Handlers PROVE ProposalsInv'
      BY <2>4, TokenHandlerProposals, DAOHandlerProposals DEF Handlers
    <2>5. ASSUME UNCHANGED vars PROVE ProposalsInv'
      BY <2>5 DEF vars, chainVars, storeVars, tokenEntities, daoEntities,
                  ProposalsInv, DAOEventAlone, QueueMatches, InQueue, StagesMatch, VotesMatch,
                  Waiting, WaitingVote
    <2> QED
      BY <2>1, <2>2, <2>3, <2>4, <2>5 DEF Next
  <1>3. Typed /\ ProposalsInv => ProposalsFollow
    BY ProposalsSettled
  <1> QED
    BY <1>1, <1>2, <1>3, PTL DEF Spec

-----------------------------------------------------------------------------
(* Votes.  Votes of delegates change with the transaction, the entity of a *)
(* delegate with the event that tells of it; the aggregates lack what the  *)
(* events in the log still change.                                         *)

IsVote(e) == e.type = "DelegateVotesChanged"
Change(i) ==
    IF i \in DOMAIN log /\ IsVote(log[i])
    THEN log[i].newBalance - log[i].previousBalance ELSE 0
Told(d) == \A i \in DOMAIN log : IsVote(log[i]) => log[i].delegate # d
Voting == {d \in Accounts : delegates[d].delegatedVotes > 0}

VotesAhead ==
    \A d \in Accounts, i \in DOMAIN log : IsVote(log[i]) /\ log[i].delegate = d =>
        /\ log[i].newBalance = Votes(d)
        /\ log[i].previousBalance = delegates[d].delegatedVotes
        /\ log[i].newBalance # log[i].previousBalance
OneEach ==
    \A i, j \in DOMAIN log :
        IsVote(log[i]) /\ IsVote(log[j]) /\ log[i].delegate = log[j].delegate => i = j
VotesTold ==
    \A d \in Accounts :
        /\ delegates[d].delegatedVotes >= 0
        /\ Told(d) => delegates[d].delegatedVotes = Votes(d)
DelegatesCounted == IsFiniteSet(Voting) /\ governance.currentDelegates = Cardinality(Voting)
Live == Cardinality(Minted) - Cardinality(Owned(Zero))
VotesSummed ==
    /\ Len(log) <= 4
    /\ governance.delegatedVotes + Change(1) + Change(2) + Change(3) + Change(4) = Live

VotesInv == VotesAhead /\ OneEach /\ VotesTold /\ DelegatesCounted /\ VotesSummed

\* What the invariant says once every event is handled.
LEMMA VotesSettled ==
    ASSUME Typed, VotesInv
    PROVE  VotesFollow
  <1> SUFFICES ASSUME log = << >>
               PROVE  /\ \A d \in Accounts : delegates[d].delegatedVotes = Votes(d)
                      /\ governance.currentDelegates = Cardinality({d \in Accounts : Votes(d) > 0})
                      /\ governance.delegatedVotes = Live
    BY DEF VotesFollow, Settled, Live
  <1>1. DOMAIN log = {}
    OBVIOUS
  <1>2. \A d \in Accounts : delegates[d].delegatedVotes = Votes(d)
    BY <1>1 DEF VotesInv, VotesTold, Told
  <1>3. Voting = {d \in Accounts : Votes(d) > 0}
    BY <1>2 DEF Voting
  <1>4. governance.delegatedVotes = Live
    BY <1>1 DEF VotesInv, VotesSummed, Change, Typed, StoreTyped, GovernanceEntity
  <1> QED
    BY <1>2, <1>3, <1>4 DEF VotesInv, DelegatesCounted

LEMMA InitVotes ==
    ASSUME Init
    PROVE  VotesInv
  <1>1. /\ nounOwner = << >> /\ log = << >> /\ DOMAIN log = {} /\ Len(log) = 0 /\ Minted = {}
    BY DEF Init, Minted
  <1>2. /\ \A d \in Addresses : delegates[d].delegatedVotes = 0
        /\ governance.delegatedVotes = 0 /\ governance.currentDelegates = 0
    BY DEF Init
  <1>3. \A d : Votes(d) = 0
    <2>1. \A d : Represented(d) = {}
      BY <1>1 DEF Represented
    <2> QED
      BY <2>1, FS_EmptySet DEF Votes
  <1>4. DelegatesCounted
    <2>1. Voting = {}
      BY <1>2 DEF Voting, Addresses
    <2> QED
      BY <1>2, <2>1, FS_EmptySet DEF DelegatesCounted
  <1>5. Live = 0
    <2>1. Owned(Zero) = {}
      BY <1>1 DEF Owned
    <2> QED
      BY <1>1, <2>1, FS_EmptySet DEF Live
  <1>6. VotesAhead /\ OneEach
    BY <1>1 DEF VotesAhead, OneEach
  <1>7. VotesTold
    BY <1>2, <1>3 DEF VotesTold, Addresses
  <1>8. VotesSummed
    BY <1>1, <1>2, <1>5 DEF VotesSummed, Change
  <1> QED
    BY <1>4, <1>6, <1>7, <1>8 DEF VotesInv

\* Votes come to d, or go, with ns.
LEMMA VotesMove ==
    ASSUME ChainTyped, NEW d, NEW ns, IsFiniteSet(ns)
    PROVE  /\ Represented(d)' = Represented(d) => Votes(d)' = Votes(d)
           /\ Represented(d)' = Represented(d) \cup ns /\ Represented(d) \cap ns = {} =>
                  Votes(d)' = Votes(d) + Cardinality(ns)
           /\ Represented(d)' = Represented(d) \ ns /\ ns \subseteq Represented(d) =>
                  Votes(d)' = Votes(d) - Cardinality(ns)
  <1>1. IsFiniteSet(Represented(d)) /\ Votes(d) = Cardinality(Represented(d)) /\ Votes(d) \in Nat
    BY Countable DEF Votes
  <1>2. Cardinality(ns) \in Nat
    BY FS_CardinalityType
  <1>3. Represented(d)' = Represented(d) => Votes(d)' = Votes(d)
    BY DEF Votes
  <1>4. ASSUME Represented(d)' = Represented(d) \cup ns, Represented(d) \cap ns = {}
        PROVE  Votes(d)' = Votes(d) + Cardinality(ns)
    <2>1. Cardinality(Represented(d) \cup ns)
              = Cardinality(Represented(d)) + Cardinality(ns) - Cardinality(Represented(d) \cap ns)
      BY <1>1, FS_Union
    <2>2. Cardinality(Represented(d) \cap ns) = 0
      BY <1>4, FS_EmptySet
    <2> QED
      BY <1>1, <1>2, <1>4, <2>1, <2>2 DEF Votes
  <1>5. ASSUME Represented(d)' = Represented(d) \ ns, ns \subseteq Represented(d)
        PROVE  Votes(d)' = Votes(d) - Cardinality(ns)
    <2>1. Cardinality(Represented(d) \ ns)
              = Cardinality(Represented(d)) - Cardinality(Represented(d) \cap ns)
      BY <1>1, FS_Difference
    <2>2. Represented(d) \cap ns = ns
      BY <1>5
    <2> QED
      BY <1>1, <1>5, <2>1, <2>2 DEF Votes
  <1> QED
    BY <1>3, <1>4, <1>5

\* A transaction whose events tell of every vote that moved.
LEMMA VotesAnnounced ==
    ASSUME Typed, VotesInv, Typed', log = << >>, UNCHANGED storeVars, Len(log') <= 4,
           \A d \in Accounts, i \in DOMAIN log' : IsVote(log'[i]) /\ log'[i].delegate = d =>
               /\ log'[i].newBalance = Votes(d)'
               /\ log'[i].previousBalance = Votes(d)
               /\ log'[i].newBalance # log'[i].previousBalance,
           OneEach',
           \A d \in Accounts : Told(d)' => Votes(d)' = Votes(d),
           Live' = Live + Change(1)' + Change(2)' + Change(3)' + Change(4)'
    PROVE  VotesInv'
  <1>1. DOMAIN log = {}
    OBVIOUS
  <1>2. \A d \in Accounts : delegates[d].delegatedVotes = Votes(d)
    BY <1>1 DEF VotesInv, VotesTold, Told
  <1>3. governance.delegatedVotes = Live /\ governance.delegatedVotes \in Int
    BY <1>1 DEF VotesInv, VotesSummed, Change, Typed, StoreTyped, GovernanceEntity
  <1>4. \A d \in Accounts : Votes(d) \in Nat
    BY Countable DEF Typed
  <1>5. delegates' = delegates /\ governance' = governance
    BY DEF storeVars, tokenEntities
  <1>6. VotesAhead'
    BY <1>2, <1>5 DEF VotesAhead
  <1>7. VotesTold'
    BY <1>2, <1>4, <1>5 DEF VotesTold
  <1>8. DelegatesCounted'
    BY <1>5 DEF VotesInv, DelegatesCounted, Voting
  <1>9. VotesSummed'
    BY <1>3, <1>5 DEF VotesSummed
  <1> QED
    BY <1>6, <1>7, <1>8, <1>9 DEF VotesInv

LEMMA MintVotes ==
    ASSUME Typed, VotesInv, NEW to \in Recipients, Mint(to)
    PROVE  VotesInv'
  <1> DEFINE n == Len(nounOwner) + 1
             dst == DelegateOf(to)
  <1>1. /\ log = << >> /\ n \in NounIds /\ n \notin Minted /\ to \in Accounts
        /\ nounOwner' = Append(nounOwner, to) /\ UNCHANGED delegateOf
        /\ log' = <<VotesChanged(dst, 1), Transferred(Zero, Creator, n),
                    Transferred(Creator, to, n), [type |-> "NounCreated", tokenId |-> n]>>
        /\ UNCHANGED storeVars /\ Typed'
    BY MintEffect
  <1>2. dst \in Accounts /\ to # Zero
    BY <1>1, DelegateTyped DEF Typed
  <1>3. /\ Minted' = Minted \cup {n}
        /\ \A m \in Minted : nounOwner'[m] = nounOwner[m]
        /\ nounOwner'[n] = to
    BY <1>1, Countable DEF Typed, ChainTyped, Minted
  <1>4. \A a : DelegateOf(a)' = DelegateOf(a)
    BY <1>1 DEF DelegateOf
  <1> HIDE DEF n
  <1>5. \A d : Represented(d)' = IF d = dst THEN Represented(d) \cup {n} ELSE Represented(d)
    BY <1>2, <1>3, <1>4 DEF Represented
  <1>6. Owned(Zero)' = Owned(Zero)
    BY <1>2, <1>3 DEF Owned
  <1>7. \A d : Represented(d) \cap {n} = {} /\ IsFiniteSet({n}) /\ Cardinality({n}) = 1
    BY <1>1, FS_Singleton DEF Represented
  <1>8. \A d : Votes(d)' = IF d = dst THEN Votes(d) + 1 ELSE Votes(d)
    BY <1>5, <1>7, VotesMove DEF Typed
  <1>9. Live' = Live + 1
    <2>1. Cardinality(Minted') = Cardinality(Minted) + 1
      BY <1>1, <1>3, Countable, FS_AddElement DEF Typed
    <2>2. Cardinality(Minted) \in Nat /\ Cardinality(Owned(Zero)) \in Nat
      BY Countable, FS_CardinalityType DEF Typed
    <2> QED
      BY <1>6, <2>1, <2>2 DEF Live
  <1>10. /\ DOMAIN log' = 1..4 /\ Len(log') = 4
         /\ \A i \in 1..4 : IsVote(log'[i]) <=> i = 1
         /\ log'[1].delegate = dst /\ log'[1].previousBalance = Votes(dst)
         /\ log'[1].newBalance = Votes(dst) + 1
    BY <1>1 DEF IsVote, VotesChanged, Transferred
  <1>11. \A d \in Accounts : Votes(d) \in Nat
    BY Countable DEF Typed
  <1>12. OneEach'
    BY <1>10 DEF OneEach
  <1>13. \A d \in Accounts : Told(d)' => Votes(d)' = Votes(d)
    BY <1>8, <1>10 DEF Told
  <1>14. Change(1)' = 1 /\ Change(2)' = 0 /\ Change(3)' = 0 /\ Change(4)' = 0
    BY <1>2, <1>10, <1>11 DEF Change
  <1>15. Live \in Int
    BY Countable, FS_CardinalityType DEF Live, Typed
  <1>16. \A d \in Accounts, i \in DOMAIN log' : IsVote(log'[i]) /\ log'[i].delegate = d =>
               /\ log'[i].newBalance = Votes(d)'
               /\ log'[i].previousBalance = Votes(d)
               /\ log'[i].newBalance # log'[i].previousBalance
    BY <1>2, <1>8, <1>10, <1>11
  <1> HIDE DEF dst
  <1> QED
    BY <1>1, <1>9, <1>10, <1>12, <1>13, <1>14, <1>15, <1>16, VotesAnnounced

\* What a transfer or a burn moves.
LEMMA MoveMoves ==
    ASSUME Typed, NEW n \in Minted, NEW to \in Addresses, MoveNoun(n, to),
           NEW src, src = DelegateOf(nounOwner[n]), NEW dst, dst = DelegateOf(to)
    PROVE  /\ src = dst => \A d : Votes(d)' = Votes(d)
           /\ src # dst => \A d \in Accounts :
                  Votes(d)' = IF d = src THEN Votes(d) - 1
                              ELSE IF d = dst THEN Votes(d) + 1 ELSE Votes(d)
           /\ Live' = IF to = Zero THEN Live - 1 ELSE Live
  <1> DEFINE from == nounOwner[n]
  <1>1. /\ from \in Accounts /\ src \in Accounts
        /\ dst \in Addresses /\ (dst = Zero <=> to = Zero)
        /\ nounOwner' = [nounOwner EXCEPT ![n] = to] /\ UNCHANGED delegateOf
    BY MoveEffect
  <1>2. from # Zero /\ Zero \notin Accounts
    BY <1>1, SubgraphAssumption
  <1>3. /\ Minted' = Minted
        /\ \A m \in Minted : nounOwner'[m] = IF m = n THEN to ELSE nounOwner[m]
    <2>1. DOMAIN nounOwner = 1..Len(nounOwner) /\ Minted = DOMAIN nounOwner
      BY DEF Typed, ChainTyped, Minted
    <2> QED
      BY <1>1, <2>1 DEF Minted
  <1>4. \A a : DelegateOf(a)' = DelegateOf(a)
    BY <1>1 DEF DelegateOf
  <1>5. n \in Represented(src)
    BY <1>2 DEF Represented
  <1>6. \A d : n \in Represented(d) => d = src
    BY DEF Represented
  <1>7. \A d : \A m : m \in Represented(d)' <=>
            IF m = n THEN n \in Minted /\ to # Zero /\ dst = d ELSE m \in Represented(d)
    BY <1>3, <1>4 DEF Represented
  <1>8. IsFiniteSet({n}) /\ Cardinality({n}) = 1
    BY FS_Singleton
  <1>9. ASSUME src = dst PROVE \A d : Votes(d)' = Votes(d)
    <2>1. \A d : Represented(d)' = Represented(d)
      BY <1>1, <1>2, <1>5, <1>6, <1>7, <1>9
    <2> QED
      BY <2>1 DEF Votes
  <1>10. ASSUME src # dst, NEW d \in Accounts
         PROVE  Votes(d)' = IF d = src THEN Votes(d) - 1
                            ELSE IF d = dst THEN Votes(d) + 1 ELSE Votes(d)
    <2>1. CASE d = src
      <3>1. Represented(d)' = Represented(d) \ {n}
        BY <1>7, <1>10, <2>1
      <3> QED
        BY <1>5, <1>8, <2>1, <3>1, VotesMove DEF Typed
    <2>2. CASE d = dst
      <3>1. Represented(d)' = Represented(d) \cup {n} /\ Represented(d) \cap {n} = {}
        BY <1>1, <1>2, <1>6, <1>7, <1>10, <2>2
      <3> QED
        BY <1>8, <1>10, <2>2, <3>1, VotesMove DEF Typed
    <2>3. CASE d # src /\ d # dst
      <3>1. Represented(d)' = Represented(d)
        BY <1>6, <1>7, <2>3
      <3> QED
        BY <2>3, <3>1 DEF Votes
    <2> QED
      BY <2>1, <2>2, <2>3
  <1>11. Live' = IF to = Zero THEN Live - 1 ELSE Live
    <2>1. n \notin Owned(Zero) /\ IsFiniteSet(Owned(Zero)) /\ Cardinality(Owned(Zero)) \in Nat
      BY <1>2, Countable DEF Owned, Typed
    <2>2. Cardinality(Minted) \in Nat
      BY Countable, FS_CardinalityType DEF Typed
    <2>3. CASE to = Zero
      <3>1. Owned(Zero)' = Owned(Zero) \cup {n}
        BY <1>3, <2>3 DEF Owned
      <3>2. Cardinality(Owned(Zero) \cup {n}) = Cardinality(Owned(Zero)) + 1
        BY <2>1, FS_AddElement
      <3> QED
        BY <1>3, <2>1, <2>2, <2>3, <3>1, <3>2 DEF Live
    <2>4. CASE to # Zero
      <3>1. Owned(Zero)' = Owned(Zero)
        BY <1>2, <1>3, <2>4 DEF Owned
      <3> QED
        BY <1>3, <2>4, <3>1 DEF Live
    <2> QED
      BY <2>3, <2>4
  <1> QED
    BY <1>9, <1>10, <1>11

LEMMA MoveVotes ==
    ASSUME Typed, VotesInv, NEW n \in Minted, NEW to \in Addresses, MoveNoun(n, to)
    PROVE  VotesInv'
  <1> DEFINE from == nounOwner[n]
             src == DelegateOf(from)
             dst == DelegateOf(to)
             moved == Transferred(from, to, n)
  <1>1. /\ log = << >> /\ src \in Accounts
        /\ dst \in Addresses /\ (dst = Zero <=> to = Zero)
        /\ src = dst => log' = <<moved>>
        /\ src # dst /\ to = Zero => log' = <<VotesChanged(src, -1), moved>>
        /\ src # dst /\ to # Zero =>
               log' = <<VotesChanged(src, -1), VotesChanged(dst, 1), moved>>
        /\ UNCHANGED storeVars /\ Typed'
    BY MoveEffect
  <1>2. /\ src = dst => \A d : Votes(d)' = Votes(d)
        /\ src # dst => \A d \in Accounts :
               Votes(d)' = IF d = src THEN Votes(d) - 1
                           ELSE IF d = dst THEN Votes(d) + 1 ELSE Votes(d)
        /\ Live' = IF to = Zero THEN Live - 1 ELSE Live
    BY MoveMoves
  <1>3. ~IsVote(moved)
    BY DEF IsVote, Transferred
  <1>4. \A d, change : /\ IsVote(VotesChanged(d, change))
                       /\ VotesChanged(d, change).delegate = d
                       /\ VotesChanged(d, change).previousBalance = Votes(d)
                       /\ VotesChanged(d, change).newBalance = Votes(d) + change
    BY DEF IsVote, VotesChanged
  <1>5. \A d \in Accounts : Votes(d) \in Nat
    BY Countable DEF Typed
  <1>6. Live \in Int
    BY Countable, FS_CardinalityType DEF Live, Typed
  <1>7. dst # Zero => dst \in Accounts
    BY <1>1 DEF Addresses
  <1>8. Zero \notin Accounts
    BY SubgraphAssumption
  <1> DEFINE less == VotesChanged(src, -1)
             more == VotesChanged(dst, 1)
  <1>9. /\ IsVote(less) /\ less.delegate = src /\ less.previousBalance = Votes(src)
        /\ less.newBalance = Votes(src) - 1
        /\ IsVote(more) /\ more.delegate = dst /\ more.previousBalance = Votes(dst)
        /\ more.newBalance = Votes(dst) + 1
    BY <1>1, <1>4, <1>5
  <1> HIDE DEF src, dst, moved, less, more
  <1>10. CASE src = dst
    <2>1. log' = <<moved>> /\ DOMAIN log' = 1..1 /\ Len(log') = 1 /\ log'[1] = moved
      BY <1>1, <1>10
    <2>2. \A i \in DOMAIN log' : ~IsVote(log'[i])
      BY <1>3, <2>1
    <2>3. Change(1)' = 0 /\ Change(2)' = 0 /\ Change(3)' = 0 /\ Change(4)' = 0
      BY <2>2 DEF Change
    <2>4. OneEach'
      BY <2>2 DEF OneEach
    <2>5. Live' = Live
      BY <1>1, <1>2, <1>8, <1>10
    <2> QED
      BY <1>1, <1>2, <1>6, <1>10, <2>1, <2>2, <2>3, <2>4, <2>5, VotesAnnounced
  <1>11. CASE src # dst /\ to = Zero
    <2>1. /\ DOMAIN log' = 1..2 /\ Len(log') = 2
          /\ log'[1] = less /\ log'[2] = moved
      BY <1>1, <1>11 DEF less
    <2>2. \A i \in DOMAIN log' : IsVote(log'[i]) <=> i = 1
      BY <1>3, <1>9, <2>1
    <2>3. Change(1)' = -1 /\ Change(2)' = 0 /\ Change(3)' = 0 /\ Change(4)' = 0
      BY <1>1, <1>5, <1>9, <2>1, <2>2 DEF Change
    <2>4. OneEach'
      BY <2>2 DEF OneEach
    <2>5. \A d \in Accounts : Told(d)' => d # src
      BY <1>9, <2>1, <2>2 DEF Told
    <2>6. \A d \in Accounts : d # dst
      BY <1>1, <1>8, <1>11
    <2>7. \A d \in Accounts, i \in DOMAIN log' : IsVote(log'[i]) /\ log'[i].delegate = d =>
               /\ log'[i].newBalance = Votes(d)'
               /\ log'[i].previousBalance = Votes(d)
               /\ log'[i].newBalance # log'[i].previousBalance
      BY <1>1, <1>2, <1>5, <1>9, <1>11, <2>1, <2>2
    <2>8. Live' = Live - 1
      BY <1>2, <1>11
    <2>9. \A d \in Accounts : Told(d)' => Votes(d)' = Votes(d)
      BY <1>2, <1>11, <2>5, <2>6
    <2> QED
      BY <1>1, <1>6, <2>1, <2>3, <2>4, <2>7, <2>8, <2>9, VotesAnnounced
  <1>12. CASE src # dst /\ to # Zero
    <2>1. /\ DOMAIN log' = 1..3 /\ Len(log') = 3
          /\ log'[1] = less /\ log'[2] = more /\ log'[3] = moved
      BY <1>1, <1>12 DEF less, more
    <2>2. \A i \in DOMAIN log' : IsVote(log'[i]) <=> i \in {1, 2}
      BY <1>3, <1>9, <2>1
    <2>0. dst \in Accounts
      BY <1>1, <1>7, <1>12
    <2>3. Change(1)' = -1 /\ Change(2)' = 1 /\ Change(3)' = 0 /\ Change(4)' = 0
      BY <1>1, <1>5, <1>9, <2>0, <2>1, <2>2 DEF Change
    <2>4. OneEach'
      BY <1>9, <1>12, <2>1, <2>2 DEF OneEach
    <2>5. \A d \in Accounts : Told(d)' => d # src /\ d # dst
      BY <1>9, <2>1, <2>2 DEF Told
    <2>7. \A d \in Accounts, i \in DOMAIN log' : IsVote(log'[i]) /\ log'[i].delegate = d =>
               /\ log'[i].newBalance = Votes(d)'
               /\ log'[i].previousBalance = Votes(d)
               /\ log'[i].newBalance # log'[i].previousBalance
      BY <1>2, <1>5, <1>9, <1>12, <2>1, <2>2
    <2>8. Live' = Live
      BY <1>2, <1>12
    <2>9. \A d \in Accounts : Told(d)' => Votes(d)' = Votes(d)
      BY <1>2, <1>12, <2>5
    <2> QED
      BY <1>1, <1>6, <2>1, <2>3, <2>4, <2>7, <2>8, <2>9, VotesAnnounced
  <1> QED
    BY <1>10, <1>11, <1>12

\* What a delegation moves.
LEMMA DelegateMoves ==
    ASSUME Typed, NEW delegator \in Accounts, NEW delegatee \in Accounts,
           Delegate(delegator, delegatee),
           NEW old, old = DelegateOf(delegator),
           NEW amount, amount = Cardinality(Owned(delegator))
    PROVE  /\ old = delegatee \/ amount = 0 => \A d \in Accounts : Votes(d)' = Votes(d)
           /\ ~(old = delegatee \/ amount = 0) => \A d \in Accounts :
                  Votes(d)' = IF d = old THEN Votes(d) - amount
                              ELSE IF d = delegatee THEN Votes(d) + amount ELSE Votes(d)
           /\ Live' = Live
  <1> DEFINE own == Owned(delegator)
  <1>1. /\ old \in Accounts /\ amount \in Nat
        /\ delegateOf' = [delegateOf EXCEPT ![delegator] = delegatee]
        /\ UNCHANGED nounOwner
    BY DelegateEffect
  <1>2. /\ delegateOf \in [Accounts -> Addresses] /\ Zero \notin Accounts
        /\ \A m \in Minted : nounOwner[m] \in Addresses
    BY SubgraphAssumption, Countable DEF Typed, ChainTyped
  <1>3. Minted' = Minted /\ \A a : Owned(a)' = Owned(a)
    BY <1>1 DEF Minted, Owned
  <1>4. \A a \in Accounts : DelegateOf(a)' = IF a = delegator THEN delegatee ELSE DelegateOf(a)
    BY <1>1, <1>2 DEF DelegateOf
  <1>5. \A d : \A m : m \in Represented(d)' <=>
            IF m \in own THEN delegatee = d ELSE m \in Represented(d)
    BY <1>1, <1>2, <1>3, <1>4 DEF Represented, Owned, Addresses
  <1>6. own \subseteq Represented(old) /\ \A d : d # old => Represented(d) \cap own = {}
    BY <1>2 DEF Represented, Owned
  <1>7. IsFiniteSet(own) /\ amount = Cardinality(own)
    BY Countable DEF Typed
  <1>8. ASSUME old = delegatee PROVE \A d \in Accounts : Votes(d)' = Votes(d)
    <2>1. \A d \in Accounts : Represented(d)' = Represented(d)
      BY <1>5, <1>6, <1>8
    <2> QED
      BY <2>1 DEF Votes
  <1>9. ASSUME amount = 0 PROVE \A d \in Accounts : Votes(d)' = Votes(d)
    <2>1. own = {}
      BY <1>7, <1>9, FS_EmptySet
    <2>2. \A d \in Accounts : Represented(d)' = Represented(d)
      BY <1>5, <2>1
    <2> QED
      BY <2>2 DEF Votes
  <1> HIDE DEF own
  <1>10. ASSUME old # delegatee, NEW d \in Accounts
         PROVE  Votes(d)' = IF d = old THEN Votes(d) - amount
                            ELSE IF d = delegatee THEN Votes(d) + amount ELSE Votes(d)
    <2>1. CASE d = old
      <3>1. Represented(d)' = Represented(d) \ own
        BY <1>5, <1>10, <2>1
      <3> QED
        BY <1>6, <1>7, <2>1, <3>1, VotesMove DEF Typed
    <2>2. CASE d = delegatee
      <3>1. Represented(d)' = Represented(d) \cup own /\ Represented(d) \cap own = {}
        BY <1>5, <1>6, <1>10, <2>2
      <3> QED
        BY <1>7, <1>10, <2>2, <3>1, VotesMove DEF Typed
    <2>3. CASE d # old /\ d # delegatee
      <3>1. Represented(d)' = Represented(d)
        BY <1>5, <1>6, <2>3
      <3> QED
        BY <2>3, <3>1 DEF Votes
    <2> QED
      BY <2>1, <2>2, <2>3
  <1>11. Live' = Live
    BY <1>3 DEF Live
  <1> QED
    BY <1>8, <1>9, <1>10, <1>11

LEMMA DelegateVotes ==
    ASSUME Typed, VotesInv, NEW delegator \in Accounts, NEW delegatee \in Accounts,
           Delegate(delegator, delegatee)
    PROVE  VotesInv'
  <1> DEFINE old == DelegateOf(delegator)
             amount == Cardinality(Owned(delegator))
             changed == [type |-> "DelegateChanged", delegator |-> delegator,
                         fromDelegate |-> old, toDelegate |-> delegatee]
  <1> HIDE DEF old, amount, changed
  <1>0. /\ old = DelegateOf(delegator) /\ amount = Cardinality(Owned(delegator))
        /\ changed = [type |-> "DelegateChanged", delegator |-> delegator,
                      fromDelegate |-> old, toDelegate |-> delegatee]
    BY DEF old, amount, changed
  <1> DEFINE less == VotesChanged(old, -amount)
             more == VotesChanged(delegatee, amount)
  <1>1. /\ log = << >> /\ old \in Accounts /\ amount \in Nat
        /\ old = delegatee \/ amount = 0 => log' = <<changed>>
        /\ ~(old = delegatee \/ amount = 0) => log' = <<changed, less, more>>
        /\ UNCHANGED storeVars /\ Typed'
    BY <1>0, DelegateEffect
  <1>2. /\ old = delegatee \/ amount = 0 => \A d \in Accounts : Votes(d)' = Votes(d)
        /\ ~(old = delegatee \/ amount = 0) => \A d \in Accounts :
               Votes(d)' = IF d = old THEN Votes(d) - amount
                           ELSE IF d = delegatee THEN Votes(d) + amount ELSE Votes(d)
        /\ Live' = Live
    BY <1>0, DelegateMoves
  <1>3. ~IsVote(changed)
    BY <1>0 DEF IsVote
  <1>4. \A d \in Accounts : Votes(d) \in Nat
    BY Countable DEF Typed
  <1>5. Live \in Int
    BY Countable, FS_CardinalityType DEF Live, Typed
  <1>6. /\ IsVote(less) /\ less.delegate = old /\ less.previousBalance = Votes(old)
        /\ less.newBalance = Votes(old) - amount
        /\ IsVote(more) /\ more.delegate = delegatee /\ more.previousBalance = Votes(delegatee)
        /\ more.newBalance = Votes(delegatee) + amount
    <2>1. \A d, change : /\ IsVote(VotesChanged(d, change))
                         /\ VotesChanged(d, change).delegate = d
                         /\ VotesChanged(d, change).previousBalance = Votes(d)
                         /\ VotesChanged(d, change).newBalance = Votes(d) + change
      BY DEF IsVote, VotesChanged
    <2> QED
      BY <1>1, <1>4, <2>1
  <1> HIDE DEF less, more
  <1>7. CASE old = delegatee \/ amount = 0
    <2>1. log' = <<changed>> /\ DOMAIN log' = 1..1 /\ Len(log') = 1 /\ log'[1] = changed
      BY <1>1, <1>7
    <2>2. \A i \in DOMAIN log' : ~IsVote(log'[i])
      BY <1>3, <2>1
    <2>3. Change(1)' = 0 /\ Change(2)' = 0 /\ Change(3)' = 0 /\ Change(4)' = 0
      BY <2>2 DEF Change
    <2>4. OneEach'
      BY <2>2 DEF OneEach
    <2> QED
      BY <1>1, <1>2, <1>5, <1>7, <2>1, <2>2, <2>3, <2>4, VotesAnnounced
  <1>8. CASE ~(old = delegatee \/ amount = 0)
    <2>1. /\ DOMAIN log' = 1..3 /\ Len(log') = 3
          /\ log'[1] = changed /\ log'[2] = less /\ log'[3] = more
      BY <1>1, <1>8
    <2>2. \A i \in DOMAIN log' : IsVote(log'[i]) <=> i \in {2, 3}
      BY <1>3, <1>6, <2>1
    <2>3. Change(1)' = 0 /\ Change(2)' = -amount /\ Change(3)' = amount /\ Change(4)' = 0
      BY <1>1, <1>4, <1>6, <2>1, <2>2 DEF Change
    <2>4. OneEach'
      BY <1>6, <1>8, <2>1, <2>2 DEF OneEach
    <2>5. \A d \in Accounts : Told(d)' => d # old /\ d # delegatee
      BY <1>6, <2>1, <2>2 DEF Told
    <2>6. \A d \in Accounts, i \in DOMAIN log' : IsVote(log'[i]) /\ log'[i].delegate = d =>
               /\ log'[i].newBalance = Votes(d)'
               /\ log'[i].previousBalance = Votes(d)
               /\ log'[i].newBalance # log'[i].previousBalance
      BY <1>1, <1>2, <1>4, <1>6, <1>8, <2>1, <2>2
    <2>7. \A d \in Accounts : Told(d)' => Votes(d)' = Votes(d)
      BY <1>2, <1>8, <2>5
    <2>8. Live' = Live + Change(1)' + Change(2)' + Change(3)' + Change(4)'
      BY <1>1, <1>2, <1>5, <2>3
    <2> QED
      BY <1>1, <2>1, <2>4, <2>6, <2>7, <2>8, VotesAnnounced
  <1> QED
    BY <1>7, <1>8

\* The DAO moves no vote.
LEMMA DAOTransactionVotes ==
    ASSUME Typed, VotesInv, DAOTransaction
    PROVE  VotesInv'
  <1>1. ASSUME UNCHANGED <<nounOwner, delegateOf>>
        PROVE  /\ \A d : Votes(d)' = Votes(d)
               /\ Live' = Live
    BY <1>1 DEF Votes, Represented, DelegateOf, Minted, Live, Owned
  <1>2. CASE \E id \in Ids, s \in Stages : Passes(id, s)
    <2>1. UNCHANGED <<nounOwner, delegateOf, log, storeVars>>
      BY <1>2 DEF Passes
    <2>2. \A d : Votes(d)' = Votes(d) /\ Live' = Live
      BY <1>1, <2>1
    <2>3. log' = log /\ delegates' = delegates /\ governance' = governance
      BY <2>1 DEF storeVars, tokenEntities
    <2> QED
      BY <2>2, <2>3 DEF VotesInv, VotesAhead, OneEach, VotesTold, DelegatesCounted, VotesSummed,
                        Told, Voting, Change
  <1>3. CASE \E id \in Ids, s \in Stages, e \in DAOEvents :
                  /\ log = << >> /\ log' = <<e>> /\ stage' = [stage EXCEPT ![id] = s]
                  /\ UNCHANGED <<nounOwner, delegateOf, storeVars>>
                  /\ Typed'
    <2>1. PICK e \in DAOEvents :
              /\ log = << >> /\ log' = <<e>>
              /\ UNCHANGED <<nounOwner, delegateOf, storeVars>> /\ Typed'
      BY <1>3
    <2>2. ~IsVote(e)
      BY DEF IsVote, DAOEvents, CreationEvents, StatusEvents, StatusTypes, CastEvents
    <2>3. DOMAIN log' = 1..1 /\ Len(log') = 1 /\ \A i \in DOMAIN log' : ~IsVote(log'[i])
      BY <2>1, <2>2
    <2>4. Change(1)' = 0 /\ Change(2)' = 0 /\ Change(3)' = 0 /\ Change(4)' = 0
      BY <2>3 DEF Change
    <2>5. OneEach'
      BY <2>3 DEF OneEach
    <2>6. \A d : Votes(d)' = Votes(d) /\ Live' = Live
      BY <1>1, <2>1
    <2>7. Live \in Int
      BY Countable, FS_CardinalityType DEF Live, Typed
    <2> QED
      BY <2>1, <2>3, <2>4, <2>5, <2>6, <2>7, VotesAnnounced
  <1> QED
    BY <1>2, <1>3, DAOSteps

\* When the first event is handled, the others move up.
LEMMA ChangesMoveUp ==
    ASSUME Typed, VotesInv, log # << >>, log' = Tail(log)
    PROVE  /\ Len(log') <= 4
           /\ Change(1)' = Change(2) /\ Change(2)' = Change(3) /\ Change(3)' = Change(4)
           /\ Change(4)' = 0
           /\ \A i \in 1..4 : Change(i) \in Int
  <1>1. /\ log \in Seq(Events) /\ Len(log) <= 4
    BY DEF Typed, ChainTyped, VotesInv, VotesSummed
  <1>2. /\ Len(log) \in Nat /\ Len(log) > 0 /\ Len(log') = Len(log) - 1
        /\ DOMAIN log = 1..Len(log) /\ DOMAIN log' = 1..(Len(log) - 1)
        /\ \A i \in DOMAIN log' : i + 1 \in DOMAIN log /\ log'[i] = log[i + 1]
    BY <1>1, Popped
  <1>3. \A i \in DOMAIN log : log[i] \in Events
    BY <1>1, <1>2, ElementOfSeq
  <1>4. \A i \in 1..4 : Change(i) \in Int
    <2> TAKE i \in 1..4
    <2>1. CASE i \in DOMAIN log /\ IsVote(log[i])
      <3>1. log[i] \in VoteEvents
        BY <1>3, <2>1, EventFields DEF IsVote
      <3> QED
        BY <2>1, <3>1 DEF Change, VoteEvents
    <2>2. CASE ~(i \in DOMAIN log /\ IsVote(log[i]))
      BY <2>2 DEF Change
    <2> QED
      BY <2>1, <2>2
  <1>5. \A i \in 1..3 : i \in DOMAIN log' <=> i + 1 \in DOMAIN log
    BY <1>2
  <1>6. \A i \in 1..3 : IF i \in DOMAIN log' THEN log'[i] = log[i + 1] ELSE i + 1 \notin DOMAIN log
    BY <1>2, <1>5
  <1>7. Change(1)' = Change(1 + 1)
    BY <1>5, <1>6 DEF Change
  <1>8. Change(2)' = Change(2 + 1)
    BY <1>5, <1>6 DEF Change
  <1>9. Change(3)' = Change(3 + 1)
    BY <1>5, <1>6 DEF Change
  <1>10. Change(4)' = 0
    BY <1>1, <1>2 DEF Change
  <1> QED
    BY <1>1, <1>2, <1>4, <1>7, <1>8, <1>9, <1>10

\* A handler that leaves votes alone.
LEMMA OtherHandled ==
    ASSUME Typed, VotesInv, NEW type, Handle(type), type # "DelegateVotesChanged",
           UNCHANGED chainVars,
           governance'.delegatedVotes = governance.delegatedVotes,
           governance'.currentDelegates = governance.currentDelegates,
           \A d \in Accounts : delegates'[d].delegatedVotes = delegates[d].delegatedVotes
    PROVE  VotesInv'
  <1>1. /\ log \in Seq(Events) /\ log # << >> /\ log' = Tail(log) /\ log[1].type = type
    BY Handled
  <1>2. /\ Len(log) \in Nat /\ Len(log) > 0
        /\ DOMAIN log = 1..Len(log) /\ DOMAIN log' = 1..(Len(log) - 1)
        /\ \A i \in DOMAIN log' : i + 1 \in DOMAIN log /\ log'[i] = log[i + 1]
    BY <1>1, Popped
  <1>3. /\ \A d : Votes(d)' = Votes(d)
        /\ Live' = Live
    BY DEF Votes, Represented, DelegateOf, Minted, Live, Owned, chainVars
  <1>4. ~IsVote(log[1])
    BY <1>1 DEF IsVote
  <1>5. VotesAhead'
    BY <1>2, <1>3 DEF VotesInv, VotesAhead
  <1>6. OneEach'
    <2> SUFFICES ASSUME NEW i \in DOMAIN log', NEW j \in DOMAIN log', IsVote(log'[i]),
                        IsVote(log'[j]), log'[i].delegate = log'[j].delegate
                 PROVE  i = j
      BY DEF OneEach
    <2>1. i + 1 = j + 1
      BY <1>2 DEF VotesInv, OneEach
    <2> QED
      BY <1>2, <2>1
  <1>7. \A d : Told(d)' => Told(d)
    <2> SUFFICES ASSUME NEW d, Told(d)', NEW i \in DOMAIN log, IsVote(log[i])
                 PROVE  log[i].delegate # d
      BY DEF Told
    <2>1. i \in 1..Len(log) /\ i # 1
      BY <1>2, <1>4
    <2>2. i - 1 \in DOMAIN log' /\ (i - 1) + 1 = i
      BY <1>2, <2>1
    <2>3. log'[i - 1] = log[i]
      BY <1>2, <2>2
    <2> QED
      BY <2>2, <2>3 DEF Told
  <1>8. VotesTold'
    BY <1>3, <1>7 DEF VotesInv, VotesTold
  <1>9. DelegatesCounted'
    <2>1. Voting' = Voting
      BY DEF Voting
    <2> QED
      BY <2>1 DEF VotesInv, DelegatesCounted
  <1>10. VotesSummed'
    <2>1. Change(1) = 0
      BY <1>4 DEF Change
    <2>2. governance.delegatedVotes \in Int
      BY DEF Typed, StoreTyped, GovernanceEntity
    <2> QED
      BY <1>1, <1>3, <2>1, <2>2, ChangesMoveUp DEF VotesInv, VotesSummed
  <1> QED
    BY <1>5, <1>6, <1>8, <1>9, <1>10 DEF VotesInv

\* The handler that writes the votes of a delegate.
LEMMA VoteHandled ==
    ASSUME Typed, VotesInv, handleDelegateVotesChanged
    PROVE  VotesInv'
  <1> DEFINE e == log[1]
             d == e.delegate
  <1>1. Handle("DelegateVotesChanged") /\ UNCHANGED chainVars
    BY DEF handleDelegateVotesChanged
  <1>2. /\ log \in Seq(Events) /\ log # << >> /\ log' = Tail(log) /\ e.type = "DelegateVotesChanged"
        /\ Head(log) = e /\ e \in VoteEvents
    BY <1>1, Handled, EventFields
  <1>3. /\ Len(log) \in Nat /\ Len(log) > 0 /\ 1 \in DOMAIN log
        /\ DOMAIN log = 1..Len(log) /\ DOMAIN log' = 1..(Len(log) - 1)
        /\ \A i \in DOMAIN log' : i + 1 \in DOMAIN log /\ log'[i] = log[i + 1]
    BY <1>2, Popped
  <1>4. /\ \A a : Votes(a)' = Votes(a)
        /\ Live' = Live
    BY <1>1 DEF Votes, Represented, DelegateOf, Minted, Live, Owned, chainVars
  <1>5. d \in Accounts /\ e.newBalance \in Int /\ e.previousBalance \in Int /\ IsVote(e)
    BY <1>2 DEF VoteEvents, IsVote
  <1>6. /\ delegates' = [delegates EXCEPT ![d].stored = TRUE, ![d].delegatedVotes = e.newBalance]
        /\ governance' = [governance EXCEPT
               !.currentDelegates = DelegatesAfter(e),
               !.delegatedVotes = @ + e.newBalance - e.previousBalance]
    BY <1>2 DEF handleDelegateVotesChanged
  <1>7. /\ e.newBalance = Votes(d) /\ e.previousBalance = delegates[d].delegatedVotes
        /\ e.newBalance # e.previousBalance /\ delegates[d].delegatedVotes >= 0
        /\ Votes(d) \in Nat
    BY <1>3, <1>5, Countable DEF VotesInv, VotesAhead, VotesTold, Typed
  <1>8. \A i \in DOMAIN log' : IsVote(log'[i]) => log'[i].delegate # d
    <2> SUFFICES ASSUME NEW i \in DOMAIN log', IsVote(log'[i]), log'[i].delegate = d
                 PROVE  FALSE
      OBVIOUS
    <2>1. i + 1 = 1
      BY <1>3, <1>5 DEF VotesInv, OneEach
    <2> QED
      BY <1>3, <2>1
  <1> HIDE DEF d, e
  <1>9. /\ delegates'[d].delegatedVotes = e.newBalance
        /\ \A a \in Accounts : a # d => delegates'[a].delegatedVotes = delegates[a].delegatedVotes
    BY <1>5, <1>6 DEF Typed, StoreTyped, DelegateEntity, Addresses
  <1>10. /\ governance'.currentDelegates = DelegatesAfter(e)
         /\ governance'.delegatedVotes = governance.delegatedVotes + e.newBalance - e.previousBalance
         /\ governance.currentDelegates \in Int /\ governance.delegatedVotes \in Int
    BY <1>6 DEF Typed, StoreTyped, GovernanceEntity
  <1>11. VotesAhead'
    <2> SUFFICES ASSUME NEW a \in Accounts, NEW i \in DOMAIN log', IsVote(log'[i]),
                        log'[i].delegate = a
                 PROVE  /\ log'[i].newBalance = Votes(a)'
                        /\ log'[i].previousBalance = delegates'[a].delegatedVotes
                        /\ log'[i].newBalance # log'[i].previousBalance
      BY DEF VotesAhead
    <2>1. a # d
      BY <1>8
    <2> QED
      BY <1>3, <1>4, <1>9, <2>1 DEF VotesInv, VotesAhead
  <1>12. OneEach'
    <2> SUFFICES ASSUME NEW i \in DOMAIN log', NEW j \in DOMAIN log', IsVote(log'[i]),
                        IsVote(log'[j]), log'[i].delegate = log'[j].delegate
                 PROVE  i = j
      BY DEF OneEach
    <2>1. i + 1 = j + 1
      BY <1>3 DEF VotesInv, OneEach
    <2> QED
      BY <1>3, <2>1
  <1>13. \A a : a # d /\ Told(a)' => Told(a)
    <2> SUFFICES ASSUME NEW a, a # d, Told(a)', NEW i \in DOMAIN log, IsVote(log[i]),
                        log[i].delegate = a
                 PROVE  FALSE
      BY DEF Told
    <2>1. i \in 1..Len(log) /\ i # 1
      BY <1>3 DEF d, e
    <2>2. i - 1 \in DOMAIN log' /\ (i - 1) + 1 = i
      BY <1>3, <2>1
    <2>3. log'[i - 1] = log[i]
      BY <1>3, <2>2
    <2> QED
      BY <2>2, <2>3 DEF Told
  <1>14. VotesTold'
    BY <1>4, <1>7, <1>9, <1>13 DEF VotesInv, VotesTold
  <1>15. DelegatesCounted'
    <2>1. IsFiniteSet(Voting) /\ governance.currentDelegates = Cardinality(Voting)
      BY DEF VotesInv, DelegatesCounted
    <2>2. d \in Voting <=> delegates[d].delegatedVotes > 0
      BY <1>5 DEF Voting
    <2>3. /\ IsFiniteSet(Voting \cup {d}) /\ IsFiniteSet(Voting \ {d})
          /\ Cardinality(Voting \cup {d}) =
                 IF d \in Voting THEN Cardinality(Voting) ELSE Cardinality(Voting) + 1
          /\ Cardinality(Voting \ {d}) =
                 IF d \in Voting THEN Cardinality(Voting) - 1 ELSE Cardinality(Voting)
      BY <2>1, FS_AddElement, FS_RemoveElement
    <2>4. CASE e.newBalance > 0
      <3>1. Voting' = Voting \cup {d}
        BY <1>5, <1>9, <2>4 DEF Voting
      <3>2. governance'.currentDelegates =
                governance.currentDelegates + (IF delegates[d].delegatedVotes = 0 THEN 1 ELSE 0)
        BY <1>5, <1>7, <1>10, <2>4 DEF DelegatesAfter
      <3>3. d \in Voting <=> delegates[d].delegatedVotes # 0
        BY <1>5, <1>7, <2>2
      <3> QED
        BY <1>10, <2>1, <2>3, <3>1, <3>2, <3>3 DEF DelegatesCounted
    <2>5. CASE e.newBalance = 0
      <3>1. Voting' = Voting \ {d}
        BY <1>5, <1>9, <2>5 DEF Voting
      <3>2. governance'.currentDelegates = governance.currentDelegates - 1
        BY <1>5, <1>7, <1>10, <2>5 DEF DelegatesAfter
      <3>3. d \in Voting
        BY <1>5, <1>7, <2>2, <2>5
      <3> QED
        BY <1>10, <2>1, <2>3, <3>1, <3>2, <3>3 DEF DelegatesCounted
    <2> QED
      BY <1>7, <2>4, <2>5
  <1>16. VotesSummed'
    <2>1. Change(1) = e.newBalance - e.previousBalance
      BY <1>3, <1>5 DEF Change, e
    <2>2. /\ Len(log') <= 4 /\ Change(1)' = Change(2) /\ Change(2)' = Change(3)
          /\ Change(3)' = Change(4) /\ Change(4)' = 0
          /\ Change(1) \in Int /\ Change(2) \in Int /\ Change(3) \in Int /\ Change(4) \in Int
      BY <1>2, ChangesMoveUp
    <2>3. PICK b, c, f, g : b = Change(1) /\ c = Change(2) /\ f = Change(3) /\ g = Change(4)
      OBVIOUS
    <2>4. governance.delegatedVotes + b + c + f + g = Live
      BY <2>3 DEF VotesInv, VotesSummed
    <2>5. governance'.delegatedVotes = governance.delegatedVotes + b
      BY <1>5, <1>10, <2>1, <2>3
    <2>6. governance'.delegatedVotes + c + f + g + 0 = Live
      BY <1>10, <2>2, <2>3, <2>4, <2>5
    <2> QED
      BY <1>4, <2>2, <2>3, <2>6 DEF VotesSummed
  <1> QED
    BY <1>11, <1>12, <1>14, <1>15, <1>16 DEF VotesInv

\* No other handler writes the votes of a delegate, or their aggregates.
LEMMA VotesUntouched ==
    ASSUME Typed, Handlers, ~handleDelegateVotesChanged
    PROVE  /\ governance'.delegatedVotes = governance.delegatedVotes
           /\ governance'.currentDelegates = governance.currentDelegates
           /\ \A d \in Accounts : delegates'[d].delegatedVotes = delegates[d].delegatedVotes
           /\ UNCHANGED chainVars
           /\ \E type : Handle(type) /\ type # "DelegateVotesChanged"
  <1> DEFINE e == Head(log)
             Same == /\ governance'.delegatedVotes = governance.delegatedVotes
                     /\ governance'.currentDelegates = governance.currentDelegates
  <1>1. /\ governance \in GovernanceEntity /\ delegates \in [Addresses -> DelegateEntity]
        /\ accounts \in [Addresses -> AccountEntity]
        /\ \A d \in Accounts : d \in Addresses
    BY DEF Typed, StoreTyped, Addresses
  <1>2. \A g \in GovernanceEntity : \A ds, d :
            /\ CountDelegate(g, ds, d).delegatedVotes = g.delegatedVotes
            /\ CountDelegate(g, ds, d).currentDelegates = g.currentDelegates
    BY CountTyped DEF GovernanceEntity
  <1>3. UNCHANGED chainVars
    BY DEF Handlers, handleNounCreated, handleDelegateChanged, handleTransfer,
           handleProposalCreatedWithRequirements, handleProposalCanceled,
           handleProposalVetoed, handleProposalQueued, handleProposalExecuted, handleVoteCast
  <1>4. \E type : Handle(type) /\ type # "DelegateVotesChanged"
    <2>1. \E type \in {"NounCreated", "DelegateChanged", "Transfer",
                       "ProposalCreatedWithRequirements", "VoteCast"} \cup StatusTypes :
              Handle(type)
      BY DEF Handlers, handleNounCreated, handleDelegateChanged, handleTransfer,
             handleProposalCreatedWithRequirements, handleProposalCanceled, StatusTypes,
             handleProposalVetoed, handleProposalQueued, handleProposalExecuted, handleVoteCast
    <2> QED
      BY <2>1 DEF StatusTypes
  <1>5. CASE handleNounCreated
    BY <1>3, <1>4, <1>5 DEF handleNounCreated
  <1>6. CASE handleDelegateChanged
    <2> DEFINE first == CountDelegate(governance, delegates, e.fromDelegate)
    <2>1. first \in GovernanceEntity /\ first.delegatedVotes = governance.delegatedVotes
          /\ first.currentDelegates = governance.currentDelegates
      BY <1>1, <1>2, CountTyped
    <2>2. \/ governance' = CountDelegate(governance, delegates, e.toDelegate)
          \/ governance' = CountDelegate(first, delegates, e.toDelegate)
      BY <1>6 DEF handleDelegateChanged
    <2> HIDE DEF first
    <2>3. Same
      BY <1>1, <1>2, <2>1, <2>2
    <2> DEFINE gained == [n \in NounIds |-> delegates[e.toDelegate].nounsRepresented[n]
                                                + accounts[e.delegator].nouns[n]]
               own == {n \in NounIds : accounts[e.delegator].nouns[n] > 0}
               kept == Without(delegates[e.fromDelegate].nounsRepresented, own)
               more == [delegates[e.toDelegate] EXCEPT
                            !.stored = TRUE, !.tokenHoldersRepresented = @ + 1,
                            !.nounsRepresented = gained]
               less == [delegates[e.fromDelegate] EXCEPT
                            !.stored = TRUE, !.tokenHoldersRepresented = @ - 1,
                            !.nounsRepresented = kept]
    <2>4. delegates' = [d \in Addresses |->
                              CASE d = e.toDelegate -> more
                                [] d = e.fromDelegate /\ d # e.toDelegate -> less
                                [] OTHER -> delegates[d]]
      BY <1>1, <1>6 DEF handleDelegateChanged
    <2> HIDE DEF gained, kept
    <2>5. \A d \in Accounts :
              /\ d = e.toDelegate => more.delegatedVotes = delegates[d].delegatedVotes
              /\ d = e.fromDelegate => less.delegatedVotes = delegates[d].delegatedVotes
      BY <1>1 DEF DelegateEntity
    <2> HIDE DEF more, less, e
    <2>6. \A d \in Accounts : delegates'[d].delegatedVotes = delegates[d].delegatedVotes
      BY <1>1, <2>4, <2>5
    <2> QED
      BY <1>3, <1>4, <2>3, <2>6
  <1>7. CASE handleTransfer
    <2>1. /\ governance' = GovernanceAfter(e.from, e.to)
          /\ delegates' = Listed(e.from, e.to, e.tokenId)
      BY <1>7 DEF handleTransfer
    <2> HIDE DEF e
    <2>2. Same
      <3> DEFINE counted == [governance EXCEPT
                     !.totalTokenHolders = @ + (IF e.from = Zero THEN 1 ELSE 0)
                                             - (IF e.to = Zero THEN 1 ELSE 0),
                     !.currentTokenHolders = @ + HoldersGained(e.to) - HoldersLost(e.from)]
      <3>1. governance' = IF accounts[e.to].tokenBalance = 0 THEN counted
                          ELSE CountDelegate(counted, delegates, e.to)
        BY <2>1 DEF GovernanceAfter
      <3>2. /\ counted.delegatedVotes = governance.delegatedVotes
            /\ counted.currentDelegates = governance.currentDelegates
        BY <1>1 DEF GovernanceEntity
      <3>3. LET g == CountDelegate(counted, delegates, e.to)
            IN  g.delegatedVotes = counted.delegatedVotes
                /\ g.currentDelegates = counted.currentDelegates
        BY <1>1 DEF CountDelegate, GovernanceEntity
      <3> HIDE DEF counted
      <3> QED
        BY <3>1, <3>2, <3>3
    <2>3. \A d \in Accounts :
              Unlisted(e.from, e.tokenId)[d].delegatedVotes = delegates[d].delegatedVotes
      BY <1>1 DEF Unlisted, DelegateEntity
    <2>4. DOMAIN Unlisted(e.from, e.tokenId) = Addresses
      BY <1>1 DEF Unlisted
    <2>5. \A d \in Accounts :
              delegates'[d].delegatedVotes = Unlisted(e.from, e.tokenId)[d].delegatedVotes
      <3> DEFINE ds == Unlisted(e.from, e.tokenId)
      <3>1. delegates' = [ds EXCEPT ![e.to].stored = TRUE, ![e.to].nounsRepresented =
                                        Push(ds[e.to].nounsRepresented, e.tokenId)]
        BY <2>1 DEF Listed
      <3> QED
        BY <1>1, <2>4, <3>1
    <2> QED
      BY <1>3, <1>4, <2>2, <2>3, <2>5
  <1>8. CASE handleProposalCreatedWithRequirements
    <2> DEFINE g == [governance EXCEPT !.proposals = @ + 1]
    <2>1. g \in GovernanceEntity /\ g.delegatedVotes = governance.delegatedVotes
          /\ g.currentDelegates = governance.currentDelegates
      BY <1>1 DEF GovernanceEntity
    <2>2. /\ governance' = CountDelegate(g, delegates, e.proposer)
          /\ delegates' = [delegates EXCEPT ![e.proposer].stored = TRUE]
      BY <1>8 DEF handleProposalCreatedWithRequirements
    <2> HIDE DEF g
    <2>3. Same
      BY <1>2, <2>1, <2>2
    <2> QED
      BY <1>1, <1>3, <1>4, <2>2, <2>3 DEF DelegateEntity
  <1>9. CASE handleVoteCast
    <2>1. /\ governance' = CountDelegate(governance, delegates, e.voter)
          /\ delegates' = [delegates EXCEPT ![e.voter].stored = TRUE]
      BY <1>9 DEF handleVoteCast
    <2>2. Same
      BY <1>1, <1>2, <2>1
    <2> QED
      BY <1>1, <1>3, <1>4, <2>1, <2>2 DEF DelegateEntity
  <1>10. CASE handleProposalCanceled \/ handleProposalVetoed
    BY <1>3, <1>4, <1>10 DEF handleProposalCanceled, handleProposalVetoed, tokenEntities
  <1>11. CASE handleProposalQueued \/ handleProposalExecuted
    <2>1. delegates' = delegates
      BY <1>11 DEF handleProposalQueued, handleProposalExecuted, tokenEntities
    <2>2. Same
      BY <1>1, <1>11 DEF handleProposalQueued, handleProposalExecuted, GovernanceEntity
    <2> QED
      BY <1>3, <1>4, <2>1, <2>2
  <1> QED
    BY <1>5, <1>6, <1>7, <1>8, <1>9, <1>10, <1>11 DEF Handlers

\* Once every event is handled, each delegate is stored with the votes it has on the
\* chain, and the aggregates are their sum and the number of delegates with any.
THEOREM VotesAsOnChain == Spec => []VotesFollow
  <1>1. Init => Typed /\ VotesInv
    BY InitTyped, InitVotes
  <1>2. Typed /\ VotesInv /\ [Next]_vars => Typed' /\ VotesInv'
    <2> SUFFICES ASSUME Typed, VotesInv, [Next]_vars PROVE Typed' /\ VotesInv'
      OBVIOUS
    <2>1. Typed'
      BY NextTyped
    <2>2. ASSUME TokenTransaction PROVE VotesInv'
      BY <2>2, MintVotes, MoveVotes, DelegateVotes DEF TokenTransaction
    <2>3. ASSUME DAOTransaction PROVE VotesInv'
      BY <2>3, DAOTransactionVotes
    <2>4. ASSUME Handlers PROVE VotesInv'
      BY <2>4, VoteHandled, OtherHandled, VotesUntouched
    <2>5. ASSUME UNCHANGED vars PROVE VotesInv'
      <3>1. /\ log' = log /\ delegates' = delegates /\ governance' = governance
            /\ UNCHANGED <<nounOwner, delegateOf>>
        BY <2>5 DEF vars, chainVars, storeVars, tokenEntities
      <3>2. \A d : Votes(d)' = Votes(d) /\ Live' = Live
        BY <3>1 DEF Votes, Represented, DelegateOf, Minted, Live, Owned
      <3> QED
        BY <3>1, <3>2 DEF VotesInv, VotesAhead, OneEach, VotesTold, DelegatesCounted,
                          VotesSummed, Told, Voting, Change
    <2> QED
      BY <2>1, <2>2, <2>3, <2>4, <2>5 DEF Next
  <1>3. Typed /\ VotesInv => VotesFollow
    BY VotesSettled
  <1> QED
    BY <1>1, <1>2, <1>3, PTL DEF Spec

-----------------------------------------------------------------------------
(* Holdings.  The store knows the owner of a noun from the transfers it    *)
(* has handled; what accounts and aggregates say agrees with these owners  *)
(* at every step, and the owners with the chain once no transfer is left.  *)

Moving(e) == e.type \in {"Transfer", "NounCreated"}
Known(n) == nouns[n].owner = nounOwner[n] /\ nouns[n].seed
KnownBut(n) == \A m \in Minted \ {n} : Known(m)

\* Nothing is left to be told of nouns.
Quiet == (\A i \in DOMAIN log : ~Moving(log[i])) /\ \A m \in Minted : Known(m)

\* A transfer of n is left, at the end of the log.
MoveLeft(n) ==
    /\ Len(log) >= 1 /\ \A i \in 1..(Len(log) - 1) : ~Moving(log[i])
    /\ log[Len(log)] = Transferred(nouns[n].owner, nounOwner[n], n)
    /\ nouns[n].owner \in Accounts /\ nouns[n].seed
    /\ nouns[n].owner = nounOwner[n] => nounOwner[n] \in selfMoved
    /\ KnownBut(n)

\* Of the three events of a mint of n, the last ones are left.
MintLeft(n) ==
    /\ Len(log) >= 1 /\ \A i \in 1..(Len(log) - 3) : ~Moving(log[i])
    /\ Len(log) >= 3 => log[Len(log) - 2] = Transferred(Zero, Creator, n)
    /\ Len(log) >= 2 => log[Len(log) - 1] = Transferred(Creator, nounOwner[n], n)
    /\ log[Len(log)] = [type |-> "NounCreated", tokenId |-> n]
    /\ nounOwner[n] \in Accounts /\ (nounOwner[n] = Creator => Creator \in selfMoved)
    /\ nouns[n].owner = IF Len(log) = 1 THEN nounOwner[n]
                        ELSE IF Len(log) = 2 THEN Creator ELSE Null
    /\ KnownBut(n)

Deliveries ==
    /\ Quiet \/ \E n \in Minted : MoveLeft(n) \/ MintLeft(n)
    /\ \A m \in NounIds \ Minted : nouns[m].owner = Null

Held(a) == {n \in NounIds : nouns[n].owner = a}
Holding == {a \in Addresses : Held(a) # {}}

BalancesMatch ==
    \A a \in Addresses \ selfMoved :
        /\ accounts[a].tokenBalance = Cardinality(Held(a))
        /\ \A n \in NounIds : accounts[a].nouns[n] = IF n \in Held(a) THEN 1 ELSE 0
HoldersMatch ==
    /\ IsFiniteSet(Holding)
    /\ selfMoved = {} => governance.currentTokenHolders = Cardinality(Holding)

HoldingsInv == Deliveries /\ BalancesMatch /\ HoldersMatch

\* Sets of nouns are finite.
LEMMA NounsFinite == \A S : S \subseteq NounIds => IsFiniteSet(S) /\ Cardinality(S) \in Nat
  <1>1. IsFiniteSet(NounIds)
    BY SubgraphAssumption, FS_Interval DEF NounIds
  <1> QED
    BY <1>1, FS_Subset, FS_CardinalityType

\* What the invariant says once every event is handled.
LEMMA HoldingsSettled ==
    ASSUME Typed, HoldingsInv
    PROVE  HoldingsFollow
  <1> SUFFICES ASSUME log = << >>
               PROVE  /\ \A n \in Minted : nouns[n] = [owner |-> nounOwner[n], seed |-> TRUE]
                      /\ \A a \in Addresses \ selfMoved :
                             /\ accounts[a].tokenBalance = Cardinality(Owned(a))
                             /\ \A n \in NounIds :
                                    accounts[a].nouns[n] = IF n \in Owned(a) THEN 1 ELSE 0
                      /\ selfMoved = {} /\ Owned(Zero) = {} => HoldersCounted
    BY DEF HoldingsFollow, Settled
  <1>1. \A m \in Minted : Known(m)
    BY DEF HoldingsInv, Deliveries, Quiet, MoveLeft, MintLeft
  <1>2. \A n \in Minted : nouns[n] = [owner |-> nounOwner[n], seed |-> TRUE]
    BY <1>1, Countable DEF Known, Typed, StoreTyped, NounEntity
  <1>3. \A m \in NounIds \ Minted : nouns[m].owner = Null
    BY DEF HoldingsInv, Deliveries
  <1>4. Null \notin Addresses /\ Minted \subseteq NounIds
    BY SubgraphAssumption, Countable DEF Addresses, Typed
  <1>5. \A a \in Addresses : Held(a) = Owned(a)
    BY <1>1, <1>3, <1>4 DEF Held, Owned, Known
  <1>6. ASSUME selfMoved = {}, Owned(Zero) = {}
        PROVE  HoldersCounted
    <2>1. Holding = {a \in Accounts : Owned(a) # {}}
      BY <1>5, <1>6 DEF Holding, Addresses
    <2> QED
      BY <1>6, <2>1 DEF HoldingsInv, HoldersMatch, HoldersCounted
  <1> QED
    BY <1>2, <1>5, <1>6 DEF HoldingsInv, BalancesMatch

LEMMA InitHoldings ==
    ASSUME Init
    PROVE  HoldingsInv
  <1>1. /\ \A n \in NounIds : nouns[n].owner = Null
        /\ \A a \in Addresses : accounts[a].tokenBalance = 0
                                /\ \A n \in NounIds : accounts[a].nouns[n] = 0
        /\ governance.currentTokenHolders = 0
        /\ log = << >> /\ DOMAIN log = {} /\ Minted = {}
    BY DEF Init, NoNouns, Minted
  <1>2. \A a \in Addresses : Held(a) = {}
    BY <1>1, SubgraphAssumption DEF Held, Addresses
  <1>3. Holding = {}
    BY <1>1, <1>2, SubgraphAssumption DEF Holding
  <1>4. Deliveries
    BY <1>1 DEF Deliveries, Quiet
  <1>5. BalancesMatch
    BY <1>1, <1>2, FS_EmptySet DEF BalancesMatch
  <1>6. HoldersMatch
    BY <1>1, <1>3, FS_EmptySet DEF HoldersMatch
  <1> QED
    BY <1>4, <1>5, <1>6 DEF HoldingsInv

\* A transfer is applied to whoever has the noun as the store knows it.
LEMMA TransferApplied ==
    ASSUME Typed, Typed', BalancesMatch, HoldersMatch,
           NEW n \in NounIds, NEW from \in Addresses, NEW to \in Addresses,
           nouns[n].owner # Zero,
           from = IF nouns[n].owner = Null THEN Zero ELSE nouns[n].owner,
           from = to => to \in selfMoved,
           governance' = GovernanceAfter(from, to),
           accounts' = AccountsAfter(from, to, n),
           nouns' = [nouns EXCEPT ![n].owner = to],
           UNCHANGED selfMoved
    PROVE  BalancesMatch' /\ HoldersMatch'
  <1> DEFINE owner == nouns[n].owner
  <1>1. /\ \A m \in NounIds : nouns'[m].owner = IF m = n THEN to ELSE nouns[m].owner
        /\ accounts \in [Addresses -> AccountEntity] /\ governance \in GovernanceEntity
    BY DEF Typed, StoreTyped, NounEntity
  <1>2. Zero \notin Accounts /\ Null \notin Addresses /\ Zero \in Addresses
    BY SubgraphAssumption DEF Addresses
  <1>3. \A a : Held(a)' = IF a = to THEN Held(a) \cup {n}
                          ELSE IF a = owner THEN Held(a) \ {n} ELSE Held(a)
    BY <1>1 DEF Held
  <1>4. \A a : n \in Held(a) <=> a = owner
    BY DEF Held
  <1>5. \A a : IsFiniteSet(Held(a)) /\ Cardinality(Held(a)) \in Nat
    BY NounsFinite DEF Held
  <1>6. \A a : /\ Cardinality(Held(a) \cup {n}) =
                      IF n \in Held(a) THEN Cardinality(Held(a)) ELSE Cardinality(Held(a)) + 1
               /\ Cardinality(Held(a) \ {n}) =
                      IF n \in Held(a) THEN Cardinality(Held(a)) - 1 ELSE Cardinality(Held(a))
    BY <1>5, FS_AddElement, FS_RemoveElement
  <1>7. BalancesMatch'
    <2> SUFFICES ASSUME NEW a \in Addresses \ selfMoved
                 PROVE  /\ accounts'[a].tokenBalance = Cardinality(Held(a)')
                        /\ \A m \in NounIds :
                               accounts'[a].nouns[m] = IF m \in Held(a)' THEN 1 ELSE 0
      BY DEF BalancesMatch
    <2>1. /\ accounts[a].tokenBalance = Cardinality(Held(a))
          /\ \A m \in NounIds : accounts[a].nouns[m] = IF m \in Held(a) THEN 1 ELSE 0
          /\ accounts[a] \in AccountEntity
      BY <1>1 DEF BalancesMatch
    <2>2. CASE a = to
      <3>1. from # a /\ owner # a
        BY <1>2, <2>2
      <3>2. accounts'[a] = Received(accounts[a], to, n)
        BY <1>1, <2>2 DEF AccountsAfter
      <3>3. Held(a)' = Held(a) \cup {n} /\ n \notin Held(a)
        BY <1>3, <1>4, <2>2, <3>1
      <3>4. accounts'[a].tokenBalance = accounts[a].tokenBalance + 1
        BY <3>2 DEF Received
      <3>5. \A m \in NounIds : accounts'[a].nouns[m] =
                IF m = n THEN accounts[a].nouns[m] + 1 ELSE accounts[a].nouns[m]
        BY <2>1, <3>2 DEF Received, Push, AccountEntity, Lists
      <3> QED
        BY <1>6, <2>1, <3>3, <3>4, <3>5
    <2>3. CASE a = owner /\ a # to
      <3>1. a = from /\ from # Zero
        BY <1>2, <2>3
      <3>2. accounts'[a] = Sent(accounts[a], n)
        BY <1>1, <2>3, <3>1 DEF AccountsAfter
      <3>3. Held(a)' = Held(a) \ {n} /\ n \in Held(a)
        BY <1>3, <1>4, <2>3
      <3>4. accounts'[a].tokenBalance = accounts[a].tokenBalance - 1
        BY <3>2 DEF Sent
      <3>5. \A m \in NounIds : accounts'[a].nouns[m] =
                IF m = n THEN 0 ELSE accounts[a].nouns[m]
        BY <3>2 DEF Sent, Without
      <3> QED
        BY <1>6, <2>1, <3>3, <3>4, <3>5
    <2>4. CASE a # owner /\ a # to
      <3>1. from = Zero \/ a # from
        BY <2>4
      <3>2. accounts'[a] = accounts[a]
        BY <1>1, <2>4, <3>1 DEF AccountsAfter
      <3> QED
        BY <1>3, <2>1, <2>4, <3>2
    <2> QED
      BY <2>2, <2>3, <2>4
  <1> DEFINE counted == [governance EXCEPT
                 !.totalTokenHolders = @ + (IF from = Zero THEN 1 ELSE 0)
                                         - (IF to = Zero THEN 1 ELSE 0),
                 !.currentTokenHolders = @ + HoldersGained(to) - HoldersLost(from)]
  <1>8. governance'.currentTokenHolders = counted.currentTokenHolders
    <2>1. governance' = IF accounts[to].tokenBalance = 0 THEN counted
                        ELSE CountDelegate(counted, delegates, to)
      BY DEF GovernanceAfter
    <2>2. CountDelegate(counted, delegates, to).currentTokenHolders = counted.currentTokenHolders
      BY <1>1 DEF CountDelegate, GovernanceEntity
    <2> HIDE DEF counted
    <2> QED
      BY <2>1, <2>2
  <1>9. /\ counted.currentTokenHolders = governance.currentTokenHolders
               + HoldersGained(to) - HoldersLost(from)
        /\ governance.currentTokenHolders \in Int
    BY <1>1 DEF GovernanceEntity
  <1> HIDE DEF counted
  <1>10. HoldersMatch'
    <2>1. IsFiniteSet(Holding) /\ Cardinality(Holding) \in Nat
      BY FS_CardinalityType DEF HoldersMatch
    <2>2. \A a \in Addresses : a \in Holding' <=>
              a = to \/ (IF a = owner THEN Held(a) # {n} /\ Held(a) # {} ELSE Held(a) # {})
      BY <1>3, <1>4 DEF Holding
    <2> DEFINE gone == {a \in {owner} : a \in Addresses /\ a # to /\ Held(a) = {n}}
    <2>3. Holding' = (Holding \cup {to}) \ gone
      <3>1. \A a \in Addresses : a \in Holding <=> Held(a) # {}
        BY DEF Holding
      <3>2. \A a : a \in Holding' \/ a \in Holding => a \in Addresses
        BY DEF Holding
      <3> QED
        BY <2>2, <3>1, <3>2
    <2>4. IsFiniteSet(Holding \cup {to})
          /\ Cardinality(Holding \cup {to}) =
                 IF to \in Holding THEN Cardinality(Holding) ELSE Cardinality(Holding) + 1
      BY <2>1, FS_AddElement
    <2>5. IsFiniteSet(Holding')
      <3> HIDE DEF gone
      <3> QED
        BY <2>3, <2>4, FS_Subset
    <2>6. ASSUME selfMoved = {}
          PROVE  governance'.currentTokenHolders = Cardinality(Holding')
      <3>1. governance.currentTokenHolders = Cardinality(Holding)
        BY <2>6 DEF HoldersMatch
      <3>2. \A a \in Addresses : accounts[a].tokenBalance = Cardinality(Held(a))
        BY <2>6 DEF BalancesMatch
      <3>3. from # to
        BY <2>6
      <3>4. \A a : Cardinality(Held(a)) = 0 <=> Held(a) = {}
        BY <1>5, FS_EmptySet
      <3>5. HoldersGained(to) = IF to \in Holding THEN 0 ELSE 1
        BY <3>2, <3>4 DEF HoldersGained, Holding
      <3>6. CASE owner \in Addresses /\ Held(owner) = {n}
        <4>1. from = owner /\ from # Zero /\ gone = {owner}
          BY <1>2, <3>3, <3>6
        <4>2. accounts[from].tokenBalance = 1
          BY <3>2, <3>6, <4>1, FS_Singleton
        <4>3. HoldersLost(from) = 1
          BY <4>1, <4>2 DEF HoldersLost
        <4>4. owner \in Holding
          BY <3>6 DEF Holding
        <4>5. Cardinality((Holding \cup {to}) \ {owner}) = Cardinality(Holding \cup {to}) - 1
          BY <2>4, <4>4, FS_RemoveElement
        <4> HIDE DEF owner, gone
        <4> QED
          BY <1>8, <1>9, <2>1, <2>3, <2>4, <3>1, <3>5, <4>1, <4>3, <4>5
      <3>7. CASE ~(owner \in Addresses /\ Held(owner) = {n})
        <4>1. gone = {}
          BY <3>7
        <4>2. HoldersLost(from) = 0
          <5> SUFFICES ASSUME from # Zero, accounts[from].tokenBalance = 1
                       PROVE  FALSE
            BY DEF HoldersLost
          <5>1. from = owner /\ owner \in Addresses /\ n \in Held(owner)
            BY <1>4
          <5>2. Cardinality(Held(owner)) = 1
            BY <3>2, <5>1
          <5>3. Held(owner) = {n}
            BY <1>5, <5>1, <5>2, FS_Singleton
          <5> QED
            BY <3>7, <5>1, <5>3
        <4> HIDE DEF owner, gone
        <4>3. Holding' = Holding \cup {to}
          BY <2>3, <4>1
        <4> QED
          BY <1>8, <1>9, <2>1, <2>4, <3>1, <3>5, <4>2, <4>3
      <3> QED
        BY <3>6, <3>7
    <2> QED
      BY <2>5, <2>6 DEF HoldersMatch
  <1> QED
    BY <1>7, <1>10

\* The log only matters for what is left to be told of nouns.
LEMMA HoldingsAnnounced ==
    ASSUME Typed, HoldingsInv, Deliveries', UNCHANGED storeVars,
           selfMoved \subseteq selfMoved'
    PROVE  HoldingsInv'
  <1>1. nouns' = nouns /\ accounts' = accounts /\ governance' = governance
    BY DEF storeVars, tokenEntities
  <1>2. \A a : Held(a)' = Held(a)
    BY <1>1 DEF Held
  <1>3. Holding' = Holding
    BY <1>1, <1>2 DEF Holding
  <1> QED
    BY <1>1, <1>2, <1>3 DEF HoldingsInv, BalancesMatch, HoldersMatch

\* Before a transaction the store knows all nouns.
LEMMA AllKnown ==
    ASSUME HoldingsInv, log = << >>
    PROVE  /\ \A m \in Minted : Known(m)
           /\ \A m \in NounIds \ Minted : nouns[m].owner = Null
  BY DEF HoldingsInv, Deliveries, Quiet, MoveLeft, MintLeft

LEMMA MintHoldings ==
    ASSUME Typed, HoldingsInv, NEW to \in Recipients, Mint(to)
    PROVE  HoldingsInv'
  <1>0. PICK n : n = Len(nounOwner) + 1
    OBVIOUS
  <1>1. /\ log = << >> /\ n \in NounIds /\ n \notin Minted /\ to \in Accounts
        /\ nounOwner' = Append(nounOwner, to)
        /\ log' = <<VotesChanged(DelegateOf(to), 1), Transferred(Zero, Creator, n),
                    Transferred(Creator, to, n), [type |-> "NounCreated", tokenId |-> n]>>
        /\ UNCHANGED storeVars
    BY <1>0, MintEffect
  <1>2. selfMoved' = selfMoved \cup (IF to = Creator THEN {to} ELSE {})
    BY DEF Mint
  <1>3. /\ Minted' = Minted \cup {n}
        /\ \A m \in Minted : nounOwner'[m] = nounOwner[m]
        /\ nounOwner'[n] = to
    BY <1>0, <1>1, Countable DEF Typed, ChainTyped, Minted
  <1>4. /\ nouns' = nouns
        /\ \A m \in Minted : Known(m)
        /\ \A m \in NounIds \ Minted : nouns[m].owner = Null
    BY <1>1, AllKnown DEF storeVars, tokenEntities
  <1>5. /\ Len(log') = 4 /\ ~Moving(log'[1])
        /\ log'[2] = Transferred(Zero, Creator, n) /\ log'[3] = Transferred(Creator, to, n)
        /\ log'[4] = [type |-> "NounCreated", tokenId |-> n]
    BY <1>1 DEF Moving, VotesChanged
  <1>6. \A m \in Minted' \ {n} : nouns'[m].owner = nounOwner'[m] /\ nouns'[m].seed
    BY <1>1, <1>3, <1>4 DEF Known
  <1>7. MintLeft(n)'
    <2>1. /\ Len(log') - 2 = 2 /\ Len(log') - 1 = 3
          /\ \A i \in 1..(Len(log') - 3) : i = 1
      BY <1>5
    <2>2. /\ log'[Len(log') - 2] = Transferred(Zero, Creator, n)
          /\ log'[Len(log') - 1] = Transferred(Creator, nounOwner'[n], n)
          /\ log'[Len(log')] = [type |-> "NounCreated", tokenId |-> n]
          /\ \A i \in 1..(Len(log') - 3) : ~Moving(log'[i])
      BY <1>3, <1>5, <2>1
    <2>3. nouns'[n].owner = Null
      BY <1>1, <1>4
    <2>4. KnownBut(n)'
      BY <1>6 DEF KnownBut, Known
    <2>5. nounOwner'[n] = Creator => Creator \in selfMoved'
      BY <1>2, <1>3
    <2> QED
      BY <1>1, <1>3, <1>5, <2>2, <2>3, <2>4, <2>5 DEF MintLeft
  <1>8. Deliveries'
    BY <1>3, <1>4, <1>7 DEF Deliveries
  <1> QED
    BY <1>1, <1>2, <1>8, HoldingsAnnounced

LEMMA MoveHoldings ==
    ASSUME Typed, HoldingsInv, NEW n \in Minted, NEW to \in Addresses, MoveNoun(n, to)
    PROVE  HoldingsInv'
  <1> DEFINE from == nounOwner[n]
             src == DelegateOf(from)
             dst == DelegateOf(to)
             moved == Transferred(from, to, n)
  <1>1. /\ log = << >> /\ from \in Accounts /\ n \in NounIds
        /\ nounOwner' = [nounOwner EXCEPT ![n] = to]
        /\ src = dst => log' = <<moved>>
        /\ src # dst /\ to = Zero => log' = <<VotesChanged(src, -1), moved>>
        /\ src # dst /\ to # Zero =>
               log' = <<VotesChanged(src, -1), VotesChanged(dst, 1), moved>>
        /\ UNCHANGED storeVars
    BY MoveEffect
  <1>2. selfMoved' = selfMoved \cup (IF from = to THEN {from} ELSE {})
    BY DEF MoveNoun
  <1>3. /\ Minted' = Minted
        /\ \A m \in Minted : nounOwner'[m] = IF m = n THEN to ELSE nounOwner[m]
    <2>1. DOMAIN nounOwner = 1..Len(nounOwner) /\ Minted = DOMAIN nounOwner
      BY DEF Typed, ChainTyped, Minted
    <2> QED
      BY <1>1, <2>1 DEF Minted
  <1>4. /\ nouns' = nouns
        /\ \A m \in Minted : Known(m)
        /\ \A m \in NounIds \ Minted : nouns[m].owner = Null
    BY <1>1, AllKnown DEF storeVars, tokenEntities
  <1>5. \A d, change : ~Moving(VotesChanged(d, change))
    BY DEF Moving, VotesChanged
  <1>6. nouns[n].owner = from /\ nouns[n].seed
    BY <1>4 DEF Known
  <1> HIDE DEF src, dst, moved
  <1>7. /\ Len(log') >= 1 /\ log'[Len(log')] = moved
        /\ \A i \in 1..(Len(log') - 1) : ~Moving(log'[i])
    <2>1. CASE src = dst
      <3>1. Len(log') = 1 /\ log'[1] = moved
        BY <1>1, <2>1
      <3> QED
        BY <3>1
    <2>2. CASE src # dst /\ to = Zero
      <3>1. Len(log') = 2 /\ log'[1] = VotesChanged(src, -1) /\ log'[2] = moved
        BY <1>1, <2>2
      <3> QED
        BY <1>5, <3>1
    <2>3. CASE src # dst /\ to # Zero
      <3>1. /\ Len(log') = 3 /\ log'[1] = VotesChanged(src, -1)
            /\ log'[2] = VotesChanged(dst, 1) /\ log'[3] = moved
        BY <1>1, <2>3
      <3> QED
        BY <1>5, <3>1
    <2> QED
      BY <2>1, <2>2, <2>3
  <1>8. KnownBut(n)'
    BY <1>3, <1>4 DEF KnownBut, Known
  <1>9. log'[Len(log')] = Transferred(nouns'[n].owner, nounOwner'[n], n)
    BY <1>3, <1>4, <1>6, <1>7 DEF moved
  <1>10. MoveLeft(n)'
    BY <1>1, <1>2, <1>3, <1>4, <1>6, <1>7, <1>8, <1>9 DEF MoveLeft
  <1>11. Deliveries'
    BY <1>3, <1>4, <1>10 DEF Deliveries
  <1> QED
    BY <1>1, <1>2, <1>11, HoldingsAnnounced

\* Transactions that move no noun.
LEMMA QuietHoldings ==
    ASSUME Typed, HoldingsInv, log = << >>, UNCHANGED <<nounOwner, storeVars, selfMoved>>,
           \A i \in DOMAIN log' : ~Moving(log'[i])
    PROVE  HoldingsInv'
  <1>1. nouns' = nouns
    BY DEF storeVars, tokenEntities
  <1>2. Deliveries'
    BY <1>1, AllKnown DEF Deliveries, Quiet, Known, Minted
  <1> QED
    BY <1>2, HoldingsAnnounced

LEMMA DelegateHoldings ==
    ASSUME Typed, HoldingsInv, NEW delegator \in Accounts, NEW delegatee \in Accounts,
           Delegate(delegator, delegatee)
    PROVE  HoldingsInv'
  <1> DEFINE old == DelegateOf(delegator)
             amount == Cardinality(Owned(delegator))
             changed == [type |-> "DelegateChanged", delegator |-> delegator,
                         fromDelegate |-> old, toDelegate |-> delegatee]
  <1> HIDE DEF old, amount, changed
  <1>0. /\ old = DelegateOf(delegator) /\ amount = Cardinality(Owned(delegator))
        /\ changed = [type |-> "DelegateChanged", delegator |-> delegator,
                      fromDelegate |-> old, toDelegate |-> delegatee]
    BY DEF old, amount, changed
  <1>1. /\ log = << >>
        /\ old = delegatee \/ amount = 0 => log' = <<changed>>
        /\ ~(old = delegatee \/ amount = 0) =>
               log' = <<changed, VotesChanged(old, -amount), VotesChanged(delegatee, amount)>>
        /\ UNCHANGED <<nounOwner, storeVars>>
    BY <1>0, DelegateEffect
  <1>2. UNCHANGED selfMoved
    BY DEF Delegate
  <1>3. ~Moving(changed) /\ \A d, change : ~Moving(VotesChanged(d, change))
    BY <1>0 DEF Moving, VotesChanged
  <1>4. \A i \in DOMAIN log' : ~Moving(log'[i])
    <2>1. CASE old = delegatee \/ amount = 0
      BY <1>1, <1>3, <2>1
    <2>2. CASE ~(old = delegatee \/ amount = 0)
      BY <1>1, <1>3, <2>2
    <2> QED
      BY <2>1, <2>2
  <1> QED
    BY <1>1, <1>2, <1>4, QuietHoldings

\* The DAO moves no noun.
LEMMA DAOTransactionHoldings ==
    ASSUME Typed, HoldingsInv, DAOTransaction
    PROVE  HoldingsInv'
  <1>1. UNCHANGED selfMoved
    BY DEF DAOTransaction, Propose, CastVote, Queue, Execute, Cancel, Veto, Passes,
           OnProposal, history
  <1>2. CASE \E id \in Ids, s \in Stages : Passes(id, s)
    BY <1>1, <1>2, QuietHoldings DEF Passes
  <1>3. CASE \E id \in Ids, s \in Stages, e \in DAOEvents :
                  /\ log = << >> /\ log' = <<e>> /\ stage' = [stage EXCEPT ![id] = s]
                  /\ UNCHANGED <<nounOwner, delegateOf, storeVars>>
                  /\ Typed'
    <2>1. PICK e \in DAOEvents :
              log = << >> /\ log' = <<e>> /\ UNCHANGED <<nounOwner, storeVars>>
      BY <1>3
    <2>2. ~Moving(e)
      BY DEF Moving, DAOEvents, CreationEvents, StatusEvents, StatusTypes, CastEvents
    <2> QED
      BY <1>1, <2>1, <2>2, QuietHoldings
  <1> QED
    BY <1>2, <1>3, DAOSteps

\* The first event is handled: where the others are then, counted from the end.
LEMMA FromTheEnd ==
    ASSUME log \in Seq(Events), log # << >>, log' = Tail(log)
    PROVE  /\ Len(log) \in Nat /\ Len(log) >= 1 /\ Len(log') = Len(log) - 1
           /\ DOMAIN log = 1..Len(log) /\ DOMAIN log' = 1..(Len(log) - 1)
           /\ \A i \in 1..(Len(log) - 1) : log'[i] = log[i + 1]
           /\ Len(log) >= 2 => log'[Len(log')] = log[Len(log)]
           /\ Len(log) >= 3 => log'[Len(log') - 1] = log[Len(log) - 1]
           /\ Len(log) >= 4 => log'[Len(log') - 2] = log[Len(log) - 2]
  <1>1. /\ Len(log) \in Nat /\ Len(log) > 0 /\ Len(log') = Len(log) - 1
        /\ DOMAIN log = 1..Len(log) /\ DOMAIN log' = 1..(Len(log) - 1)
        /\ \A i \in DOMAIN log' : log'[i] = log[i + 1]
    BY Popped
  <1>2. \A i, j : i \in 1..(Len(log) - 1) /\ j = i + 1 => log'[i] = log[j]
    BY <1>1
  <1>3. Len(log) >= 2 => Len(log) - 1 \in 1..(Len(log) - 1) /\ Len(log) = (Len(log) - 1) + 1
    BY <1>1
  <1>4. Len(log) >= 3 => Len(log) - 2 \in 1..(Len(log) - 1)
                         /\ Len(log) - 1 = (Len(log) - 2) + 1
    BY <1>1
  <1>5. Len(log) >= 4 => Len(log) - 3 \in 1..(Len(log) - 1)
                         /\ Len(log) - 2 = (Len(log) - 3) + 1
    BY <1>1
  <1>6. /\ Len(log') - 1 = Len(log) - 2 /\ Len(log') - 2 = Len(log) - 3
    BY <1>1
  <1> QED
    BY <1>1, <1>2, <1>3, <1>4, <1>5, <1>6

\* A handler that does not tell of nouns.
LEMMA QuietHandled ==
    ASSUME Typed, HoldingsInv, NEW type, Handle(type), type \notin {"Transfer", "NounCreated"},
           UNCHANGED <<chainVars, nouns, selfMoved>>,
           governance'.currentTokenHolders = governance.currentTokenHolders,
           \A a \in Addresses : /\ accounts'[a].tokenBalance = accounts[a].tokenBalance
                                /\ accounts'[a].nouns = accounts[a].nouns
    PROVE  HoldingsInv'
  <1>1. log \in Seq(Events) /\ log # << >> /\ log' = Tail(log) /\ ~Moving(log[1])
    BY Handled DEF Moving, chainVars
  <1>2. /\ Len(log) \in Nat /\ Len(log) >= 1 /\ Len(log') = Len(log) - 1
        /\ DOMAIN log = 1..Len(log) /\ DOMAIN log' = 1..(Len(log) - 1)
        /\ \A i \in 1..(Len(log) - 1) : log'[i] = log[i + 1]
        /\ Len(log) >= 2 => log'[Len(log')] = log[Len(log)]
        /\ Len(log) >= 3 => log'[Len(log') - 1] = log[Len(log) - 1]
        /\ Len(log) >= 4 => log'[Len(log') - 2] = log[Len(log) - 2]
    BY <1>1, FromTheEnd
  <1>3. UNCHANGED <<nounOwner, nouns, selfMoved>>
    BY DEF chainVars
  <1>4. /\ \A m : Known(m)' = Known(m)
        /\ \A m : KnownBut(m)' = KnownBut(m)
        /\ Minted' = Minted
    BY <1>3 DEF Known, KnownBut, Minted
  <1>5. \A n : Moving(Transferred(nouns[n].owner, nounOwner[n], n))
    BY DEF Moving, Transferred
  <1>6. /\ \A n : Moving([type |-> "NounCreated", tokenId |-> n])
        /\ \A from, to, n : Moving(Transferred(from, to, n))
    BY DEF Moving, Transferred
  <1>7. ASSUME Quiet PROVE Quiet'
    <2>1. \A i \in DOMAIN log' : i + 1 \in DOMAIN log
      BY <1>2
    <2>2. \A i \in DOMAIN log' : ~Moving(log'[i])
      BY <1>2, <1>7, <2>1 DEF Quiet
    <2> QED
      BY <1>4, <1>7, <2>2 DEF Quiet
  <1>8. ASSUME NEW n \in Minted, MoveLeft(n) PROVE MoveLeft(n)'
    <2>1. Len(log) >= 2
      BY <1>1, <1>2, <1>6, <1>8 DEF MoveLeft
    <2>2. \A i \in 1..(Len(log') - 1) : ~Moving(log'[i])
      BY <1>2, <1>8 DEF MoveLeft
    <2> QED
      BY <1>2, <1>3, <1>4, <1>8, <2>1, <2>2 DEF MoveLeft
  <1>9. ASSUME NEW n \in Minted, MintLeft(n) PROVE MintLeft(n)'
    <2>1. Len(log) >= 4
      <3>1. Len(log) # 1
        BY <1>1, <1>2, <1>6, <1>9 DEF MintLeft
      <3>2. Len(log) # 2
        BY <1>1, <1>2, <1>6, <1>9 DEF MintLeft
      <3>3. Len(log) # 3
        BY <1>1, <1>2, <1>6, <1>9 DEF MintLeft
      <3> QED
        BY <1>2, <3>1, <3>2, <3>3
    <2>2. \A i \in 1..(Len(log') - 3) : ~Moving(log'[i])
      BY <1>2, <1>9 DEF MintLeft
    <2>3. /\ log'[Len(log') - 2] = Transferred(Zero, Creator, n)
          /\ log'[Len(log') - 1] = Transferred(Creator, nounOwner[n], n)
          /\ log'[Len(log')] = [type |-> "NounCreated", tokenId |-> n]
          /\ nounOwner[n] \in Accounts /\ (nounOwner[n] = Creator => Creator \in selfMoved)
          /\ nouns[n].owner = Null /\ KnownBut(n)
      <3>0. PICK last : last = Len(log)
        OBVIOUS
      <3>1. /\ last \in Nat /\ last >= 4 /\ Len(log') = last - 1
            /\ log'[Len(log')] = log[last] /\ log'[Len(log') - 1] = log[last - 1]
            /\ log'[Len(log') - 2] = log[last - 2]
        BY <1>2, <2>1, <3>0
      <3>2. last >= 3 /\ last >= 2 /\ last # 1 /\ last # 2
        BY <3>1
      <3>3. /\ log[last - 2] = Transferred(Zero, Creator, n)
            /\ log[last - 1] = Transferred(Creator, nounOwner[n], n)
            /\ log[last] = [type |-> "NounCreated", tokenId |-> n]
            /\ nounOwner[n] \in Accounts /\ (nounOwner[n] = Creator => Creator \in selfMoved)
            /\ nouns[n].owner = Null /\ KnownBut(n)
        BY <1>9, <3>0, <3>2 DEF MintLeft
      <3> QED
        BY <3>1, <3>3
    <2>4. Len(log') >= 1 /\ Len(log') # 1 /\ Len(log') # 2
      BY <1>2, <2>1
    <2> QED
      BY <1>3, <1>4, <2>2, <2>3, <2>4 DEF MintLeft
  <1>10. Deliveries'
    BY <1>3, <1>4, <1>7, <1>8, <1>9 DEF HoldingsInv, Deliveries
  <1>11. \A a : Held(a)' = Held(a)
    BY <1>3 DEF Held
  <1>12. Holding' = Holding
    BY <1>3, <1>11 DEF Holding
  <1>13. BalancesMatch' /\ HoldersMatch'
    BY <1>3, <1>11, <1>12 DEF HoldingsInv, BalancesMatch, HoldersMatch
  <1> QED
    BY <1>10, <1>13 DEF HoldingsInv

\* A transfer to be handled that starts from where the store has the noun, and what
\* its handler then leaves.
Departs(n, from, to) ==
    /\ n \in Minted /\ from \in Addresses /\ to \in Addresses
    /\ log[1] = Transferred(from, to, n)
    /\ nouns[n].owner # Zero /\ from = IF nouns[n].owner = Null THEN Zero ELSE nouns[n].owner
    /\ from = to => to \in selfMoved

Arrives(n, to) ==
    /\ BalancesMatch' /\ HoldersMatch'
    /\ \A m \in NounIds : nouns'[m] = IF m = n THEN [nouns[n] EXCEPT !.owner = to] ELSE nouns[m]
    /\ nouns'[n].owner = to /\ nouns'[n].seed = nouns[n].seed

LEMMA TransferDelivered ==
    ASSUME Typed, HoldingsInv, handleTransfer
    PROVE  HoldingsInv'
  <1>1. Handle("Transfer") /\ UNCHANGED chainVars /\ UNCHANGED history
    BY DEF handleTransfer
  <1>2. /\ log \in Seq(Events) /\ log # << >> /\ log' = Tail(log) /\ log[1].type = "Transfer"
        /\ Head(log) = log[1] /\ Moving(log[1])
    BY <1>1, Handled DEF Moving
  <1>3. /\ Len(log) \in Nat /\ Len(log) >= 1 /\ Len(log') = Len(log) - 1
        /\ DOMAIN log = 1..Len(log) /\ DOMAIN log' = 1..(Len(log) - 1)
        /\ \A i \in 1..(Len(log) - 1) : log'[i] = log[i + 1]
        /\ Len(log) >= 2 => log'[Len(log')] = log[Len(log)]
        /\ Len(log) >= 3 => log'[Len(log') - 1] = log[Len(log) - 1]
    BY <1>2, FromTheEnd
  <1>4. UNCHANGED <<nounOwner, selfMoved>> /\ Minted' = Minted
    BY <1>1 DEF chainVars, history, Minted
  <1>5. /\ Typed' /\ Zero \notin Accounts /\ Null \notin Addresses /\ Zero \in Addresses
        /\ Accounts \subseteq Addresses /\ Creator \in Accounts /\ Minted \subseteq NounIds
    BY TokenHandlersTyped, SubgraphAssumption, Countable DEF Addresses, Typed
  <1>6. ASSUME NEW n, NEW from, NEW to, Departs(n, from, to)
        PROVE  Arrives(n, to)
    <2>0. /\ n \in Minted /\ from \in Addresses /\ to \in Addresses
          /\ log[1] = Transferred(from, to, n) /\ nouns[n].owner # Zero
          /\ from = IF nouns[n].owner = Null THEN Zero ELSE nouns[n].owner
          /\ (from = to => to \in selfMoved)
      BY <1>6 DEF Departs
    <2>1. log[1].from = from /\ log[1].to = to /\ log[1].tokenId = n /\ n \in NounIds
      BY <1>5, <2>0 DEF Transferred
    <2>2. /\ governance' = GovernanceAfter(from, to)
          /\ accounts' = AccountsAfter(from, to, n)
          /\ nouns' = [nouns EXCEPT ![n].owner = to]
      BY <1>2, <2>1 DEF handleTransfer
    <2>3. BalancesMatch' /\ HoldersMatch'
      BY <1>4, <1>5, <2>0, <2>1, <2>2, TransferApplied DEF HoldingsInv
    <2>4. nouns \in [NounIds -> NounEntity]
      BY DEF Typed, StoreTyped
    <2>5. \A m \in NounIds : nouns'[m] = IF m = n THEN [nouns[n] EXCEPT !.owner = to]
                                         ELSE nouns[m]
      BY <2>1, <2>2, <2>4
    <2>6. nouns'[n].owner = to /\ nouns'[n].seed = nouns[n].seed
      BY <2>1, <2>4, <2>5 DEF NounEntity
    <2> QED
      BY <2>3, <2>5, <2>6 DEF Arrives
  <1>7. ~Quiet
    BY <1>2, <1>3 DEF Quiet
  <1>8. ASSUME NEW n \in Minted, MoveLeft(n) PROVE HoldingsInv'
    <2>1. Len(log) = 1
      BY <1>2, <1>3, <1>8 DEF MoveLeft
    <2> DEFINE from == nouns[n].owner
               to == nounOwner[n]
    <2>2. /\ log[1] = Transferred(from, to, n) /\ from \in Accounts /\ to \in Addresses
          /\ (from = to => to \in selfMoved) /\ nouns[n].seed /\ KnownBut(n)
      BY <1>8, <2>1, Countable DEF MoveLeft, Typed
    <2>3. /\ BalancesMatch' /\ HoldersMatch'
          /\ \A m \in NounIds : m # n => nouns'[m] = nouns[m]
          /\ nouns'[n].owner = to /\ nouns'[n].seed = nouns[n].seed
      <3>1. from \in Addresses /\ from # Zero /\ from # Null
        BY <1>5, <2>2
      <3>2. Departs(n, from, to)
        BY <2>2, <3>1 DEF Departs
      <3>3. Arrives(n, to)
        BY <1>6, <3>2
      <3> QED
        BY <1>5, <3>3 DEF Arrives
    <2>4. \A m \in Minted' : Known(m)'
      BY <1>4, <1>5, <2>2, <2>3 DEF Known, KnownBut
    <2>5. Quiet'
      BY <1>3, <2>1, <2>4 DEF Quiet
    <2>6. \A m \in NounIds \ Minted' : nouns'[m].owner = Null
      BY <1>4, <1>8, <2>3 DEF HoldingsInv, Deliveries
    <2> QED
      BY <2>3, <2>5, <2>6 DEF HoldingsInv, Deliveries
  <1>9. ASSUME NEW n \in Minted, MintLeft(n) PROVE HoldingsInv'
    <2>1. Len(log) = 2 \/ Len(log) = 3
      <3>1. Len(log) # 1
        BY <1>2, <1>9 DEF MintLeft
      <3>2. ~(Len(log) >= 4)
        BY <1>2, <1>3, <1>9 DEF MintLeft
      <3> QED
        BY <1>3, <3>1, <3>2
    <2>0. PICK last : last = nounOwner[n]
      OBVIOUS
    <2>2. /\ KnownBut(n) /\ last \in Accounts /\ (last = Creator => Creator \in selfMoved)
          /\ log[Len(log)] = [type |-> "NounCreated", tokenId |-> n]
      BY <1>9, <2>0 DEF MintLeft
    <2>3. CASE Len(log) = 2
      <3>1. log[1] = Transferred(Creator, last, n) /\ nouns[n].owner = Creator
        BY <1>9, <2>0, <2>3 DEF MintLeft
      <3>2. /\ BalancesMatch' /\ HoldersMatch'
            /\ \A m \in NounIds : m # n => nouns'[m] = nouns[m]
            /\ nouns'[n].owner = last
        <4>1. /\ Creator \in Addresses /\ last \in Addresses /\ Creator # Zero /\ Creator # Null
              /\ (Creator = last => last \in selfMoved)
          BY <1>5, <2>2
        <4>2. Creator = IF nouns[n].owner = Null THEN Zero ELSE nouns[n].owner
          BY <3>1, <4>1
        <4>3. nouns[n].owner # Zero
          BY <3>1, <4>1
        <4>4. Departs(n, Creator, last)
          BY <3>1, <4>1, <4>2, <4>3 DEF Departs
        <4>5. Arrives(n, last)
          BY <1>6, <4>4
        <4> QED
          BY <1>5, <4>5 DEF Arrives
      <3>3. KnownBut(n)'
        BY <1>4, <1>5, <2>2, <3>2 DEF Known, KnownBut
      <3>4. Len(log') = 1 /\ log'[1] = [type |-> "NounCreated", tokenId |-> n]
        BY <1>3, <2>2, <2>3
      <3>5. MintLeft(n)'
        BY <1>4, <2>0, <2>2, <3>2, <3>3, <3>4 DEF MintLeft
      <3>6. \A m \in NounIds \ Minted' : nouns'[m].owner = Null
        BY <1>4, <1>9, <3>2 DEF HoldingsInv, Deliveries
      <3> QED
        BY <1>4, <3>2, <3>5, <3>6 DEF HoldingsInv, Deliveries
    <2>4. CASE Len(log) = 3
      <3>1. /\ log[1] = Transferred(Zero, Creator, n) /\ nouns[n].owner = Null
            /\ log[2] = Transferred(Creator, last, n)
        BY <1>9, <2>0, <2>4 DEF MintLeft
      <3>2. /\ BalancesMatch' /\ HoldersMatch'
            /\ \A m \in NounIds : m # n => nouns'[m] = nouns[m]
            /\ nouns'[n].owner = Creator
        <4>1. Creator \in Addresses /\ Zero \in Addresses /\ Null # Zero /\ Zero # Creator
          BY <1>5
        <4>2. Zero = IF nouns[n].owner = Null THEN Zero ELSE nouns[n].owner
          BY <3>1
        <4>3. nouns[n].owner # Zero
          BY <3>1, <4>1
        <4>4. Departs(n, Zero, Creator)
          BY <3>1, <4>1, <4>2, <4>3 DEF Departs
        <4>5. Arrives(n, Creator)
          BY <1>6, <4>4
        <4> QED
          BY <1>5, <4>5 DEF Arrives
      <3>3. KnownBut(n)'
        BY <1>4, <1>5, <2>2, <3>2 DEF Known, KnownBut
      <3>4. /\ Len(log') = 2 /\ log'[1] = Transferred(Creator, last, n)
            /\ log'[2] = [type |-> "NounCreated", tokenId |-> n]
        BY <1>3, <2>2, <2>4, <3>1
      <3>5. MintLeft(n)'
        BY <1>4, <2>0, <2>2, <3>2, <3>3, <3>4 DEF MintLeft
      <3>6. \A m \in NounIds \ Minted' : nouns'[m].owner = Null
        BY <1>4, <1>9, <3>2 DEF HoldingsInv, Deliveries
      <3> QED
        BY <1>4, <3>2, <3>5, <3>6 DEF HoldingsInv, Deliveries
    <2> QED
      BY <2>1, <2>3, <2>4
  <1> QED
    BY <1>7, <1>8, <1>9 DEF HoldingsInv, Deliveries

LEMMA SeedDelivered ==
    ASSUME Typed, HoldingsInv, handleNounCreated
    PROVE  HoldingsInv'
  <1>1. /\ Handle("NounCreated") /\ UNCHANGED chainVars /\ UNCHANGED history
        /\ UNCHANGED <<accounts, governance>>
    BY DEF handleNounCreated
  <1>2. /\ log \in Seq(Events) /\ log # << >> /\ log' = Tail(log) /\ log[1].type = "NounCreated"
        /\ Head(log) = log[1] /\ Moving(log[1])
    BY <1>1, Handled DEF Moving
  <1>3. /\ Len(log) \in Nat /\ Len(log) >= 1 /\ Len(log') = Len(log) - 1
        /\ DOMAIN log = 1..Len(log) /\ DOMAIN log' = 1..(Len(log) - 1)
    BY <1>2, FromTheEnd
  <1>4. UNCHANGED <<nounOwner, selfMoved>> /\ Minted' = Minted
    BY <1>1 DEF chainVars, history, Minted
  <1>5. /\ Null \notin Addresses /\ Minted \subseteq NounIds /\ Accounts \subseteq Addresses
        /\ nouns \in [NounIds -> NounEntity]
    BY SubgraphAssumption, Countable DEF Addresses, Typed, StoreTyped
  <1>6. ~Quiet
    BY <1>2, <1>3 DEF Quiet
  <1>7. \A from, to, n : Transferred(from, to, n).type = "Transfer"
    BY DEF Transferred
  <1>8. \A n \in Minted : ~MoveLeft(n)
    BY <1>2, <1>3, <1>7 DEF MoveLeft
  <1>9. ASSUME NEW n \in Minted, MintLeft(n) PROVE HoldingsInv'
    <2>1. Len(log) = 1
      <3>1. ~(Len(log) >= 4)
        BY <1>2, <1>3, <1>9 DEF MintLeft
      <3>2. Len(log) # 3
        BY <1>2, <1>7, <1>9 DEF MintLeft
      <3>3. Len(log) # 2
        <4> SUFFICES ASSUME Len(log) = 2 PROVE FALSE
          OBVIOUS
        <4>1. log[1] = Transferred(Creator, nounOwner[n], n)
          BY <1>9 DEF MintLeft
        <4> QED
          BY <1>2, <1>7, <4>1
      <3> QED
        BY <1>3, <3>1, <3>2, <3>3
    <2>2. /\ KnownBut(n) /\ nouns[n].owner = nounOwner[n] /\ nounOwner[n] \in Accounts
          /\ log[1] = [type |-> "NounCreated", tokenId |-> n]
      BY <1>9, <2>1 DEF MintLeft
    <2>3. nouns' = [nouns EXCEPT ![n].seed = TRUE]
      <3>1. Head(log).tokenId = n
        BY <1>2, <2>2
      <3>2. nouns[n].owner # Null
        BY <1>5, <2>2
      <3> QED
        BY <3>1, <3>2 DEF handleNounCreated
    <2>4. /\ \A m \in NounIds : nouns'[m].owner = nouns[m].owner
          /\ \A m \in NounIds : m # n => nouns'[m] = nouns[m]
          /\ nouns'[n].seed = TRUE
      BY <1>5, <2>3 DEF NounEntity
    <2>5. \A m \in Minted' : Known(m)'
      BY <1>4, <1>5, <2>2, <2>4 DEF Known, KnownBut
    <2>6. Quiet'
      BY <1>3, <2>1, <2>5 DEF Quiet
    <2>7. \A m \in NounIds \ Minted' : nouns'[m].owner = Null
      BY <1>4, <2>4 DEF HoldingsInv, Deliveries
    <2>8. \A a : Held(a)' = Held(a)
      BY <2>4 DEF Held
    <2>9. Holding' = Holding
      BY <2>4, <2>8 DEF Holding
    <2> QED
      BY <1>1, <1>4, <2>6, <2>7, <2>8, <2>9
      DEF HoldingsInv, Deliveries, BalancesMatch, HoldersMatch
  <1> QED
    BY <1>6, <1>8, <1>9 DEF HoldingsInv, Deliveries

\* The other handlers write no owner, no balance and no number of holders.
LEMMA HoldingsUntouched ==
    ASSUME Typed, Handlers, ~handleTransfer, ~handleNounCreated
    PROVE  /\ UNCHANGED <<chainVars, nouns, selfMoved>>
           /\ governance'.currentTokenHolders = governance.currentTokenHolders
           /\ \A a \in Addresses : /\ accounts'[a].tokenBalance = accounts[a].tokenBalance
                                   /\ accounts'[a].nouns = accounts[a].nouns
           /\ \E type : Handle(type) /\ type \notin {"Transfer", "NounCreated"}
  <1> DEFINE e == Head(log)
             Same == governance'.currentTokenHolders = governance.currentTokenHolders
  <1>1. /\ governance \in GovernanceEntity /\ accounts \in [Addresses -> AccountEntity]
    BY DEF Typed, StoreTyped
  <1>2. \A g \in GovernanceEntity : \A ds, d :
            CountDelegate(g, ds, d).currentTokenHolders = g.currentTokenHolders
    BY CountTyped DEF GovernanceEntity
  <1>3. UNCHANGED <<chainVars, nouns, selfMoved>>
    BY DEF Handlers, handleDelegateChanged, handleDelegateVotesChanged, history, tokenEntities,
           handleProposalCreatedWithRequirements, handleProposalCanceled,
           handleProposalVetoed, handleProposalQueued, handleProposalExecuted, handleVoteCast
  <1>4. \E type : Handle(type) /\ type \notin {"Transfer", "NounCreated"}
    <2>1. \E type \in {"DelegateChanged", "DelegateVotesChanged",
                       "ProposalCreatedWithRequirements", "VoteCast"} \cup StatusTypes :
              Handle(type)
      BY DEF Handlers, handleDelegateChanged, handleDelegateVotesChanged,
             handleProposalCreatedWithRequirements, handleProposalCanceled, StatusTypes,
             handleProposalVetoed, handleProposalQueued, handleProposalExecuted, handleVoteCast
    <2> QED
      BY <2>1 DEF StatusTypes
  <1>5. CASE handleDelegateChanged
    <2> DEFINE first == CountDelegate(governance, delegates, e.fromDelegate)
    <2>1. /\ first \in GovernanceEntity
          /\ first.currentTokenHolders = governance.currentTokenHolders
      BY <1>1, <1>2, CountTyped
    <2>2. \/ governance' = CountDelegate(governance, delegates, e.toDelegate)
          \/ governance' = CountDelegate(first, delegates, e.toDelegate)
      BY <1>5 DEF handleDelegateChanged
    <2> HIDE DEF first
    <2>3. Same
      BY <1>1, <1>2, <2>1, <2>2
    <2>4. accounts' = [accounts EXCEPT ![e.delegator].delegate = e.toDelegate]
      BY <1>5 DEF handleDelegateChanged
    <2> HIDE DEF e
    <2>5. \A a \in Addresses : /\ accounts'[a].tokenBalance = accounts[a].tokenBalance
                               /\ accounts'[a].nouns = accounts[a].nouns
      BY <1>1, <2>4 DEF AccountEntity
    <2> QED
      BY <1>3, <1>4, <2>3, <2>5
  <1>6. CASE handleDelegateVotesChanged
    <2>1. Same
      BY <1>1, <1>6 DEF handleDelegateVotesChanged, GovernanceEntity
    <2> QED
      BY <1>3, <1>4, <1>6, <2>1 DEF handleDelegateVotesChanged
  <1>7. CASE handleProposalCreatedWithRequirements
    <2> DEFINE g == [governance EXCEPT !.proposals = @ + 1]
    <2>1. /\ g \in GovernanceEntity
          /\ g.currentTokenHolders = governance.currentTokenHolders
      BY <1>1 DEF GovernanceEntity
    <2>2. governance' = CountDelegate(g, delegates, e.proposer) /\ accounts' = accounts
      BY <1>7 DEF handleProposalCreatedWithRequirements
    <2> HIDE DEF g
    <2>3. Same
      BY <1>2, <2>1, <2>2
    <2> QED
      BY <1>3, <1>4, <2>2, <2>3
  <1>8. CASE handleVoteCast
    <2>1. governance' = CountDelegate(governance, delegates, e.voter) /\ accounts' = accounts
      BY <1>8 DEF handleVoteCast
    <2>2. Same
      BY <1>1, <1>2, <2>1
    <2> QED
      BY <1>3, <1>4, <2>1, <2>2
  <1>9. CASE handleProposalCanceled \/ handleProposalVetoed
    BY <1>3, <1>4, <1>9 DEF handleProposalCanceled, handleProposalVetoed, tokenEntities
  <1>10. CASE handleProposalQueued \/ handleProposalExecuted
    <2>1. accounts' = accounts
      BY <1>10 DEF handleProposalQueued, handleProposalExecuted, tokenEntities
    <2>2. Same
      BY <1>1, <1>10 DEF handleProposalQueued, handleProposalExecuted, GovernanceEntity
    <2> QED
      BY <1>3, <1>4, <2>1, <2>2
  <1> QED
    BY <1>5, <1>6, <1>7, <1>8, <1>9, <1>10 DEF Handlers

LEMMA NextHoldings ==
    ASSUME Typed, HoldingsInv, [Next]_vars
    PROVE  HoldingsInv'
  <1>1. ASSUME TokenTransaction PROVE HoldingsInv'
    BY <1>1, MintHoldings, MoveHoldings, DelegateHoldings DEF TokenTransaction
  <1>2. ASSUME DAOTransaction PROVE HoldingsInv'
    BY <1>2, DAOTransactionHoldings
  <1>3. ASSUME Handlers PROVE HoldingsInv'
    <2>1. CASE handleTransfer
      BY <2>1, TransferDelivered
    <2>2. CASE handleNounCreated
      BY <2>2, SeedDelivered
    <2>3. CASE ~handleTransfer /\ ~handleNounCreated
      BY <1>3, <2>3, HoldingsUntouched, QuietHandled
    <2> QED
      BY <2>1, <2>2, <2>3
  <1>4. ASSUME UNCHANGED vars PROVE HoldingsInv'
    <2>1. UNCHANGED <<log, nounOwner, nouns, accounts, governance, selfMoved>>
      BY <1>4 DEF vars, chainVars, storeVars, tokenEntities, history
    <2>2. /\ \A m : Known(m)' = Known(m)
          /\ \A m : KnownBut(m)' = KnownBut(m)
          /\ \A a : Held(a)' = Held(a)
          /\ Minted' = Minted /\ Quiet' = Quiet
      BY <2>1 DEF Known, KnownBut, Minted, Held, Quiet
    <2>3. \A n : MoveLeft(n)' = MoveLeft(n) /\ MintLeft(n)' = MintLeft(n)
      BY <2>1, <2>2 DEF MoveLeft, MintLeft
    <2>4. Deliveries'
      BY <2>1, <2>2, <2>3 DEF HoldingsInv, Deliveries
    <2>5. Holding' = Holding
      BY <2>1, <2>2 DEF Holding
    <2> QED
      BY <2>1, <2>2, <2>4, <2>5 DEF HoldingsInv, BalancesMatch, HoldersMatch
  <1> QED
    BY <1>1, <1>2, <1>3, <1>4 DEF Next

\* Once every event is handled, each noun has the owner it has on the chain and its seed,
\* and each account that never sent a noun to itself the nouns and the balance that it has;
\* as long as no noun was burned either, currentTokenHolders is the number of holders.
THEOREM HoldingsAsOnChain == Spec => []HoldingsFollow
  <1>1. Init => Typed /\ HoldingsInv
    BY InitTyped, InitHoldings
  <1>2. Typed /\ HoldingsInv /\ [Next]_vars => Typed' /\ HoldingsInv'
    BY NextTyped, NextHoldings
  <1>3. Typed /\ HoldingsInv => HoldingsFollow
    BY HoldingsSettled
  <1> QED
    BY <1>1, <1>2, <1>3, PTL DEF Spec

-----------------------------------------------------------------------------
(* Lists.  A handler lists a noun under the delegate it knows its holder   *)
(* to have, and finds it again there: what is listed agrees, noun by noun, *)
(* with the owners and the delegates that the store knows.  The nouns that *)
(* went astray are left out throughout.                                    *)

Delegating == log # << >> /\ log[1].type = "DelegateChanged"

\* The delegate of an account, as the events handled have told it.
KnownDelegate(a) ==
    IF Delegating /\ log[1].delegator = a THEN log[1].fromDelegate ELSE DelegateOf(a)

HeldBy(n, a) == IF nouns[n].owner = a THEN 1 ELSE 0
KnownUnder(n, d) == nouns[n].owner \in Accounts /\ KnownDelegate(nouns[n].owner) = d
ListsMatch ==
    \A n \in NounIds \ unfollowed, a \in Accounts :
        /\ accounts[a].nouns[n] = HeldBy(n, a)
        /\ delegates[a].nounsRepresented[n] = IF KnownUnder(n, a) THEN 1 ELSE 0

\* An account with nouns is stored with its delegate, unless all of them went astray.
BalancesCover == \A a \in Accounts : accounts[a].tokenBalance >= Cardinality(Held(a))
StoredRight(a) ==
    \/ accounts[a].tokenBalance = 0
    \/ accounts[a].delegate = KnownDelegate(a)
    \/ KnownDelegate(a) # a /\ Held(a) \subseteq unfollowed
DelegatesMatch == \A a \in Accounts : StoredRight(a)

\* No event to come leads a noun astray that is not known to go there.
GoesRight(e) ==
    e.tokenId \notin unfollowed =>
        e.from # e.to /\ (e.to \in Accounts => DelegateOf(e.to) = e.to)
ChangesRight(e) ==
    /\ e.toDelegate = DelegateOf(e.delegator)
    /\ e.fromDelegate = e.toDelegate => Held(e.delegator) \subseteq unfollowed
NothingAstray ==
    \A i \in DOMAIN log : /\ log[i].type = "Transfer" => GoesRight(log[i])
                          /\ log[i].type = "DelegateChanged" => i = 1 /\ ChangesRight(log[i])

ListingInv == ListsMatch /\ BalancesCover /\ DelegatesMatch /\ NothingAstray

\* What the invariant says once every event is handled.
LEMMA ListingSettled ==
    ASSUME Typed, HoldingsInv, ListingInv
    PROVE  ListedOnce
  <1> SUFFICES ASSUME log = << >>, NEW n \in Minted \ unfollowed, NEW d \in Accounts
               PROVE  delegates[d].nounsRepresented[n] = IF n \in Represented(d) THEN 1 ELSE 0
    BY DEF ListedOnce, Settled
  <1>1. n \in NounIds /\ nounOwner[n] \in Addresses /\ Zero \notin Accounts
    BY Countable, SubgraphAssumption DEF Typed
  <1>2. nouns[n].owner = nounOwner[n]
    BY AllKnown DEF Known
  <1>3. \A a : KnownDelegate(a) = DelegateOf(a)
    BY DEF KnownDelegate, Delegating
  <1>4. KnownUnder(n, d) <=> n \in Represented(d)
    BY <1>1, <1>2, <1>3 DEF KnownUnder, Represented, Addresses
  <1> QED
    BY <1>1, <1>4 DEF ListingInv, ListsMatch

LEMMA InitListing ==
    ASSUME Init
    PROVE  ListingInv
  <1>1. /\ \A n \in NounIds : nouns[n].owner = Null
        /\ \A a \in Addresses : accounts[a].tokenBalance = 0
                                /\ \A n \in NounIds : accounts[a].nouns[n] = 0
        /\ \A a \in Addresses : \A n \in NounIds : delegates[a].nounsRepresented[n] = 0
        /\ DOMAIN log = {}
    BY DEF Init, NoNouns
  <1>2. Null \notin Accounts /\ Accounts \subseteq Addresses
    BY SubgraphAssumption DEF Addresses
  <1>3. \A a \in Accounts : Held(a) = {}
    BY <1>1, <1>2 DEF Held
  <1>4. ListsMatch
    BY <1>1, <1>2 DEF ListsMatch, HeldBy, KnownUnder
  <1>5. BalancesCover
    <2>1. Cardinality({}) = 0
      BY FS_EmptySet
    <2>2. \A a \in Accounts : accounts[a].tokenBalance = 0 /\ Cardinality(Held(a)) = 0
      BY <1>1, <1>2, <1>3, <2>1
    <2> QED
      BY <2>2 DEF BalancesCover
  <1>6. DelegatesMatch
    BY <1>1, <1>2 DEF DelegatesMatch, StoredRight
  <1>7. NothingAstray
    BY <1>1 DEF NothingAstray
  <1> QED
    BY <1>4, <1>5, <1>6, <1>7 DEF ListingInv

\* A transaction changes no entity, and no delegate that the store knows.
LEMMA ListingAnnounced ==
    ASSUME Typed, ListingInv, log = << >>, UNCHANGED storeVars,
           unfollowed \subseteq unfollowed',
           \A a : KnownDelegate(a)' = DelegateOf(a),
           NothingAstray'
    PROVE  ListingInv'
  <1>1. nouns' = nouns /\ accounts' = accounts /\ delegates' = delegates
    BY DEF storeVars, tokenEntities
  <1>2. \A a : KnownDelegate(a)' = KnownDelegate(a)
    BY DEF KnownDelegate, Delegating
  <1>3. /\ \A a : Held(a)' = Held(a)
        /\ \A n, a : HeldBy(n, a)' = HeldBy(n, a)
    BY <1>1 DEF Held, HeldBy
  <1>4. \A n, d : KnownUnder(n, d)' <=> KnownUnder(n, d)
    <2> SUFFICES ASSUME NEW n, NEW d PROVE KnownUnder(n, d)' <=> KnownUnder(n, d)
      OBVIOUS
    <2>1. PICK h : h = nouns[n].owner
      OBVIOUS
    <2>2. nouns'[n].owner = h /\ KnownDelegate(h)' = KnownDelegate(h)
      BY <1>1, <1>2, <2>1
    <2>3. KnownUnder(n, d) <=> h \in Accounts /\ KnownDelegate(h) = d
      BY <2>1 DEF KnownUnder
    <2>4. KnownUnder(n, d)' <=> h \in Accounts /\ KnownDelegate(h)' = d
      BY <2>2 DEF KnownUnder
    <2> QED
      BY <2>2, <2>3, <2>4
  <1>5. ListsMatch'
    BY <1>1, <1>3, <1>4 DEF ListingInv, ListsMatch
  <1>6. BalancesCover'
    BY <1>1, <1>3 DEF ListingInv, BalancesCover
  <1>7. DelegatesMatch'
    BY <1>1, <1>2, <1>3 DEF ListingInv, DelegatesMatch, StoredRight
  <1> QED
    BY <1>5, <1>6, <1>7 DEF ListingInv

LEMMA MintListing ==
    ASSUME Typed, HoldingsInv, ListingInv, NEW to \in Recipients, Mint(to)
    PROVE  ListingInv'
  <1>0. PICK n, first, second : /\ n = Len(nounOwner) + 1
                                /\ first = Transferred(Zero, Creator, n)
                                /\ second = Transferred(Creator, to, n)
    OBVIOUS
  <1>1. /\ log = << >> /\ UNCHANGED <<delegateOf, storeVars>> /\ to \in Accounts
        /\ log' = <<VotesChanged(DelegateOf(to), 1), first, second,
                    [type |-> "NounCreated", tokenId |-> n]>>
    BY <1>0, MintEffect
  <1>2. unfollowed' = unfollowed \cup Astray(to, {n}) \cup Astray(Creator, {n})
                        \cup (IF to = Creator THEN {n} ELSE {})
    BY <1>0 DEF Mint
  <1>3. Creator \in Accounts /\ Zero \notin Accounts
    BY SubgraphAssumption
  <1>4. \A a : DelegateOf(a)' = DelegateOf(a)
    BY <1>1 DEF DelegateOf
  <1>5. /\ first.tokenId = n /\ first.from = Zero /\ first.to = Creator
        /\ second.tokenId = n /\ second.from = Creator /\ second.to = to
    BY <1>0 DEF Transferred
  <1>6. n \notin unfollowed' =>
            DelegateOf(to) = to /\ DelegateOf(Creator) = Creator /\ to # Creator
    BY <1>1, <1>2, <1>3 DEF Astray
  <1>7. GoesRight(first)' /\ GoesRight(second)'
    BY <1>1, <1>3, <1>4, <1>5, <1>6 DEF GoesRight
  <1>8. /\ DOMAIN log' = 1..4 /\ log'[2] = first /\ log'[3] = second
        /\ log'[1].type = "DelegateVotesChanged" /\ log'[4].type = "NounCreated"
        /\ first.type = "Transfer" /\ second.type = "Transfer"
    BY <1>0, <1>1 DEF VotesChanged, Transferred
  <1>9. NothingAstray'
    <2> SUFFICES ASSUME NEW i \in 1..4
                 PROVE  /\ log'[i].type = "Transfer" => GoesRight(log[i])'
                        /\ log'[i].type = "DelegateChanged" => i = 1 /\ ChangesRight(log[i])'
      BY <1>8 DEF NothingAstray
    <2>1. i = 1 \/ i = 2 \/ i = 3 \/ i = 4
      OBVIOUS
    <2>2. \A e : e = log'[i] /\ GoesRight(e)' => GoesRight(log[i])'
      BY DEF GoesRight
    <2> QED
      BY <1>7, <1>8, <2>1, <2>2
  <1>10. \A a : KnownDelegate(a)' = DelegateOf(a)
    BY <1>4, <1>8 DEF KnownDelegate, Delegating
  <1> QED
    BY <1>1, <1>2, <1>9, <1>10, ListingAnnounced

LEMMA MoveListing ==
    ASSUME Typed, HoldingsInv, ListingInv, NEW n \in Minted, NEW to \in Addresses,
           MoveNoun(n, to)
    PROVE  ListingInv'
  <1>0. PICK from, src, dst, moved : /\ from = nounOwner[n] /\ src = DelegateOf(from)
                                     /\ dst = DelegateOf(to)
                                     /\ moved = Transferred(from, to, n)
    OBVIOUS
  <1>1. /\ log = << >> /\ UNCHANGED <<delegateOf, storeVars>>
        /\ src = dst => log' = <<moved>>
        /\ src # dst /\ to = Zero => log' = <<VotesChanged(src, -1), moved>>
        /\ src # dst /\ to # Zero =>
               log' = <<VotesChanged(src, -1), VotesChanged(dst, 1), moved>>
    BY <1>0, MoveEffect
  <1>2. unfollowed' = unfollowed \cup Astray(to, {n}) \cup (IF from = to THEN {n} ELSE {})
    BY <1>0 DEF MoveNoun
  <1>3. \A a : DelegateOf(a)' = DelegateOf(a)
    BY <1>1 DEF DelegateOf
  <1>4. moved.tokenId = n /\ moved.from = from /\ moved.to = to /\ moved.type = "Transfer"
    BY <1>0 DEF Transferred
  <1>5. GoesRight(moved)'
    BY <1>2, <1>3, <1>4, SubgraphAssumption DEF GoesRight, Astray
  <1>6. \A d, change : VotesChanged(d, change).type = "DelegateVotesChanged"
    BY DEF VotesChanged
  <1>7. \A i \in DOMAIN log' : log'[i] = moved \/ log'[i].type = "DelegateVotesChanged"
    <2>1. CASE src = dst
      BY <1>1, <2>1
    <2>2. CASE src # dst /\ to = Zero
      BY <1>1, <1>6, <2>2
    <2>3. CASE src # dst /\ to # Zero
      BY <1>1, <1>6, <2>3
    <2> QED
      BY <2>1, <2>2, <2>3
  <1>8. NothingAstray'
    <2> SUFFICES ASSUME NEW i \in DOMAIN log'
                 PROVE  /\ log'[i].type = "Transfer" => GoesRight(log[i])'
                        /\ log'[i].type = "DelegateChanged" => i = 1 /\ ChangesRight(log[i])'
      BY DEF NothingAstray
    <2>1. \A e : e = log'[i] /\ GoesRight(e)' => GoesRight(log[i])'
      BY DEF GoesRight
    <2> QED
      BY <1>4, <1>5, <1>7, <2>1
  <1>9. 1 \in DOMAIN log' /\ log'[1].type # "DelegateChanged"
    <2>1. 1 \in DOMAIN log'
      BY <1>1
    <2> QED
      BY <1>4, <1>7, <2>1
  <1>10. \A a : KnownDelegate(a)' = DelegateOf(a)
    BY <1>3, <1>9 DEF KnownDelegate, Delegating
  <1> QED
    BY <1>1, <1>2, <1>8, <1>10, ListingAnnounced

\* A delegation that changes nothing is made known to lead astray.
LEMMA DelegateListing ==
    ASSUME Typed, HoldingsInv, ListingInv, NEW delegator \in Accounts,
           NEW delegatee \in Accounts, Delegate(delegator, delegatee)
    PROVE  ListingInv'
  <1>0. PICK old, amount, changed :
            /\ old = DelegateOf(delegator) /\ amount = Cardinality(Owned(delegator))
            /\ changed = [type |-> "DelegateChanged", delegator |-> delegator,
                          fromDelegate |-> old, toDelegate |-> delegatee]
    OBVIOUS
  <1>1. /\ log = << >> /\ UNCHANGED <<nounOwner, storeVars>>
        /\ delegateOf' = [delegateOf EXCEPT ![delegator] = delegatee]
        /\ old = delegatee \/ amount = 0 => log' = <<changed>>
        /\ ~(old = delegatee \/ amount = 0) =>
               log' = <<changed, VotesChanged(old, -amount), VotesChanged(delegatee, amount)>>
    BY <1>0, DelegateEffect
  <1>2. unfollowed' = unfollowed \cup (IF old = delegatee THEN Owned(delegator) ELSE {})
    BY <1>0 DEF Delegate
  <1>3. /\ delegateOf \in [Accounts -> Addresses] /\ Zero \notin Accounts /\ Null \notin Addresses
        /\ Minted \subseteq NounIds
    BY SubgraphAssumption, Countable DEF Typed, ChainTyped, Addresses
  <1>4. \A a : DelegateOf(a)' = IF a = delegator THEN delegatee ELSE DelegateOf(a)
    <2> SUFFICES ASSUME NEW a
                 PROVE  DelegateOf(a)' = IF a = delegator THEN delegatee ELSE DelegateOf(a)
      OBVIOUS
    <2>1. CASE a = delegator
      BY <1>1, <1>3, <2>1 DEF DelegateOf
    <2>2. CASE a # delegator
      <3>1. delegateOf'[a] = delegateOf[a]
        BY <1>1, <1>3, <2>2
      <3> QED
        BY <2>2, <3>1 DEF DelegateOf
    <2> QED
      BY <2>1, <2>2
  <1>5. Held(delegator) = Owned(delegator)
    BY <1>1, <1>3, AllKnown DEF Held, Owned, Known, Addresses
  <1>6. Held(delegator)' = Held(delegator)
    BY <1>1 DEF Held, storeVars, tokenEntities
  <1>7. /\ changed.type = "DelegateChanged" /\ changed.delegator = delegator
        /\ changed.fromDelegate = old /\ changed.toDelegate = delegatee
    BY <1>0
  <1>8. ChangesRight(changed)'
    BY <1>2, <1>4, <1>5, <1>6, <1>7 DEF ChangesRight
  <1>9. \A d, change : VotesChanged(d, change).type = "DelegateVotesChanged"
    BY DEF VotesChanged
  <1>10. /\ 1 \in DOMAIN log' /\ log'[1] = changed
         /\ \A i \in DOMAIN log' : i = 1 \/ log'[i].type = "DelegateVotesChanged"
    <2>1. CASE old = delegatee \/ amount = 0
      BY <1>1, <2>1
    <2>2. CASE ~(old = delegatee \/ amount = 0)
      BY <1>1, <1>9, <2>2
    <2> QED
      BY <2>1, <2>2
  <1>11. NothingAstray'
    <2> SUFFICES ASSUME NEW i \in DOMAIN log'
                 PROVE  /\ log'[i].type = "Transfer" => GoesRight(log[i])'
                        /\ log'[i].type = "DelegateChanged" => i = 1 /\ ChangesRight(log[i])'
      BY DEF NothingAstray
    <2>1. \A e : e = log'[i] /\ ChangesRight(e)' => ChangesRight(log[i])'
      BY DEF ChangesRight
    <2> QED
      BY <1>7, <1>8, <1>10, <2>1
  <1>12. \A a : KnownDelegate(a)' = DelegateOf(a)
    <2>1. log' # << >>
      BY <1>10
    <2> QED
      BY <1>0, <1>4, <1>7, <1>10, <2>1 DEF KnownDelegate, Delegating
  <1> QED
    BY <1>1, <1>2, <1>11, <1>12, ListingAnnounced

\* The DAO's events tell nothing of nouns or delegates.
LEMMA DAOTransactionListing ==
    ASSUME Typed, ListingInv, DAOTransaction
    PROVE  ListingInv'
  <1>1. UNCHANGED unfollowed
    BY DEF DAOTransaction, Propose, CastVote, Queue, Execute, Cancel, Veto, Passes,
           OnProposal, history
  <1>2. ASSUME log = << >>, UNCHANGED <<delegateOf, storeVars>>,
               \A i \in DOMAIN log' : log'[i].type \notin {"Transfer", "DelegateChanged"}
        PROVE  ListingInv'
    <2>1. NothingAstray'
      BY <1>2 DEF NothingAstray
    <2>2. ~Delegating'
      <3>1. CASE log' = << >>
        BY <3>1 DEF Delegating
      <3>2. CASE log' # << >> /\ 1 \in DOMAIN log'
        BY <1>2, <3>2 DEF Delegating
      <3>3. log' # << >> => 1 \in DOMAIN log'
        BY NextTyped, EmptySeq DEF Next, Typed, ChainTyped
      <3> QED
        BY <3>1, <3>2, <3>3
    <2>3. \A a : DelegateOf(a)' = DelegateOf(a)
      BY <1>2 DEF DelegateOf
    <2>4. \A a : KnownDelegate(a)' = DelegateOf(a)
      BY <2>2, <2>3 DEF KnownDelegate
    <2> QED
      BY <1>1, <1>2, <2>1, <2>4, ListingAnnounced
  <1>3. CASE \E id \in Ids, s \in Stages : Passes(id, s)
    BY <1>2, <1>3 DEF Passes
  <1>4. CASE \E id \in Ids, s \in Stages, e \in DAOEvents :
                  /\ log = << >> /\ log' = <<e>> /\ stage' = [stage EXCEPT ![id] = s]
                  /\ UNCHANGED <<nounOwner, delegateOf, storeVars>>
                  /\ Typed'
    <2>1. PICK e \in DAOEvents :
              log = << >> /\ log' = <<e>> /\ UNCHANGED <<delegateOf, storeVars>>
      BY <1>4
    <2>2. e.type \notin {"Transfer", "DelegateChanged"}
      BY DEF DAOEvents, CreationEvents, StatusEvents, StatusTypes, CastEvents
    <2> QED
      BY <1>2, <2>1, <2>2
  <1> QED
    BY <1>3, <1>4, DAOSteps

\* The log once its first event is handled, and the delegates known then.
LEMMA ListingPopped ==
    ASSUME Typed, ListingInv, NEW type, Handle(type), UNCHANGED <<chainVars, unfollowed>>
    PROVE  /\ log[1] \in Events /\ log[1].type = type /\ Head(log) = log[1]
           /\ type = "Transfer" => GoesRight(log[1])
           /\ type = "DelegateChanged" => ChangesRight(log[1])
           /\ \A i \in DOMAIN log' : /\ log'[i].type # "DelegateChanged"
                                     /\ log'[i].type = "Transfer" => GoesRight(log'[i])
           /\ NothingAstray'
           /\ \A a : DelegateOf(a)' = DelegateOf(a) /\ KnownDelegate(a)' = DelegateOf(a)
           /\ type # "DelegateChanged" => \A a : KnownDelegate(a) = DelegateOf(a)
  <1>1. /\ log \in Seq(Events) /\ log # << >> /\ log' = Tail(log) /\ log[1].type = type
        /\ log[1] \in Events /\ Head(log) = log[1]
    BY Handled
  <1>2. /\ 1 \in DOMAIN log /\ DOMAIN log = 1..Len(log) /\ DOMAIN log' = 1..(Len(log) - 1)
        /\ \A i \in DOMAIN log' : i + 1 \in DOMAIN log /\ log'[i] = log[i + 1]
        /\ log' = << >> <=> Len(log) = 1
        /\ Len(log) \in Nat /\ Len(log) > 0
    BY <1>1, Popped
  <1>3. \A a : DelegateOf(a)' = DelegateOf(a)
    BY DEF DelegateOf, chainVars
  <1>4. \A i \in DOMAIN log' : i + 1 # 1
    BY <1>2
  <1>5. \A i \in DOMAIN log' : /\ log'[i].type # "DelegateChanged"
                               /\ log'[i].type = "Transfer" => GoesRight(log'[i])
    BY <1>2, <1>4 DEF ListingInv, NothingAstray
  <1>6. NothingAstray'
    <2>1. \A e : GoesRight(e)' <=> GoesRight(e)
      BY <1>3 DEF GoesRight
    <2> SUFFICES ASSUME NEW i \in DOMAIN log'
                 PROVE  /\ log'[i].type = "Transfer" => GoesRight(log[i])'
                        /\ log'[i].type = "DelegateChanged" => i = 1 /\ ChangesRight(log[i])'
      BY DEF NothingAstray
    <2>2. \A e : e = log'[i] /\ GoesRight(e)' => GoesRight(log[i])'
      BY DEF GoesRight
    <2> QED
      BY <1>5, <2>1, <2>2
  <1>7. \A a : KnownDelegate(a)' = DelegateOf(a)
    <2>1. log' # << >> => 1 \in DOMAIN log'
      BY <1>2
    <2>2. ~Delegating'
      BY <1>5, <2>1 DEF Delegating
    <2> QED
      BY <1>3, <2>2 DEF KnownDelegate
  <1>8. type # "DelegateChanged" => \A a : KnownDelegate(a) = DelegateOf(a)
    BY <1>1 DEF KnownDelegate, Delegating
  <1>9. /\ type = "Transfer" => GoesRight(log[1])
        /\ type = "DelegateChanged" => ChangesRight(log[1])
    BY <1>1, <1>2 DEF ListingInv, NothingAstray
  <1> QED
    BY <1>1, <1>3, <1>5, <1>6, <1>7, <1>8, <1>9

\* Handlers that change no list, no owner and no account.
LEMMA QuietListing ==
    ASSUME Typed, ListingInv, NEW type, Handle(type), type # "DelegateChanged",
           UNCHANGED <<chainVars, accounts, unfollowed>>,
           \A n \in NounIds : nouns'[n].owner = nouns[n].owner,
           \A a \in Addresses : delegates'[a].nounsRepresented = delegates[a].nounsRepresented
    PROVE  ListingInv'
  <1>1. /\ NothingAstray'
        /\ \A a : KnownDelegate(a)' = KnownDelegate(a)
    BY ListingPopped
  <1>2. /\ \A a : Held(a)' = Held(a)
        /\ \A n \in NounIds : \A a : HeldBy(n, a)' = HeldBy(n, a)
    BY DEF Held, HeldBy
  <1>3. \A n \in NounIds : \A d : KnownUnder(n, d)' <=> KnownUnder(n, d)
    <2> SUFFICES ASSUME NEW n \in NounIds, NEW d PROVE KnownUnder(n, d)' <=> KnownUnder(n, d)
      OBVIOUS
    <2>1. PICK h : h = nouns[n].owner
      OBVIOUS
    <2>2. nouns'[n].owner = h /\ KnownDelegate(h)' = KnownDelegate(h)
      BY <1>1, <2>1
    <2>3. KnownUnder(n, d) <=> h \in Accounts /\ KnownDelegate(h) = d
      BY <2>1 DEF KnownUnder
    <2>4. KnownUnder(n, d)' <=> h \in Accounts /\ KnownDelegate(h)' = d
      BY <2>2 DEF KnownUnder
    <2> QED
      BY <2>2, <2>3, <2>4
  <1>4. Accounts \subseteq Addresses
    BY DEF Addresses
  <1>5. ListsMatch'
    BY <1>2, <1>3, <1>4 DEF ListingInv, ListsMatch
  <1>6. BalancesCover' /\ DelegatesMatch'
    BY <1>1, <1>2 DEF ListingInv, BalancesCover, DelegatesMatch, StoredRight
  <1> QED
    BY <1>1, <1>5, <1>6 DEF ListingInv

\* A transfer to be handled starts from where the store has the noun.
LEMMA TransferStarts ==
    ASSUME Typed, HoldingsInv, Handle("Transfer"), UNCHANGED chainVars,
           NEW n, n = log[1].tokenId, NEW from, from = log[1].from, NEW to, to = log[1].to
    PROVE  /\ n \in NounIds /\ from \in Addresses /\ to \in Addresses
           /\ nouns[n].owner # Zero
           /\ from = IF nouns[n].owner = Null THEN Zero ELSE nouns[n].owner
  <1>1. /\ log \in Seq(Events) /\ log # << >> /\ log' = Tail(log) /\ log[1] \in Events
        /\ log[1].type = "Transfer" /\ Moving(log[1])
    BY Handled DEF Moving
  <1>2. /\ Len(log) \in Nat /\ Len(log) >= 1 /\ DOMAIN log = 1..Len(log)
    BY <1>1, FromTheEnd
  <1>3. n \in NounIds /\ from \in Addresses /\ to \in Addresses
    BY <1>1, EventFields DEF TransferEvents
  <1>4. Zero \notin Accounts /\ Null \notin Addresses /\ Creator \in Accounts
        /\ Accounts \subseteq Addresses /\ Zero \in Addresses
    BY SubgraphAssumption DEF Addresses
  <1>5. ~Quiet
    BY <1>1, <1>2 DEF Quiet
  <1>6. \A f, t, m : /\ Transferred(f, t, m).type = "Transfer"
                     /\ Transferred(f, t, m).from = f /\ Transferred(f, t, m).tokenId = m
    BY DEF Transferred
  <1>7. ASSUME NEW m \in Minted, MoveLeft(m)
        PROVE  nouns[n].owner \in Accounts /\ from = nouns[n].owner
    <2>1. Len(log) = 1
      BY <1>1, <1>2, <1>7 DEF MoveLeft
    <2>2. log[1] = Transferred(nouns[m].owner, nounOwner[m], m) /\ nouns[m].owner \in Accounts
      BY <1>7, <2>1 DEF MoveLeft
    <2> QED
      BY <1>6, <2>2
  <1>8. ASSUME NEW m \in Minted, MintLeft(m)
        PROVE  \/ nouns[n].owner = Null /\ from = Zero
               \/ nouns[n].owner = Creator /\ from = Creator
    <2>1. Len(log) = 2 \/ Len(log) = 3
      <3>1. Len(log) # 1
        BY <1>1, <1>8 DEF MintLeft
      <3>2. ~(Len(log) >= 4)
        BY <1>1, <1>2, <1>8 DEF MintLeft
      <3> QED
        BY <1>2, <3>1, <3>2
    <2>2. CASE Len(log) = 2
      <3>1. log[1] = Transferred(Creator, nounOwner[m], m) /\ nouns[m].owner = Creator
        BY <1>8, <2>2 DEF MintLeft
      <3> QED
        BY <1>6, <3>1
    <2>3. CASE Len(log) = 3
      <3>1. log[1] = Transferred(Zero, Creator, m) /\ nouns[m].owner = Null
        BY <1>8, <2>3 DEF MintLeft
      <3> QED
        BY <1>6, <3>1
    <2> QED
      BY <2>1, <2>2, <2>3
  <1>9. \/ nouns[n].owner \in Accounts /\ from = nouns[n].owner
        \/ nouns[n].owner = Null /\ from = Zero
        \/ nouns[n].owner = Creator /\ from = Creator
    BY <1>5, <1>7, <1>8 DEF HoldingsInv, Deliveries
  <1> QED
    BY <1>3, <1>4, <1>9

\* A noun is taken from the list it is in, and put into its new owner's, which is also its
\* delegate's unless the noun goes astray.
LEMMA TransferListed ==
    ASSUME Typed, HoldingsInv, ListingInv, handleTransfer
    PROVE  ListingInv'
  <1>0. PICK n, from, to : n = log[1].tokenId /\ from = log[1].from /\ to = log[1].to
    OBVIOUS
  <1>1. Handle("Transfer") /\ UNCHANGED chainVars /\ UNCHANGED unfollowed
    BY DEF handleTransfer, history
  <1>2. /\ Head(log) = log[1] /\ NothingAstray'
        /\ \A a : KnownDelegate(a) = DelegateOf(a) /\ KnownDelegate(a)' = DelegateOf(a)
    BY <1>1, ListingPopped
  <1>3. n \notin unfollowed => from # to /\ (to \in Accounts => DelegateOf(to) = to)
    BY <1>0, <1>1, ListingPopped DEF GoesRight
  <1>4. /\ n \in NounIds /\ from \in Addresses /\ to \in Addresses
        /\ nouns[n].owner # Zero
        /\ from = IF nouns[n].owner = Null THEN Zero ELSE nouns[n].owner
    BY <1>0, <1>1, TransferStarts
  <1>5. /\ Zero \notin Accounts /\ Null \notin Addresses /\ Accounts \subseteq Addresses
        /\ Addresses = Accounts \cup {Zero}
    BY SubgraphAssumption DEF Addresses
  <1>6. /\ nouns \in [NounIds -> NounEntity] /\ accounts \in [Addresses -> AccountEntity]
        /\ delegates \in [Addresses -> DelegateEntity]
    BY DEF Typed, StoreTyped
  <1>7. \A m \in NounIds : nouns'[m].owner = IF m = n THEN to ELSE nouns[m].owner
    BY <1>0, <1>2, <1>4, <1>6 DEF handleTransfer, NounEntity
  <1>8. \A a \in Accounts :
            /\ n \in Held(a) <=> a = from
            /\ Held(a)' = IF a = to THEN Held(a) \cup {n}
                          ELSE IF a = from THEN Held(a) \ {n} ELSE Held(a)
    BY <1>4, <1>5, <1>7 DEF Held
  <1>9. \A a \in Addresses :
            /\ accounts'[a].tokenBalance =
                   IF a = to THEN accounts[a].tokenBalance + 1
                   ELSE IF a = from /\ a # Zero THEN accounts[a].tokenBalance - 1
                   ELSE accounts[a].tokenBalance
            /\ accounts'[a].delegate =
                   IF a = to THEN IF accounts[a].tokenBalance = 0 THEN to
                                  ELSE accounts[a].delegate
                   ELSE IF a = from /\ a # Zero /\ accounts[a].tokenBalance = 1 THEN Null
                   ELSE accounts[a].delegate
            /\ \A m \in NounIds : accounts'[a].nouns[m] =
                   IF m # n THEN accounts[a].nouns[m]
                   ELSE IF a = to THEN accounts[a].nouns[m] + 1
                   ELSE IF a = from /\ a # Zero THEN 0
                   ELSE accounts[a].nouns[m]
    <2> SUFFICES ASSUME NEW a \in Addresses
                 PROVE  /\ accounts'[a].tokenBalance =
                               IF a = to THEN accounts[a].tokenBalance + 1
                               ELSE IF a = from /\ a # Zero THEN accounts[a].tokenBalance - 1
                               ELSE accounts[a].tokenBalance
                        /\ accounts'[a].delegate =
                               IF a = to THEN IF accounts[a].tokenBalance = 0 THEN to
                                              ELSE accounts[a].delegate
                               ELSE IF a = from /\ a # Zero /\ accounts[a].tokenBalance = 1
                               THEN Null ELSE accounts[a].delegate
                        /\ \A m \in NounIds : accounts'[a].nouns[m] =
                               IF m # n THEN accounts[a].nouns[m]
                               ELSE IF a = to THEN accounts[a].nouns[m] + 1
                               ELSE IF a = from /\ a # Zero THEN 0
                               ELSE accounts[a].nouns[m]
      OBVIOUS
    <2>1. accounts' = AccountsAfter(from, to, n) /\ accounts[a] \in AccountEntity
      BY <1>0, <1>2, <1>6 DEF handleTransfer
    <2>2. CASE a = to
      <3>1. accounts'[a] = Received(accounts[a], to, n)
        BY <1>4, <1>6, <2>1, <2>2 DEF AccountsAfter
      <3>2. \A m \in NounIds : Push(accounts[a].nouns, n)[m] =
                IF m = n THEN accounts[a].nouns[m] + 1 ELSE accounts[a].nouns[m]
        BY <2>1 DEF Push, AccountEntity, Lists
      <3> QED
        BY <2>2, <3>1, <3>2 DEF Received
    <2>3. CASE a # to /\ a = from /\ a # Zero
      <3>1. accounts'[a] = Sent(accounts[a], n)
        BY <1>4, <1>6, <2>1, <2>3 DEF AccountsAfter
      <3>2. \A m \in NounIds : Without(accounts[a].nouns, {n})[m] =
                IF m = n THEN 0 ELSE accounts[a].nouns[m]
        BY DEF Without
      <3> QED
        BY <2>3, <3>1, <3>2 DEF Sent
    <2>4. CASE a # to /\ ~(a = from /\ a # Zero)
      <3>1. accounts'[a] = accounts[a]
        BY <1>4, <1>6, <2>1, <2>4 DEF AccountsAfter
      <3> QED
        BY <2>4, <3>1
    <2> QED
      BY <2>2, <2>3, <2>4
  <1>10. \A a \in Accounts : accounts[a].tokenBalance \in Int
    BY <1>5, <1>6 DEF AccountEntity
  <1>11. \A a \in Accounts :
             /\ accounts[a].tokenBalance >= Cardinality(Held(a))
             /\ IsFiniteSet(Held(a)) /\ Cardinality(Held(a)) \in Nat
             /\ Cardinality(Held(a) \cup {n}) =
                      IF n \in Held(a) THEN Cardinality(Held(a)) ELSE Cardinality(Held(a)) + 1
             /\ Cardinality(Held(a) \ {n}) =
                      IF n \in Held(a) THEN Cardinality(Held(a)) - 1 ELSE Cardinality(Held(a))
    <2>1. \A a : IsFiniteSet(Held(a)) /\ Cardinality(Held(a)) \in Nat
      BY NounsFinite DEF Held
    <2> QED
      BY <2>1, FS_AddElement, FS_RemoveElement DEF ListingInv, BalancesCover
  <1>12. \A a \in Accounts : accounts[a].tokenBalance = 0 => Held(a) = {}
    <2> SUFFICES ASSUME NEW a \in Accounts, accounts[a].tokenBalance = 0
                 PROVE  Held(a) = {}
      OBVIOUS
    <2>0. PICK c : c = Cardinality(Held(a))
      OBVIOUS
    <2>1. IsFiniteSet(Held(a)) /\ c \in Nat /\ 0 >= c
      BY <1>11, <2>0
    <2>2. IsFiniteSet(Held(a)) /\ Cardinality(Held(a)) = 0
      BY <2>0, <2>1
    <2> QED
      BY <2>2, FS_EmptySet
  <1>13. BalancesCover'
    <2> SUFFICES ASSUME NEW a \in Accounts
                 PROVE  accounts'[a].tokenBalance >= Cardinality(Held(a)')
      BY DEF BalancesCover
    <2>1. CASE a = to
      <3>1. Held(a)' = Held(a) \cup {n}
        BY <1>8, <2>1
      <3>2. accounts'[a].tokenBalance = accounts[a].tokenBalance + 1
        BY <1>5, <1>9, <2>1
      <3>0. PICK b, c, d : /\ b = accounts[a].tokenBalance /\ c = Cardinality(Held(a))
                            /\ d = Cardinality(Held(a) \cup {n})
        OBVIOUS
      <3>3. c \in Nat /\ b \in Int /\ b >= c /\ (d = c \/ d = c + 1)
        BY <1>10, <1>11, <3>0
      <3>4. b + 1 >= d
        BY <3>3
      <3> QED
        BY <3>0, <3>1, <3>2, <3>4
    <2>2. CASE a # to /\ a = from
      <3>1. Held(a)' = Held(a) \ {n} /\ n \in Held(a)
        BY <1>8, <2>2
      <3>2. accounts'[a].tokenBalance = accounts[a].tokenBalance - 1
        BY <1>5, <1>9, <2>2
      <3>3. Cardinality(Held(a) \ {n}) = Cardinality(Held(a)) - 1
        BY <1>11, <3>1
      <3>0. PICK b, c : b = accounts[a].tokenBalance /\ c = Cardinality(Held(a))
        OBVIOUS
      <3>4. c \in Nat /\ b \in Int /\ b >= c
        BY <1>10, <1>11, <3>0
      <3>5. b - 1 >= c - 1
        BY <3>4
      <3> QED
        BY <3>0, <3>1, <3>2, <3>3, <3>5
    <2>3. CASE a # to /\ a # from
      BY <1>5, <1>8, <1>9, <1>10, <1>11, <2>3
    <2> QED
      BY <2>1, <2>2, <2>3
  <1>14. DelegatesMatch'
    <2> SUFFICES ASSUME NEW a \in Accounts
                 PROVE  \/ accounts'[a].tokenBalance = 0
                        \/ accounts'[a].delegate = DelegateOf(a)
                        \/ DelegateOf(a) # a /\ Held(a)' \subseteq unfollowed
      BY <1>1, <1>2 DEF DelegatesMatch, StoredRight
    <2>1. \/ accounts[a].tokenBalance = 0
          \/ accounts[a].delegate = DelegateOf(a)
          \/ DelegateOf(a) # a /\ Held(a) \subseteq unfollowed
      BY <1>2 DEF ListingInv, DelegatesMatch, StoredRight
    <2>2. a \in Addresses /\ a # Zero
      BY <1>5
    <2>3. CASE a = to
      <3>1. Held(a)' = Held(a) \cup {n} /\ (n \notin unfollowed => DelegateOf(a) = a)
        BY <1>3, <1>8, <2>3
      <3>2. accounts'[a].delegate =
                IF accounts[a].tokenBalance = 0 THEN a ELSE accounts[a].delegate
        BY <1>9, <2>2, <2>3
      <3>3. CASE accounts[a].tokenBalance = 0
        <4>1. Held(a)' = {n} /\ accounts'[a].delegate = a
          BY <1>12, <3>1, <3>2, <3>3
        <4> QED
          BY <3>1, <4>1
      <3>4. CASE accounts[a].tokenBalance # 0
        BY <2>1, <3>1, <3>2, <3>4
      <3> QED
        BY <3>3, <3>4
    <2>4. CASE a # to /\ a = from
      <3>1. /\ Held(a)' \subseteq Held(a)
            /\ accounts'[a].tokenBalance = accounts[a].tokenBalance - 1
            /\ accounts[a].tokenBalance # 1 => accounts'[a].delegate = accounts[a].delegate
        BY <1>8, <1>9, <2>2, <2>4
      <3>2. accounts[a].tokenBalance # 0
        BY <1>8, <1>12, <2>4
      <3> QED
        BY <1>10, <2>1, <3>1, <3>2
    <2>5. CASE a # to /\ a # from
      BY <1>8, <1>9, <2>1, <2>2, <2>5
    <2> QED
      BY <2>3, <2>4, <2>5
  <1>15. \A a \in Addresses, m \in NounIds :
             delegates'[a].nounsRepresented[m] =
                 IF m # n THEN delegates[a].nounsRepresented[m]
                 ELSE (IF from # Zero /\ a = accounts[from].delegate THEN 0
                       ELSE delegates[a].nounsRepresented[m]) + (IF a = to THEN 1 ELSE 0)
    <2> SUFFICES ASSUME NEW a \in Addresses, NEW m \in NounIds
                 PROVE  delegates'[a].nounsRepresented[m] =
                            IF m # n THEN delegates[a].nounsRepresented[m]
                            ELSE (IF from # Zero /\ a = accounts[from].delegate THEN 0
                                  ELSE delegates[a].nounsRepresented[m])
                                     + (IF a = to THEN 1 ELSE 0)
      OBVIOUS
    <2>0. PICK ds, d : ds = Unlisted(from, n) /\ d = accounts[from].delegate
      OBVIOUS
    <2>1. delegates' = [ds EXCEPT ![to].stored = TRUE, ![to].nounsRepresented = Push(@, n)]
      BY <1>0, <1>2, <2>0 DEF handleTransfer, Listed
    <2>2. ds = IF from = Zero \/ d = Null THEN delegates
               ELSE [delegates EXCEPT ![d].nounsRepresented = Without(@, {n})]
      BY <2>0 DEF Unlisted
    <2>3. \A list \in Lists : Without(list, {n}) \in Lists
      BY ListsTyped
    <2>4. ds \in [Addresses -> DelegateEntity]
      BY <1>6, <2>2, <2>3 DEF DelegateEntity
    <2>5. ds[a].nounsRepresented[m] =
              IF m = n /\ from # Zero /\ a = d THEN 0 ELSE delegates[a].nounsRepresented[m]
      <3>1. CASE from # Zero /\ a = d
        <4>1. ds[a].nounsRepresented = Without(delegates[a].nounsRepresented, {n})
          BY <1>5, <1>6, <2>2, <3>1 DEF DelegateEntity
        <4> QED
          BY <3>1, <4>1 DEF Without
      <3>2. CASE ~(from # Zero /\ a = d)
        BY <1>6, <2>2, <3>2 DEF DelegateEntity
      <3> QED
        BY <3>1, <3>2
    <2>6. delegates'[a].nounsRepresented[m] =
              ds[a].nounsRepresented[m] + (IF m = n /\ a = to THEN 1 ELSE 0)
      <3>0. ds[a].nounsRepresented \in Lists /\ ds[a].nounsRepresented[m] \in Int
        BY <2>4 DEF DelegateEntity, Lists
      <3>1. CASE a = to
        <4>1. delegates'[a].nounsRepresented = Push(ds[a].nounsRepresented, n)
          BY <2>1, <2>4, <3>1 DEF DelegateEntity
        <4> QED
          BY <3>0, <3>1, <4>1 DEF Push, Lists
      <3>2. CASE a # to
        <4>1. delegates'[a] = ds[a]
          BY <2>1, <2>4, <3>2
        <4> QED
          BY <3>0, <3>2, <4>1
      <3> QED
        BY <3>1, <3>2
    <2>7. delegates[a].nounsRepresented[m] \in Int
      BY <1>6 DEF DelegateEntity, Lists
    <2> QED
      BY <2>0, <2>5, <2>6, <2>7
  <1>16. ListsMatch'
    <2> SUFFICES ASSUME NEW m \in NounIds \ unfollowed, NEW a \in Accounts
                 PROVE  /\ accounts'[a].nouns[m] = HeldBy(m, a)'
                        /\ delegates'[a].nounsRepresented[m] = IF KnownUnder(m, a)' THEN 1 ELSE 0
      BY <1>1 DEF ListsMatch
    <2>1. /\ accounts[a].nouns[m] = IF nouns[m].owner = a THEN 1 ELSE 0
          /\ delegates[a].nounsRepresented[m] =
                 IF nouns[m].owner \in Accounts /\ DelegateOf(nouns[m].owner) = a
                 THEN 1 ELSE 0
      BY <1>2 DEF ListingInv, ListsMatch, HeldBy, KnownUnder
    <2>2. a \in Addresses /\ a # Zero
      BY <1>5
    <2>3. CASE m # n
      <3>1. PICK h : h = nouns[m].owner
        OBVIOUS
      <3>2. nouns'[m].owner = h
        BY <1>7, <2>3, <3>1
      <3>3. HeldBy(m, a)' = IF h = a THEN 1 ELSE 0
        BY <3>2 DEF HeldBy
      <3>4. KnownUnder(m, a)' <=> h \in Accounts /\ DelegateOf(h) = a
        <4>1. KnownUnder(m, a)' <=> h \in Accounts /\ KnownDelegate(h)' = a
          BY <3>2 DEF KnownUnder
        <4> QED
          BY <1>2, <4>1
      <3> QED
        BY <1>9, <1>15, <2>1, <2>2, <2>3, <3>1, <3>3, <3>4
    <2>4. CASE m = n
      <3>1. from # to /\ (to \in Accounts => DelegateOf(to) = to)
        BY <1>3, <2>4
      <3>2. HeldBy(m, a)' = IF to = a THEN 1 ELSE 0
        BY <1>7, <2>4 DEF HeldBy
      <3>3. KnownUnder(m, a)' <=> to = a
        <4>1. KnownUnder(m, a)' <=> to \in Accounts /\ KnownDelegate(to)' = a
          <5>1. nouns'[m].owner = to
            BY <1>7, <2>4
          <5> QED
            BY <5>1 DEF KnownUnder
        <4> QED
          BY <1>2, <3>1, <4>1
      <3>4. accounts'[a].nouns[m] = IF to = a THEN 1 ELSE 0
        BY <1>4, <1>5, <1>9, <2>1, <2>2, <2>4, <3>1
      <3>5. (IF from # Zero /\ a = accounts[from].delegate THEN 0
             ELSE delegates[a].nounsRepresented[m]) = 0
        <4>1. CASE from = Zero
          <5>1. nouns[m].owner \notin Accounts
            BY <1>4, <1>5, <2>4, <4>1, SubgraphAssumption
          <5> QED
            BY <2>1, <4>1, <5>1
        <4>2. CASE from # Zero
          <5>1. from \in Accounts /\ nouns[m].owner = from /\ n \in Held(from)
            BY <1>4, <1>5, <1>8, <2>4, <4>2
          <5>2. accounts[from].delegate = DelegateOf(from)
            BY <1>2, <1>12, <2>4, <5>1 DEF ListingInv, DelegatesMatch, StoredRight
          <5> QED
            BY <2>1, <4>2, <5>1, <5>2
        <4> QED
          BY <4>1, <4>2
      <3>6. delegates'[a].nounsRepresented[m] = IF to = a THEN 1 ELSE 0
        BY <1>15, <2>2, <2>4, <3>5
      <3> QED
        BY <3>2, <3>3, <3>4, <3>6
    <2> QED
      BY <2>3, <2>4
  <1> QED
    BY <1>2, <1>13, <1>14, <1>16 DEF ListingInv

\* The nouns of an account go from the list of the one delegate to that of the other.
LEMMA DelegationListed ==
    ASSUME Typed, ListingInv, handleDelegateChanged
    PROVE  ListingInv'
  <1>0. PICK a, f, t : a = log[1].delegator /\ f = log[1].fromDelegate /\ t = log[1].toDelegate
    OBVIOUS
  <1>1. Handle("DelegateChanged") /\ UNCHANGED <<chainVars, nouns, unfollowed>>
    BY DEF handleDelegateChanged, history
  <1>2. /\ Head(log) = log[1] /\ NothingAstray' /\ log[1] \in Events
        /\ log[1].type = "DelegateChanged"
        /\ \A b : KnownDelegate(b)' = DelegateOf(b)
    BY <1>1, ListingPopped
  <1>3. t = DelegateOf(a) /\ (f = t => Held(a) \subseteq unfollowed)
    BY <1>0, <1>1, ListingPopped DEF ChangesRight
  <1>4. a \in Accounts /\ f \in Accounts /\ t \in Accounts /\ Accounts \subseteq Addresses
    BY <1>0, <1>2, EventFields DEF DelegationEvents, Addresses
  <1>5. \A b : KnownDelegate(b) = IF b = a THEN f ELSE DelegateOf(b)
    BY <1>0, <1>1, <1>2 DEF KnownDelegate, Delegating, Handle
  <1>6. /\ accounts \in [Addresses -> AccountEntity] /\ delegates \in [Addresses -> DelegateEntity]
    BY DEF Typed, StoreTyped
  <1>7. \A b \in Addresses : /\ accounts'[b].nouns = accounts[b].nouns
                             /\ accounts'[b].tokenBalance = accounts[b].tokenBalance
                             /\ accounts'[b].delegate = IF b = a THEN t ELSE accounts[b].delegate
    BY <1>0, <1>2, <1>4, <1>6 DEF handleDelegateChanged, AccountEntity
  <1>8. \A b : Held(b)' = Held(b)
    BY <1>1 DEF Held
  <1>9. \A d \in Accounts, m \in NounIds :
            delegates'[d].nounsRepresented[m] =
                IF d = t THEN delegates[d].nounsRepresented[m] + accounts[a].nouns[m]
                ELSE IF d = f /\ accounts[a].nouns[m] > 0 THEN 0
                ELSE delegates[d].nounsRepresented[m]
    <2> SUFFICES ASSUME NEW d \in Accounts, NEW m \in NounIds
                 PROVE  delegates'[d].nounsRepresented[m] =
                            IF d = t THEN delegates[d].nounsRepresented[m] + accounts[a].nouns[m]
                            ELSE IF d = f /\ accounts[a].nouns[m] > 0 THEN 0
                            ELSE delegates[d].nounsRepresented[m]
      OBVIOUS
    <2>0. PICK own : own = {n \in NounIds : accounts[a].nouns[n] > 0}
      OBVIOUS
    <2>1. d \in Addresses /\ delegates[d] \in DelegateEntity
      BY <1>4, <1>6
    <2>2. CASE d = t
      <3>1. delegates'[d].nounsRepresented =
                [n \in NounIds |-> delegates[d].nounsRepresented[n] + accounts[a].nouns[n]]
        BY <1>0, <1>2, <2>1, <2>2 DEF handleDelegateChanged, DelegateEntity
      <3> QED
        BY <2>2, <3>1
    <2>3. CASE d # t /\ d = f
      <3>1. delegates'[d].nounsRepresented = Without(delegates[d].nounsRepresented, own)
        BY <1>0, <1>2, <2>0, <2>1, <2>3 DEF handleDelegateChanged, DelegateEntity
      <3> QED
        BY <2>0, <2>3, <3>1 DEF Without
    <2>4. CASE d # t /\ d # f
      <3>1. delegates'[d] = delegates[d]
        BY <1>0, <1>2, <2>1, <2>4 DEF handleDelegateChanged
      <3> QED
        BY <2>4, <3>1
    <2> QED
      BY <2>2, <2>3, <2>4
  <1>10. ListsMatch'
    <2> SUFFICES ASSUME NEW m \in NounIds \ unfollowed, NEW d \in Accounts
                 PROVE  /\ accounts'[d].nouns[m] = HeldBy(m, d)'
                        /\ delegates'[d].nounsRepresented[m] = IF KnownUnder(m, d)' THEN 1 ELSE 0
      BY <1>1 DEF ListsMatch
    <2>0. PICK h : h = nouns[m].owner
      OBVIOUS
    <2>1. /\ accounts[a].nouns[m] = IF h = a THEN 1 ELSE 0
          /\ accounts[d].nouns[m] = HeldBy(m, d)
          /\ delegates[d].nounsRepresented[m] =
                 IF h \in Accounts /\ KnownDelegate(h) = d THEN 1 ELSE 0
      BY <1>4, <2>0 DEF ListingInv, ListsMatch, HeldBy, KnownUnder
    <2>2. KnownUnder(m, d)' <=> h \in Accounts /\ DelegateOf(h) = d
      <3>1. KnownUnder(m, d)' <=> h \in Accounts /\ KnownDelegate(h)' = d
        <4>1. nouns'[m].owner = h
          BY <1>1, <2>0
        <4> QED
          BY <4>1 DEF KnownUnder
      <3> QED
        BY <1>2, <3>1
    <2>3. accounts'[d].nouns[m] = HeldBy(m, d)'
      BY <1>1, <1>4, <1>7, <2>1 DEF HeldBy
    <2>4. CASE h = a
      <3>1. f # t
        BY <1>3, <2>0, <2>4 DEF Held
      <3> QED
        BY <1>3, <1>4, <1>5, <1>9, <2>1, <2>2, <2>3, <2>4, <3>1
    <2>5. CASE h # a
      <3>1. /\ accounts[a].nouns[m] = 0
            /\ delegates[d].nounsRepresented[m] = IF KnownUnder(m, d)' THEN 1 ELSE 0
        BY <1>5, <2>1, <2>2, <2>5
      <3> QED
        BY <1>9, <2>3, <3>1
    <2> QED
      BY <2>4, <2>5
  <1>11. BalancesCover'
    BY <1>4, <1>7, <1>8 DEF ListingInv, BalancesCover
  <1>12. DelegatesMatch'
    BY <1>1, <1>2, <1>3, <1>4, <1>5, <1>7, <1>8 DEF ListingInv, DelegatesMatch, StoredRight
  <1> QED
    BY <1>2, <1>10, <1>11, <1>12 DEF ListingInv

\* The other handlers list nothing.
LEMMA ListsUntouched ==
    ASSUME Typed, Handlers, ~handleTransfer, ~handleDelegateChanged
    PROVE  /\ UNCHANGED <<chainVars, accounts, unfollowed>>
           /\ \A n \in NounIds : nouns'[n].owner = nouns[n].owner
           /\ \A a \in Addresses :
                  delegates'[a].nounsRepresented = delegates[a].nounsRepresented
           /\ \E type : Handle(type) /\ type # "DelegateChanged"
  <1>1. /\ nouns \in [NounIds -> NounEntity] /\ delegates \in [Addresses -> DelegateEntity]
    BY DEF Typed, StoreTyped
  <1>2. UNCHANGED <<chainVars, accounts, unfollowed>>
    BY DEF Handlers, handleNounCreated, handleDelegateVotesChanged, history, tokenEntities,
           handleProposalCreatedWithRequirements, handleProposalCanceled,
           handleProposalVetoed, handleProposalQueued, handleProposalExecuted, handleVoteCast
  <1>3. \E type : Handle(type) /\ type # "DelegateChanged"
    <2>1. \E type \in {"NounCreated", "DelegateVotesChanged",
                       "ProposalCreatedWithRequirements", "VoteCast"} \cup StatusTypes :
              Handle(type)
      BY DEF Handlers, handleNounCreated, handleDelegateVotesChanged,
             handleProposalCreatedWithRequirements, handleProposalCanceled, StatusTypes,
             handleProposalVetoed, handleProposalQueued, handleProposalExecuted, handleVoteCast
    <2> QED
      BY <2>1 DEF StatusTypes
  <1>4. \A n \in NounIds : nouns'[n].owner = nouns[n].owner
    <2>1. CASE handleNounCreated
      BY <1>1, <2>1 DEF handleNounCreated, NounEntity
    <2>2. CASE ~handleNounCreated
      <3>1. nouns' = nouns
        BY <2>2
        DEF Handlers, handleDelegateVotesChanged, tokenEntities,
            handleProposalCreatedWithRequirements, handleProposalCanceled,
            handleProposalVetoed, handleProposalQueued, handleProposalExecuted, handleVoteCast
      <3> QED
        BY <3>1
    <2> QED
      BY <2>1, <2>2
  <1>5. \A a \in Addresses : delegates'[a].nounsRepresented = delegates[a].nounsRepresented
    <2>1. ASSUME NEW d, delegates' = [delegates EXCEPT ![d].stored = TRUE]
          PROVE  \A a \in Addresses : delegates'[a].nounsRepresented = delegates[a].nounsRepresented
      BY <1>1, <2>1 DEF DelegateEntity
    <2>2. CASE handleDelegateVotesChanged
      <3>1. PICK d, v : delegates' = [delegates EXCEPT ![d].stored = TRUE,
                                                       ![d].delegatedVotes = v]
        BY <2>2 DEF handleDelegateVotesChanged
      <3> QED
        BY <1>1, <3>1 DEF DelegateEntity
    <2>3. CASE handleProposalCreatedWithRequirements \/ handleVoteCast
      BY <2>1, <2>3 DEF handleProposalCreatedWithRequirements, handleVoteCast
    <2>4. CASE \/ handleNounCreated \/ handleProposalCanceled \/ handleProposalVetoed
               \/ handleProposalQueued \/ handleProposalExecuted
      <3>1. delegates' = delegates
        BY <2>4 DEF handleNounCreated, handleProposalCanceled, handleProposalVetoed,
                    handleProposalQueued, handleProposalExecuted, tokenEntities
      <3> QED
        BY <3>1
    <2> QED
      BY <2>2, <2>3, <2>4 DEF Handlers
  <1> QED
    BY <1>2, <1>3, <1>4, <1>5

LEMMA NextListing ==
    ASSUME Typed, HoldingsInv, ListingInv, [Next]_vars
    PROVE  ListingInv'
  <1>1. CASE TokenTransaction
    BY <1>1, MintListing, MoveListing, DelegateListing DEF TokenTransaction
  <1>2. CASE DAOTransaction
    BY <1>2, DAOTransactionListing
  <1>3. CASE Handlers
    <2>1. CASE handleTransfer
      BY <2>1, TransferListed
    <2>2. CASE handleDelegateChanged
      BY <2>2, DelegationListed
    <2>3. CASE ~handleTransfer /\ ~handleDelegateChanged
      BY <1>3, <2>3, ListsUntouched, QuietListing
    <2> QED
      BY <2>1, <2>2, <2>3
  <1>4. CASE UNCHANGED vars
    <2>1. UNCHANGED <<log, delegateOf, nouns, accounts, delegates, unfollowed>>
      BY <1>4 DEF vars, chainVars, storeVars, tokenEntities, history
    <2>2. /\ \A a : KnownDelegate(a)' = KnownDelegate(a) /\ Held(a)' = Held(a)
          /\ \A n, a : HeldBy(n, a)' = HeldBy(n, a)
          /\ \A e : (GoesRight(e)' <=> GoesRight(e)) /\ (ChangesRight(e)' <=> ChangesRight(e))
      BY <2>1 DEF KnownDelegate, Delegating, DelegateOf, Held, HeldBy, GoesRight, ChangesRight
    <2>3. ListsMatch'
      BY <2>1, <2>2 DEF ListingInv, ListsMatch, KnownUnder
    <2>4. NothingAstray'
      BY <2>1, <2>2 DEF ListingInv, NothingAstray
    <2> QED
      BY <2>1, <2>2, <2>3, <2>4
      DEF ListingInv, BalancesCover, DelegatesMatch, StoredRight
  <1> QED
    BY <1>1, <1>2, <1>3, <1>4 DEF Next

\* Once every event is handled, each noun that never went astray is listed under the
\* delegate that votes with it, and under no other.
THEOREM ListedAsVoted == Spec => []ListedOnce
  <1>1. Init => Typed /\ HoldingsInv /\ ListingInv
    BY InitTyped, InitHoldings, InitListing
  <1>2. Typed /\ HoldingsInv /\ ListingInv /\ [Next]_vars
            => Typed' /\ HoldingsInv' /\ ListingInv'
    BY NextTyped, NextHoldings, NextListing
  <1>3. Typed /\ HoldingsInv /\ ListingInv => ListedOnce
    BY ListingSettled
  <1> QED
    BY <1>1, <1>2, <1>3, PTL DEF Spec
=============================================================================
