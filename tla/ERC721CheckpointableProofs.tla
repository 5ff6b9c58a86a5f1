--------------------- MODULE ERC721CheckpointableProofs ---------------------
(***************************************************************************)
(* What holds of ERC721Checkpointable for all accounts, signatures and     *)
(* bounds: votes are natural numbers, never more than the nouns they stand *)
(* for, exactly as many unless somebody signed them away; the search of    *)
(* getPriorVotes finds the votes of every past block; and no signature is  *)
(* applied twice.                                                          *)
(***************************************************************************)
EXTENDS ERC721Checkpointable, FiniteSetTheorems, WellFoundedInduction, TLAPS

Addresses == Accounts \cup {Zero}

\* The parts are inductive together: votes may be taken from a delegate because
\* the types say that they are there, and nothing else is needed.
IInv == TypeOK /\ NoVoteFromNowhere /\ NoVoteLost /\ NoReplay

-----------------------------------------------------------------------------
(* Lemmas about finite sets.                                               *)

\* Taking a part away from a finite set takes its size away.
LEMMA DifferenceSize ==
    ASSUME NEW S, IsFiniteSet(S), NEW T \in SUBSET S
    PROVE  /\ IsFiniteSet(S \ T) /\ IsFiniteSet(T)
           /\ Cardinality(S \ T) \in Nat /\ Cardinality(T) \in Nat
           /\ Cardinality(S \ T) = Cardinality(S) - Cardinality(T)
  <1>1. IsFiniteSet(S \ T) /\ IsFiniteSet(T)
    BY FS_Subset
  <1>2. Cardinality((S \ T) \cup T) =
            Cardinality(S \ T) + Cardinality(T) - Cardinality((S \ T) \cap T)
    BY <1>1, FS_Union
  <1>3. (S \ T) \cup T = S /\ (S \ T) \cap T = {}
    OBVIOUS
  <1>4. Cardinality(S \ T) \in Nat /\ Cardinality(T) \in Nat /\ Cardinality({}) = 0
    BY <1>1, FS_CardinalityType, FS_EmptySet
  <1> QED
    BY <1>1, <1>2, <1>3, <1>4

\* Joining two finite sets apart adds their sizes.
LEMMA UnionSize ==
    ASSUME NEW S, IsFiniteSet(S), NEW T, IsFiniteSet(T), S \cap T = {}
    PROVE  Cardinality(S \cup T) = Cardinality(S) + Cardinality(T)
  <1>1. Cardinality(S \cup T) = Cardinality(S) + Cardinality(T) - Cardinality({})
    BY FS_Union
  <1>2. Cardinality(S) \in Nat /\ Cardinality(T) \in Nat /\ Cardinality({}) = 0
    BY FS_CardinalityType, FS_EmptySet
  <1> QED
    BY <1>1, <1>2

-----------------------------------------------------------------------------
(* Lemmas about the operators of the model.                                *)

\* The nouns minted, and who may own one.
LEMMA OwnersTyped ==
    ASSUME TypeOK
    PROVE  /\ Minted = 1..Len(nounOwner) /\ Len(nounOwner) \in Nat
           /\ \A n \in Minted : nounOwner[n] \in Addresses
  <1>1. nounOwner \in Seq(Addresses)
    BY DEF TypeOK, Addresses
  <1> QED
    BY <1>1 DEF Minted

\* What an account owns, or a delegate represents, is a finite number of nouns.
LEMMA CountsFinite ==
    ASSUME TypeOK, NEW d
    PROVE  /\ IsFiniteSet(Owned(d)) /\ IsFiniteSet(Represented(d))
           /\ Cardinality(Owned(d)) \in Nat /\ Cardinality(Represented(d)) \in Nat
  <1>1. Len(nounOwner) \in Nat /\ Minted = 1..Len(nounOwner)
    BY DEF TypeOK, Minted
  <1>2. IsFiniteSet(Minted)
    BY <1>1, FS_Interval
  <1>3. Owned(d) \in SUBSET Minted /\ Represented(d) \in SUBSET Minted
    BY DEF Owned, Represented
  <1>4. IsFiniteSet(Owned(d)) /\ IsFiniteSet(Represented(d))
    BY <1>2, <1>3, FS_Subset
  <1> QED
    BY <1>4, FS_CardinalityType

\* The votes of an account are a natural number.
LEMMA VotesNatural ==
    ASSUME TypeOK, NEW a \in Accounts
    PROVE  CurrentVotes(a) \in Nat
  <1>1. checkpoints[a] \in Seq(Checkpoint)
    BY DEF TypeOK
  <1>2. CASE checkpoints[a] = << >>
    BY <1>2 DEF CurrentVotes
  <1>3. CASE checkpoints[a] # << >>
    <2>1. Len(checkpoints[a]) \in 1..Len(checkpoints[a])
      BY <1>1, <1>3
    <2>2. checkpoints[a][Len(checkpoints[a])] \in Checkpoint
      BY <1>1, <2>1
    <2> QED
      BY <1>3, <2>2 DEF CurrentVotes, Checkpoint
  <1> QED
    BY <1>2, <1>3

\* _writeCheckpoint leaves a checkpoint that holds the new votes last.
LEMMA CheckpointWritten ==
    ASSUME TypeOK, NEW a \in Accounts, NEW votes \in Nat
    PROVE  LET cps == WriteCheckpoint(a, votes)
           IN  cps \in Seq(Checkpoint) /\ cps # << >> /\ cps[Len(cps)].votes = votes
  <1> DEFINE cps == checkpoints[a]
             new == [fromBlock |-> block, votes |-> votes]
  <1>1. cps \in Seq(Checkpoint) /\ new \in Checkpoint
    BY DEF TypeOK, Checkpoint
  <1> HIDE DEF cps
  <1>2. CASE cps # << >> /\ cps[Len(cps)].fromBlock = block
    <2>1. WriteCheckpoint(a, votes) = [cps EXCEPT ![Len(cps)] = new]
      BY <1>2 DEF WriteCheckpoint, cps
    <2>2. Len(cps) \in 1..Len(cps)
      BY <1>1, <1>2
    <2>3. /\ [cps EXCEPT ![Len(cps)] = new] \in Seq(Checkpoint)
          /\ Len([cps EXCEPT ![Len(cps)] = new]) = Len(cps)
          /\ [cps EXCEPT ![Len(cps)] = new][Len(cps)] = new
      BY <1>1, <2>2
    <2> QED
      BY <2>1, <2>2, <2>3
  <1>3. CASE ~(cps # << >> /\ cps[Len(cps)].fromBlock = block)
    <2>1. WriteCheckpoint(a, votes) = Append(cps, new)
      BY <1>3 DEF WriteCheckpoint, cps
    <2>2. /\ Append(cps, new) \in Seq(Checkpoint)
          /\ Len(Append(cps, new)) = Len(cps) + 1
          /\ Append(cps, new)[Len(cps) + 1] = new
          /\ Len(cps) + 1 > 0
      BY <1>1
    <2> QED
      BY <2>1, <2>2
  <1> QED
    BY <1>2, <1>3

\* _moveDelegates takes the amount from src and gives it to dst, if they differ, and
\* changes nobody else's votes.
LEMMA VotesMoved ==
    ASSUME TypeOK, NEW src \in Addresses, NEW dst \in Addresses, NEW amount \in Nat,
           MoveDelegates(src, dst, amount)
    PROVE  /\ checkpoints' \in [Accounts -> Seq(Checkpoint)]
           /\ \A a \in Accounts : CurrentVotes(a)' =
                  IF src = dst THEN CurrentVotes(a)
                  ELSE IF a = src THEN CurrentVotes(a) - amount
                  ELSE IF a = dst THEN CurrentVotes(a) + amount
                  ELSE CurrentVotes(a)
  <1>0. \A a \in Accounts : CurrentVotes(a) \in Nat
    BY VotesNatural
  <1>1. CASE src = dst \/ amount = 0
    <2>1. checkpoints' = checkpoints
      BY <1>1 DEF MoveDelegates
    <2>2. \A a \in Accounts : CurrentVotes(a)' = CurrentVotes(a)
      BY <2>1 DEF CurrentVotes
    <2> QED
      BY <1>0, <1>1, <2>1, <2>2 DEF TypeOK
  <1>2. CASE src # dst /\ amount # 0
    <2> DEFINE after(a) == CASE a = src -> WriteCheckpoint(a, CurrentVotes(a) - amount)
                             [] a = dst -> WriteCheckpoint(a, CurrentVotes(a) + amount)
                             [] OTHER   -> checkpoints[a]
    <2>1. /\ src # Zero => CurrentVotes(src) >= amount
          /\ checkpoints' = [a \in Accounts |-> after(a)]
      BY <1>2 DEF MoveDelegates
    <2>2. ASSUME NEW a \in Accounts
          PROVE  /\ after(a) \in Seq(Checkpoint)
                 /\ CurrentVotes(a)' = IF a = src THEN CurrentVotes(a) - amount
                                       ELSE IF a = dst THEN CurrentVotes(a) + amount
                                       ELSE CurrentVotes(a)
      <3>0. checkpoints'[a] = after(a)
        <4> HIDE DEF after
        <4> QED
          BY <2>1
      <3>1. CASE a = src
        <4>1. CurrentVotes(a) - amount \in Nat
          BY <1>0, <2>1, <3>1, VotesAssumption
        <4>2. after(a) = WriteCheckpoint(a, CurrentVotes(a) - amount)
          BY <1>2, <3>1
        <4> QED
          BY <3>0, <3>1, <4>1, <4>2, CheckpointWritten DEF CurrentVotes
      <3>2. CASE a # src /\ a = dst
        <4>1. CurrentVotes(a) + amount \in Nat
          BY <1>0
        <4>2. after(a) = WriteCheckpoint(a, CurrentVotes(a) + amount)
          BY <3>2
        <4> QED
          BY <3>0, <3>2, <4>1, <4>2, CheckpointWritten DEF CurrentVotes
      <3>3. CASE a # src /\ a # dst
        <4>1. after(a) = checkpoints[a]
          BY <3>3
        <4>2. CurrentVotes(a)' = CurrentVotes(a)
          BY <3>0, <4>1 DEF CurrentVotes
        <4> QED
          BY <3>3, <4>1, <4>2 DEF TypeOK
      <3> QED
        BY <3>1, <3>2, <3>3
    <2> HIDE DEF after
    <2>3. checkpoints' \in [Accounts -> Seq(Checkpoint)]
      BY <2>1, <2>2
    <2> QED
      BY <1>2, <2>2, <2>3
  <1> QED
    BY <1>1, <1>2

\* A noun that changes hands moves one vote from the delegate of its owner to that of
\* its receiver, in Represented as in the checkpoints.
LEMMA TransferCounts ==
    ASSUME TypeOK, TypeOK', NEW n \in Minted, NEW to \in Addresses, Transfer(n, to),
           NEW d \in Accounts
    PROVE  /\ CurrentVotes(d)' \in Int /\ Cardinality(Represented(d)') \in Int
           /\ CurrentVotes(d)' - CurrentVotes(d) =
                  Cardinality(Represented(d)') - Cardinality(Represented(d))
  <1> DEFINE src == Delegates(nounOwner[n])
             dst == Delegates(to)
  <1>1. /\ nounOwner[n] \in Accounts
        /\ src \in Accounts /\ dst \in Addresses /\ (dst = Zero <=> to = Zero)
    <2>1. nounOwner[n] \in Accounts
      BY OwnersTyped DEF Transfer, Addresses
    <2> QED
      BY <2>1, VotesAssumption DEF TypeOK, Delegates, Addresses
  <1>2. CurrentVotes(d)' = IF src = dst THEN CurrentVotes(d)
                           ELSE IF d = src THEN CurrentVotes(d) - 1
                           ELSE IF d = dst THEN CurrentVotes(d) + 1
                           ELSE CurrentVotes(d)
    BY <1>1, VotesMoved DEF Transfer, Addresses
  <1>3. Minted' = Minted /\ nounOwner' = [nounOwner EXCEPT ![n] = to]
    BY DEF Transfer, TypeOK, Minted
  <1>4. \A x : Delegates(x)' = Delegates(x)
    BY DEF Transfer, Delegates
  <1>5. \A m \in Minted : nounOwner'[m] = IF m = n THEN to ELSE nounOwner[m]
    BY <1>3 DEF Minted
  <1>6. Represented(d)' = {m \in Minted : /\ nounOwner'[m] # Zero
                                          /\ Delegates(nounOwner'[m]) = d}
    BY <1>3, <1>4 DEF Represented
  <1>7. /\ src = dst => Represented(d)' = Represented(d)
        /\ src # dst /\ d = src => Represented(d)' = Represented(d) \ {n}
        /\ src # dst /\ d = dst => Represented(d)' = Represented(d) \cup {n}
        /\ d # src /\ d # dst => Represented(d)' = Represented(d)
    BY <1>1, <1>5, <1>6, VotesAssumption DEF Represented
  <1>8. /\ d = src => n \in Represented(d)
        /\ d # src => n \notin Represented(d)
    BY <1>1, VotesAssumption DEF Represented
  <1>9. /\ IsFiniteSet(Represented(d)) /\ Cardinality(Represented(d)) \in Nat
        /\ CurrentVotes(d) \in Nat
    BY CountsFinite, VotesNatural
  <1>10. /\ d = src => Cardinality(Represented(d) \ {n}) = Cardinality(Represented(d)) - 1
         /\ d # src => Cardinality(Represented(d) \cup {n}) = Cardinality(Represented(d)) + 1
    BY <1>8, <1>9, FS_AddElement, FS_RemoveElement
  <1> HIDE DEF src, dst
  <1>11. CASE src = dst
    BY <1>2, <1>7, <1>9, <1>11
  <1>12. CASE src # dst /\ d = src
    BY <1>2, <1>7, <1>9, <1>10, <1>12
  <1>13. CASE src # dst /\ d = dst
    BY <1>2, <1>7, <1>9, <1>10, <1>13
  <1>14. CASE d # src /\ d # dst
    BY <1>2, <1>7, <1>9, <1>14
  <1> QED
    BY <1>11, <1>12, <1>13, <1>14

\* A new noun is one vote more of the delegate of its owner.
LEMMA MintCounts ==
    ASSUME TypeOK, TypeOK', NEW to \in Accounts, Mint(to), NEW d \in Accounts
    PROVE  /\ CurrentVotes(d)' \in Int /\ Cardinality(Represented(d)') \in Int
           /\ CurrentVotes(d)' - CurrentVotes(d) =
                  Cardinality(Represented(d)') - Cardinality(Represented(d))
  <1> DEFINE dst == Delegates(to)
             n == Len(nounOwner) + 1
  <1>1. dst \in Accounts
    BY VotesAssumption DEF TypeOK, Delegates
  <1>2. CurrentVotes(d)' = IF d = dst THEN CurrentVotes(d) + 1 ELSE CurrentVotes(d)
    BY <1>1, VotesMoved, VotesAssumption DEF Mint, Addresses
  <1>3. /\ Minted = 1..Len(nounOwner) /\ Minted' = Minted \cup {n} /\ n \notin Minted
        /\ \A m \in Minted : nounOwner'[m] = nounOwner[m]
        /\ nounOwner'[n] = to
    BY DEF Mint, TypeOK, Minted
  <1>4. \A x : Delegates(x)' = Delegates(x)
    BY DEF Mint, Delegates
  <1>5. Represented(d)' = IF d = dst THEN Represented(d) \cup {n} ELSE Represented(d)
    BY <1>3, <1>4, VotesAssumption DEF Represented
  <1>6. /\ IsFiniteSet(Represented(d)) /\ Cardinality(Represented(d)) \in Nat
        /\ CurrentVotes(d) \in Nat
    BY CountsFinite, VotesNatural
  <1>7. n \notin Represented(d)
    BY <1>3 DEF Represented
  <1>8. Cardinality(Represented(d) \cup {n}) = Cardinality(Represented(d)) + 1
    BY <1>6, <1>7, FS_AddElement
  <1> QED
    BY <1>2, <1>5, <1>6, <1>8

\* Whom an account's nouns count for once it has delegated to the delegatee.
Effective(delegator, delegatee) == IF delegatee = Zero THEN delegator ELSE delegatee

\* A delegation moves all nouns of the delegator, in Represented to the account that
\* delegates() names from then on, in the checkpoints to the delegatee.
LEMMA DelegationCounts ==
    ASSUME TypeOK, TypeOK', NEW delegator \in Accounts, NEW delegatee \in Addresses,
           SetDelegate(delegator, delegatee), nounOwner' = nounOwner, NEW d \in Accounts
    PROVE  /\ CurrentVotes(d)' \in Int /\ Cardinality(Represented(d)') \in Int
           /\ CurrentVotes(d)' - CurrentVotes(d) <=
                  Cardinality(Represented(d)') - Cardinality(Represented(d))
           /\ delegatee # Zero =>
                  CurrentVotes(d)' - CurrentVotes(d) =
                      Cardinality(Represented(d)') - Cardinality(Represented(d))
  <1> DEFINE src == Delegates(delegator)
             dst == Effective(delegator, delegatee)
             own == Owned(delegator)
  <1>1. src \in Accounts /\ dst \in Accounts /\ (delegatee # Zero => dst = delegatee)
    BY VotesAssumption DEF TypeOK, Delegates, Effective, Addresses
  <1>2. /\ IsFiniteSet(own) /\ Cardinality(own) \in Nat
        /\ IsFiniteSet(Represented(d)) /\ Cardinality(Represented(d)) \in Nat
        /\ CurrentVotes(d) \in Nat
    BY CountsFinite, VotesNatural
  <1>3. CurrentVotes(d)' = IF src = delegatee THEN CurrentVotes(d)
                           ELSE IF d = src THEN CurrentVotes(d) - Cardinality(own)
                           ELSE IF d = delegatee THEN CurrentVotes(d) + Cardinality(own)
                           ELSE CurrentVotes(d)
    BY <1>1, <1>2, VotesMoved DEF SetDelegate, Addresses
  <1>4. \A x \in Accounts :
            Delegates(x)' = IF x = delegator THEN dst ELSE Delegates(x)
    BY VotesAssumption DEF SetDelegate, Delegates, Effective, TypeOK, Addresses
  <1>5. Minted' = Minted /\ \A n \in Minted : nounOwner[n] \in Addresses
    BY OwnersTyped DEF Minted
  <1>6. Represented(d)' = {n \in Minted : /\ nounOwner[n] # Zero
                                          /\ IF n \in own THEN dst = d
                                             ELSE Delegates(nounOwner[n]) = d}
    BY <1>4, <1>5 DEF Represented, Owned, Addresses
  <1>7. \A n \in own : n \in Minted /\ nounOwner[n] = delegator /\ nounOwner[n] # Zero
    BY VotesAssumption DEF Owned
  <1>8. /\ d = src => own \in SUBSET Represented(d)
        /\ d # src => own \cap Represented(d) = {}
    BY <1>7 DEF Represented
  <1>9. /\ src = dst => Represented(d)' = Represented(d)
        /\ src # dst /\ d = src => Represented(d)' = Represented(d) \ own
        /\ src # dst /\ d = dst => Represented(d)' = Represented(d) \cup own
        /\ d # src /\ d # dst => Represented(d)' = Represented(d)
    BY <1>6, <1>7 DEF Represented, Owned
  <1>10. /\ d = src => Cardinality(Represented(d) \ own) =
                           Cardinality(Represented(d)) - Cardinality(own)
         /\ d # src => Cardinality(Represented(d) \cup own) =
                           Cardinality(Represented(d)) + Cardinality(own)
    BY <1>2, <1>8, DifferenceSize, UnionSize
  <1> HIDE DEF src, dst, own
  <1>11. CASE src = dst
    <2>1. Represented(d)' = Represented(d)
      BY <1>9, <1>11
    <2>2. CASE delegatee # Zero
      BY <1>1, <1>2, <1>3, <1>11, <2>1, <2>2
    <2>3. CASE delegatee = Zero
      <3>1. src # delegatee /\ d # delegatee
        BY <1>1, <2>3, VotesAssumption
      <3>2. CurrentVotes(d)' \in Int /\ CurrentVotes(d)' <= CurrentVotes(d)
        BY <1>2, <1>3, <3>1
      <3> QED
        BY <1>2, <2>1, <2>3, <3>2
    <2> QED
      BY <2>2, <2>3
  <1>12. CASE src # dst /\ d = src
    <2>1. Cardinality(Represented(d)') = Cardinality(Represented(d)) - Cardinality(own)
      BY <1>9, <1>10, <1>12
    <2>2. src # delegatee
      BY <1>1, <1>12, VotesAssumption
    <2>3. CurrentVotes(d)' = CurrentVotes(d) - Cardinality(own)
      BY <1>3, <1>12, <2>2
    <2> QED
      BY <1>2, <2>1, <2>3
  <1>13. CASE src # dst /\ d = dst
    <2>1. Cardinality(Represented(d)') = Cardinality(Represented(d)) + Cardinality(own)
      BY <1>9, <1>10, <1>13
    <2>2. src # delegatee
      BY <1>1, <1>13, VotesAssumption
    <2>3. CASE delegatee # Zero
      <3>1. CurrentVotes(d)' = CurrentVotes(d) + Cardinality(own)
        BY <1>1, <1>3, <1>13, <2>2, <2>3
      <3> QED
        BY <1>2, <2>1, <3>1
    <2>4. CASE delegatee = Zero
      <3>1. CurrentVotes(d)' = CurrentVotes(d)
        BY <1>3, <1>13, <2>2, <2>4, VotesAssumption
      <3> QED
        BY <1>2, <2>1, <2>4, <3>1
    <2> QED
      BY <2>3, <2>4
  <1>14. CASE d # src /\ d # dst
    <2>1. Represented(d)' = Represented(d)
      BY <1>9, <1>14
    <2>2. d # delegatee
      BY <1>1, <1>14, VotesAssumption
    <2>3. CurrentVotes(d)' = CurrentVotes(d)
      BY <1>3, <1>14, <2>2
    <2> QED
      BY <1>2, <2>1, <2>3
  <1> QED
    BY <1>11, <1>12, <1>13, <1>14

-----------------------------------------------------------------------------
(* The binary search of getPriorVotes.  What it finds is a recursive       *)
(* function of the range that is left, and induction goes over the length  *)
(* of the range: the smallest length that is wrong does not exist.         *)

\* A set of natural numbers that is not empty has a smallest member.
LEMMA SmallestOf ==
    ASSUME NEW T \in SUBSET Nat, T # {}
    PROVE  \E m \in T : \A k \in T : m <= k
  <1> DEFINE R == OpToRel(<, Nat)
  <1>1. IsWellFoundedOn(R, Nat)
    BY NatLessThanWellFounded
  <1>2. PICK m \in T : \A k \in T : ~(<<k, m>> \in R)
    <2> HIDE DEF R
    <2> QED
      BY <1>1, WFMin
  <1>3. \A k \in T : <<k, m>> \in R <=> k < m
    BY DEF OpToRel
  <1> HIDE DEF R
  <1>4. \A k \in T : ~(k < m)
    BY <1>2, <1>3
  <1> QED
    BY <1>4

Center(lower, upper) == upper - (upper - lower) \div 2

\* One round of the loop, where find says what comes of a smaller range.
Round(cps, b, find, lower, upper) ==
    IF upper <= lower THEN lower
    ELSE IF cps[Center(lower, upper)].fromBlock = b THEN Center(lower, upper)
    ELSE IF cps[Center(lower, upper)].fromBlock < b THEN find[<<Center(lower, upper), upper>>]
    ELSE find[<<lower, Center(lower, upper) - 1>>]

\* The center is rounded up, so that both halves are smaller than the range.
LEMMA CenterBetween ==
    ASSUME NEW l \in Int, NEW u \in Int, l < u
    PROVE  Center(l, u) \in Int /\ l < Center(l, u) /\ Center(l, u) <= u
  BY DEF Center

\* A round depends on what is found in smaller ranges only.
LEMMA RoundLocal ==
    ASSUME NEW cps, NEW n \in Nat, NEW b, NEW f, NEW g, NEW l \in 1..n, NEW u \in 1..n,
           \A x, y \in 1..n : y - x < u - l =>
               f[<<x, y>>] = g[<<x, y>>] /\ f[<<x, y>>] \in 1..n
    PROVE  Round(cps, b, f, l, u) = Round(cps, b, g, l, u) /\ Round(cps, b, f, l, u) \in 1..n
  <1>1. CASE u <= l
    BY <1>1 DEF Round
  <1>2. CASE l < u
    <2> DEFINE c == Center(l, u)
    <2>1. c \in 1..n /\ c - 1 \in 1..n /\ u - c < u - l /\ (c - 1) - l < u - l
      BY <1>2, CenterBetween
    <2> HIDE DEF c
    <2>2. f[<<c, u>>] = g[<<c, u>>] /\ f[<<l, c - 1>>] = g[<<l, c - 1>>]
      BY <2>1
    <2>3. f[<<c, u>>] \in 1..n /\ f[<<l, c - 1>>] \in 1..n
      BY <2>1
    <2> QED
      BY <1>2, <2>1, <2>2, <2>3 DEF Round, c
  <1> QED
    BY <1>1, <1>2

\* f says what the search finds in every range of length k or less.
Finds(cps, n, b, k, f) ==
    \A l, u \in 1..n : u - l <= k =>
        f[<<l, u>>] = Round(cps, b, f, l, u) /\ f[<<l, u>>] \in 1..n

\* A range of length zero is found at once.
LEMMA FindsZero ==
    ASSUME NEW n \in Nat, NEW cps, NEW b
    PROVE  \E f : Finds(cps, n, b, 0, f)
  <1> DEFINE f == [range \in (1..n) \X (1..n) |-> range[1]]
  <1>1. ASSUME NEW l \in 1..n, NEW u \in 1..n PROVE f[<<l, u>>] = l
    OBVIOUS
  <1> HIDE DEF f
  <1>2. Finds(cps, n, b, 0, f)
    BY <1>1 DEF Finds, Round
  <1> QED
    BY <1>2

\* One more round finds in ranges that are longer by one.
LEMMA FindsMore ==
    ASSUME NEW n \in Nat, NEW cps, NEW b, NEW k \in Nat, NEW f, Finds(cps, n, b, k, f)
    PROVE  \E g : Finds(cps, n, b, k + 1, g)
  <1> DEFINE g == [range \in (1..n) \X (1..n) |->
                      IF range[2] - range[1] <= k THEN f[range]
                      ELSE Round(cps, b, f, range[1], range[2])]
  <1>1. ASSUME NEW l \in 1..n, NEW u \in 1..n
        PROVE  g[<<l, u>>] = IF u - l <= k THEN f[<<l, u>>] ELSE Round(cps, b, f, l, u)
    OBVIOUS
  <1> HIDE DEF g
  <1>2. ASSUME NEW l \in 1..n, NEW u \in 1..n, u - l <= k + 1
        PROVE  g[<<l, u>>] = Round(cps, b, g, l, u) /\ g[<<l, u>>] \in 1..n
    <2>1. \A x, y \in 1..n : y - x < u - l =>
              f[<<x, y>>] = g[<<x, y>>] /\ f[<<x, y>>] \in 1..n
      <3> SUFFICES ASSUME NEW x \in 1..n, NEW y \in 1..n, y - x < u - l
                   PROVE  f[<<x, y>>] = g[<<x, y>>] /\ f[<<x, y>>] \in 1..n
        OBVIOUS
      <3>1. y - x <= k
        BY <1>2
      <3> QED
        BY <1>1, <3>1 DEF Finds
    <2>2. /\ Round(cps, b, f, l, u) = Round(cps, b, g, l, u)
          /\ Round(cps, b, f, l, u) \in 1..n
      BY <2>1, RoundLocal
    <2> QED
      BY <1>1, <2>2 DEF Finds
  <1>3. Finds(cps, n, b, k + 1, g)
    BY <1>2 DEF Finds
  <1> QED
    BY <1>3

\* So the search ends, in ranges of every length.
LEMMA FindsAll ==
    ASSUME NEW n \in Nat, NEW cps, NEW b, NEW k \in Nat
    PROVE  \E f : Finds(cps, n, b, k, f)
  <1> DEFINE T == {j \in Nat : ~ \E f : Finds(cps, n, b, j, f)}
  <1>1. ASSUME T # {} PROVE FALSE
    <2>1. T \in SUBSET Nat
      OBVIOUS
    <2>2. PICK m \in T : \A j \in T : m <= j
      <3> HIDE DEF T
      <3> QED
        BY <1>1, <2>1, SmallestOf
    <2>3. m # 0
      BY FindsZero
    <2>4. m - 1 \in Nat /\ m - 1 \notin T
      <3> HIDE DEF T
      <3> QED
        BY <2>1, <2>2, <2>3
    <2>5. PICK f : Finds(cps, n, b, m - 1, f)
      BY <2>4
    <2>6. \E g : Finds(cps, n, b, (m - 1) + 1, g)
      BY <2>4, <2>5, FindsMore
    <2> QED
      BY <2>6
  <1> QED
    BY <1>1

\* f is the function that the model's find is meant to be.
IsSearch(cps, b, n, f) ==
    f = [range \in (1..n) \X (1..n) |-> Round(cps, b, f, range[1], range[2])]

\* There is such a function,
LEMMA SearchExists ==
    ASSUME NEW n \in Nat, NEW cps, NEW b
    PROVE  \E f : f = [range \in (1..n) \X (1..n) |-> Round(cps, b, f, range[1], range[2])]
  <1>1. PICK f : Finds(cps, n, b, n, f)
    BY FindsAll
  <1> DEFINE g == [range \in (1..n) \X (1..n) |-> f[range]]
  <1>2. ASSUME NEW l \in 1..n, NEW u \in 1..n
        PROVE  g[<<l, u>>] = Round(cps, b, g, l, u)
    <2>1. \A x, y \in 1..n : f[<<x, y>>] = g[<<x, y>>]
      OBVIOUS
    <2>2. \A x, y \in 1..n : f[<<x, y>>] = Round(cps, b, f, x, y) /\ f[<<x, y>>] \in 1..n
      <3> SUFFICES ASSUME NEW x \in 1..n, NEW y \in 1..n
                   PROVE  f[<<x, y>>] = Round(cps, b, f, x, y) /\ f[<<x, y>>] \in 1..n
        OBVIOUS
      <3>1. y - x <= n
        OBVIOUS
      <3> QED
        BY <1>1, <3>1 DEF Finds
    <2> HIDE DEF g
    <2> QED
      BY <2>1, <2>2, RoundLocal
  <1>3. g = [range \in (1..n) \X (1..n) |-> g[range]]
    OBVIOUS
  <1> HIDE DEF g
  <1>4. g = [range \in (1..n) \X (1..n) |-> Round(cps, b, g, range[1], range[2])]
    BY <1>2, <1>3
  <1> QED
    BY <1>4

\* and the model's search is one.
LEMMA SearchDefined ==
    ASSUME NEW n \in Nat, NEW cps, DOMAIN cps = 1..n, Len(cps) = n, NEW b
    PROVE  \E f : IsSearch(cps, b, n, f) /\ SearchPrior(cps, b) = cps[f[<<1, n>>]].votes
  <1> DEFINE F == CHOOSE g : g = [range \in (1..n) \X (1..n) |->
                                     Round(cps, b, g, range[1], range[2])]
             G == CHOOSE g : g = [range \in (DOMAIN cps) \X (DOMAIN cps) |->
                                     Round(cps, b, g, range[1], range[2])]
  <1>1. F = [range \in (1..n) \X (1..n) |-> Round(cps, b, F, range[1], range[2])]
    BY SearchExists
  <1>2. F = G
    OBVIOUS
  <1>3. SearchPrior(cps, b) = cps[G[<<1, Len(cps)>>]].votes
    BY Zenon DEF SearchPrior, Round, Center
  <1> HIDE DEF F, G
  <1> QED
    BY <1>1, <1>2, <1>3 DEF IsSearch

\* Checkpoint i is the last one up to the end of block b.
LastBy(cps, b, i) ==
    /\ i \in DOMAIN cps /\ cps[i].fromBlock <= b
    /\ \A j \in DOMAIN cps : j > i => cps[j].fromBlock > b

InOrder(cps) ==
    \A i, j \in DOMAIN cps : i < j => cps[i].fromBlock < cps[j].fromBlock

\* The search finds the last checkpoint up to b, if there is one and they are in order.
LEMMA SearchRight ==
    ASSUME NEW n \in Nat, n # 0, NEW cps, cps \in Seq(Checkpoint), Len(cps) = n,
           InOrder(cps), NEW b \in Nat, cps[1].fromBlock <= b
    PROVE  \E i \in DOMAIN cps : LastBy(cps, b, i) /\ SearchPrior(cps, b) = cps[i].votes
  <1>1. DOMAIN cps = 1..n /\ \A i \in 1..n : cps[i].fromBlock \in Nat
    <2>1. DOMAIN cps = 1..n /\ \A i \in 1..n : cps[i] \in Checkpoint
      OBVIOUS
    <2> QED
      BY <2>1 DEF Checkpoint
  <1>2. PICK f : IsSearch(cps, b, n, f) /\ SearchPrior(cps, b) = cps[f[<<1, n>>]].votes
    <2>1. Len(cps) = n
      OBVIOUS
    <2> QED
      BY <1>1, <2>1, SearchDefined
  <1>3. \A l, u \in 1..n : f[<<l, u>>] = Round(cps, b, f, l, u)
    BY <1>2 DEF IsSearch
  <1> DEFINE Bracket(l, u) == /\ l <= u /\ cps[l].fromBlock <= b
                              /\ \A j \in 1..n : j > u => cps[j].fromBlock > b
             T == {k \in Nat : \E l, u \in 1..n : /\ u - l = k /\ Bracket(l, u)
                                                  /\ ~LastBy(cps, b, f[<<l, u>>])}
  <1>4. ASSUME T # {} PROVE FALSE
    <2>1. T \in SUBSET Nat
      OBVIOUS
    <2>2. PICK m \in T : \A j \in T : m <= j
      <3> HIDE DEF T
      <3> QED
        BY <1>4, <2>1, SmallestOf
    <2>3. PICK l \in 1..n, u \in 1..n :
              u - l = m /\ Bracket(l, u) /\ ~LastBy(cps, b, f[<<l, u>>])
      OBVIOUS
    <2>4. \A x, y \in 1..n : Bracket(x, y) /\ y - x < u - l => LastBy(cps, b, f[<<x, y>>])
      <3> SUFFICES ASSUME NEW x \in 1..n, NEW y \in 1..n, Bracket(x, y), y - x < u - l,
                          ~LastBy(cps, b, f[<<x, y>>])
                   PROVE  FALSE
        OBVIOUS
      <3>1. y - x \in Nat
        OBVIOUS
      <3>2. y - x \in T
        BY <3>1
      <3> HIDE DEF T
      <3> QED
        BY <2>2, <2>3, <3>1, <3>2
    <2> HIDE DEF T
    <2>5. CASE l = u
      <3>1. f[<<l, u>>] = l
        <4>1. u <= l
          BY <2>5
        <4> QED
          BY <1>3, <4>1 DEF Round
      <3> QED
        BY <1>1, <2>3, <2>5, <3>1 DEF LastBy
    <2>6. CASE l < u
      <3> DEFINE c == Center(l, u)
      <3>1. c \in 1..n /\ c - 1 \in 1..n /\ l < c /\ c <= u
        <4>1. l \in Int /\ u \in Int /\ l >= 1 /\ u <= n
          OBVIOUS
        <4>2. c \in Int /\ l < c /\ c <= u
          BY <2>6, <4>1, CenterBetween
        <4> HIDE DEF c
        <4> QED
          BY <4>1, <4>2
      <3> HIDE DEF c
      <3>2. f[<<l, u>>] = IF cps[c].fromBlock = b THEN c
                          ELSE IF cps[c].fromBlock < b THEN f[<<c, u>>]
                          ELSE f[<<l, c - 1>>]
        BY <1>3, <2>6 DEF Round, c
      <3>3. CASE cps[c].fromBlock = b
        <4>1. \A j \in 1..n : j > c => cps[j].fromBlock > b
          BY <1>1, <3>1, <3>3 DEF InOrder
        <4>2. LastBy(cps, b, c)
          BY <1>1, <3>1, <3>3, <4>1 DEF LastBy
        <4> QED
          BY <2>3, <3>2, <3>3, <4>2
      <3>4. CASE cps[c].fromBlock < b
        <4>1. Bracket(c, u) /\ u - c < u - l
          BY <1>1, <2>3, <3>1, <3>4
        <4> HIDE DEF Bracket
        <4> QED
          BY <1>1, <2>3, <2>4, <3>1, <3>2, <3>4, <4>1
      <3>5. CASE cps[c].fromBlock > b
        <4>1. \A j \in 1..n : j > c - 1 => cps[j].fromBlock > b
          <5>1. \A j \in 1..n : j > c - 1 => j = c \/ c < j
            BY <3>1
          <5>2. \A j \in 1..n : c < j => cps[c].fromBlock < cps[j].fromBlock
            BY <1>1, <3>1 DEF InOrder
          <5>3. \A j \in 1..n : c < j => cps[j].fromBlock > b
            BY <1>1, <3>1, <3>5, <5>2
          <5> QED
            BY <3>5, <5>1, <5>3
        <4>2. Bracket(l, c - 1) /\ (c - 1) - l < u - l
          BY <1>1, <2>3, <3>1, <4>1
        <4> HIDE DEF Bracket
        <4> QED
          BY <1>1, <2>3, <2>4, <3>1, <3>2, <3>5, <4>2
      <3> QED
        BY <1>1, <3>1, <3>3, <3>4, <3>5
    <2> QED
      BY <2>3, <2>5, <2>6
  <1>5. Bracket(1, n) /\ n - 1 \in Nat /\ 1 \in 1..n /\ n \in 1..n
    OBVIOUS
  <1>6. LastBy(cps, b, f[<<1, n>>])
    <2>1. n - 1 \notin T
      BY <1>4
    <2> QED
      BY <1>5, <2>1
  <1> QED
    BY <1>2, <1>6 DEF LastBy

\* According to cps the votes at the end of block b were v.
Says(cps, b, v) ==
    \/ v = 0 /\ \A i \in DOMAIN cps : cps[i].fromBlock > b
    \/ \E i \in DOMAIN cps : LastBy(cps, b, i) /\ cps[i].votes = v

\* They say one thing only,
LEMMA SaysOnce ==
    ASSUME NEW cps \in Seq(Checkpoint), NEW b \in Nat, NEW v, NEW w,
           Says(cps, b, v), Says(cps, b, w)
    PROVE  v = w
  <1>1. \A i \in DOMAIN cps : i \in Int /\ cps[i].fromBlock \in Nat
    <2>1. DOMAIN cps \subseteq Int /\ \A i \in DOMAIN cps : cps[i] \in Checkpoint
      OBVIOUS
    <2> QED
      BY <2>1 DEF Checkpoint
  <1>2. \A i, j \in DOMAIN cps : LastBy(cps, b, i) /\ LastBy(cps, b, j) => i = j
    BY <1>1 DEF LastBy
  <1> QED
    BY <1>1, <1>2 DEF Says, LastBy

\* and getPriorVotes returns it.
LEMMA PriorVotesSaid ==
    ASSUME TypeOK, NEW a \in Accounts, InOrder(checkpoints[a]), NEW b \in Nat
    PROVE  Says(checkpoints[a], b, PriorVotes(a, b))
  <1> DEFINE cps == checkpoints[a]
             n == Len(cps)
  <1>1. cps \in Seq(Checkpoint) /\ n \in Nat /\ DOMAIN cps = 1..n
    BY DEF TypeOK
  <1>2. \A i \in 1..n : cps[i].fromBlock \in Nat
    <2>1. \A i \in 1..n : cps[i] \in Checkpoint
      BY <1>1
    <2> QED
      BY <2>1 DEF Checkpoint
  <1>3. PriorVotes(a, b) = IF cps = << >> THEN 0
                           ELSE IF cps[n].fromBlock <= b THEN cps[n].votes
                           ELSE IF cps[1].fromBlock > b THEN 0
                           ELSE SearchPrior(cps, b)
    BY DEF PriorVotes
  <1>4. InOrder(cps)
    OBVIOUS
  <1>5. cps = << >> <=> n = 0
    BY <1>1
  <1> SUFFICES Says(cps, b, PriorVotes(a, b))
    OBVIOUS
  <1> HIDE DEF cps, n
  <1>6. CASE n = 0
    BY <1>1, <1>3, <1>5, <1>6 DEF Says
  <1>7. CASE n # 0 /\ cps[n].fromBlock <= b
    BY <1>1, <1>3, <1>5, <1>7 DEF Says, LastBy
  <1>8. CASE n # 0 /\ ~(cps[n].fromBlock <= b) /\ cps[1].fromBlock > b
    <2>1. \A i \in 1..n : cps[i].fromBlock > b
      BY <1>1, <1>2, <1>4, <1>8 DEF InOrder
    <2> QED
      BY <1>1, <1>3, <1>5, <1>8, <2>1 DEF Says
  <1>9. CASE n # 0 /\ ~(cps[n].fromBlock <= b) /\ ~(cps[1].fromBlock > b)
    <2>1. cps[1].fromBlock <= b
      BY <1>1, <1>2, <1>9
    <2>2. \E i \in DOMAIN cps : LastBy(cps, b, i) /\ SearchPrior(cps, b) = cps[i].votes
      BY <1>1, <1>4, <1>9, <2>1, SearchRight DEF n
    <2> QED
      BY <1>3, <1>5, <1>9, <2>2 DEF Says
  <1> QED
    BY <1>6, <1>7, <1>8, <1>9

-----------------------------------------------------------------------------
(* What the checkpoints keep of the past.                                  *)

\* One checkpoint for each block in which the votes of an account changed.
OrderedSoFar(a) ==
    /\ InOrder(checkpoints[a])
    /\ \A i \in DOMAIN checkpoints[a] : checkpoints[a][i].fromBlock <= block

\* The checkpoints say of every past block what held when it ended.
Remembered ==
    \A a \in Accounts : /\ OrderedSoFar(a)
                        /\ \A b \in 1..(block - 1) : Says(checkpoints[a], b, history[b][a])

\* A checkpoint written now is the last, and leaves what is said of the past.
LEMMA WriteRemembers ==
    ASSUME TypeOK, NEW a \in Accounts, OrderedSoFar(a), NEW votes, NEW cps,
           cps = WriteCheckpoint(a, votes)
    PROVE  /\ InOrder(cps)
           /\ \A i \in DOMAIN cps : cps[i].fromBlock <= block
           /\ \A b \in 1..(block - 1) : \A v : Says(checkpoints[a], b, v) => Says(cps, b, v)
  <1> DEFINE old == checkpoints[a]
             n == Len(old)
             new == [fromBlock |-> block, votes |-> votes]
  <1>1. old \in Seq(Checkpoint) /\ n \in Nat /\ DOMAIN old = 1..n /\ block \in Nat
    BY DEF TypeOK
  <1>2. \A i \in 1..n : old[i].fromBlock \in Nat /\ old[i].fromBlock <= block
    <2>1. \A i \in 1..n : old[i] \in Checkpoint
      BY <1>1
    <2> QED
      BY <1>1, <2>1 DEF Checkpoint, OrderedSoFar
  <1>3. \A i, j \in 1..n : i < j => old[i].fromBlock < old[j].fromBlock
    BY <1>1 DEF OrderedSoFar, InOrder
  <1>4. new.fromBlock = block
    OBVIOUS
  <1>5. cps = IF old # << >> /\ old[n].fromBlock = block
              THEN [old EXCEPT ![n] = new] ELSE Append(old, new)
    BY DEF WriteCheckpoint
  <1> SUFFICES /\ InOrder(cps)
               /\ \A i \in DOMAIN cps : cps[i].fromBlock <= block
               /\ \A b \in 1..(block - 1) : \A v : Says(old, b, v) => Says(cps, b, v)
    OBVIOUS
  <1> HIDE DEF old, n, new
  <1>6. CASE old # << >> /\ old[n].fromBlock = block
    <2>1. n \in 1..n
      BY <1>1, <1>6 DEF n
    <2>2. cps = [old EXCEPT ![n] = new]
      BY <1>5, <1>6
    <2>3. DOMAIN cps = 1..n /\ cps[n] = new /\ \A i \in 1..n : i # n => cps[i] = old[i]
      BY <1>1, <2>1, <2>2
    <2>4. \A i \in 1..n : cps[i].fromBlock = old[i].fromBlock
      BY <1>4, <1>6, <2>3
    <2>5. InOrder(cps) /\ \A i \in DOMAIN cps : cps[i].fromBlock <= block
      BY <1>2, <1>3, <2>3, <2>4 DEF InOrder
    <2>6. ASSUME NEW b \in 1..(block - 1), NEW v, Says(old, b, v)
          PROVE  Says(cps, b, v)
      <3>1. ~(old[n].fromBlock <= b)
        BY <1>1, <1>6
      <3>2. \A i : LastBy(old, b, i) => LastBy(cps, b, i) /\ cps[i] = old[i]
        BY <1>1, <2>3, <2>4, <3>1 DEF LastBy
      <3> QED
        BY <1>1, <2>3, <2>4, <2>6, <3>2 DEF Says
    <2> QED
      BY <2>5, <2>6
  <1>7. CASE ~(old # << >> /\ old[n].fromBlock = block)
    <2>1. cps = Append(old, new)
      BY <1>5, <1>7
    <2>2. /\ DOMAIN cps = 1..(n + 1) /\ cps[n + 1] = new
          /\ \A i \in 1..n : cps[i] = old[i]
      BY <1>1, <2>1 DEF n
    <2>3. \A i \in 1..n : old[i].fromBlock < block
      <3>1. CASE n = 0
        BY <3>1
      <3>2. CASE n # 0
        <4>1. n \in 1..n /\ old # << >>
          BY <1>1, <3>2 DEF n
        <4>2. old[n].fromBlock < block
          BY <1>1, <1>2, <1>7, <4>1
        <4> QED
          BY <1>1, <1>2, <1>3, <4>1, <4>2
      <3> QED
        BY <3>1, <3>2
    <2>4. \A i \in 1..(n + 1) : i \in 1..n \/ i = n + 1
      BY <1>1
    <2>5. InOrder(cps) /\ \A i \in DOMAIN cps : cps[i].fromBlock <= block
      BY <1>1, <1>2, <1>3, <1>4, <2>2, <2>3, <2>4 DEF InOrder
    <2>6. ASSUME NEW b \in 1..(block - 1), NEW v, Says(old, b, v)
          PROVE  Says(cps, b, v)
      <3>1. cps[n + 1].fromBlock > b
        BY <1>1, <1>4, <2>2
      <3>2. \A i : LastBy(old, b, i) => LastBy(cps, b, i) /\ cps[i] = old[i]
        BY <1>1, <2>2, <2>4, <3>1 DEF LastBy
      <3> QED
        BY <1>1, <2>2, <2>4, <2>6, <3>1, <3>2 DEF Says
    <2> QED
      BY <2>5, <2>6
  <1> QED
    BY <1>6, <1>7

\* _moveDelegates writes no checkpoint in another way.
LEMMA MovedWrites ==
    ASSUME TypeOK, NEW src, NEW dst, NEW amount, MoveDelegates(src, dst, amount),
           NEW a \in Accounts
    PROVE  \/ checkpoints'[a] = checkpoints[a]
           \/ \E votes : checkpoints'[a] = WriteCheckpoint(a, votes)
  BY DEF MoveDelegates

\* So no call that moves votes changes the past.
LEMMA MovedRemembers ==
    ASSUME TypeOK, Remembered, NEW src, NEW dst, NEW amount,
           MoveDelegates(src, dst, amount), UNCHANGED <<block, history>>
    PROVE  Remembered'
  <1> SUFFICES ASSUME NEW a \in Accounts
               PROVE  /\ InOrder(checkpoints'[a])
                      /\ \A i \in DOMAIN checkpoints'[a] :
                             checkpoints'[a][i].fromBlock <= block
                      /\ \A b \in 1..(block - 1) : Says(checkpoints'[a], b, history[b][a])
    BY DEF Remembered, OrderedSoFar
  <1>1. OrderedSoFar(a) /\ \A b \in 1..(block - 1) : Says(checkpoints[a], b, history[b][a])
    BY DEF Remembered
  <1>2. CASE checkpoints'[a] = checkpoints[a]
    BY <1>1, <1>2 DEF OrderedSoFar
  <1>3. CASE \E votes : checkpoints'[a] = WriteCheckpoint(a, votes)
    BY <1>1, <1>3, WriteRemembers
  <1> QED
    BY <1>2, <1>3, MovedWrites

\* When a block ends, its last checkpoints are what is remembered of it.
LEMMA BlockRemembers ==
    ASSUME TypeOK, Remembered, NextBlock
    PROVE  Remembered'
  <1>1. /\ block \in Nat /\ block' = block + 1 /\ checkpoints' = checkpoints
        /\ history' = Append(history, [a \in Accounts |-> CurrentVotes(a)])
        /\ history \in Seq([Accounts -> Nat]) /\ Len(history) = block - 1
    BY DEF NextBlock, TypeOK
  <1>2. /\ \A b \in 1..(block - 1) : history'[b] = history[b]
        /\ history'[block] = [a \in Accounts |-> CurrentVotes(a)]
    <2>1. [a \in Accounts |-> CurrentVotes(a)] \in [Accounts -> Nat]
      BY VotesNatural
    <2> HIDE DEF CurrentVotes
    <2> QED
      BY <1>1, <2>1
  <1> SUFFICES ASSUME NEW a \in Accounts
               PROVE  /\ InOrder(checkpoints[a])
                      /\ \A i \in DOMAIN checkpoints[a] :
                             checkpoints[a][i].fromBlock <= block + 1
                      /\ \A b \in 1..block : Says(checkpoints[a], b, history'[b][a])
    BY <1>1 DEF Remembered, OrderedSoFar
  <1> DEFINE cps == checkpoints[a]
             n == Len(cps)
  <1>3. cps \in Seq(Checkpoint) /\ n \in Nat /\ DOMAIN cps = 1..n /\ (cps = << >> <=> n = 0)
    BY DEF TypeOK
  <1>4. /\ InOrder(cps) /\ \A i \in DOMAIN cps : cps[i].fromBlock <= block
        /\ \A b \in 1..(block - 1) : Says(cps, b, history[b][a])
    BY DEF Remembered, OrderedSoFar
  <1>5. CurrentVotes(a) = IF cps = << >> THEN 0 ELSE cps[n].votes
    BY DEF CurrentVotes
  <1> HIDE DEF cps, n
  <1>6. \A i \in 1..n : cps[i].fromBlock \in Nat
    <2>1. \A i \in 1..n : cps[i] \in Checkpoint
      BY <1>3 DEF n
    <2> QED
      BY <2>1 DEF Checkpoint
  <1>7. Says(cps, block, CurrentVotes(a))
    <2>1. CASE n = 0
      BY <1>3, <1>5, <2>1 DEF Says
    <2>2. CASE n # 0
      <3>1. LastBy(cps, block, n)
        BY <1>3, <1>4, <2>2 DEF LastBy
      <3> QED
        BY <1>3, <1>5, <2>2, <3>1 DEF Says, LastBy
    <2> QED
      BY <2>1, <2>2
  <1>8. \A b \in 1..block : b \in 1..(block - 1) \/ b = block
    BY <1>1
  <1>9. \A b \in 1..block : Says(cps, b, history'[b][a])
    BY <1>2, <1>4, <1>7, <1>8
  <1>10. \A i \in DOMAIN cps : cps[i].fromBlock <= block + 1
    BY <1>1, <1>3, <1>4, <1>6
  <1> QED
    BY <1>4, <1>9, <1>10 DEF cps

-----------------------------------------------------------------------------
(* The invariant.                                                          *)

\* A step that leaves the nouns and the votes alone keeps the counts equal.
LEMMA CountsKept ==
    ASSUME NEW d \in Accounts, UNCHANGED <<nounOwner, delegateOf, checkpoints>>
    PROVE  CurrentVotes(d)' = CurrentVotes(d) /\ Represented(d)' = Represented(d)
  BY DEF CurrentVotes, Represented, Delegates, Minted

\* What a call does to the votes and to the nouns they stand for, put together: the
\* two parts of the invariant about votes survive it.
LEMMA VotesSurvive ==
    ASSUME IInv,
           \A d \in Accounts :
               /\ CurrentVotes(d)' \in Int /\ Cardinality(Represented(d)') \in Int
               /\ CurrentVotes(d)' - CurrentVotes(d) <=
                      Cardinality(Represented(d)') - Cardinality(Represented(d))
               /\ ~disowned' => CurrentVotes(d)' - CurrentVotes(d) =
                      Cardinality(Represented(d)') - Cardinality(Represented(d)),
           disowned => disowned'
    PROVE  NoVoteFromNowhere' /\ NoVoteLost'
  <1>1. \A d \in Accounts : CurrentVotes(d) \in Nat /\ Cardinality(Represented(d)) \in Nat
    BY VotesNatural, CountsFinite DEF IInv
  <1>2. ASSUME NEW d \in Accounts
        PROVE  /\ CurrentVotes(d)' <= Cardinality(Represented(d)')
               /\ ~disowned' => CurrentVotes(d)' = Cardinality(Represented(d)')
    <2>1. /\ CurrentVotes(d) <= Cardinality(Represented(d))
          /\ ~disowned => CurrentVotes(d) = Cardinality(Represented(d))
      BY DEF IInv, NoVoteFromNowhere, NoVoteLost, VotesFollowDelegates
    <2> QED
      BY <1>1, <2>1
  <1> QED
    BY <1>2 DEF NoVoteFromNowhere, NoVoteLost, VotesFollowDelegates

\* At the start there are no nouns and no votes.
LEMMA InitInv == Init => IInv
  <1> SUFFICES ASSUME Init PROVE IInv
    OBVIOUS
  <1>1. TypeOK
    BY VotesAssumption DEF Init, TypeOK, Signature
  <1>2. \A d \in Accounts : CurrentVotes(d) = 0 /\ Represented(d) = {}
    BY DEF Init, CurrentVotes, Represented, Minted
  <1>3. NoVoteFromNowhere /\ NoVoteLost
    BY <1>2, FS_EmptySet DEF NoVoteFromNowhere, NoVoteLost, VotesFollowDelegates
  <1> QED
    BY <1>1, <1>3 DEF IInv, Init, NoReplay

\* Every call keeps the types.
LEMMA NextTyped == ASSUME TypeOK, Next PROVE TypeOK'
  <1>0. \A a \in Accounts : CurrentVotes(a) \in Nat /\ Delegates(a) \in Accounts
    BY VotesNatural DEF Delegates, TypeOK, Addresses
  <1>1. ASSUME NEW to \in Accounts, Mint(to) PROVE TypeOK'
    <2>1. checkpoints' \in [Accounts -> Seq(Checkpoint)]
      BY <1>0, <1>1, VotesMoved DEF Mint, Addresses
    <2>2. nounOwner' \in Seq(Addresses) /\ Len(nounOwner') <= MaxNouns
      BY <1>1, VotesAssumption DEF Mint, TypeOK, Addresses
    <2> QED
      BY <1>1, <2>1, <2>2 DEF Mint, TypeOK, Addresses
  <1>2. ASSUME NEW n \in Minted, NEW to \in Addresses, Transfer(n, to) PROVE TypeOK'
    <2>1. nounOwner[n] \in Accounts /\ Delegates(to) \in Addresses
      BY <1>0, <1>2 DEF Transfer, TypeOK, Minted, Delegates, Addresses
    <2>2. checkpoints' \in [Accounts -> Seq(Checkpoint)]
      BY <1>0, <1>2, <2>1, VotesMoved DEF Transfer, Addresses
    <2>3. nounOwner' \in Seq(Addresses) /\ Len(nounOwner') = Len(nounOwner)
      BY <1>2 DEF Transfer, TypeOK, Minted, Addresses
    <2> QED
      BY <1>2, <2>2, <2>3 DEF Transfer, TypeOK, Addresses
  <1>3. ASSUME NEW delegator \in Accounts, NEW delegatee \in Addresses,
               SetDelegate(delegator, delegatee)
        PROVE  /\ checkpoints' \in [Accounts -> Seq(Checkpoint)]
               /\ delegateOf' \in [Accounts -> Accounts \cup {Zero}]
    <2>1. Cardinality(Owned(delegator)) \in Nat
      BY CountsFinite
    <2>2. checkpoints' \in [Accounts -> Seq(Checkpoint)]
      BY <1>0, <1>3, <2>1, VotesMoved DEF SetDelegate, Addresses
    <2> QED
      BY <1>3, <2>2 DEF SetDelegate, TypeOK, Addresses
  <1>4. ASSUME NEW delegator \in Accounts, NEW delegatee \in Addresses,
               Delegate(delegator, delegatee)
        PROVE  TypeOK'
    BY <1>3, <1>4 DEF Delegate, TypeOK, Addresses
  <1>5. ASSUME NEW signature \in Signature, Sign(signature) PROVE TypeOK'
    BY <1>5 DEF Sign, TypeOK
  <1>6. ASSUME NEW signature \in signatures, DelegateBySig(signature) PROVE TypeOK'
    <2>1. /\ signature \in Signature /\ signature.signatory \in Accounts
          /\ signature.delegatee \in Addresses
      BY VotesAssumption DEF TypeOK, Signature, Addresses
    <2>2. /\ checkpoints' \in [Accounts -> Seq(Checkpoint)]
          /\ delegateOf' \in [Accounts -> Accounts \cup {Zero}]
      BY <1>3, <1>6, <2>1 DEF DelegateBySig
    <2>3. nonces' \in [Accounts -> Nat]
      BY <1>6, <2>1 DEF DelegateBySig, NoncesAfter, TypeOK
    <2> QED
      BY <1>6, <2>1, <2>2, <2>3 DEF DelegateBySig, TypeOK
  <1>7. CASE NextBlock
    <2>1. [a \in Accounts |-> CurrentVotes(a)] \in [Accounts -> Nat]
      BY <1>0
    <2>2. history' \in Seq([Accounts -> Nat]) /\ Len(history') = Len(history) + 1
      BY <1>7, <2>1 DEF NextBlock, TypeOK
    <2> QED
      BY <1>7, <2>2 DEF NextBlock, TypeOK
  <1> QED
    BY <1>1, <1>2, <1>4, <1>5, <1>6, <1>7 DEF Next, Addresses

\* Every call keeps the rest, and so does doing nothing.
LEMMA NextInv == IInv /\ [Next]_vars => IInv'
  <1> SUFFICES ASSUME IInv, [Next]_vars PROVE IInv'
    OBVIOUS
  <1>1. ASSUME NEW to \in Accounts, Mint(to) PROVE IInv'
    <2>1. TypeOK'
      BY <1>1, NextTyped DEF IInv, Next
    <2>2. NoVoteFromNowhere' /\ NoVoteLost'
      <3>1. disowned' = disowned
        BY <1>1 DEF Mint
      <3>2. \A d \in Accounts :
                /\ CurrentVotes(d)' \in Int /\ Cardinality(Represented(d)') \in Int
                /\ CurrentVotes(d)' - CurrentVotes(d) =
                       Cardinality(Represented(d)') - Cardinality(Represented(d))
        BY <1>1, <2>1, MintCounts DEF IInv
      <3> QED
        BY <3>1, <3>2, VotesSurvive, VotesNatural, CountsFinite DEF IInv
    <2>3. NoReplay'
      BY <1>1 DEF Mint, IInv, NoReplay
    <2> QED
      BY <2>1, <2>2, <2>3 DEF IInv
  <1>2. ASSUME NEW n \in Minted, NEW to \in Addresses, Transfer(n, to) PROVE IInv'
    <2>1. TypeOK'
      BY <1>2, NextTyped DEF IInv, Next, Addresses
    <2>2. NoVoteFromNowhere' /\ NoVoteLost'
      <3>1. disowned' = disowned
        BY <1>2 DEF Transfer
      <3>2. \A d \in Accounts :
                /\ CurrentVotes(d)' \in Int /\ Cardinality(Represented(d)') \in Int
                /\ CurrentVotes(d)' - CurrentVotes(d) =
                       Cardinality(Represented(d)') - Cardinality(Represented(d))
        BY <1>2, <2>1, TransferCounts DEF IInv
      <3> QED
        BY <3>1, <3>2, VotesSurvive, VotesNatural, CountsFinite DEF IInv
    <2>3. NoReplay'
      BY <1>2 DEF Transfer, IInv, NoReplay
    <2> QED
      BY <2>1, <2>2, <2>3 DEF IInv
  <1>3. ASSUME NEW delegator \in Accounts, NEW delegatee \in Addresses,
               Delegate(delegator, delegatee)
        PROVE  IInv'
    <2>1. TypeOK'
      BY <1>3, NextTyped DEF IInv, Next, Addresses
    <2> DEFINE to == IF delegatee = Zero THEN delegator ELSE delegatee
    <2>2. NoVoteFromNowhere' /\ NoVoteLost'
      <3>1. disowned' = disowned /\ nounOwner' = nounOwner
        BY <1>3 DEF Delegate
      <3>2. SetDelegate(delegator, to) /\ to \in Addresses /\ to # Zero
        BY <1>3, VotesAssumption DEF Delegate, Addresses
      <3> HIDE DEF to
      <3>3. \A d \in Accounts :
                /\ CurrentVotes(d)' \in Int /\ Cardinality(Represented(d)') \in Int
                /\ CurrentVotes(d)' - CurrentVotes(d) =
                       Cardinality(Represented(d)') - Cardinality(Represented(d))
        BY <2>1, <3>1, <3>2, DelegationCounts DEF IInv
      <3> QED
        BY <3>1, <3>3, VotesSurvive, VotesNatural, CountsFinite DEF IInv
    <2>3. NoReplay'
      BY <1>3 DEF Delegate, IInv, NoReplay
    <2> QED
      BY <2>1, <2>2, <2>3 DEF IInv
  <1>4. ASSUME NEW signature \in Signature, Sign(signature) PROVE IInv'
    <2>1. TypeOK'
      BY <1>4, NextTyped DEF IInv, Next
    <2>2. NoVoteFromNowhere' /\ NoVoteLost'
      BY <1>4, CountsKept
         DEF Sign, IInv, NoVoteFromNowhere, NoVoteLost, VotesFollowDelegates
    <2>3. NoReplay'
      BY <1>4 DEF Sign, IInv, NoReplay
    <2> QED
      BY <2>1, <2>2, <2>3 DEF IInv
  <1>5. ASSUME NEW signature \in signatures, DelegateBySig(signature) PROVE IInv'
    <2>1. TypeOK'
      BY <1>5, NextTyped DEF IInv, Next
    <2>2. /\ signature \in Signature /\ signature.signatory \in Accounts
          /\ signature.delegatee \in Addresses
      BY VotesAssumption DEF IInv, TypeOK, Signature, Addresses
    <2>3. NoVoteFromNowhere' /\ NoVoteLost'
      <3>1. /\ nounOwner' = nounOwner
            /\ disowned => disowned'
            /\ ~disowned' => signature.delegatee # Zero
            /\ SetDelegate(signature.signatory, signature.delegatee)
        BY <1>5 DEF DelegateBySig
      <3>2. \A d \in Accounts :
                /\ CurrentVotes(d)' \in Int /\ Cardinality(Represented(d)') \in Int
                /\ CurrentVotes(d)' - CurrentVotes(d) <=
                       Cardinality(Represented(d)') - Cardinality(Represented(d))
                /\ ~disowned' => CurrentVotes(d)' - CurrentVotes(d) =
                       Cardinality(Represented(d)') - Cardinality(Represented(d))
        BY <2>1, <2>2, <3>1, DelegationCounts DEF IInv
      <3> QED
        BY <3>1, <3>2, VotesSurvive
    <2>4. NoReplay'
      <3>1. /\ nonces \in [Accounts -> Nat]
            /\ nonces' = [nonces EXCEPT ![signature.signatory] =
                              nonces[signature.signatory] + 1]
            /\ nonces[signature.signatory] = signature.nonce
            /\ applied' = applied \cup {signature}
        BY <1>5 DEF DelegateBySig, NoncesAfter, IInv, TypeOK
      <3>2. \A s \in applied : s.signatory \in Accounts /\ s.nonce \in Nat
        BY VotesAssumption DEF IInv, TypeOK, Signature
      <3> QED
        BY <2>2, <3>1, <3>2 DEF IInv, NoReplay
    <2> QED
      BY <2>1, <2>3, <2>4 DEF IInv
  <1>6. CASE NextBlock
    <2>1. TypeOK'
      BY <1>6, NextTyped DEF IInv, Next
    <2>2. NoVoteFromNowhere' /\ NoVoteLost'
      BY <1>6, CountsKept
         DEF NextBlock, IInv, NoVoteFromNowhere, NoVoteLost, VotesFollowDelegates
    <2>3. NoReplay'
      BY <1>6 DEF NextBlock, IInv, NoReplay
    <2> QED
      BY <2>1, <2>2, <2>3 DEF IInv
  <1>7. CASE UNCHANGED vars
    <2>1. NoVoteFromNowhere' /\ NoVoteLost'
      BY <1>7, CountsKept
         DEF vars, chainVars, IInv, NoVoteFromNowhere, NoVoteLost, VotesFollowDelegates
    <2> QED
      BY <1>7, <2>1 DEF vars, chainVars, IInv, TypeOK, NoReplay
  <1> QED
    BY <1>1, <1>2, <1>3, <1>4, <1>5, <1>6, <1>7 DEF Next, Addresses

\* The invariant holds in every state.
LEMMA Invariant == Spec => []IInv
  BY InitInv, NextInv, PTL DEF Spec

\* Every call leaves the past as it is remembered: those that move votes write the
\* last checkpoint only, and the others none.
LEMMA NextRemembers == TypeOK /\ Remembered /\ [Next]_vars => Remembered'
  <1> SUFFICES ASSUME TypeOK, Remembered, [Next]_vars PROVE Remembered'
    OBVIOUS
  <1>1. ASSUME UNCHANGED <<checkpoints, block, history>> PROVE Remembered'
    BY <1>1 DEF Remembered, OrderedSoFar
  <1>2. ASSUME NEW to \in Accounts, Mint(to) PROVE Remembered'
    BY <1>2, MovedRemembers DEF Mint
  <1>3. ASSUME NEW n \in Minted, NEW to \in Addresses, Transfer(n, to) PROVE Remembered'
    BY <1>3, MovedRemembers DEF Transfer
  <1>4. ASSUME NEW delegator \in Accounts, NEW delegatee \in Addresses,
               Delegate(delegator, delegatee)
        PROVE  Remembered'
    BY <1>4, MovedRemembers DEF Delegate, SetDelegate
  <1>5. ASSUME NEW signature \in Signature, Sign(signature) PROVE Remembered'
    BY <1>1, <1>5 DEF Sign
  <1>6. ASSUME NEW signature \in signatures, DelegateBySig(signature) PROVE Remembered'
    BY <1>6, MovedRemembers DEF DelegateBySig, SetDelegate
  <1>7. CASE NextBlock
    BY <1>7, BlockRemembers
  <1>8. CASE UNCHANGED vars
    BY <1>1, <1>8 DEF vars, chainVars
  <1> QED
    BY <1>2, <1>3, <1>4, <1>5, <1>6, <1>7, <1>8 DEF Next, Addresses

\* The checkpoints remember in every state.
LEMMA AlwaysRemembered == Spec => []Remembered
  <1>1. Init => Remembered
    BY DEF Init, Remembered, OrderedSoFar, InOrder
  <1>2. IInv => TypeOK
    BY DEF IInv
  <1> QED
    BY <1>1, <1>2, Invariant, NextRemembers, PTL DEF Spec

\* What is remembered is what the search finds.
LEMMA RememberedIsExact == TypeOK /\ Remembered => PriorVotesExact
  <1> SUFFICES ASSUME TypeOK, Remembered, NEW a \in Accounts, NEW b \in 1..(block - 1)
               PROVE  PriorVotes(a, b) = history[b][a]
    BY DEF PriorVotesExact
  <1>1. b \in Nat /\ checkpoints[a] \in Seq(Checkpoint)
    BY DEF TypeOK
  <1>2. InOrder(checkpoints[a]) /\ Says(checkpoints[a], b, history[b][a])
    BY DEF Remembered, OrderedSoFar
  <1>3. Says(checkpoints[a], b, PriorVotes(a, b))
    BY <1>1, <1>2, PriorVotesSaid
  <1> QED
    BY <1>1, <1>2, <1>3, SaysOnce

-----------------------------------------------------------------------------
(* The results.                                                            *)

\* Type correctness: the votes in every checkpoint are natural numbers, so that the
\* subtraction of _moveDelegates never goes below zero.
THEOREM TypeCorrect == Spec => []TypeOK
  BY Invariant, PTL DEF IInv

\* Delegations, signed or not, transfers and burns never give anybody more votes than
\* there are nouns of owners who delegate to him.
THEOREM VotesAreNouns == Spec => []NoVoteFromNowhere
  BY Invariant, PTL DEF IInv

\* Until a signed delegation to the zero address is applied, every noun is one vote of
\* the account that delegates() names.
THEOREM VotesStay == Spec => []NoVoteLost
  BY Invariant, PTL DEF IInv

\* getPriorVotes answers for every finished block with the votes that held at its end,
\* however many checkpoints were written since.
THEOREM PastIsExact == Spec => []PriorVotesExact
  <1>1. IInv => TypeOK
    BY DEF IInv
  <1> QED
    BY <1>1, Invariant, AlwaysRemembered, RememberedIsExact, PTL

\* delegateBySig uses up the nonce of every signature it applies.
THEOREM SignatureOnce == Spec => []NoReplay
  BY Invariant, PTL DEF IInv
=============================================================================
