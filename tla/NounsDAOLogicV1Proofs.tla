----------------------- MODULE NounsDAOLogicV1Proofs -----------------------
(***************************************************************************)
(* What holds of NounsDAOLogicV1 for all accounts, calls, limits and       *)
(* bounds.                                                                 *)
(***************************************************************************)
EXTENDS NounsDAOLogicV1, FiniteSetTheorems, WellFoundedInduction, TLAPS

-----------------------------------------------------------------------------
(* The smallest and the largest.                                           *)

\* In a family of subsets of a finite set, one has no other of the family within it.
LEMMA SmallestSet ==
    ASSUME NEW S, IsFiniteSet(S), NEW T, T \subseteq SUBSET S, T # {}
    PROVE  \E m \in T : \A k \in T : k \subseteq m => k = m
  <1>1. IsWellFoundedOn(StrictSubsetOrdering(S), FiniteSubsetsOf(S))
    BY FS_StrictSubsetOrderingWellFounded
  <1>2. FiniteSubsetsOf(S) = SUBSET S
    BY FS_FiniteSubsetsOfFinite
  <1>3. PICK m \in T : \A k \in T : ~(<<k, m>> \in StrictSubsetOrdering(S))
    BY <1>1, <1>2, WFMin
  <1> QED
    BY <1>3 DEF StrictSubsetOrdering

\* A set of natural numbers has a smallest member.
LEMMA SmallestExists ==
    ASSUME NEW S, S \subseteq Nat, S # {}
    PROVE  Min(S) \in S /\ \A y \in S : Min(S) <= y
  <1> DEFINE R == OpToRel(<, Nat)
  <1>1. IsWellFoundedOn(R, Nat)
    BY NatLessThanWellFounded
  <1>2. PICK m \in S : \A k \in S : ~(<<k, m>> \in R)
    <2> HIDE DEF R
    <2> QED
      BY <1>1, WFMin
  <1>3. \A k \in S : <<k, m>> \in R <=> k < m
    BY DEF OpToRel
  <1> HIDE DEF R
  <1>4. \A k \in S : ~(k < m)
    BY <1>2, <1>3
  <1>5. \A k \in S : m <= k
    <2>1. \A k \in S : k \in Nat /\ m \in Nat
      OBVIOUS
    <2> QED
      BY <1>4, <2>1
  <1> QED
    BY <1>5 DEF Min

\* A finite one has a largest: take, of the sets of its members from one of them on, a
\* smallest.
LEMMA LargestExists ==
    ASSUME NEW S, IsFiniteSet(S), S # {}, \A y \in S : y \in Nat
    PROVE  Max(S) \in S /\ \A y \in S : Max(S) >= y
  <1> DEFINE from(i) == {j \in S : j >= i}
             T == {from(i) : i \in S}
  <1>1. T \subseteq SUBSET S /\ T # {}
    <2>1. PICK i \in S : TRUE
      OBVIOUS
    <2>2. from(i) \in T
      OBVIOUS
    <2> QED
      BY <2>2
  <1>2. PICK x \in T : \A y \in T : y \subseteq x => y = x
    <2> HIDE DEF T, from
    <2> QED
      BY <1>1, SmallestSet
  <1>3. PICK i \in S : x = from(i)
    OBVIOUS
  <1>4. ASSUME NEW j \in S, j > i PROVE FALSE
    <2>1. i \in Nat /\ j \in Nat
      OBVIOUS
    <2>2. from(j) \subseteq from(i)
      <3>1. ASSUME NEW k \in S, k >= j PROVE k >= i
        <4>1. k \in Nat
          OBVIOUS
        <4> HIDE DEF T
        <4> QED
          BY <1>4, <2>1, <3>1, <4>1
      <3> HIDE DEF T
      <3> QED
        BY <3>1
    <2>3. i \in from(i) /\ i \notin from(j)
      BY <1>4, <2>1
    <2>4. from(j) \in T
      OBVIOUS
    <2> HIDE DEF T, from
    <2> QED
      BY <1>2, <1>3, <2>2, <2>3, <2>4
  <1>5. \A y \in S : i >= y
    <2>1. \A y \in S : i \in Nat /\ y \in Nat
      OBVIOUS
    <2> HIDE DEF T, from
    <2> QED
      BY <1>4, <2>1
  <1> HIDE DEF T, from
  <1> QED
    BY <1>5 DEF Max

\* Of some positions of a sequence one is the last.
LEMMA LastExists ==
    ASSUME NEW n \in Nat, NEW S \in SUBSET (1..n), S # {}
    PROVE  Max(S) \in S
  <1>1. IsFiniteSet(S)
    <2>1. IsFiniteSet(1..n)
      BY FS_Interval
    <2> QED
      BY <2>1, FS_Subset
  <1>2. \A y \in S : y \in Nat
    OBVIOUS
  <1> QED
    BY <1>1, <1>2, LargestExists

-----------------------------------------------------------------------------
(* Sums over finite sets.                                                  *)

\* The sum of what f holds for the members of S, in the way that MapThenSumSet adds it
\* up: one member, and the sum of the others.
OneOf(s) == CHOOSE x \in s : TRUE
Added(f, g, s) == IF s = {} THEN 0 ELSE f[OneOf(s)] + g[s \ {OneOf(s)}]

Total(f, S) == MapThenSumSet(LAMBDA a : f[a], S)

\* The member taken is one.
LEMMA AnyIn ==
    ASSUME NEW s, s # {}
    PROVE  OneOf(s) \in s
  BY DEF OneOf

\* g holds the sums over the subsets of s.
Fits(f, s, g) == \A t \in SUBSET s : g[t] = Added(f, g, t)

\* There is only one such g, by its smallest exception.
LEMMA FitsAgree ==
    ASSUME NEW f, NEW S, IsFiniteSet(S), NEW g, NEW h,
           Fits(f, S, g), Fits(f, S, h)
    PROVE  g[S] = h[S]
  <1> DEFINE T == {s \in SUBSET S : g[s] # h[s]}
  <1>1. ASSUME T # {} PROVE FALSE
    <2>1. T \subseteq SUBSET S
      OBVIOUS
    <2>2. PICK m \in T : \A k \in T : k \subseteq m => k = m
      <3> HIDE DEF T
      <3> QED
        BY <1>1, <2>1, SmallestSet
    <2>3. m # {}
      BY <2>1 DEF Fits, Added
    <2> DEFINE r == m \ {OneOf(m)}
    <2>4. r \subseteq m /\ r # m /\ r \in SUBSET S
      BY <2>3, AnyIn
    <2> HIDE DEF r
    <2>5. g[r] = h[r]
      BY <2>2, <2>4
    <2>6. g[m] = f[OneOf(m)] + g[r] /\ h[m] = f[OneOf(m)] + h[r]
      BY <2>3, <2>1 DEF Fits, Added, r
    <2>7. g[m] # h[m]
      OBVIOUS
    <2> QED
      BY <2>5, <2>6, <2>7
  <1> QED
    BY <1>1

\* And there is one.
LEMMA FitExists ==
    ASSUME NEW f, NEW S, IsFiniteSet(S)
    PROVE  \E g : Fits(f, S, g)
  <1> DEFINE T == {s \in SUBSET S : ~ \E g : Fits(f, s, g)}
  <1>1. ASSUME T # {} PROVE FALSE
    <2>1. T \subseteq SUBSET S
      OBVIOUS
    <2>2. PICK m \in T : \A k \in T : k \subseteq m => k = m
      <3> HIDE DEF T
      <3> QED
        BY <1>1, <2>1, SmallestSet
    <2>3. \A s \in SUBSET m : s # m => \E g : Fits(f, s, g)
      BY <2>1, <2>2
    <2>4. m \in SUBSET S /\ IsFiniteSet(m) /\ ~ \E g : Fits(f, m, g)
      BY FS_Subset
    <2> HIDE DEF T
    <2> DEFINE G(s) == CHOOSE g : Fits(f, s, g)
               part == [s \in SUBSET m |-> G(s)[s]]
               h == [s \in SUBSET m |-> IF s = m THEN Added(f, part, m) ELSE part[s]]
    <2>5. \A s \in SUBSET m : s # m => Fits(f, s, G(s))
      BY <2>3
    <2>6. \A s \in SUBSET m : part[s] = G(s)[s]
      OBVIOUS
    <2> HIDE DEF G, part
    <2>7. \A s \in SUBSET m : h[s] = IF s = m THEN Added(f, part, m) ELSE part[s]
      OBVIOUS
    <2> HIDE DEF h
    <2>8. ASSUME NEW s \in SUBSET m PROVE h[s] = Added(f, h, s)
      <3>1. CASE s = {}
        <4>1. CASE s = m
          BY <2>7, <3>1, <4>1 DEF Added
        <4>2. CASE s # m
          <5>1. Fits(f, s, G(s))
            BY <2>5, <4>2
          <5>2. G(s)[s] = 0
            BY <3>1, <5>1 DEF Fits, Added
          <5> QED
            BY <2>6, <2>7, <3>1, <4>2, <5>2 DEF Added
        <4> QED
          BY <4>1, <4>2
      <3>2. CASE s # {}
        <4> DEFINE r == s \ {OneOf(s)}
        <4>1. r \in SUBSET m /\ r \in SUBSET s /\ r # m /\ r # s
          BY <3>2, AnyIn
        <4>2. h[r] = part[r] /\ part[r] = G(r)[r]
          BY <2>6, <2>7, <4>1
        <4>3. Added(f, h, s) = f[OneOf(s)] + part[r]
          BY <3>2, <4>2 DEF Added
        <4>4. CASE s = m
          BY <2>7, <3>2, <4>3, <4>4 DEF Added
        <4>5. CASE s # m
          <5>1. Fits(f, s, G(s)) /\ Fits(f, r, G(r))
            BY <2>5, <4>1, <4>5
          <5>2. IsFiniteSet(r) /\ Fits(f, r, G(s))
            BY <2>4, <4>1, <5>1, FS_Subset DEF Fits
          <5>3. G(s)[r] = G(r)[r]
            BY <5>1, <5>2, FitsAgree
          <5>4. G(s)[s] = f[OneOf(s)] + G(s)[r]
            BY <3>2, <5>1 DEF Fits, Added
          <5> QED
            BY <2>6, <2>7, <4>2, <4>3, <4>5, <5>3, <5>4
        <4> QED
          BY <4>4, <4>5
      <3> QED
        BY <3>1, <3>2
    <2>9. Fits(f, m, h)
      BY <2>8 DEF Fits
    <2> QED
      BY <2>4, <2>9
  <1>2. S \notin T
    BY <1>1
  <1> QED
    BY <1>2

\* So the function of which MapThenSumSet takes a value exists,
LEMMA FitDefined ==
    ASSUME NEW f, NEW S, IsFiniteSet(S)
    PROVE  \E g : g = [s \in SUBSET S |-> Added(f, g, s)]
  <1>1. PICK g : Fits(f, S, g)
    BY FitExists
  <1> DEFINE h == [s \in SUBSET S |-> g[s]]
  <1>2. \A s \in SUBSET S : h[s] = g[s]
    OBVIOUS
  <1>3. h = [s \in SUBSET S |-> h[s]]
    OBVIOUS
  <1> HIDE DEF h
  <1>4. \A s \in SUBSET S : h[s] = Added(f, h, s)
    BY <1>1, <1>2 DEF Fits, Added
  <1>5. h = [s \in SUBSET S |-> Added(f, h, s)]
    BY <1>3, <1>4
  <1> QED
    BY <1>5

\* (MapThenSumSet, expanded)
LEMMA TotalIs ==
    ASSUME NEW f, NEW S
    PROVE  Total(f, S) = (CHOOSE g : g = [s \in SUBSET S |-> Added(f, g, s)])[S]
  BY Zenon DEF Total, MapThenSumSet, MapThenFoldSet, Added, OneOf

\* and holds the sums.
LEMMA TotalFits ==
    ASSUME NEW f, NEW S, IsFiniteSet(S)
    PROVE  \E g : Fits(f, S, g) /\ Total(f, S) = g[S]
  <1> DEFINE F == CHOOSE g : g = [s \in SUBSET S |-> Added(f, g, s)]
  <1>1. F = [s \in SUBSET S |-> Added(f, F, s)]
    BY FitDefined
  <1>2. Total(f, S) = F[S]
    BY TotalIs
  <1> HIDE DEF F
  <1>3. \A s \in SUBSET S : F[s] = Added(f, F, s)
    BY <1>1
  <1> QED
    BY <1>2, <1>3 DEF Fits

\* Nothing sums to 0, and what is summed can be taken one member at a time.
LEMMA TotalStep ==
    ASSUME NEW f, NEW S, IsFiniteSet(S)
    PROVE  Total(f, S) = IF S = {} THEN 0 ELSE f[OneOf(S)] + Total(f, S \ {OneOf(S)})
  <1>1. PICK g : Fits(f, S, g) /\ Total(f, S) = g[S]
    BY TotalFits
  <1>2. CASE S = {}
    BY <1>1, <1>2 DEF Fits, Added
  <1>3. CASE S # {}
    <2> DEFINE r == S \ {OneOf(S)}
    <2>1. r \in SUBSET S /\ IsFiniteSet(r)
      BY FS_Subset
    <2>2. PICK h : Fits(f, r, h) /\ Total(f, r) = h[r]
      <3> HIDE DEF r
      <3> QED
        BY <2>1, TotalFits
    <2>3. Fits(f, r, g)
      BY <1>1, <2>1 DEF Fits
    <2>4. g[r] = h[r]
      <3> HIDE DEF r
      <3> QED
        BY <2>1, <2>2, <2>3, FitsAgree
    <2>5. g[S] = f[OneOf(S)] + g[r]
      BY <1>1, <1>3 DEF Fits, Added
    <2> QED
      BY <1>1, <1>3, <2>2, <2>4, <2>5
  <1> QED
    BY <1>2, <1>3

\* Natural numbers sum to one.
LEMMA TotalNat ==
    ASSUME NEW S, IsFiniteSet(S), NEW f, \A x \in S : f[x] \in Nat
    PROVE  Total(f, S) \in Nat
  <1> DEFINE T == {s \in SUBSET S : Total(f, s) \notin Nat}
  <1>1. ASSUME T # {} PROVE FALSE
    <2>1. T \subseteq SUBSET S
      OBVIOUS
    <2>2. PICK m \in T : \A k \in T : k \subseteq m => k = m
      <3> HIDE DEF T
      <3> QED
        BY <1>1, <2>1, SmallestSet
    <2>3. m \in SUBSET S /\ IsFiniteSet(m) /\ Total(f, m) \notin Nat
      BY FS_Subset
    <2>4. m # {}
      <3>1. Total(f, {}) = 0
        BY FS_EmptySet, TotalStep
      <3> QED
        BY <2>3, <3>1
    <2> DEFINE r == m \ {OneOf(m)}
    <2>5. r \in SUBSET S /\ r \subseteq m /\ r # m /\ OneOf(m) \in S
      BY <2>3, <2>4, AnyIn
    <2>6. Total(f, r) \in Nat
      <3> HIDE DEF r
      <3> QED
        BY <2>2, <2>5
    <2>7. Total(f, m) = f[OneOf(m)] + Total(f, r)
      BY <2>3, <2>4, TotalStep
    <2> HIDE DEF r, T
    <2> QED
      BY <2>3, <2>5, <2>6, <2>7
  <1>2. S \notin T
    BY <1>1
  <1> QED
    BY <1>2

\* OneOf member can be taken out of the sum first.
LEMMA TotalTake ==
    ASSUME NEW S, IsFiniteSet(S), NEW f, \A x \in S : f[x] \in Nat, NEW x \in S
    PROVE  Total(f, S) = f[x] + Total(f, S \ {x})
  <1> DEFINE T == {s \in SUBSET S : \E y \in s : Total(f, s) # f[y] + Total(f, s \ {y})}
  <1>1. ASSUME T # {} PROVE FALSE
    <2>1. T \subseteq SUBSET S
      OBVIOUS
    <2>2. PICK m \in T : \A k \in T : k \subseteq m => k = m
      <3> HIDE DEF T
      <3> QED
        BY <1>1, <2>1, SmallestSet
    <2>3. m \in SUBSET S /\ IsFiniteSet(m)
      BY FS_Subset
    <2>4. PICK y \in m : Total(f, m) # f[y] + Total(f, m \ {y})
      OBVIOUS
    <2>5. \A s \in SUBSET S : s \subseteq m /\ s # m =>
              \A z \in s : Total(f, s) = f[z] + Total(f, s \ {z})
      BY <2>2
    <2> HIDE DEF T
    <2> DEFINE a == OneOf(m)
    <2>6. a \in m
      BY <2>4, AnyIn
    <2>7. Total(f, m) = f[a] + Total(f, m \ {a})
      BY <2>3, <2>4, TotalStep
    <2> HIDE DEF a
    <2>8. a # y
      BY <2>4, <2>7
    <2>9. Total(f, m \ {a}) = f[y] + Total(f, (m \ {a}) \ {y})
      BY <2>3, <2>5, <2>6, <2>8
    <2>10. Total(f, m \ {y}) = f[a] + Total(f, (m \ {y}) \ {a})
      BY <2>3, <2>5, <2>6, <2>8
    <2>11. (m \ {y}) \ {a} = (m \ {a}) \ {y}
      OBVIOUS
    <2>12. Total(f, (m \ {a}) \ {y}) \in Nat /\ f[a] \in Nat /\ f[y] \in Nat
      <3>1. IsFiniteSet((m \ {a}) \ {y}) /\ (m \ {a}) \ {y} \in SUBSET S
        BY <2>3, FS_Subset
      <3> QED
        BY <3>1, <2>3, <2>6, TotalNat
    <2> QED
      BY <2>4, <2>7, <2>9, <2>10, <2>11, <2>12
  <1>2. S \notin T
    BY <1>1
  <1> QED
    BY <1>2

\* The sum depends on what f holds for the members, and on nothing else.
LEMMA TotalSame ==
    ASSUME NEW S, IsFiniteSet(S), NEW f, NEW g, \A x \in S : f[x] = g[x]
    PROVE  Total(f, S) = Total(g, S)
  <1> DEFINE T == {s \in SUBSET S : Total(f, s) # Total(g, s)}
  <1>1. ASSUME T # {} PROVE FALSE
    <2>1. T \subseteq SUBSET S
      OBVIOUS
    <2>2. PICK m \in T : \A k \in T : k \subseteq m => k = m
      <3> HIDE DEF T
      <3> QED
        BY <1>1, <2>1, SmallestSet
    <2>3. m \in SUBSET S /\ IsFiniteSet(m) /\ Total(f, m) # Total(g, m)
      BY FS_Subset
    <2>4. m # {}
      <3>1. Total(f, {}) = 0 /\ Total(g, {}) = 0
        BY FS_EmptySet, TotalStep
      <3> QED
        BY <2>3, <3>1
    <2> DEFINE r == m \ {OneOf(m)}
    <2>5. r \in SUBSET S /\ r \subseteq m /\ r # m /\ OneOf(m) \in S
      BY <2>3, <2>4, AnyIn
    <2>6. Total(f, r) = Total(g, r)
      <3> HIDE DEF r
      <3> QED
        BY <2>2, <2>5
    <2>7. Total(f, m) = f[OneOf(m)] + Total(f, r) /\ Total(g, m) = g[OneOf(m)] + Total(g, r)
      BY <2>3, <2>4, TotalStep
    <2> HIDE DEF r, T
    <2> QED
      BY <2>3, <2>5, <2>6, <2>7
  <1>2. S \notin T
    BY <1>1
  <1> QED
    BY <1>2

-----------------------------------------------------------------------------
(* Types.  The supply and the thresholds that follow from it are integers: *)
(* that the supply covers the votes is a fact about sums, left to TLC.     *)

TypedDAO ==
    /\ proposals \in Seq(Proposals) /\ Len(proposals) <= MaxProposals
    /\ latestProposalIds \in [Accounts -> 0..Len(proposals)]
    /\ \A f \in Fields : config[f] \in Limits[f]

TypedChain ==
    /\ power \in [Accounts -> Nat] /\ supply \in Int
    /\ block \in Nat \ {0} /\ time \in Nat /\ delay \in Delays
    /\ history \in Seq([Accounts -> Nat]) /\ Len(history) = block - 1

Typed == TypedDAO /\ TypedChain

\* What is needed of the assumptions and the types, in one place.
LEMMA Numbers ==
    ASSUME Typed
    PROVE  /\ block \in Nat /\ time \in Nat /\ delay \in Nat /\ delay > 0
           /\ GracePeriod \in Nat /\ GracePeriod > 0
           /\ config["votingDelay"] \in Nat
           /\ config["votingPeriod"] \in Nat /\ config["votingPeriod"] > 0
           /\ config["proposalThresholdBPS"] \in Nat /\ config["quorumVotesBPS"] \in Nat
           /\ ProposalIds = 1..Len(proposals) /\ Len(proposals) \in Nat
           /\ \A id \in ProposalIds : proposals[id] \in Proposals
  <1>1. /\ \A f \in Fields : config[f] \in Nat
        /\ config["votingPeriod"] \in Limits["votingPeriod"]
    BY DAOAssumption DEF Typed, TypedDAO, Fields
  <1>2. /\ proposals \in Seq(Proposals)
        /\ block \in Nat /\ time \in Nat /\ delay \in Delays
    BY DEF Typed, TypedDAO, TypedChain
  <1>3. delay \in Nat /\ delay > 0 /\ GracePeriod \in Nat /\ GracePeriod > 0
    BY <1>2, ExecutorAssumption
  <1>4. config["votingPeriod"] > 0
    BY <1>1, DAOAssumption DEF Fields
  <1> QED
    BY <1>1, <1>2, <1>3, <1>4 DEF Fields, ProposalIds

\* A new proposal is well typed.
LEMMA NewProposalTyped ==
    ASSUME Typed, NEW a \in Accounts, NEW actions \in ActionLists
    PROVE  NewProposal(a, actions) \in Proposals
  <1>1. \A bps \in Nat : bps2Uint(bps, supply) \in Int
    BY DEF bps2Uint, Typed, TypedChain
  <1>2. [x \in Accounts |-> NotVoted] \in [Accounts -> Receipt]
    BY DEF NotVoted, Receipt
  <1>3. /\ block + config["votingDelay"] \in Nat
        /\ block + config["votingDelay"] + config["votingPeriod"] \in Nat
        /\ block \in Nat
    BY Numbers
  <1>4. /\ bps2Uint(config["proposalThresholdBPS"], supply) \in Int
        /\ bps2Uint(config["quorumVotesBPS"], supply) \in Int
    BY <1>1, Numbers
  <1> QED
    BY <1>2, <1>3, <1>4 DEF NewProposal, NoMoment, Proposals

\* The calls of a proposal that succeed leave every setting within its limits.
LEMMA CallsWithinLimits ==
    ASSUME Typed, NEW sender, NEW calls, NEW n \in Nat, DOMAIN calls = 1..n,
           Calls(sender, calls)
    PROVE  /\ delay' \in Delays /\ \A f \in Fields : config'[f] \in Limits[f]
           /\ pendingAdmin' \in {pendingAdmin} \cup Limits["pendingAdmin"]
  <1> DEFINE setters(f) == {i \in DOMAIN calls : calls[i].field = f}
             last(f) == Max(setters(f))
  <1>1. ASSUME NEW f, setters(f) # {}
        PROVE  last(f) \in DOMAIN calls /\ calls[last(f)].field = f
    <2>1. setters(f) \in SUBSET (1..n)
      OBVIOUS
    <2>2. last(f) \in setters(f)
      <3> HIDE DEF setters
      <3> QED
        BY <1>1, <2>1, LastExists
    <2> QED
      BY <2>2
  <1>2. ASSUME NEW f \in Fields PROVE config'[f] \in Limits[f]
    <2>1. config'[f] = ValueAfter(calls, f, config[f])
      BY DEF Calls
    <2>2. CASE setters(f) = {}
      BY <2>1, <2>2 DEF ValueAfter, Typed, TypedDAO
    <2>3. CASE setters(f) # {}
      <3>1. config'[f] = calls[last(f)].value
        BY <2>1, <2>3 DEF ValueAfter
      <3>2. Permitted(sender, calls[last(f)]) /\ calls[last(f)].field = f
        BY <1>1, <2>3 DEF Calls
      <3>3. f # "none" /\ f # "delay"
        BY DEF Fields
      <3> HIDE DEF last
      <3> QED
        BY <3>1, <3>2, <3>3 DEF Permitted
    <2> QED
      BY <2>2, <2>3
  <1>3. delay' \in Delays
    <2>1. delay' = ValueAfter(calls, "delay", delay)
      BY DEF Calls
    <2>2. CASE setters("delay") = {}
      BY <2>1, <2>2 DEF ValueAfter, Typed, TypedChain
    <2>3. CASE setters("delay") # {}
      <3>1. delay' = calls[last("delay")].value
        BY <2>1, <2>3 DEF ValueAfter
      <3>2. Permitted(sender, calls[last("delay")]) /\ calls[last("delay")].field = "delay"
        BY <1>1, <2>3 DEF Calls
      <3> HIDE DEF last
      <3> QED
        BY <3>1, <3>2 DEF Permitted
    <2> QED
      BY <2>2, <2>3
  <1>4. pendingAdmin' \in {pendingAdmin} \cup Limits["pendingAdmin"]
    <2>1. pendingAdmin' = ValueAfter(calls, "pendingAdmin", pendingAdmin)
      BY DEF Calls
    <2>2. CASE setters("pendingAdmin") = {}
      BY <2>1, <2>2 DEF ValueAfter
    <2>3. CASE setters("pendingAdmin") # {}
      <3>1. pendingAdmin' = calls[last("pendingAdmin")].value
        BY <2>1, <2>3 DEF ValueAfter
      <3>2. /\ Permitted(sender, calls[last("pendingAdmin")])
            /\ calls[last("pendingAdmin")].field = "pendingAdmin"
        BY <1>1, <2>3 DEF Calls
      <3> HIDE DEF last
      <3> QED
        BY <3>1, <3>2 DEF Permitted
    <2> QED
      BY <2>2, <2>3
  <1> QED
    BY <1>2, <1>3, <1>4

\* A call that changes one proposal changes no other and adds none.
LEMMA OneUpdated ==
    ASSUME Typed, NEW id \in ProposalIds, NEW q \in Proposals,
           proposals' = [proposals EXCEPT ![id] = q]
    PROVE  /\ proposals' \in Seq(Proposals) /\ Len(proposals') = Len(proposals)
           /\ ProposalIds' = ProposalIds
           /\ \A i \in ProposalIds : proposals'[i] = IF i = id THEN q ELSE proposals[i]
  <1>1. proposals \in Seq(Proposals)
    BY DEF Typed, TypedDAO
  <1>2. id \in 1..Len(proposals)
    BY Numbers
  <1>3. proposals' \in Seq(Proposals) /\ Len(proposals') = Len(proposals)
    BY <1>1, <1>2
  <1> QED
    BY <1>1, <1>3 DEF ProposalIds

\* propose leaves the other proposals alone.
LEMMA OneAdded ==
    ASSUME Typed, NEW q \in Proposals, proposals' = Append(proposals, q)
    PROVE  /\ proposals' \in Seq(Proposals) /\ Len(proposals') = Len(proposals) + 1
           /\ ProposalIds' = ProposalIds \cup {Len(proposals) + 1}
           /\ Len(proposals) + 1 \notin ProposalIds
           /\ proposals'[Len(proposals) + 1] = q
           /\ \A i \in ProposalIds : proposals'[i] = proposals[i]
  BY DEF Typed, TypedDAO, ProposalIds

\* What the votes of an account were is a natural number.
LEMMA PriorTyped ==
    ASSUME Typed, NEW a \in Accounts, NEW b \in DOMAIN history
    PROVE  PriorVotes(a, b) \in Nat
  BY DEF Typed, TypedChain, PriorVotes

ProposalFields ==
    {"proposer", "proposalThreshold", "quorumVotes", "eta", "actions", "startBlock",
     "endBlock", "forVotes", "againstVotes", "abstainVotes", "canceled", "vetoed",
     "executed", "receipts", "created", "queued"}

\* q differs from p at most in these fields.
SameBut(p, q, changed) == \A f \in ProposalFields \ changed : q[f] = p[f]

\* What the calls on one proposal make of it.
WithEta(p, eta, at) == [p EXCEPT !.eta = eta, !.queued = at]
WithCanceled(p) == [p EXCEPT !.canceled = TRUE]
WithVetoed(p) == [p EXCEPT !.vetoed = TRUE]
WithExecuted(p) == [p EXCEPT !.executed = TRUE]
CastOn(p, voter, support, votes) ==
    [p EXCEPT !.againstVotes = p.againstVotes + VotesIf(support = 0, votes),
              !.forVotes = p.forVotes + VotesIf(support = 1, votes),
              !.abstainVotes = p.abstainVotes + VotesIf(support = 2, votes),
              !.receipts = [p.receipts EXCEPT ![voter] = Voted(support, votes)]]

\* A proposal stays well typed when a vote is counted.
LEMMA CastTyped ==
    ASSUME NEW p \in Proposals, NEW voter \in Accounts, NEW support \in 0..2,
           NEW votes \in Nat
    PROVE  /\ CastOn(p, voter, support, votes) \in Proposals
           /\ SameBut(p, CastOn(p, voter, support, votes),
                      {"againstVotes", "forVotes", "abstainVotes", "receipts"})
           /\ CastOn(p, voter, support, votes).receipts =
                  [p.receipts EXCEPT ![voter] = Voted(support, votes)]
  <1>1. VotesIf(support = 0, votes) \in Nat /\ VotesIf(support = 1, votes) \in Nat
        /\ VotesIf(support = 2, votes) \in Nat
    BY DEF VotesIf
  <1>2. [p.receipts EXCEPT ![voter] = Voted(support, votes)] \in [Accounts -> Receipt]
    BY DEF Proposals, Receipt, Voted
  <1>3. CastOn(p, voter, support, votes) \in Proposals
    <2>1. /\ p.againstVotes \in Nat /\ p.forVotes \in Nat /\ p.abstainVotes \in Nat
      BY DEF Proposals
    <2>2. /\ p.againstVotes + VotesIf(support = 0, votes) \in Nat
          /\ p.forVotes + VotesIf(support = 1, votes) \in Nat
          /\ p.abstainVotes + VotesIf(support = 2, votes) \in Nat
      BY <1>1, <2>1
    <2>3. ASSUME NEW x \in Nat, NEW y \in Nat, NEW z \in Nat,
                 NEW r \in [Accounts -> Receipt]
          PROVE  [p EXCEPT !.againstVotes = x, !.forVotes = y,
                           !.abstainVotes = z, !.receipts = r] \in Proposals
      BY DEF Proposals
    <2> QED
      BY <1>2, <2>2, <2>3 DEF CastOn
  <1>4. /\ SameBut(p, CastOn(p, voter, support, votes),
                   {"againstVotes", "forVotes", "abstainVotes", "receipts"})
        /\ CastOn(p, voter, support, votes).receipts =
               [p.receipts EXCEPT ![voter] = Voted(support, votes)]
    BY DEF CastOn, Proposals, SameBut, ProposalFields
  <1> QED
    BY <1>3, <1>4

\* The flags, and the eta, of a proposal change without changing its type.
LEMMA FlagsTyped ==
    ASSUME NEW p \in Proposals
    PROVE  /\ WithCanceled(p) \in Proposals
           /\ WithVetoed(p) \in Proposals
           /\ WithExecuted(p) \in Proposals
  BY DEF Proposals, WithCanceled, WithVetoed, WithExecuted

\* See above.
LEMMA EtaTyped ==
    ASSUME NEW p \in Proposals, NEW eta \in Nat, NEW at \in [block : Nat, time : Nat]
    PROVE  WithEta(p, eta, at) \in Proposals
  BY DEF Proposals, WithEta

\* Nor do they change anything else.
LEMMA FlagsSet ==
    ASSUME NEW p \in Proposals
    PROVE  /\ SameBut(p, WithCanceled(p), {"canceled"}) /\ WithCanceled(p).canceled
           /\ SameBut(p, WithVetoed(p), {"vetoed"}) /\ WithVetoed(p).vetoed
           /\ SameBut(p, WithExecuted(p), {"executed"}) /\ WithExecuted(p).executed
  BY DEF Proposals, WithCanceled, WithVetoed, WithExecuted, SameBut, ProposalFields

\* See above.
LEMMA EtaSet ==
    ASSUME NEW p \in Proposals, NEW eta, NEW at
    PROVE  /\ SameBut(p, WithEta(p, eta, at), {"eta", "queued"})
           /\ WithEta(p, eta, at).eta = eta /\ WithEta(p, eta, at).queued = at
  BY DEF Proposals, WithEta, SameBut, ProposalFields

\* What propose does.
LEMMA ProposeEffect ==
    ASSUME Typed, NEW a \in Accounts, NEW actions \in ActionLists, Propose(a, actions)
    PROVE  /\ Typed'
           /\ NewProposal(a, actions) \in Proposals
           /\ proposals' = Append(proposals, NewProposal(a, actions))
           /\ UNCHANGED <<block, time, config, history, queuedTransactions>>
  <1> DEFINE q == NewProposal(a, actions)
  <1>1. q \in Proposals /\ proposals' = Append(proposals, q)
    BY NewProposalTyped DEF Propose
  <1> HIDE DEF q
  <1>2. /\ Len(proposals') <= MaxProposals /\ Len(proposals') = Len(proposals) + 1
        /\ proposals' \in Seq(Proposals)
    BY <1>1, OneAdded, DAOAssumption DEF Propose, Typed, TypedDAO
  <1>3. latestProposalIds' \in [Accounts -> 0..Len(proposals')]
    BY <1>2, Numbers DEF Propose, Typed, TypedDAO
  <1>4. /\ UNCHANGED <<config, power, supply, block, time, delay, history>>
        /\ UNCHANGED queuedTransactions
    BY DEF Propose, ledgerVars, chainVars
  <1> QED
    BY <1>1, <1>2, <1>3, <1>4 DEF Typed, TypedDAO, TypedChain, q

\* What casting a vote does.
LEMMA CastEffect ==
    ASSUME Typed, NEW id \in ProposalIds, NEW voter \in Accounts, NEW support \in Supports,
           CastVote(id, voter, support)
    PROVE  LET votes == PriorVotes(voter, SnapshotBlock(proposals[id]))
               q == CastOn(proposals[id], voter, support, votes)
           IN  /\ Typed'
               /\ votes \in Nat /\ support \in 0..2 /\ q \in Proposals
               /\ proposals' = [proposals EXCEPT ![id] = q]
               /\ UNCHANGED <<block, time, config, history, queuedTransactions>>
               /\ UNCHANGED latestProposalIds
  <1> DEFINE votes == PriorVotes(voter, SnapshotBlock(proposals[id]))
             q == CastOn(proposals[id], voter, support, votes)
  <1>1. votes \in Nat /\ support \in 0..2 /\ proposals[id] \in Proposals
    BY PriorTyped, Numbers, DAOAssumption DEF CastVote
  <1>2. q \in Proposals
    BY <1>1, CastTyped
  <1>3. proposals' = [proposals EXCEPT ![id] = q]
    BY DEF CastVote, CastOn
  <1>4. /\ UNCHANGED <<latestProposalIds, config, power, supply, block, time, delay, history>>
        /\ UNCHANGED queuedTransactions
    BY DEF CastVote, ledgerVars, chainVars
  <1> HIDE DEF q, votes
  <1>5. Typed'
    BY <1>2, <1>3, <1>4, OneUpdated DEF Typed, TypedDAO, TypedChain
  <1> QED
    BY <1>1, <1>2, <1>3, <1>4, <1>5 DEF q, votes

\* What queue, cancel, veto and execute do.
LEMMA QueueEffect ==
    ASSUME Typed, NEW id \in ProposalIds, Queue(id)
    PROVE  LET q == WithEta(proposals[id], time + delay, Moment)
           IN  /\ Typed'
               /\ time + delay \in Nat /\ time + delay > 0 /\ q \in Proposals
               /\ proposals' = [proposals EXCEPT ![id] = q]
               /\ UNCHANGED <<block, time, config, history, latestProposalIds>>
  <1> DEFINE q == WithEta(proposals[id], time + delay, Moment)
  <1>0. time + delay \in Nat /\ time + delay > 0 /\ Moment \in [block : Nat, time : Nat]
    BY Numbers DEF Moment
  <1>1. time + delay \in Nat /\ time + delay > 0 /\ q \in Proposals
    BY <1>0, Numbers, EtaTyped
  <1>2. /\ proposals' = [proposals EXCEPT ![id] = q]
        /\ UNCHANGED <<latestProposalIds, config, power, supply, block, time, delay, history>>
    BY DEF Queue, WithEta, ledgerVars, chainVars
  <1> HIDE DEF q
  <1>3. Typed'
    BY <1>1, <1>2, OneUpdated DEF Typed, TypedDAO, TypedChain
  <1> QED
    BY <1>1, <1>2, <1>3 DEF q

\* See above.
LEMMA CancelEffect ==
    ASSUME Typed, NEW id \in ProposalIds, NEW a, Cancel(id, a)
    PROVE  LET q == WithCanceled(proposals[id])
           IN  /\ Typed'
               /\ q \in Proposals
               /\ proposals' = [proposals EXCEPT ![id] = q]
               /\ UNCHANGED <<block, time, config, history, latestProposalIds>>
  <1> DEFINE q == WithCanceled(proposals[id])
  <1>1. q \in Proposals
    BY Numbers, FlagsTyped
  <1>2. /\ proposals' = [proposals EXCEPT ![id] = q]
        /\ UNCHANGED <<latestProposalIds, config, power, supply, block, time, delay, history>>
    BY DEF Cancel, WithCanceled, ledgerVars, chainVars
  <1> HIDE DEF q
  <1>3. Typed'
    BY <1>1, <1>2, OneUpdated DEF Typed, TypedDAO, TypedChain
  <1> QED
    BY <1>1, <1>2, <1>3 DEF q

\* See above.
LEMMA VetoEffect ==
    ASSUME Typed, NEW id \in ProposalIds, Veto(id)
    PROVE  LET q == WithVetoed(proposals[id])
           IN  /\ Typed'
               /\ q \in Proposals
               /\ proposals' = [proposals EXCEPT ![id] = q]
               /\ UNCHANGED <<block, time, config, history, latestProposalIds>>
  <1> DEFINE q == WithVetoed(proposals[id])
  <1>1. q \in Proposals
    BY Numbers, FlagsTyped
  <1>2. /\ proposals' = [proposals EXCEPT ![id] = q]
        /\ UNCHANGED <<latestProposalIds, config, power, supply, block, time, delay, history>>
    BY DEF Veto, WithVetoed, ledgerVars, chainVars
  <1> HIDE DEF q
  <1>3. Typed'
    BY <1>1, <1>2, OneUpdated DEF Typed, TypedDAO, TypedChain
  <1> QED
    BY <1>1, <1>2, <1>3 DEF q

\* See above.
LEMMA ExecuteEffect ==
    ASSUME Typed, NEW id \in ProposalIds, Execute(id)
    PROVE  LET q == WithExecuted(proposals[id])
           IN  /\ Typed'
               /\ q \in Proposals
               /\ proposals' = [proposals EXCEPT ![id] = q]
               /\ UNCHANGED <<block, time, history, latestProposalIds>>
  <1> DEFINE q == WithExecuted(proposals[id])
             actions == proposals[id].actions
  <1>1. proposals[id] \in Proposals /\ q \in Proposals
    BY Numbers, FlagsTyped
  <1>2. /\ proposals' = [proposals EXCEPT ![id] = q]
        /\ Calls(Timelock, actions)
        /\ UNCHANGED <<latestProposalIds, power, supply, block, time, history>>
    BY DEF Execute, WithExecuted, ledgerVars, chainVars
  <1>3. Len(actions) \in Nat /\ DOMAIN actions = 1..Len(actions)
    BY <1>1, DAOAssumption DEF Proposals
  <1>4. delay' \in Delays /\ \A f \in Fields : config'[f] \in Limits[f]
    BY <1>2, <1>3, CallsWithinLimits
  <1> HIDE DEF q
  <1>5. Typed'
    BY <1>1, <1>2, <1>4, OneUpdated DEF Typed, TypedDAO, TypedChain
  <1> QED
    BY <1>1, <1>2, <1>5 DEF q

\* The actions that change no proposal and let no time pass.
Aside ==
    \/ \E call \in AdminCalls : CallAsAdmin(call)
    \/ _acceptAdmin
    \/ \E a \in Vetoers \cup {Zero} : _setVetoer(a)
    \/ \E a \in Accounts : Mint(a)
    \/ \E a, b \in Accounts : MoveVote(a, b)
    \/ \E a \in Accounts : Burn(a)
    \/ UNCHANGED vars

\* What they leave alone.
LEMMA AsideEffect ==
    ASSUME Typed, Aside
    PROVE  /\ Typed'
           /\ UNCHANGED <<proposals, latestProposalIds, block, time, history>>
           /\ UNCHANGED queuedTransactions
  <1>1. ASSUME NEW call \in AdminCalls, CallAsAdmin(call)
        PROVE  /\ Typed'
               /\ UNCHANGED <<proposals, latestProposalIds, block, time, history>>
               /\ UNCHANGED queuedTransactions
    <2>1. DOMAIN <<call>> = 1..1 /\ Calls(admin, <<call>>)
      BY <1>1 DEF CallAsAdmin
    <2>2. delay' \in Delays /\ \A f \in Fields : config'[f] \in Limits[f]
      BY <2>1, CallsWithinLimits
    <2>3. /\ UNCHANGED <<proposals, latestProposalIds, block, time, history, power, supply>>
          /\ UNCHANGED queuedTransactions
      BY <1>1 DEF CallAsAdmin, daoVars, ledgerVars, chainVars
    <2> QED
      BY <2>2, <2>3 DEF Typed, TypedDAO, TypedChain
  <1>2. CASE _acceptAdmin
    BY <1>2 DEF _acceptAdmin, daoVars, ledgerVars, chainVars, Typed, TypedDAO, TypedChain
  <1>3. ASSUME NEW a, _setVetoer(a)
        PROVE  /\ Typed'
               /\ UNCHANGED <<proposals, latestProposalIds, block, time, history>>
               /\ UNCHANGED queuedTransactions
    BY <1>3 DEF _setVetoer, daoVars, ledgerVars, chainVars, Typed, TypedDAO, TypedChain
  <1>4. ASSUME NEW newPower \in [Accounts -> Nat], NEW newSupply \in Int,
               LedgerStep(newPower, newSupply)
        PROVE  /\ Typed'
               /\ UNCHANGED <<proposals, latestProposalIds, block, time, history>>
               /\ UNCHANGED queuedTransactions
    BY <1>4 DEF LedgerStep, daoVars, chainVars, Typed, TypedDAO, TypedChain
  <1>5. power \in [Accounts -> Nat] /\ supply \in Int
    BY DEF Typed, TypedChain
  <1>6. ASSUME NEW a \in Accounts, Mint(a)
        PROVE  /\ Typed'
               /\ UNCHANGED <<proposals, latestProposalIds, block, time, history>>
               /\ UNCHANGED queuedTransactions
    <2>1. [power EXCEPT ![a] = power[a] + 1] \in [Accounts -> Nat] /\ supply + 1 \in Int
      BY <1>5
    <2> QED
      BY <1>4, <1>6, <2>1 DEF Mint
  <1>7. ASSUME NEW a \in Accounts, NEW b \in Accounts, MoveVote(a, b)
        PROVE  /\ Typed'
               /\ UNCHANGED <<proposals, latestProposalIds, block, time, history>>
               /\ UNCHANGED queuedTransactions
    <2>1. power[a] - 1 \in Nat /\ power[b] + 1 \in Nat
      BY <1>5, <1>7 DEF MoveVote
    <2>2. [power EXCEPT ![a] = power[a] - 1, ![b] = power[b] + 1] \in [Accounts -> Nat]
      BY <1>5, <2>1
    <2> QED
      BY <1>4, <1>5, <1>7, <2>2 DEF MoveVote
  <1>8. ASSUME NEW a \in Accounts, Burn(a)
        PROVE  /\ Typed'
               /\ UNCHANGED <<proposals, latestProposalIds, block, time, history>>
               /\ UNCHANGED queuedTransactions
    <2>1. [power EXCEPT ![a] = power[a] - 1] \in [Accounts -> Nat] /\ supply - 1 \in Int
      BY <1>5, <1>8 DEF Burn
    <2> QED
      BY <1>4, <1>8, <2>1 DEF Burn
  <1>9. CASE UNCHANGED vars
    BY <1>9 DEF vars, daoVars, ledgerVars, chainVars, Typed, TypedDAO, TypedChain
  <1> QED
    BY <1>1, <1>2, <1>3, <1>6, <1>7, <1>8, <1>9 DEF Aside

\* A new block appends the votes of the last to the history.
LEMMA NextBlockEffect ==
    ASSUME Typed, NEW step \in TimeSteps, NextBlock(step)
    PROVE  /\ Typed'
           /\ UNCHANGED <<proposals, latestProposalIds, config, queuedTransactions>>
           /\ block' = block + 1 /\ time' \in Nat /\ time' > time
           /\ \A b \in DOMAIN history : b \in DOMAIN history' /\ history'[b] = history[b]
  <1>1. step \in Nat /\ step > 0
    BY DAOAssumption
  <1>2. block \in Nat /\ time \in Nat
    BY Numbers
  <1>3. history \in Seq([Accounts -> Nat]) /\ Len(history) = block - 1
        /\ power \in [Accounts -> Nat]
    BY DEF Typed, TypedChain
  <1>4. history' = Append(history, power) /\ block' = block + 1 /\ time' = time + step
        /\ UNCHANGED <<proposals, latestProposalIds, config, queuedTransactions>>
        /\ UNCHANGED <<power, supply, delay>>
    BY DEF NextBlock, daoVars, ledgerVars
  <1>5. /\ history' \in Seq([Accounts -> Nat]) /\ Len(history') = block' - 1
        /\ \A b \in DOMAIN history : b \in DOMAIN history' /\ history'[b] = history[b]
    BY <1>2, <1>3, <1>4
  <1>6. block' \in Nat \ {0} /\ time' \in Nat /\ time' > time
    BY <1>1, <1>2, <1>4
  <1> QED
    BY <1>4, <1>5, <1>6 DEF Typed, TypedDAO, TypedChain

\* The steps there are.
LEMMA Steps ==
    ASSUME [Next]_vars
    PROVE  \/ \E a \in Accounts, actions \in ActionLists : Propose(a, actions)
           \/ \E id \in ProposalIds, a \in Accounts, support \in Supports :
                  CastVote(id, a, support)
           \/ \E id \in ProposalIds : Queue(id)
           \/ \E id \in ProposalIds, a \in Accounts : Cancel(id, a)
           \/ \E id \in ProposalIds : Veto(id)
           \/ \E id \in ProposalIds : Execute(id)
           \/ \E step \in TimeSteps : NextBlock(step)
           \/ Aside
  BY DEF Next, Aside

\* The types hold at the start.
LEMMA InitTyped == Init => Typed
  <1> SUFFICES ASSUME Init PROVE Typed
    OBVIOUS
  <1>1. history \in Seq([Accounts -> Nat]) /\ Len(history) = 1
    BY DAOAssumption DEF Init
  <1>2. latestProposalIds \in [Accounts -> 0..0] /\ proposals = << >>
    BY DEF Init
  <1> QED
    BY <1>1, <1>2, DAOAssumption, ExecutorAssumption
    DEF Init, Typed, TypedDAO, TypedChain

-----------------------------------------------------------------------------
(* The life of a proposal.                                                 *)

\* A proposal gets its eta when it has succeeded, after its vote; only a proposal
\* with an eta is executed, and one that was cannot be canceled or vetoed.
WellFormed ==
    \A id \in ProposalIds :
        LET p == proposals[id]
        IN  /\ p.created <= block
            /\ p.startBlock >= p.created
            /\ p.endBlock > p.startBlock
            /\ p.eta # 0 => /\ block > p.endBlock
                            /\ ~(p.forVotes <= p.againstVotes)
                            /\ ~(p.forVotes < p.quorumVotes)
            /\ p.executed => p.eta # 0 /\ ~p.canceled /\ ~p.vetoed

\* A proposal of which no call changed anything keeps its state within the block.
LEMMA StateKept ==
    ASSUME NEW id, proposals'[id] = proposals[id], block' = block, time' = time
    PROVE  State(id)' = State(id)
  BY DEF State

\* The state is one of these.
LEMMA StateTyped ==
    ASSUME NEW id
    PROVE  State(id) \in Lifecycle!Stages \ {"None"}
  BY DEF State, Lifecycle!Stages

\* A step does one thing to a proposal, and only when its state allows it.
Touches(i) ==
    LET p == proposals[i]
        q == proposals'[i]
    IN  \/ q = p
        \/ /\ State(i) = "Active"
           /\ SameBut(p, q, {"againstVotes", "forVotes", "abstainVotes", "receipts"})
        \/ /\ State(i) = "Succeeded" /\ SameBut(p, q, {"eta", "queued"})
           /\ q.eta # 0 /\ ~(time >= q.eta + GracePeriod)
        \/ State(i) = "Queued" /\ SameBut(p, q, {"executed"}) /\ q.executed
        \/ State(i) # "Executed" /\ SameBut(p, q, {"canceled"}) /\ q.canceled
        \/ State(i) # "Executed" /\ SameBut(p, q, {"vetoed"}) /\ q.vetoed

\* And it either happens within the block or is the next block, and nothing else.
Passes ==
    \/ UNCHANGED <<block, time>>
    \/ block' = block + 1 /\ time' \in Nat /\ time' > time /\ UNCHANGED proposals

\* The steps are of these kinds.
LEMMA EveryStepTouches ==
    ASSUME Typed, [Next]_vars, NEW i \in ProposalIds
    PROVE  i \in ProposalIds' /\ Touches(i) /\ Typed' /\ Passes
  <1>0. proposals[i] \in Proposals /\ block \in Nat
    BY Numbers
  <1>1. ASSUME NEW a \in Accounts, NEW actions \in ActionLists, Propose(a, actions)
        PROVE  i \in ProposalIds' /\ Touches(i) /\ Typed' /\ Passes
    BY <1>0, <1>1, ProposeEffect, OneAdded DEF Touches, Passes
  <1>2. ASSUME NEW id \in ProposalIds, NEW a \in Accounts, NEW support \in Supports,
               CastVote(id, a, support)
        PROVE  i \in ProposalIds' /\ Touches(i) /\ Typed' /\ Passes
    <2> DEFINE votes == PriorVotes(a, SnapshotBlock(proposals[id]))
               q == CastOn(proposals[id], a, support, votes)
    <2>1. /\ votes \in Nat /\ support \in 0..2 /\ q \in Proposals
          /\ proposals' = [proposals EXCEPT ![id] = q]
          /\ block' = block /\ time' = time /\ Typed'
      BY <1>2, CastEffect
    <2>2. proposals[id] \in Proposals
      BY Numbers
    <2>3. SameBut(proposals[id], q, {"againstVotes", "forVotes", "abstainVotes", "receipts"})
      BY <2>1, <2>2, CastTyped
    <2> HIDE DEF q
    <2>4. i \in ProposalIds' /\ proposals'[i] = IF i = id THEN q ELSE proposals[i]
      BY <2>1, OneUpdated
    <2>5. State(id) = "Active"
      BY <1>2 DEF CastVote, MayVote
    <2> QED
      BY <1>0, <2>1, <2>3, <2>4, <2>5 DEF Touches, Passes
  <1>3. ASSUME NEW id \in ProposalIds, Queue(id)
        PROVE  i \in ProposalIds' /\ Touches(i) /\ Typed' /\ Passes
    <2> DEFINE q == WithEta(proposals[id], time + delay, Moment)
    <2>1. /\ time + delay \in Nat /\ time + delay > 0 /\ q \in Proposals
          /\ proposals' = [proposals EXCEPT ![id] = q]
          /\ block' = block /\ time' = time /\ Typed'
      BY <1>3, QueueEffect
    <2>2. SameBut(proposals[id], q, {"eta", "queued"}) /\ q.eta = time + delay
      <3>1. proposals[id] \in Proposals
        BY Numbers
      <3> QED
        BY <3>1, EtaSet
    <2> HIDE DEF q
    <2>3. i \in ProposalIds' /\ proposals'[i] = IF i = id THEN q ELSE proposals[i]
      BY <2>1, OneUpdated
    <2>4. State(id) = "Succeeded" /\ q.eta # 0 /\ ~(time >= q.eta + GracePeriod)
      BY <1>3, <2>1, <2>2, Numbers DEF Queue
    <2> QED
      BY <1>0, <2>1, <2>2, <2>3, <2>4 DEF Touches, Passes
  <1>4. ASSUME NEW id \in ProposalIds, NEW a \in Accounts, Cancel(id, a)
        PROVE  i \in ProposalIds' /\ Touches(i) /\ Typed' /\ Passes
    <2> DEFINE q == WithCanceled(proposals[id])
    <2>1. /\ q \in Proposals
          /\ proposals' = [proposals EXCEPT ![id] = q]
          /\ block' = block /\ time' = time /\ Typed'
      BY <1>4, CancelEffect
    <2>2. SameBut(proposals[id], q, {"canceled"}) /\ q.canceled
      BY Numbers, FlagsSet
    <2> HIDE DEF q
    <2>3. i \in ProposalIds' /\ proposals'[i] = IF i = id THEN q ELSE proposals[i]
      BY <2>1, OneUpdated
    <2>4. State(id) # "Executed"
      BY <1>4 DEF Cancel
    <2> QED
      BY <1>0, <2>1, <2>2, <2>3, <2>4 DEF Touches, Passes
  <1>5. ASSUME NEW id \in ProposalIds, Veto(id)
        PROVE  i \in ProposalIds' /\ Touches(i) /\ Typed' /\ Passes
    <2> DEFINE q == WithVetoed(proposals[id])
    <2>1. /\ q \in Proposals
          /\ proposals' = [proposals EXCEPT ![id] = q]
          /\ block' = block /\ time' = time /\ Typed'
      BY <1>5, VetoEffect
    <2>2. SameBut(proposals[id], q, {"vetoed"}) /\ q.vetoed
      BY Numbers, FlagsSet
    <2> HIDE DEF q
    <2>3. i \in ProposalIds' /\ proposals'[i] = IF i = id THEN q ELSE proposals[i]
      BY <2>1, OneUpdated
    <2>4. State(id) # "Executed"
      BY <1>5 DEF Veto, CanVeto
    <2> QED
      BY <1>0, <2>1, <2>2, <2>3, <2>4 DEF Touches, Passes
  <1>6. ASSUME NEW id \in ProposalIds, Execute(id)
        PROVE  i \in ProposalIds' /\ Touches(i) /\ Typed' /\ Passes
    <2> DEFINE q == WithExecuted(proposals[id])
    <2>1. /\ q \in Proposals
          /\ proposals' = [proposals EXCEPT ![id] = q]
          /\ block' = block /\ time' = time /\ Typed'
      BY <1>6, ExecuteEffect
    <2>2. SameBut(proposals[id], q, {"executed"}) /\ q.executed
      BY Numbers, FlagsSet
    <2> HIDE DEF q
    <2>3. i \in ProposalIds' /\ proposals'[i] = IF i = id THEN q ELSE proposals[i]
      BY <2>1, OneUpdated
    <2>4. State(id) = "Queued"
      BY <1>6 DEF Execute
    <2> QED
      BY <1>0, <2>1, <2>2, <2>3, <2>4 DEF Touches, Passes
  <1>7. ASSUME NEW step \in TimeSteps, NextBlock(step)
        PROVE  i \in ProposalIds' /\ Touches(i) /\ Typed' /\ Passes
    BY <1>0, <1>7, NextBlockEffect DEF Touches, Passes, ProposalIds
  <1>8. CASE Aside
    BY <1>0, <1>8, AsideEffect DEF Touches, Passes, ProposalIds
  <1> QED
    BY <1>1, <1>2, <1>3, <1>4, <1>5, <1>6, <1>7, <1>8, Steps

\* Every step takes every proposal along its life, or leaves it where it is.
LEMMA EveryStepMoves ==
    ASSUME Typed, WellFormed, [Next]_vars, NEW i \in ProposalIds
    PROVE  Lifecycle!Moves(State(i), State(i)')
  <1> USE DEF Lifecycle!Moves, Lifecycle!Successors, Lifecycle!Cancelable, Lifecycle!Vetoable
  <1> DEFINE p == proposals[i]
             q == proposals'[i]
  <1>0. /\ p.startBlock \in Nat /\ p.endBlock \in Nat /\ p.eta \in Nat
        /\ block \in Nat /\ time \in Nat /\ GracePeriod \in Nat
    BY Numbers DEF Proposals
  <1>1. /\ p.endBlock > p.startBlock
        /\ p.eta # 0 => /\ block > p.endBlock
                        /\ ~(p.forVotes <= p.againstVotes)
                        /\ ~(p.forVotes < p.quorumVotes)
        /\ p.executed => p.eta # 0 /\ ~p.canceled /\ ~p.vetoed
    BY DEF WellFormed
  <1>2. CASE UNCHANGED <<block, time>>
    <2>1. CASE q = p
      BY <1>2, <2>1, StateKept
    <2>2. CASE /\ State(i) = "Active"
               /\ SameBut(p, q, {"againstVotes", "forVotes", "abstainVotes", "receipts"})
      <3>1. State(i)' = "Active"
        BY <1>2, <2>2 DEF State, SameBut, ProposalFields
      <3> QED
        BY <2>2, <3>1
    <2>3. CASE /\ State(i) = "Succeeded" /\ SameBut(p, q, {"eta", "queued"})
               /\ q.eta # 0 /\ ~(time >= q.eta + GracePeriod)
      <3>1. ~p.executed
        BY <1>1, <2>3 DEF State
      <3>2. State(i)' = "Queued"
        BY <1>2, <2>3, <3>1 DEF State, SameBut, ProposalFields
      <3> QED
        BY <2>3, <3>2
    <2>4. CASE State(i) = "Queued" /\ SameBut(p, q, {"executed"}) /\ q.executed
      <3>1. State(i)' = "Executed"
        BY <1>2, <2>4 DEF State, SameBut, ProposalFields
      <3> QED
        BY <2>4, <3>1
    <2>5. CASE State(i) # "Executed" /\ SameBut(p, q, {"canceled"}) /\ q.canceled
      <3>1. State(i) # "None" /\ (State(i) = "Vetoed" <=> p.vetoed)
        BY DEF State
      <3>2. State(i)' = IF p.vetoed THEN "Vetoed" ELSE "Canceled"
        BY <2>5 DEF State, SameBut, ProposalFields
      <3> HIDE DEF p
      <3> QED
        BY <2>5, <3>1, <3>2
    <2>6. CASE State(i) # "Executed" /\ SameBut(p, q, {"vetoed"}) /\ q.vetoed
      <3>1. State(i) # "None" /\ State(i)' = "Vetoed"
        BY <2>6 DEF State
      <3> QED
        BY <2>6, <3>1
    <2> HIDE DEF p, q
    <2> QED
      BY <2>1, <2>2, <2>3, <2>4, <2>5, <2>6, EveryStepTouches DEF Touches, p, q
  <1>3. CASE block' = block + 1 /\ time' \in Nat /\ time' > time /\ UNCHANGED proposals
    <2>1. CASE p.vetoed \/ p.canceled
      <3>1. State(i)' = State(i)
        BY <1>3, <2>1 DEF State
      <3> QED
        BY <3>1
    <2>2. CASE ~p.vetoed /\ ~p.canceled /\ block <= p.startBlock
      <3>1. State(i) = "Pending" /\ State(i)' \in {"Pending", "Active"}
        BY <1>0, <1>1, <1>3, <2>2 DEF State
      <3> QED
        BY <3>1
    <2>3. CASE ~p.vetoed /\ ~p.canceled /\ block > p.startBlock /\ block <= p.endBlock
      <3>1. State(i) = "Active" /\ p.eta = 0
        BY <1>0, <1>1, <2>3 DEF State
      <3>2. State(i)' \in {"Active", "Defeated", "Succeeded"}
        BY <1>0, <1>1, <1>3, <2>3, <3>1 DEF State
      <3> QED
        BY <3>1, <3>2
    <2>4. CASE ~p.vetoed /\ ~p.canceled /\ block > p.endBlock
      <3>1. ~(block <= p.startBlock) /\ ~(block <= p.endBlock)
            /\ ~(block' <= p.startBlock) /\ ~(block' <= p.endBlock)
        BY <1>0, <1>1, <1>3, <2>4
      <3>2. CASE p.eta = 0
        <4>1. State(i)' = State(i)
          BY <1>3, <2>4, <3>1, <3>2 DEF State
        <4> QED
          BY <4>1
      <3>3. CASE p.eta # 0 /\ p.executed
        <4>1. State(i)' = State(i)
          BY <1>3, <2>4, <3>1, <3>3 DEF State
        <4> QED
          BY <4>1
      <3>4. CASE p.eta # 0 /\ ~p.executed
        <4>1. State(i) = IF time >= p.eta + GracePeriod THEN "Expired" ELSE "Queued"
          BY <1>1, <2>4, <3>1, <3>4 DEF State
        <4>2. State(i)' = IF time' >= p.eta + GracePeriod THEN "Expired" ELSE "Queued"
          BY <1>1, <1>3, <2>4, <3>1, <3>4 DEF State
        <4>3. time >= p.eta + GracePeriod => time' >= p.eta + GracePeriod
          BY <1>0, <1>3
        <4> QED
          BY <4>1, <4>2, <4>3
      <3> QED
        BY <3>2, <3>3, <3>4
    <2> HIDE DEF p
    <2> QED
      BY <1>0, <1>1, <2>1, <2>2, <2>3, <2>4
  <1> QED
    BY <1>2, <1>3, EveryStepTouches DEF Passes

-----------------------------------------------------------------------------
(* The invariant.                                                          *)

\* A proposal that waits in the timelock, or expired there: its state, told by what is
\* stored.
Waiting(i) ==
    LET p == proposals[i]
    IN  p.eta # 0 /\ ~p.executed /\ ~p.canceled /\ ~p.vetoed

Withdrawn(i) == proposals[i].canceled \/ proposals[i].vetoed

Own(i) == Transactions(proposals[i].actions, proposals[i].eta)

\* latestProposalIds points to the proposal of its proposer that is live.
LatestIsLive ==
    \A i \in ProposalIds :
        State(i) \in {"Pending", "Active"} => latestProposalIds[proposals[i].proposer] = i

\* What lies in the timelock belongs to a proposal that waits.
QueuedWaits == \A tx \in queuedTransactions : \E i \in ProposalIds : Waiting(i) /\ tx \in Own(i)

\* A transaction that a waiting proposal misses belongs to a withdrawn one too.
MissingIsShared ==
    \A i \in ProposalIds : Waiting(i) =>
        \A tx \in Own(i) :
            tx \in queuedTransactions
            \/ \E o \in ProposalIds \ {i} : Withdrawn(o) /\ tx \in Own(o)

\* And so does one that two waiting proposals share: the second could be queued only
\* when it was missing, and could be executed instead of the first.
SharedIsWithdrawn ==
    \A i, j \in ProposalIds : (i # j /\ Waiting(i) /\ Waiting(j)) =>
        \A tx \in Own(i) \cap Own(j) : \E o \in ProposalIds : Withdrawn(o) /\ tx \in Own(o)

\* As long as the voting delay is as it was, all votes on a proposal are looked up at its
\* creation.
DelayFixed == config["votingDelay"] = InitialConfig["votingDelay"]

Snapshot ==
    \A i \in ProposalIds :
        LET p == proposals[i]
        IN  /\ p.startBlock = p.created + InitialConfig["votingDelay"]
            /\ \A a \in Accounts :
                   p.receipts[a].hasVoted => /\ p.created \in DOMAIN history
                                             /\ p.receipts[a].votes = history[p.created][a]

IInv ==
    /\ Typed /\ WellFormed /\ LatestIsLive
    /\ QueuedWaits /\ MissingIsShared /\ SharedIsWithdrawn

\* What waits is queued or expired, and the other way round.
LEMMA WaitingStates ==
    ASSUME Typed, WellFormed, NEW i \in ProposalIds
    PROVE  /\ Waiting(i) <=> State(i) \in {"Queued", "Expired"}
           /\ proposals[i].executed <=> State(i) = "Executed"
           /\ Withdrawn(i) <=> State(i) \in {"Canceled", "Vetoed"}
           /\ State(i) = "Active" => proposals[i].eta = 0
           /\ State(i) = "Succeeded" => proposals[i].eta = 0 /\ ~proposals[i].executed
  <1> DEFINE p == proposals[i]
  <1>1. /\ p.endBlock > p.startBlock
        /\ p.eta # 0 => /\ block > p.endBlock
                        /\ ~(p.forVotes <= p.againstVotes)
                        /\ ~(p.forVotes < p.quorumVotes)
        /\ p.executed => p.eta # 0 /\ ~p.canceled /\ ~p.vetoed
    BY DEF WellFormed
  <1>2. p.startBlock \in Nat /\ p.endBlock \in Nat /\ block \in Nat
    BY Numbers DEF Proposals
  <1>3. p.eta # 0 => ~(block <= p.startBlock) /\ ~(block <= p.endBlock)
    BY <1>1, <1>2
  <1> QED
    BY <1>1, <1>3 DEF State, Waiting, Withdrawn


\* What a step never changes of a proposal, and what stays once it is so.
LEMMA Lasting ==
    ASSUME Typed, WellFormed, [Next]_vars, NEW i \in ProposalIds
    PROVE  /\ i \in ProposalIds' /\ Typed' /\ block' \in Nat /\ block' >= block
           /\ \A f \in {"proposer", "quorumVotes", "actions", "startBlock", "endBlock",
                        "created"} : proposals'[i][f] = proposals[i][f]
           /\ Withdrawn(i) => Withdrawn(i)' /\ Own(i)' = Own(i)
           /\ State(i) # "Succeeded" => Own(i)' = Own(i)
           /\ Waiting(i)' => Waiting(i) \/ State(i) = "Succeeded"
  <1>1. Touches(i) /\ i \in ProposalIds' /\ Typed' /\ Passes
    BY EveryStepTouches
  <1>2. block' \in Nat /\ block' >= block
    BY <1>1, Numbers DEF Passes
  <1>3. /\ Waiting(i) <=> State(i) \in {"Queued", "Expired"}
        /\ proposals[i].executed <=> State(i) = "Executed"
        /\ Withdrawn(i) <=> State(i) \in {"Canceled", "Vetoed"}
    BY WaitingStates
  <1> QED
    BY <1>1, <1>2, <1>3 DEF Touches, SameBut, ProposalFields, Withdrawn, Own, Waiting

\* Only propose adds a proposal, and it adds one.
LEMMA OnlyProposeAdds ==
    ASSUME Typed, [Next]_vars, NEW i \in ProposalIds', i \notin ProposalIds
    PROVE  \E a \in Accounts, actions \in ActionLists :
               /\ Propose(a, actions) /\ i = Len(proposals) + 1
               /\ proposals'[i] = NewProposal(a, actions)
               /\ NewProposal(a, actions) \in Proposals
               /\ UNCHANGED <<block, time, config, history, queuedTransactions>>
  <1>1. ASSUME ProposalIds' = ProposalIds PROVE FALSE
    BY <1>1
  <1>2. ASSUME NEW id \in ProposalIds, NEW q \in Proposals,
               proposals' = [proposals EXCEPT ![id] = q]
        PROVE  FALSE
    BY <1>1, <1>2, OneUpdated
  <1>3. ASSUME NEW id \in ProposalIds, NEW a \in Accounts, NEW support \in Supports,
               CastVote(id, a, support)
        PROVE  FALSE
    BY <1>2, <1>3, CastEffect
  <1>4. ASSUME NEW id \in ProposalIds, Queue(id) PROVE FALSE
    BY <1>2, <1>4, QueueEffect
  <1>5. ASSUME NEW id \in ProposalIds, NEW a \in Accounts, Cancel(id, a) PROVE FALSE
    BY <1>2, <1>5, CancelEffect
  <1>6. ASSUME NEW id \in ProposalIds, Veto(id) PROVE FALSE
    BY <1>2, <1>6, VetoEffect
  <1>7. ASSUME NEW id \in ProposalIds, Execute(id) PROVE FALSE
    BY <1>2, <1>7, ExecuteEffect
  <1>8. ASSUME NEW step \in TimeSteps, NextBlock(step) PROVE FALSE
    BY <1>1, <1>8, NextBlockEffect DEF ProposalIds
  <1>9. ASSUME Aside PROVE FALSE
    BY <1>1, <1>9, AsideEffect DEF ProposalIds
  <1>10. PICK a \in Accounts, actions \in ActionLists : Propose(a, actions)
    BY <1>3, <1>4, <1>5, <1>6, <1>7, <1>8, <1>9, Steps
  <1> DEFINE q == NewProposal(a, actions)
  <1>11. /\ q \in Proposals /\ proposals' = Append(proposals, q)
         /\ UNCHANGED <<block, time, config, history, queuedTransactions>>
    BY <1>10, ProposeEffect
  <1> HIDE DEF q
  <1>12. i = Len(proposals) + 1 /\ proposals'[i] = q
    BY <1>11, OneAdded
  <1> QED
    BY <1>10, <1>11, <1>12 DEF q

\* The stored flags fit together, always.
LEMMA NextWellFormed ==
    ASSUME Typed, WellFormed, [Next]_vars
    PROVE  WellFormed'
  <1> DEFINE Good(i) ==
          LET p == proposals[i]
          IN  /\ p.created <= block
              /\ p.startBlock >= p.created
              /\ p.endBlock > p.startBlock
              /\ p.eta # 0 => /\ block > p.endBlock
                              /\ ~(p.forVotes <= p.againstVotes)
                              /\ ~(p.forVotes < p.quorumVotes)
              /\ p.executed => p.eta # 0 /\ ~p.canceled /\ ~p.vetoed
  <1>1. ASSUME NEW i \in ProposalIds PROVE Good(i)'
    <2> DEFINE p == proposals[i]
               q == proposals'[i]
    <2>1. Touches(i) /\ block' \in Nat /\ block' >= block /\ block \in Nat
      BY Lasting, EveryStepTouches, Numbers
    <2>2. Good(i)
      BY DEF WellFormed
    <2>3. p.created \in Nat /\ p.startBlock \in Nat /\ p.endBlock \in Nat
      BY Numbers DEF Proposals
    <2>4. /\ proposals[i].executed <=> State(i) = "Executed"
          /\ Withdrawn(i) <=> State(i) \in {"Canceled", "Vetoed"}
          /\ State(i) = "Active" => p.eta = 0
          /\ State(i) = "Succeeded" => p.eta = 0 /\ ~p.executed
          /\ Waiting(i) <=> State(i) \in {"Queued", "Expired"}
      BY WaitingStates
    <2>5. block > p.endBlock => block' > p.endBlock
      BY <2>1, <2>3
    <2>6. p.created <= block => p.created <= block'
      BY <2>1, <2>3
    <2>7. State(i) = "Succeeded" => /\ block > p.endBlock
                                    /\ ~(p.forVotes <= p.againstVotes)
                                    /\ ~(p.forVotes < p.quorumVotes)
                                    /\ ~p.canceled /\ ~p.vetoed
      BY <2>1, <2>3 DEF State
    <2>8. CASE q = p
      BY <2>2, <2>5, <2>6, <2>8
    <2>9. CASE /\ State(i) = "Active"
               /\ SameBut(p, q, {"againstVotes", "forVotes", "abstainVotes", "receipts"})
      BY <2>2, <2>4, <2>6, <2>9 DEF SameBut, ProposalFields
    <2>10. CASE State(i) = "Succeeded" /\ SameBut(p, q, {"eta", "queued"}) /\ q.eta # 0
      BY <2>2, <2>4, <2>5, <2>6, <2>7, <2>10 DEF SameBut, ProposalFields
    <2>11. CASE State(i) = "Queued" /\ SameBut(p, q, {"executed"}) /\ q.executed
      BY <2>2, <2>4, <2>5, <2>6, <2>11 DEF SameBut, ProposalFields, Waiting
    <2>12. CASE State(i) # "Executed" /\ SameBut(p, q, {"canceled"}) /\ q.canceled
      BY <2>2, <2>4, <2>5, <2>6, <2>12 DEF SameBut, ProposalFields
    <2>13. CASE State(i) # "Executed" /\ SameBut(p, q, {"vetoed"}) /\ q.vetoed
      BY <2>2, <2>4, <2>5, <2>6, <2>13 DEF SameBut, ProposalFields
    <2> HIDE DEF Good, p, q
    <2> QED
      BY <2>1, <2>8, <2>9, <2>10, <2>11, <2>12, <2>13 DEF Touches, p, q
  <1>2. ASSUME NEW i \in ProposalIds', i \notin ProposalIds PROVE Good(i)'
    <2>2. PICK a \in Accounts, actions \in ActionLists :
                   /\ proposals'[i] = NewProposal(a, actions)
                   /\ block' = block
      BY <1>2, OnlyProposeAdds
    <2> DEFINE q == NewProposal(a, actions)
    <2>4. /\ q.created = block /\ q.startBlock = block + config["votingDelay"]
          /\ q.endBlock = block + config["votingDelay"] + config["votingPeriod"]
          /\ q.eta = 0 /\ ~q.executed
      BY DEF NewProposal
    <2> HIDE DEF q
    <2>5. proposals'[i] = q /\ block' = block
      BY <2>2 DEF q
    <2>6. /\ block <= block /\ block + config["votingDelay"] >= block
          /\ block + config["votingDelay"] + config["votingPeriod"] >
                 block + config["votingDelay"]
      BY Numbers
    <2> QED
      BY <2>4, <2>5, <2>6
  <1> HIDE DEF Good
  <1>3. \A i \in ProposalIds' : Good(i)'
    BY <1>1, <1>2
  <1> QED
    BY <1>3 DEF WellFormed, Good

\* Who has a live proposal cannot make another.
LEMMA NextLatest ==
    ASSUME Typed, WellFormed, LatestIsLive, [Next]_vars
    PROVE  LatestIsLive'
  <1>1. ASSUME NEW i \in ProposalIds', State(i)' \in {"Pending", "Active"}
        PROVE  latestProposalIds'[proposals'[i].proposer] = i
    <2>1. CASE i \in ProposalIds
      <3>1. State(i) \in {"Pending", "Active"}
        <4>1. Lifecycle!Moves(State(i), State(i)') /\ State(i) # "None"
          BY <2>1, EveryStepMoves, StateTyped
        <4>2. State(i) \in {"Defeated", "Succeeded", "Queued", "Expired", "Executed",
                            "Canceled", "Vetoed", "Pending", "Active"}
          BY DEF State
        <4> QED
          BY <1>1, <4>1, <4>2 DEF Lifecycle!Moves, Lifecycle!Successors
      <3>2. /\ latestProposalIds[proposals[i].proposer] = i
            /\ proposals'[i].proposer = proposals[i].proposer
            /\ proposals[i].proposer \in Accounts /\ i # 0
        <4>1. proposals'[i].proposer = proposals[i].proposer
          BY <2>1, Lasting
        <4>2. proposals[i].proposer \in Accounts /\ i # 0
          BY <2>1, Numbers DEF Proposals
        <4> QED
          BY <2>1, <3>1, <4>1, <4>2 DEF LatestIsLive
      <3>3. CASE UNCHANGED latestProposalIds
        BY <3>2, <3>3
      <3>4. ASSUME NEW a \in Accounts, NEW actions \in ActionLists, Propose(a, actions)
            PROVE  latestProposalIds'[proposals[i].proposer] = i
        <4>1. /\ ~HasLiveProposal(a)
              /\ latestProposalIds' = [latestProposalIds EXCEPT ![a] = Len(proposals) + 1]
          BY <3>4 DEF Propose
        <4>2. a # proposals[i].proposer
          BY <3>1, <3>2, <4>1 DEF HasLiveProposal
        <4> QED
          BY <3>2, <4>1, <4>2 DEF Typed, TypedDAO
      <3>5. UNCHANGED latestProposalIds
            \/ \E a \in Accounts, actions \in ActionLists : Propose(a, actions)
        BY Steps, CastEffect, QueueEffect, CancelEffect, VetoEffect, ExecuteEffect,
           NextBlockEffect, AsideEffect
      <3> QED
        BY <3>2, <3>3, <3>4, <3>5
    <2>2. CASE i \notin ProposalIds
      <3>1. PICK a \in Accounts, actions \in ActionLists :
                     /\ Propose(a, actions) /\ i = Len(proposals) + 1
                     /\ proposals'[i] = NewProposal(a, actions)
        BY <2>2, OnlyProposeAdds
      <3>2. latestProposalIds' = [latestProposalIds EXCEPT ![a] = i]
        BY <3>1 DEF Propose
      <3>3. proposals'[i].proposer = a
        BY <3>1 DEF NewProposal
      <3> QED
        BY <3>2, <3>3 DEF Typed, TypedDAO
    <2> QED
      BY <2>1, <2>2
  <1> QED
    BY <1>1 DEF LatestIsLive

\* For the timelock, a proposal is as it was.
Same(i) ==
    /\ Waiting(i)' <=> Waiting(i)
    /\ Withdrawn(i)' <=> Withdrawn(i)
    /\ Own(i)' = Own(i)

\* id enters the timelock, with transactions that were not in it.
Enters(id) ==
    /\ ~Waiting(id) /\ ~Withdrawn(id) /\ Waiting(id)'
    /\ Own(id)' \cap queuedTransactions = {}
    /\ queuedTransactions' = queuedTransactions \cup Own(id)'

\* id leaves it, withdrawn or executed, or was not there, and its transactions go.
Leaves(id) ==
    /\ Own(id)' = Own(id) /\ ~Waiting(id)'
    /\ Withdrawn(id)' \/ (Waiting(id) /\ ~Withdrawn(id))
    /\ queuedTransactions' = queuedTransactions \ Own(id)

AllSame == queuedTransactions' = queuedTransactions /\ \A i \in ProposalIds : Same(i)
OthersSame(id) == \A i \in ProposalIds \ {id} : Same(i)

\* What steps do to the timelock.
LEMMA TimelockSteps ==
    ASSUME Typed, WellFormed, [Next]_vars
    PROVE  /\ \A i \in ProposalIds' : i \in ProposalIds \/ (~Waiting(i)' /\ ~Withdrawn(i)')
           /\ \/ AllSame
              \/ \E id \in ProposalIds : OthersSame(id) /\ (Enters(id) \/ Leaves(id))
  <1>1. ASSUME NEW i \in ProposalIds', i \notin ProposalIds
        PROVE  ~Waiting(i)' /\ ~Withdrawn(i)'
    <2>1. PICK a \in Accounts, actions \in ActionLists :
                   proposals'[i] = NewProposal(a, actions)
      BY <1>1, OnlyProposeAdds
    <2> QED
      BY <2>1 DEF NewProposal, Waiting, Withdrawn
  <1>2. ASSUME NEW i, proposals'[i] = proposals[i] PROVE Same(i)
    BY <1>2 DEF Same, Waiting, Withdrawn, Own
  <1>3. ASSUME NEW id \in ProposalIds, NEW q \in Proposals,
               proposals' = [proposals EXCEPT ![id] = q]
        PROVE  proposals'[id] = q /\ OthersSame(id)
    <2>1. \A i \in ProposalIds : proposals'[i] = IF i = id THEN q ELSE proposals[i]
      BY <1>3, OneUpdated
    <2>2. ASSUME NEW i \in ProposalIds \ {id} PROVE Same(i)
      BY <1>2, <2>1
    <2> QED
      BY <2>1, <2>2 DEF OthersSame
  <1>4. ASSUME NEW a \in Accounts, NEW actions \in ActionLists, Propose(a, actions)
        PROVE  AllSame
    BY <1>2, <1>4, ProposeEffect, OneAdded DEF AllSame
  <1>5. ASSUME NEW id \in ProposalIds, NEW a \in Accounts, NEW support \in Supports,
               CastVote(id, a, support)
        PROVE  AllSame
    <2> DEFINE votes == PriorVotes(a, SnapshotBlock(proposals[id]))
               q == CastOn(proposals[id], a, support, votes)
    <2>1. /\ votes \in Nat /\ support \in 0..2 /\ q \in Proposals
          /\ proposals' = [proposals EXCEPT ![id] = q]
          /\ queuedTransactions' = queuedTransactions
      BY <1>5, CastEffect
    <2>2. proposals[id] \in Proposals
      BY Numbers
    <2>3. SameBut(proposals[id], q, {"againstVotes", "forVotes", "abstainVotes", "receipts"})
      BY <2>1, <2>2, CastTyped
    <2> HIDE DEF q
    <2>4. proposals'[id] = q /\ OthersSame(id)
      BY <1>3, <2>1
    <2>5. Same(id)
      BY <2>3, <2>4 DEF Same, Waiting, Withdrawn, Own, SameBut, ProposalFields
    <2> QED
      BY <2>1, <2>4, <2>5 DEF AllSame, OthersSame
  <1>6. ASSUME NEW id \in ProposalIds, Queue(id)
        PROVE  Enters(id) /\ OthersSame(id)
    <2> DEFINE q == WithEta(proposals[id], time + delay, Moment)
    <2>1. /\ time + delay > 0 /\ time + delay \in Nat /\ q \in Proposals
          /\ proposals' = [proposals EXCEPT ![id] = q]
      BY <1>6, QueueEffect
    <2>2. SameBut(proposals[id], q, {"eta", "queued"}) /\ q.eta = time + delay
      <3>1. proposals[id] \in Proposals
        BY Numbers
      <3> QED
        BY <3>1, EtaSet
    <2> HIDE DEF q
    <2>3. proposals'[id] = q /\ OthersSame(id)
      BY <1>3, <2>1
    <2>4. /\ State(id) = "Succeeded"
          /\ QueueTransactions(proposals[id].actions, time + delay)
      BY <1>6 DEF Queue
    <2>5. /\ proposals[id].eta = 0 /\ ~proposals[id].executed
          /\ ~proposals[id].canceled /\ ~proposals[id].vetoed
      BY <2>4, WaitingStates DEF Withdrawn
    <2>6. Own(id)' = Transactions(proposals[id].actions, time + delay)
      BY <2>2, <2>3 DEF Own, SameBut, ProposalFields
    <2>7. /\ Own(id)' \cap queuedTransactions = {}
          /\ queuedTransactions' = queuedTransactions \cup Own(id)'
      BY <2>4, <2>6 DEF QueueTransactions
    <2>8. ~Waiting(id) /\ ~Withdrawn(id) /\ Waiting(id)'
      BY <2>1, <2>2, <2>3, <2>5 DEF Waiting, Withdrawn, SameBut, ProposalFields
    <2> QED
      BY <2>3, <2>7, <2>8 DEF Enters
  <1>7. ASSUME NEW id \in ProposalIds, NEW a \in Accounts, Cancel(id, a)
        PROVE  Leaves(id) /\ OthersSame(id)
    <2> DEFINE q == WithCanceled(proposals[id])
    <2>1. q \in Proposals /\ proposals' = [proposals EXCEPT ![id] = q]
      BY <1>7, CancelEffect
    <2>2. SameBut(proposals[id], q, {"canceled"}) /\ q.canceled
      BY Numbers, FlagsSet
    <2> HIDE DEF q
    <2>3. proposals'[id] = q /\ OthersSame(id)
      BY <1>3, <2>1
    <2>4. queuedTransactions' = queuedTransactions \ Own(id)
      BY <1>7 DEF Cancel, CancelTransactions, Own
    <2>5. Own(id)' = Own(id) /\ ~Waiting(id)' /\ Withdrawn(id)'
      BY <2>2, <2>3 DEF Own, Waiting, Withdrawn, SameBut, ProposalFields
    <2> QED
      BY <2>3, <2>4, <2>5 DEF Leaves
  <1>8. ASSUME NEW id \in ProposalIds, Veto(id)
        PROVE  Leaves(id) /\ OthersSame(id)
    <2> DEFINE q == WithVetoed(proposals[id])
    <2>1. q \in Proposals /\ proposals' = [proposals EXCEPT ![id] = q]
      BY <1>8, VetoEffect
    <2>2. SameBut(proposals[id], q, {"vetoed"}) /\ q.vetoed
      BY Numbers, FlagsSet
    <2> HIDE DEF q
    <2>3. proposals'[id] = q /\ OthersSame(id)
      BY <1>3, <2>1
    <2>4. queuedTransactions' = queuedTransactions \ Own(id)
      BY <1>8 DEF Veto, CancelTransactions, Own
    <2>5. Own(id)' = Own(id) /\ ~Waiting(id)' /\ Withdrawn(id)'
      BY <2>2, <2>3 DEF Own, Waiting, Withdrawn, SameBut, ProposalFields
    <2> QED
      BY <2>3, <2>4, <2>5 DEF Leaves
  <1>9. ASSUME NEW id \in ProposalIds, Execute(id)
        PROVE  Leaves(id) /\ OthersSame(id)
    <2> DEFINE q == WithExecuted(proposals[id])
    <2>1. q \in Proposals /\ proposals' = [proposals EXCEPT ![id] = q]
      BY <1>9, ExecuteEffect
    <2>2. SameBut(proposals[id], q, {"executed"}) /\ q.executed
      BY Numbers, FlagsSet
    <2> HIDE DEF q
    <2>3. proposals'[id] = q /\ OthersSame(id)
      BY <1>3, <2>1
    <2>4. /\ State(id) = "Queued"
          /\ ExecuteTransactions(proposals[id].actions, proposals[id].eta)
      BY <1>9 DEF Execute
    <2>5. queuedTransactions' = queuedTransactions \ Own(id)
      BY <2>4 DEF ExecuteTransactions, Own
    <2>6. Waiting(id) /\ ~Withdrawn(id)
      BY <2>4, WaitingStates
    <2>7. Own(id)' = Own(id) /\ ~Waiting(id)'
      BY <2>2, <2>3 DEF Own, Waiting, SameBut, ProposalFields
    <2> QED
      BY <2>3, <2>5, <2>6, <2>7 DEF Leaves
  <1>10. ASSUME NEW step \in TimeSteps, NextBlock(step)
         PROVE  AllSame
    BY <1>2, <1>10, NextBlockEffect DEF AllSame
  <1>11. ASSUME Aside PROVE AllSame
    BY <1>2, <1>11, AsideEffect DEF AllSame
  <1> QED
    BY <1>1, <1>4, <1>5, <1>6, <1>7, <1>8, <1>9, <1>10, <1>11, Steps

\* The timelock holds what waits, and what is missing there was withdrawn.
LEMMA NextTimelock ==
    ASSUME Typed, WellFormed, QueuedWaits, MissingIsShared, SharedIsWithdrawn, [Next]_vars
    PROVE  QueuedWaits' /\ MissingIsShared' /\ SharedIsWithdrawn'
  <1>1. /\ \A i \in ProposalIds' : i \in ProposalIds \/ (~Waiting(i)' /\ ~Withdrawn(i)')
        /\ \A i \in ProposalIds : i \in ProposalIds'
    BY TimelockSteps, Lasting
  <1>2. CASE AllSame
    BY <1>1, <1>2 DEF AllSame, Same, QueuedWaits, MissingIsShared, SharedIsWithdrawn
  <1>3. ASSUME NEW id \in ProposalIds, OthersSame(id), Enters(id)
        PROVE  QueuedWaits' /\ MissingIsShared' /\ SharedIsWithdrawn'
    <2>1. \A i \in ProposalIds \ {id} : Same(i)
      BY <1>3 DEF OthersSame
    <2>2. /\ ~Waiting(id) /\ ~Withdrawn(id) /\ Waiting(id)'
          /\ Own(id)' \cap queuedTransactions = {}
          /\ queuedTransactions' = queuedTransactions \cup Own(id)'
      BY <1>3 DEF Enters
    <2>3. QueuedWaits'
      BY <1>1, <2>1, <2>2 DEF Same, QueuedWaits
    <2>4. \A o \in ProposalIds : Withdrawn(o) =>
              o \in ProposalIds' /\ Withdrawn(o)' /\ Own(o)' = Own(o)
      BY <1>1, <2>1, <2>2 DEF Same
    <2>5. MissingIsShared'
      <3>1. ASSUME NEW i \in ProposalIds', Waiting(i)', NEW tx \in Own(i)'
            PROVE  tx \in queuedTransactions'
                   \/ \E o \in ProposalIds' \ {i} : Withdrawn(o)' /\ tx \in Own(o)'
        <4>1. CASE i = id
          BY <2>2, <3>1, <4>1
        <4>2. CASE i # id
          <5>1. i \in ProposalIds /\ Waiting(i) /\ tx \in Own(i)
            BY <1>1, <2>1, <3>1, <4>2 DEF Same
          <5> QED
            BY <2>2, <2>4, <5>1 DEF MissingIsShared
        <4> QED
          BY <4>1, <4>2
      <3> QED
        BY <3>1 DEF MissingIsShared
    <2>6. ASSUME NEW j \in ProposalIds', j # id, Waiting(j)',
                 NEW tx \in Own(id)', tx \in Own(j)'
          PROVE  \E o \in ProposalIds' : Withdrawn(o)' /\ tx \in Own(o)'
      <3>1. j \in ProposalIds /\ Waiting(j) /\ tx \in Own(j) /\ tx \notin queuedTransactions
        BY <1>1, <2>1, <2>2, <2>6 DEF Same
      <3>2. PICK o \in ProposalIds : Withdrawn(o) /\ tx \in Own(o)
        BY <3>1 DEF MissingIsShared
      <3> QED
        BY <2>4, <3>2
    <2>7. ASSUME NEW i \in ProposalIds', NEW j \in ProposalIds', i # j, i # id, j # id,
                 Waiting(i)', Waiting(j)', NEW tx \in Own(i)', tx \in Own(j)'
          PROVE  \E o \in ProposalIds' : Withdrawn(o)' /\ tx \in Own(o)'
      <3>1. /\ i \in ProposalIds /\ Waiting(i) /\ tx \in Own(i)
            /\ j \in ProposalIds /\ Waiting(j) /\ tx \in Own(j)
        BY <1>1, <2>1, <2>7 DEF Same
      <3>2. PICK o \in ProposalIds : Withdrawn(o) /\ tx \in Own(o)
        BY <2>7, <3>1 DEF SharedIsWithdrawn
      <3> QED
        BY <2>4, <3>2
    <2>8. SharedIsWithdrawn'
      BY <2>6, <2>7 DEF SharedIsWithdrawn
    <2> QED
      BY <2>3, <2>5, <2>8
  <1>4. ASSUME NEW id \in ProposalIds, OthersSame(id), Leaves(id)
        PROVE  QueuedWaits' /\ MissingIsShared' /\ SharedIsWithdrawn'
    <2>1. \A i \in ProposalIds \ {id} : Same(i)
      BY <1>4 DEF OthersSame
    <2>2. /\ Own(id)' = Own(id) /\ ~Waiting(id)'
          /\ Withdrawn(id)' \/ (Waiting(id) /\ ~Withdrawn(id))
          /\ queuedTransactions' = queuedTransactions \ Own(id)
      BY <1>4 DEF Leaves
    <2>3. QueuedWaits'
      BY <1>1, <2>1, <2>2 DEF Same, QueuedWaits
    <2>4. \A o \in ProposalIds : Withdrawn(o) =>
              o \in ProposalIds' /\ Withdrawn(o)' /\ Own(o)' = Own(o)
      BY <1>1, <2>1, <2>2 DEF Same
    <2>5. \A i \in ProposalIds' : Waiting(i)' =>
              i \in ProposalIds \ {id} /\ Waiting(i) /\ ~Withdrawn(i)' /\ Own(i)' = Own(i)
      BY <1>1, <2>1, <2>2 DEF Same, Waiting, Withdrawn
    <2>6. MissingIsShared'
      <3>1. ASSUME NEW i \in ProposalIds', Waiting(i)', NEW tx \in Own(i)'
            PROVE  tx \in queuedTransactions'
                   \/ \E o \in ProposalIds' \ {i} : Withdrawn(o)' /\ tx \in Own(o)'
        <4>1. i \in ProposalIds \ {id} /\ Waiting(i) /\ tx \in Own(i) /\ ~Withdrawn(i)'
          BY <2>5, <3>1
        <4>2. CASE tx \in Own(id) /\ Withdrawn(id)'
          BY <1>1, <2>2, <4>1, <4>2
        <4>3. CASE tx \in Own(id) /\ ~Withdrawn(id)'
          <5>1. Waiting(id)
            BY <2>2, <4>3
          <5>2. PICK o \in ProposalIds : Withdrawn(o) /\ tx \in Own(o)
            BY <4>1, <4>3, <5>1 DEF SharedIsWithdrawn
          <5> QED
            BY <2>4, <4>1, <5>2
        <4>4. CASE tx \notin Own(id) /\ tx \in queuedTransactions
          BY <2>2, <4>4
        <4>5. CASE tx \notin queuedTransactions
          <5>1. PICK o \in ProposalIds : Withdrawn(o) /\ tx \in Own(o)
            BY <4>1, <4>5 DEF MissingIsShared
          <5> QED
            BY <2>4, <4>1, <5>1
        <4> QED
          BY <4>2, <4>3, <4>4, <4>5
      <3> QED
        BY <3>1 DEF MissingIsShared
    <2>7. ASSUME NEW i \in ProposalIds', NEW j \in ProposalIds', i # j,
                 Waiting(i)', Waiting(j)', NEW tx \in Own(i)', tx \in Own(j)'
          PROVE  \E o \in ProposalIds' : Withdrawn(o)' /\ tx \in Own(o)'
      <3>1. /\ i \in ProposalIds /\ Waiting(i) /\ tx \in Own(i)
            /\ j \in ProposalIds /\ Waiting(j) /\ tx \in Own(j)
        BY <2>5, <2>7
      <3>2. PICK o \in ProposalIds : Withdrawn(o) /\ tx \in Own(o)
        BY <2>7, <3>1 DEF SharedIsWithdrawn
      <3> QED
        BY <2>4, <3>2
    <2>8. SharedIsWithdrawn'
      BY <2>7 DEF SharedIsWithdrawn
    <2> QED
      BY <2>3, <2>6, <2>8
  <1> QED
    BY <1>2, <1>3, <1>4, TimelockSteps

\* Until the voting delay changes, the block that votes are looked up in is that of the
\* proposal's creation.
LEMMA NextSnapshot ==
    ASSUME Typed, WellFormed, DelayFixed, Snapshot, [Next]_vars
    PROVE  Snapshot'
  <1>1. config["votingDelay"] = InitialConfig["votingDelay"]
    BY DEF DelayFixed
  <1> DEFINE d == InitialConfig["votingDelay"]
             Good(i) == LET p == proposals[i]
                        IN  /\ p.startBlock = p.created + d
                            /\ \A a \in Accounts : p.receipts[a].hasVoted =>
                                   /\ p.created \in DOMAIN history
                                   /\ p.receipts[a].votes = history[p.created][a]
  <1>2. d \in Nat /\ history \in Seq([Accounts -> Nat])
    BY DAOAssumption DEF Fields, Typed, TypedChain
  <1>3. \A b \in DOMAIN history : b \in DOMAIN history' /\ history'[b] = history[b]
    BY Steps, ProposeEffect, CastEffect, QueueEffect, CancelEffect, VetoEffect,
       ExecuteEffect, NextBlockEffect, AsideEffect
  <1>4. ASSUME NEW i \in ProposalIds, proposals'[i].receipts = proposals[i].receipts
        PROVE  Good(i)'
    <2>1. Good(i)
      BY DEF Snapshot
    <2>2. /\ proposals'[i].startBlock = proposals[i].startBlock
          /\ proposals'[i].created = proposals[i].created
      BY Lasting
    <2> QED
      BY <1>3, <1>4, <2>1, <2>2
  <1>5. ASSUME NEW id \in ProposalIds, NEW voter \in Accounts, NEW support \in Supports,
               CastVote(id, voter, support), NEW i \in ProposalIds
        PROVE  Good(i)'
    <2> DEFINE votes == PriorVotes(voter, SnapshotBlock(proposals[id]))
               q == CastOn(proposals[id], voter, support, votes)
               p == proposals[id]
    <2>1. /\ votes \in Nat /\ support \in 0..2 /\ q \in Proposals
          /\ proposals' = [proposals EXCEPT ![id] = q]
          /\ history' = history
      BY <1>5, CastEffect
    <2>2. p \in Proposals
      BY Numbers
    <2>3. q.receipts = [p.receipts EXCEPT ![voter] = Voted(support, votes)]
      BY <2>1, <2>2, CastTyped
    <2>4. proposals'[i] = IF i = id THEN q ELSE proposals[i]
      <3> HIDE DEF q
      <3> QED
        BY <2>1, OneUpdated
    <2>5. CASE i # id
      BY <1>4, <2>4, <2>5
    <2>6. CASE i = id
      <3>1. Good(id)
        BY DEF Snapshot
      <3>2. /\ q.startBlock = p.startBlock /\ q.created = p.created
        <4>1. SameBut(p, q, {"againstVotes", "forVotes", "abstainVotes", "receipts"})
          BY <2>1, <2>2, CastTyped
        <4> HIDE DEF q, p
        <4> QED
          BY <4>1 DEF SameBut, ProposalFields
      <3>3. p.created \in Nat /\ SnapshotBlock(p) = p.created
        BY <1>1, <1>2, <2>2, <3>1 DEF SnapshotBlock, Proposals
      <3>4. p.created \in DOMAIN history
        BY <1>5, <3>3 DEF CastVote
      <3>5. votes = history[p.created][voter]
        BY <3>3 DEF PriorVotes
      <3>6. p.receipts \in [Accounts -> Receipt]
        BY <2>2 DEF Proposals
      <3>7. \A a \in Accounts : q.receipts[a] = IF a = voter THEN Voted(support, votes)
                                                ELSE p.receipts[a]
        BY <2>3, <3>6
      <3>8. Voted(support, votes).votes = votes
        BY DEF Voted
      <3> HIDE DEF q, votes
      <3> QED
        BY <2>1, <2>4, <2>6, <3>1, <3>2, <3>4, <3>5, <3>7, <3>8
    <2> QED
      BY <2>5, <2>6
  <1>6. ASSUME NEW i \in ProposalIds PROVE Good(i)'
    <2>1. CASE \E id \in ProposalIds, a \in Accounts, support \in Supports :
                   CastVote(id, a, support)
      BY <1>5, <2>1
    <2>2. CASE ~\E id \in ProposalIds, a \in Accounts, support \in Supports :
                   CastVote(id, a, support)
      <3>1. ASSUME NEW id \in ProposalIds, NEW q \in Proposals,
                   proposals' = [proposals EXCEPT ![id] = q],
                   q.receipts = proposals[id].receipts
            PROVE  proposals'[i].receipts = proposals[i].receipts
        BY <3>1, OneUpdated
      <3>2. ASSUME NEW id \in ProposalIds
            PROVE  /\ WithEta(proposals[id], time + delay, Moment).receipts = proposals[id].receipts
                   /\ WithCanceled(proposals[id]).receipts = proposals[id].receipts
                   /\ WithVetoed(proposals[id]).receipts = proposals[id].receipts
                   /\ WithExecuted(proposals[id]).receipts = proposals[id].receipts
        <4>1. proposals[id] \in Proposals
          BY Numbers
        <4> QED
          BY <4>1, FlagsSet, EtaSet DEF SameBut, ProposalFields
      <3>3. ASSUME NEW id \in ProposalIds, Queue(id)
            PROVE  proposals'[i].receipts = proposals[i].receipts
        BY <3>1, <3>2, <3>3, QueueEffect
      <3>4. ASSUME NEW id \in ProposalIds, NEW a \in Accounts, Cancel(id, a)
            PROVE  proposals'[i].receipts = proposals[i].receipts
        BY <3>1, <3>2, <3>4, CancelEffect
      <3>5. ASSUME NEW id \in ProposalIds, Veto(id)
            PROVE  proposals'[i].receipts = proposals[i].receipts
        BY <3>1, <3>2, <3>5, VetoEffect
      <3>6. ASSUME NEW id \in ProposalIds, Execute(id)
            PROVE  proposals'[i].receipts = proposals[i].receipts
        BY <3>1, <3>2, <3>6, ExecuteEffect
      <3>7. ASSUME NEW a \in Accounts, NEW actions \in ActionLists, Propose(a, actions)
            PROVE  proposals'[i].receipts = proposals[i].receipts
        BY <3>7, ProposeEffect, OneAdded
      <3>8. ASSUME NEW step \in TimeSteps, NextBlock(step)
            PROVE  proposals'[i].receipts = proposals[i].receipts
        BY <3>8, NextBlockEffect
      <3>9. ASSUME Aside PROVE proposals'[i].receipts = proposals[i].receipts
        BY <3>9, AsideEffect
      <3>10. proposals'[i].receipts = proposals[i].receipts
        BY <2>2, <3>3, <3>4, <3>5, <3>6, <3>7, <3>8, <3>9, Steps
      <3> QED
        BY <1>4, <3>10
    <2> QED
      BY <2>1, <2>2
  <1>7. ASSUME NEW i \in ProposalIds', i \notin ProposalIds PROVE Good(i)'
    <2>1. PICK a \in Accounts, actions \in ActionLists :
                   proposals'[i] = NewProposal(a, actions)
      BY <1>7, OnlyProposeAdds
    <2> QED
      BY <1>1, <2>1 DEF NewProposal, NotVoted
  <1> HIDE DEF Good
  <1>8. \A i \in ProposalIds' : Good(i)'
    BY <1>6, <1>7
  <1> QED
    BY <1>8 DEF Snapshot, Good

-----------------------------------------------------------------------------
(* The count.                                                              *)

VotersFor(p, support) ==
    {a \in Accounts : p.receipts[a].hasVoted /\ p.receipts[a].support = support}

Weights(p) == [a \in Accounts |-> p.receipts[a].votes]

\* Finitely many have voted, and the tallies add up what their receipts say.
Adds(p) ==
    /\ IsFiniteSet(VotersFor(p, 0)) /\ p.againstVotes = Total(Weights(p), VotersFor(p, 0))
    /\ IsFiniteSet(VotersFor(p, 1)) /\ p.forVotes = Total(Weights(p), VotersFor(p, 1))

Tallied == \A i \in ProposalIds : Adds(proposals[i])

\* The first vote of an account raises the sum of the side it is for by its weight.
LEMMA OneMoreVote ==
    ASSUME NEW p \in Proposals, NEW voter \in Accounts, ~p.receipts[voter].hasVoted,
           NEW support \in 0..2, NEW votes \in Nat, NEW side \in 0..1,
           IsFiniteSet(VotersFor(p, side))
    PROVE  LET q == CastOn(p, voter, support, votes)
           IN  /\ IsFiniteSet(VotersFor(q, side))
               /\ Total(Weights(q), VotersFor(q, side)) =
                      Total(Weights(p), VotersFor(p, side)) + VotesIf(support = side, votes)
  <1> DEFINE q == CastOn(p, voter, support, votes)
             before == VotersFor(p, side)
             after == VotersFor(q, side)
  <1>1. /\ q.receipts = [p.receipts EXCEPT ![voter] = Voted(support, votes)]
        /\ q \in Proposals
    <2> HIDE DEF before, after
    <2>1. p \in Proposals /\ voter \in Accounts /\ support \in 0..2 /\ votes \in Nat
      OBVIOUS
    <2> QED
      BY ONLY <2>1, CastTyped
  <1>2. p.receipts \in [Accounts -> Receipt] /\ q.receipts \in [Accounts -> Receipt]
    BY <1>1 DEF Proposals
  <1> HIDE DEF q
  <1>3. \A a \in Accounts : q.receipts[a] = IF a = voter THEN Voted(support, votes)
                                            ELSE p.receipts[a]
    BY <1>1, <1>2
  <1>4. /\ Voted(support, votes).hasVoted /\ Voted(support, votes).support = support
        /\ Voted(support, votes).votes = votes
    BY DEF Voted
  <1>5. /\ \A a \in Accounts : Weights(q)[a] \in Nat /\ Weights(p)[a] \in Nat
        /\ \A a \in Accounts \ {voter} : Weights(q)[a] = Weights(p)[a]
        /\ Weights(q)[voter] = votes
    BY <1>2, <1>3, <1>4 DEF Weights, Receipt
  <1>6. before \subseteq Accounts \ {voter}
    BY DEF VotersFor
  <1>7. Total(Weights(q), before) = Total(Weights(p), before)
    BY <1>5, <1>6, TotalSame
  <1>8. CASE support # side
    <2>1. after = before
      BY <1>3, <1>4, <1>8 DEF VotersFor
    <2>2. Total(Weights(p), before) \in Nat
      BY <1>5, <1>6, TotalNat
    <2> QED
      BY <1>7, <1>8, <2>1, <2>2 DEF VotesIf, q
  <1>9. CASE support = side
    <2>1. after = before \cup {voter}
      BY <1>3, <1>4, <1>9 DEF VotersFor
    <2>2. IsFiniteSet(after) /\ voter \in after /\ after \ {voter} = before
          /\ after \subseteq Accounts
      BY <1>6, <2>1, FS_AddElement
    <2> HIDE DEF after, before
    <2>3. Total(Weights(q), after) = Weights(q)[voter] + Total(Weights(q), after \ {voter})
      BY <1>5, <2>2, TotalTake
    <2>4. Total(Weights(p), before) \in Nat
      BY <1>5, <1>6, TotalNat DEF before
    <2>5. Total(Weights(q), after) = Total(Weights(p), before) + votes
      BY <1>5, <1>7, <2>2, <2>3, <2>4
    <2>6. VotesIf(support = side, votes) = votes
      BY <1>9 DEF VotesIf
    <2> QED
      BY <2>2, <2>5, <2>6 DEF q, after, before
  <1> QED
    BY <1>8, <1>9

\* A proposal's votes change when one is cast on it, and by no other step.
LEMMA VotesByCasting ==
    ASSUME Typed, [Next]_vars, NEW i \in ProposalIds
    PROVE  \/ \A f \in {"receipts", "forVotes", "againstVotes"} :
                  proposals'[i][f] = proposals[i][f]
           \/ \E voter \in Accounts, support \in Supports : CastVote(i, voter, support)
  <1> DEFINE Kept == \A f \in {"receipts", "forVotes", "againstVotes"} :
                         proposals'[i][f] = proposals[i][f]
  <1>1. ASSUME NEW id \in ProposalIds, NEW q \in Proposals,
               proposals' = [proposals EXCEPT ![id] = q],
               SameBut(proposals[id], q, {"eta", "queued", "canceled", "vetoed", "executed"})
        PROVE  Kept
    BY <1>1, OneUpdated DEF SameBut, ProposalFields
  <1>2. ASSUME NEW id \in ProposalIds, NEW eta, NEW at
        PROVE  LET p == proposals[id]
                   flags == {"eta", "queued", "canceled", "vetoed", "executed"}
               IN  /\ SameBut(p, WithEta(p, eta, at), flags)
                   /\ SameBut(p, WithCanceled(p), flags)
                   /\ SameBut(p, WithVetoed(p), flags)
                   /\ SameBut(p, WithExecuted(p), flags)
    <2>1. proposals[id] \in Proposals
      BY Numbers
    <2> QED
      BY <2>1, FlagsSet, EtaSet DEF SameBut
  <1>3. ASSUME NEW id \in ProposalIds, Queue(id) PROVE Kept
    BY <1>1, <1>2, <1>3, QueueEffect
  <1>4. ASSUME NEW id \in ProposalIds, NEW a \in Accounts, Cancel(id, a) PROVE Kept
    BY <1>1, <1>2, <1>4, CancelEffect
  <1>5. ASSUME NEW id \in ProposalIds, Veto(id) PROVE Kept
    BY <1>1, <1>2, <1>5, VetoEffect
  <1>6. ASSUME NEW id \in ProposalIds, Execute(id) PROVE Kept
    BY <1>1, <1>2, <1>6, ExecuteEffect
  <1>7. ASSUME NEW a \in Accounts, NEW actions \in ActionLists, Propose(a, actions)
        PROVE  Kept
    BY <1>7, ProposeEffect, OneAdded
  <1>8. ASSUME NEW step \in TimeSteps, NextBlock(step) PROVE Kept
    BY <1>8, NextBlockEffect
  <1>9. ASSUME Aside PROVE Kept
    BY <1>9, AsideEffect
  <1>10. ASSUME NEW id \in ProposalIds, id # i, NEW voter \in Accounts,
                NEW support \in Supports, CastVote(id, voter, support)
         PROVE  Kept
    BY <1>10, CastEffect, OneUpdated
  <1> HIDE DEF Kept
  <1>11. ASSUME NEW id \in ProposalIds, NEW a \in Accounts, NEW support \in Supports,
                CastVote(id, a, support)
         PROVE  Kept \/ \E voter \in Accounts, s \in Supports : CastVote(i, voter, s)
    BY <1>10, <1>11
  <1>12. Kept \/ \E voter \in Accounts, support \in Supports : CastVote(i, voter, support)
    BY <1>3, <1>4, <1>5, <1>6, <1>7, <1>8, <1>9, <1>11, Steps
  <1> QED
    BY <1>12 DEF Kept

\* So the tallies stay the sums of the receipts.
LEMMA NextTallied ==
    ASSUME Typed, Tallied, [Next]_vars
    PROVE  Tallied'
  <1>1. ASSUME NEW i \in ProposalIds,
               \A f \in {"receipts", "forVotes", "againstVotes"} :
                   proposals'[i][f] = proposals[i][f]
        PROVE  Adds(proposals'[i])
    <2>1. Adds(proposals[i])
      BY DEF Tallied
    <2>2. \A side : VotersFor(proposals'[i], side) = VotersFor(proposals[i], side)
      BY <1>1 DEF VotersFor
    <2>3. Weights(proposals'[i]) = Weights(proposals[i])
      BY <1>1 DEF Weights
    <2> QED
      BY <1>1, <2>1, <2>2, <2>3 DEF Adds
  <1>2. ASSUME NEW i \in ProposalIds, NEW voter \in Accounts, NEW support \in Supports,
               CastVote(i, voter, support)
        PROVE  Adds(proposals'[i])
    <2> DEFINE p == proposals[i]
               votes == PriorVotes(voter, SnapshotBlock(proposals[i]))
               q == CastOn(p, voter, support, votes)
    <2>1. /\ votes \in Nat /\ support \in 0..2 /\ q \in Proposals
          /\ proposals' = [proposals EXCEPT ![i] = q]
      BY <1>2, CastEffect
    <2>2. p \in Proposals /\ ~p.receipts[voter].hasVoted
      BY <1>2, Numbers DEF CastVote, MayVote
    <2>3. Adds(p)
      BY DEF Tallied
    <2> HIDE DEF votes
    <2>4. /\ q.forVotes = p.forVotes + VotesIf(support = 1, votes)
          /\ q.againstVotes = p.againstVotes + VotesIf(support = 0, votes)
      <3> HIDE DEF p
      <3> QED
        BY <2>2 DEF CastOn, Proposals
    <2> HIDE DEF p, q
    <2>5. proposals'[i] = q
      <3>1. \A j \in ProposalIds : proposals'[j] = IF j = i THEN q ELSE proposals[j]
        BY <2>1, OneUpdated
      <3> QED
        BY <3>1
    <2>6. ASSUME NEW side \in 0..1
          PROVE  /\ IsFiniteSet(VotersFor(q, side))
                 /\ Total(Weights(q), VotersFor(q, side)) =
                      Total(Weights(p), VotersFor(p, side)) + VotesIf(support = side, votes)
      <3>1. IsFiniteSet(VotersFor(p, side))
        BY <2>3 DEF Adds
      <3> QED
        BY <2>1, <2>2, <3>1, OneMoreVote DEF q
    <2> QED
      BY <2>3, <2>4, <2>5, <2>6 DEF Adds
  <1>3. ASSUME NEW i \in ProposalIds', i \notin ProposalIds PROVE Adds(proposals'[i])
    <2>1. PICK a \in Accounts, actions \in ActionLists :
                   proposals'[i] = NewProposal(a, actions)
      BY <1>3, OnlyProposeAdds
    <2> DEFINE q == NewProposal(a, actions)
    <2>2. /\ q.receipts = [x \in Accounts |-> NotVoted]
          /\ q.forVotes = 0 /\ q.againstVotes = 0
      BY DEF NewProposal
    <2> HIDE DEF q
    <2>3. \A side : VotersFor(q, side) = {}
      BY <2>2 DEF VotersFor, NotVoted
    <2>4. IsFiniteSet({}) /\ Total(Weights(q), {}) = 0
      BY FS_EmptySet, TotalStep
    <2>5. Adds(q)
      BY <2>2, <2>3, <2>4 DEF Adds
    <2> QED
      BY <2>1, <2>5 DEF q
  <1>4. \A i \in ProposalIds : Adds(proposals'[i])
    BY <1>1, <1>2, VotesByCasting
  <1> QED
    BY <1>3, <1>4 DEF Tallied

\* Weighed at the proposal's creation, the tallies are what those who voted held then.
LEMMA TalliesAreHoldings ==
    ASSUME Snapshot, Tallied, NEW i \in ProposalIds
    PROVE  /\ proposals[i].forVotes = Supporting(proposals[i], 1)
           /\ proposals[i].againstVotes = Supporting(proposals[i], 0)
  <1> DEFINE p == proposals[i]
             held == history[p.created]
  <1>1. \A a \in Accounts : p.receipts[a].hasVoted => p.receipts[a].votes = held[a]
    BY DEF Snapshot
  <1>2. Adds(p)
    BY DEF Tallied
  <1> HIDE DEF p
  <1>3. ASSUME NEW side, IsFiniteSet(VotersFor(p, side))
        PROVE  Total(Weights(p), VotersFor(p, side)) = Total(held, VotersFor(p, side))
    <2>1. \A a \in VotersFor(p, side) : Weights(p)[a] = held[a]
      BY <1>1 DEF VotersFor, Weights
    <2> HIDE DEF held
    <2> QED
      BY <1>3, <2>1, TotalSame
  <1>4. ASSUME NEW side PROVE Supporting(p, side) = Total(held, VotersFor(p, side))
    BY Zenon DEF Supporting, Total, VotersFor
  <1> QED
    BY <1>2, <1>3, <1>4 DEF Adds, p

-----------------------------------------------------------------------------
(* Notice.                                                                 *)

\* A proposal with an eta was queued after its vote, and the shortest delay there is
\* lies between.
Noticed ==
    \A i \in ProposalIds :
        LET p == proposals[i]
        IN  p.eta # 0 => /\ p.queued.block > p.endBlock
                         /\ p.queued.time + Min(Delays) <= p.eta

\* No delay is shorter than that one.
LEMMA ShortestDelay ==
    ASSUME Typed
    PROVE  Min(Delays) \in Nat /\ Min(Delays) <= delay
  <1>1. Delays \subseteq Nat /\ delay \in Delays
    BY ExecutorAssumption DEF Typed, TypedChain
  <1>2. Min(Delays) \in Delays /\ Min(Delays) <= delay
    BY <1>1, SmallestExists
  <1> QED
    BY <1>1, <1>2

\* A proposal gets its eta by being queued, and by no other step.
LEMMA EtaByQueueing ==
    ASSUME Typed, [Next]_vars, NEW i \in ProposalIds
    PROVE  \/ /\ proposals'[i].eta = proposals[i].eta
              /\ proposals'[i].queued = proposals[i].queued
           \/ Queue(i)
  <1> DEFINE Kept == /\ proposals'[i].eta = proposals[i].eta
                     /\ proposals'[i].queued = proposals[i].queued
  <1>1. ASSUME NEW id \in ProposalIds, NEW q \in Proposals,
               proposals' = [proposals EXCEPT ![id] = q],
               i = id => q.eta = proposals[i].eta /\ q.queued = proposals[i].queued
        PROVE  Kept
    BY <1>1, OneUpdated
  <1>2. ASSUME NEW id \in ProposalIds
        PROVE  LET p == proposals[id]
               IN  /\ WithCanceled(p).eta = p.eta /\ WithCanceled(p).queued = p.queued
                   /\ WithVetoed(p).eta = p.eta /\ WithVetoed(p).queued = p.queued
                   /\ WithExecuted(p).eta = p.eta /\ WithExecuted(p).queued = p.queued
    <2>1. proposals[id] \in Proposals
      BY Numbers
    <2> QED
      BY <2>1, FlagsSet DEF SameBut, ProposalFields
  <1>3. ASSUME NEW id \in ProposalIds, id # i, Queue(id) PROVE Kept
    BY <1>1, <1>3, QueueEffect
  <1>4. ASSUME NEW id \in ProposalIds, NEW a \in Accounts, Cancel(id, a) PROVE Kept
    BY <1>1, <1>2, <1>4, CancelEffect
  <1>5. ASSUME NEW id \in ProposalIds, Veto(id) PROVE Kept
    BY <1>1, <1>2, <1>5, VetoEffect
  <1>6. ASSUME NEW id \in ProposalIds, Execute(id) PROVE Kept
    BY <1>1, <1>2, <1>6, ExecuteEffect
  <1>7. ASSUME NEW a \in Accounts, NEW actions \in ActionLists, Propose(a, actions)
        PROVE  Kept
    BY <1>7, ProposeEffect, OneAdded
  <1>8. ASSUME NEW step \in TimeSteps, NextBlock(step) PROVE Kept
    BY <1>8, NextBlockEffect
  <1>9. ASSUME Aside PROVE Kept
    BY <1>9, AsideEffect
  <1>10. ASSUME NEW id \in ProposalIds, NEW voter \in Accounts, NEW support \in Supports,
                CastVote(id, voter, support)
         PROVE  Kept
    <2> DEFINE votes == PriorVotes(voter, SnapshotBlock(proposals[id]))
               q == CastOn(proposals[id], voter, support, votes)
    <2>1. /\ votes \in Nat /\ support \in 0..2 /\ q \in Proposals
          /\ proposals' = [proposals EXCEPT ![id] = q]
      BY <1>10, CastEffect
    <2>2. SameBut(proposals[id], q, {"againstVotes", "forVotes", "abstainVotes", "receipts"})
      BY <2>1, Numbers, CastTyped
    <2> HIDE DEF q
    <2>3. q.eta = proposals[id].eta /\ q.queued = proposals[id].queued
      BY <2>2 DEF SameBut, ProposalFields
    <2> HIDE DEF Kept
    <2> QED
      BY <1>1, <2>1, <2>3
  <1> HIDE DEF Kept
  <1>11. Kept \/ Queue(i)
    BY <1>3, <1>4, <1>5, <1>6, <1>7, <1>8, <1>9, <1>10, Steps
  <1> QED
    BY <1>11 DEF Kept

\* The delay of the moment is added when a proposal is queued, and nothing is changed then.
LEMMA NextNoticed ==
    ASSUME Typed, WellFormed, Noticed, [Next]_vars
    PROVE  Noticed'
  <1> DEFINE Good(i) ==
          LET p == proposals[i]
          IN  p.eta # 0 => /\ p.queued.block > p.endBlock
                           /\ p.queued.time + Min(Delays) <= p.eta
  <1>1. ASSUME NEW i \in ProposalIds PROVE Good(i)'
    <2>1. i \in ProposalIds' /\ proposals'[i].endBlock = proposals[i].endBlock
      BY Lasting
    <2>2. CASE /\ proposals'[i].eta = proposals[i].eta
               /\ proposals'[i].queued = proposals[i].queued
      BY <2>1, <2>2 DEF Noticed
    <2>3. CASE Queue(i)
      <3> DEFINE q == WithEta(proposals[i], time + delay, Moment)
      <3>1. q \in Proposals /\ proposals' = [proposals EXCEPT ![i] = q]
        BY <2>3, QueueEffect
      <3>2. q.eta = time + delay /\ q.queued = Moment
        BY Numbers, EtaSet
      <3> HIDE DEF q
      <3>3. \A j \in ProposalIds : proposals'[j] = IF j = i THEN q ELSE proposals[j]
        BY <3>1, OneUpdated
      <3>4. block > proposals[i].endBlock
        <4>1. State(i) = "Succeeded" /\ block \in Nat /\ proposals[i].endBlock \in Nat
          BY <2>3, Numbers DEF Queue, Proposals
        <4> QED
          BY <4>1 DEF State
      <3>5. time + Min(Delays) <= time + delay
        BY Numbers, ShortestDelay
      <3> QED
        BY <2>1, <3>2, <3>3, <3>4, <3>5 DEF Moment
    <2> QED
      BY <2>2, <2>3, EtaByQueueing
  <1>2. ASSUME NEW i \in ProposalIds', i \notin ProposalIds PROVE Good(i)'
    <2>1. PICK a \in Accounts, actions \in ActionLists :
                   proposals'[i] = NewProposal(a, actions)
      BY <1>2, OnlyProposeAdds
    <2> QED
      BY <2>1 DEF NewProposal
  <1> HIDE DEF Good
  <1>3. \A i \in ProposalIds' : Good(i)'
    BY <1>1, <1>2
  <1> QED
    BY <1>3 DEF Noticed, Good

\* What calls leave in a field that they change was set by one of them.
LEMMA ChangedIsSet ==
    ASSUME NEW calls, NEW n \in Nat, DOMAIN calls = 1..n, NEW field, NEW old,
           ValueAfter(calls, field, old) # old
    PROVE  Sets(calls, field, ValueAfter(calls, field, old))
  <1> DEFINE setters == {i \in DOMAIN calls : calls[i].field = field}
  <1>1. setters # {} /\ ValueAfter(calls, field, old) = calls[Max(setters)].value
    BY DEF ValueAfter
  <1>2. setters \in SUBSET (1..n)
    OBVIOUS
  <1>3. Max(setters) \in setters
    <2> HIDE DEF setters
    <2> QED
      BY <1>1, <1>2, LastExists
  <1> QED
    BY <1>1, <1>3 DEF Sets

\* While the timelock is the admin, only execute changes the settings, its delay, or
\* who is to be the next admin.
LEMMA OnlyExecuteSets ==
    ASSUME Typed, [Next]_vars, admin = Timelock,
           config' # config \/ delay' # delay \/ pendingAdmin' \notin {pendingAdmin, Zero}
    PROVE  \E id \in ProposalIds : Execute(id)
  <1> DEFINE Kept == UNCHANGED <<config, delay>> /\ pendingAdmin' \in {pendingAdmin, Zero}
  <1>1. ASSUME NEW a \in Accounts, NEW actions \in ActionLists, Propose(a, actions)
        PROVE  Kept
    BY <1>1 DEF Propose, roleVars
  <1>2. ASSUME NEW id, NEW a, NEW support, CastVote(id, a, support)
        PROVE  Kept
    BY <1>2 DEF CastVote, roleVars
  <1>3. ASSUME NEW id, NEW a, Queue(id) \/ Cancel(id, a) \/ Veto(id)
        PROVE  Kept
    BY <1>3 DEF Queue, Cancel, Veto, roleVars
  <1>4. ASSUME NEW step, NextBlock(step) PROVE Kept
    BY <1>4 DEF NextBlock, roleVars
  <1>5. ASSUME NEW call, CallAsAdmin(call) PROVE FALSE
    BY <1>5, DAOAssumption DEF CallAsAdmin
  <1>6. ASSUME NEW newPower, NEW newSupply, LedgerStep(newPower, newSupply)
        PROVE  Kept
    BY <1>6 DEF LedgerStep, roleVars
  <1>7. ASSUME Aside PROVE Kept
    BY <1>5, <1>6, <1>7 DEF Aside, _acceptAdmin, _setVetoer, Mint, MoveVote, Burn,
       vars, roleVars
  <1> QED
    BY <1>1, <1>2, <1>3, <1>4, <1>7, Steps

-----------------------------------------------------------------------------
(* The invariant holds.                                                    *)

\* At the start there is no proposal, and nothing in the timelock.
LEMMA InitInv == Init => IInv
  <1> SUFFICES ASSUME Init PROVE IInv
    OBVIOUS
  <1>1. ProposalIds = {} /\ queuedTransactions = {}
    BY DEF Init, ProposalIds
  <1> QED
    BY <1>1, InitTyped DEF IInv, WellFormed, LatestIsLive, QueuedWaits, MissingIsShared,
                           SharedIsWithdrawn

\* Every step keeps all of it.
LEMMA NextInv == IInv /\ [Next]_vars => IInv'
  <1> SUFFICES ASSUME IInv, [Next]_vars PROVE IInv'
    OBVIOUS
  <1>1. Typed'
    BY Steps, ProposeEffect, CastEffect, QueueEffect, CancelEffect, VetoEffect,
       ExecuteEffect, NextBlockEffect, AsideEffect DEF IInv
  <1>2. WellFormed'
    BY NextWellFormed DEF IInv
  <1>3. LatestIsLive'
    BY NextLatest DEF IInv
  <1>4. QueuedWaits' /\ MissingIsShared' /\ SharedIsWithdrawn'
    BY NextTimelock DEF IInv
  <1> QED
    BY <1>1, <1>2, <1>3, <1>4 DEF IInv

\* The invariant holds in every state.
LEMMA Invariant == Spec => []IInv
  BY InitInv, NextInv, PTL DEF Spec

-----------------------------------------------------------------------------
(* The results.                                                            *)

\* The admin, the admin to be and the vetoer are accounts, or nobody.
RolesTyped ==
    /\ admin \in Accounts \cup {Timelock}
    /\ pendingAdmin \in Accounts \cup {Zero}
    /\ vetoer \in Accounts \cup {Zero}

\* Whoever sets them, they stay so.
LEMMA RolesKept == Typed /\ RolesTyped /\ [Next]_vars => RolesTyped'
  <1> SUFFICES ASSUME Typed, RolesTyped, [Next]_vars PROVE RolesTyped'
    OBVIOUS
  <1>1. ASSUME UNCHANGED roleVars PROVE RolesTyped'
    BY <1>1 DEF RolesTyped, roleVars
  <1>2. ASSUME NEW sender, NEW calls, NEW n \in Nat, DOMAIN calls = 1..n, Calls(sender, calls),
               UNCHANGED <<admin, vetoer>>
        PROVE  RolesTyped'
    BY <1>2, CallsWithinLimits, DAOAssumption DEF RolesTyped
  <1>3. ASSUME NEW id \in ProposalIds, Execute(id) PROVE RolesTyped'
    <2>1. proposals[id] \in Proposals
      BY Numbers
    <2>2. /\ Len(proposals[id].actions) \in Nat
          /\ DOMAIN proposals[id].actions = 1..Len(proposals[id].actions)
      BY <2>1, DAOAssumption DEF Proposals
    <2> QED
      BY <1>2, <1>3, <2>2 DEF Execute
  <1>4. ASSUME NEW call \in AdminCalls, CallAsAdmin(call) PROVE RolesTyped'
    <2>1. DOMAIN <<call>> = 1..1 /\ Calls(admin, <<call>>) /\ UNCHANGED <<admin, vetoer>>
      BY <1>4 DEF CallAsAdmin
    <2> QED
      BY <1>2, <2>1
  <1>5. CASE _acceptAdmin
    BY <1>5 DEF _acceptAdmin, RolesTyped
  <1>6. ASSUME NEW a \in Vetoers \cup {Zero}, _setVetoer(a) PROVE RolesTyped'
    BY <1>6, DAOAssumption DEF _setVetoer, RolesTyped
  <1>7. ASSUME NEW a \in Accounts, NEW actions \in ActionLists, Propose(a, actions)
        PROVE  RolesTyped'
    BY <1>1, <1>7 DEF Propose
  <1>8. ASSUME NEW id \in ProposalIds, NEW a \in Accounts, NEW support \in Supports,
               CastVote(id, a, support)
        PROVE  RolesTyped'
    BY <1>1, <1>8 DEF CastVote
  <1>9. ASSUME NEW id \in ProposalIds, NEW a \in Accounts,
               Queue(id) \/ Cancel(id, a) \/ Veto(id)
        PROVE  RolesTyped'
    BY <1>1, <1>9 DEF Queue, Cancel, Veto
  <1>10. ASSUME NEW newPower, NEW newSupply, LedgerStep(newPower, newSupply)
         PROVE  RolesTyped'
    BY <1>1, <1>10 DEF LedgerStep
  <1>11. ASSUME NEW step \in TimeSteps, NextBlock(step) PROVE RolesTyped'
    BY <1>1, <1>11 DEF NextBlock
  <1>12. CASE UNCHANGED vars
    BY <1>1, <1>12 DEF vars
  <1>13. CASE \E id \in ProposalIds : Queue(id) \/ Veto(id)
    BY <1>1, <1>13 DEF Queue, Veto
  <1> QED
    BY <1>3, <1>4, <1>5, <1>6, <1>7, <1>8, <1>9, <1>10, <1>11, <1>12, <1>13
    DEF Next, Mint, MoveVote, Burn

\* Every variable keeps its type: tallies are natural numbers, the settings stay within
\* their limits and the delay within those of the timelock, though executed proposals
\* write them.
THEOREM TypeCorrect == Spec => []TypeOK
  <1>1. Init => RolesTyped
    BY DAOAssumption DEF Init, RolesTyped
  <1>2. IInv /\ RolesTyped => TypeOK
    <2> SUFFICES ASSUME IInv, RolesTyped PROVE TypeOK
      OBVIOUS
    <2>1. Typed /\ QueuedWaits
      BY DEF IInv
    <2>2. ASSUME NEW tx \in queuedTransactions PROVE tx[2] \in Nat
      <3>1. PICK i \in ProposalIds : tx \in Own(i)
        BY <2>1 DEF QueuedWaits
      <3>2. tx[2] = proposals[i].eta
        BY <3>1 DEF Own, Transactions
      <3>3. proposals[i] \in Proposals
        BY <2>1, Numbers
      <3> QED
        BY <3>2, <3>3 DEF Proposals
    <2> QED
      BY <2>1, <2>2
      DEF TypeOK, Typed, TypedDAO, TypedChain, RolesTyped, Proposals
  <1>3. IInv => Typed
    BY DEF IInv
  <1> QED
    BY <1>1, <1>2, <1>3, RolesKept, Invariant, PTL DEF Spec

\* propose: whoever has a proposal pending or active cannot make another, although the
\* contract remembers only the latest of each proposer.
THEOREM ProposersWait == Spec => []OneLiveProposal
  <1>1. IInv => OneLiveProposal
    <2> SUFFICES ASSUME IInv, NEW i \in ProposalIds, NEW j \in ProposalIds,
                        proposals[i].proposer = proposals[j].proposer,
                        {State(i), State(j)} \subseteq {"Pending", "Active"}
                 PROVE  i = j
      BY DEF OneLiveProposal
    <2> QED
      BY DEF IInv, LatestIsLive
  <1> QED
    BY <1>1, Invariant, PTL

\* queue, cancel, veto and execute: what lies in the timelock belongs to a proposal that
\* is queued, or has expired there.
THEOREM TimelockClean == Spec => []NothingElseQueued
  <1>1. IInv => NothingElseQueued
    BY WaitingStates DEF IInv, QueuedWaits, NothingElseQueued, Own
  <1> QED
    BY <1>1, Invariant, PTL

\* cancel and veto: only they can take from a queued proposal a transaction that it needs
\* to be executed, and only from one that shares it, with the same eta.
THEOREM OnlyWithdrawalsTake == Spec => []QueuedUnlessShared
  <1>1. IInv => QueuedUnlessShared
    <2> SUFFICES ASSUME IInv, NEW i \in ProposalIds, State(i) = "Queued"
                 PROVE  \/ Own(i) \subseteq queuedTransactions
                        \/ \E o \in ProposalIds \ {i} :
                               Withdrawn(o) /\ Own(o) \cap Own(i) # {}
      BY DEF QueuedUnlessShared, Own, Withdrawn
    <2>1. Waiting(i)
      BY WaitingStates DEF IInv
    <2> QED
      BY <2>1 DEF IInv, MissingIsShared
  <1> QED
    BY <1>1, Invariant, PTL

\* castVote: as long as votingDelay is not changed, every vote weighs what its voter had
\* when the proposal was made.
THEOREM VotesWeighAtCreation == Spec /\ []DelayFixed => []VotesFromCreation
  <1>1. Init => Snapshot
    BY DEF Init, Snapshot, ProposalIds
  <1>2. IInv /\ DelayFixed /\ Snapshot /\ [Next]_vars => Snapshot'
    BY NextSnapshot DEF IInv
  <1>3. Snapshot => VotesFromCreation
    BY DEF Snapshot, VotesFromCreation
  <1> QED
    BY <1>1, <1>2, <1>3, Invariant, PTL DEF Spec

\* execute: what was executed had more votes for than against it and the quorum, and was
\* neither canceled nor vetoed, then or since.
THEOREM ExecutedWasPassed ==
    Spec => [](\A id \in ProposalIds :
                   LET p == proposals[id]
                   IN  p.executed => /\ ~(p.forVotes <= p.againstVotes)
                                     /\ ~(p.forVotes < p.quorumVotes)
                                     /\ ~p.canceled /\ ~p.vetoed)
  <1>1. IInv => \A id \in ProposalIds :
                    LET p == proposals[id]
                    IN  p.executed => /\ ~(p.forVotes <= p.againstVotes)
                                      /\ ~(p.forVotes < p.quorumVotes)
                                      /\ ~p.canceled /\ ~p.vetoed
    BY DEF IInv, WellFormed
  <1> QED
    BY <1>1, Invariant, PTL

\* execute: what was executed had, counting nobody twice, more votes for than against it
\* and the quorum, each vote weighing what its voter held at the proposal's creation;
\* nobody canceled or vetoed it, then or since.  The condition is that votingDelay is not
\* changed: the run snapshot_moves shows what happens when it is.
THEOREM ExecutedWasSupported == Spec /\ []DelayFixed => []ExecutedMeansPassed
  <1>1. Init => Tallied
    BY DEF Init, Tallied, ProposalIds
  <1>2. IInv /\ Tallied /\ [Next]_vars => Tallied'
    BY NextTallied DEF IInv
  <1>3. Init => Snapshot
    BY DEF Init, Snapshot, ProposalIds
  <1>4. IInv /\ DelayFixed /\ Snapshot /\ [Next]_vars => Snapshot'
    BY NextSnapshot DEF IInv
  <1>5. IInv /\ Snapshot /\ Tallied => ExecutedMeansPassed
    <2> SUFFICES ASSUME IInv, Snapshot, Tallied, NEW id \in ProposalIds,
                        proposals[id].executed
                 PROVE  LET p == proposals[id]
                        IN  /\ Supporting(p, 1) > Supporting(p, 0)
                            /\ Supporting(p, 1) >= p.quorumVotes
                            /\ ~p.canceled /\ ~p.vetoed
      BY DEF ExecutedMeansPassed
    <2> DEFINE p == proposals[id]
    <2>1. /\ ~(p.forVotes <= p.againstVotes) /\ ~(p.forVotes < p.quorumVotes)
          /\ ~p.canceled /\ ~p.vetoed
      BY DEF IInv, WellFormed
    <2>2. p.forVotes \in Nat /\ p.againstVotes \in Nat /\ p.quorumVotes \in Int
      BY Numbers DEF IInv, Proposals
    <2>3. p.forVotes = Supporting(p, 1) /\ p.againstVotes = Supporting(p, 0)
      BY TalliesAreHoldings
    <2> HIDE DEF p
    <2> QED
      BY <2>1, <2>2, <2>3 DEF p
  <1> QED
    BY <1>1, <1>2, <1>3, <1>4, <1>5, Invariant, PTL DEF Spec

\* execute: under the timelock, the settings, the delay and the pending admin become what
\* a call of the executed proposal says, which was queued after its vote and has waited
\* for MINIMUM_DELAY since.
THEOREM EffectsHaveNotice == Spec => NoticeBeforeEffect
  <1>1. Init => Noticed
    BY DEF Init, Noticed, ProposalIds
  <1>2. IInv /\ Noticed /\ [Next]_vars => Noticed'
    BY NextNoticed DEF IInv
  <1> DEFINE Effect == admin = Timelock /\ (config' # config \/ delay' # delay \/ Resets)
             Notice == \E id \in ProposalIds :
                           /\ ~proposals[id].executed /\ proposals'[id].executed
                           /\ Waited(proposals[id]) /\ EffectOf(proposals[id].actions)
  <1>3. IInv /\ Noticed /\ [Next]_vars => [Effect => Notice]_vars
    <2> SUFFICES ASSUME IInv, Noticed, [Next]_vars, Effect PROVE Notice
      OBVIOUS
    <2>1. Typed
      BY DEF IInv
    <2>2. PICK id \in ProposalIds : Execute(id)
      BY <2>1, OnlyExecuteSets DEF Resets
    <2> DEFINE p == proposals[id]
               q == WithExecuted(p)
    <2>3. p \in Proposals /\ ~p.executed /\ p.eta # 0 /\ p.eta \in Nat
      BY <2>1, <2>2, Numbers DEF Execute, State, Proposals
    <2>4. proposals'[id].executed
      <3>1. q \in Proposals /\ proposals' = [proposals EXCEPT ![id] = q]
        BY <2>1, <2>2, ExecuteEffect
      <3>2. q.executed
        BY <2>3, FlagsSet
      <3> HIDE DEF q
      <3>3. \A j \in ProposalIds : proposals'[j] = IF j = id THEN q ELSE proposals[j]
        BY <2>1, <3>1, OneUpdated
      <3> QED
        BY <3>2, <3>3
    <2>5. Waited(p)
      <3>1. p.queued.block > p.endBlock /\ p.queued.time + Min(Delays) <= p.eta
        BY <2>3 DEF Noticed
      <3>2. time >= p.eta
        BY <2>2 DEF Execute, ExecuteTransactions
      <3>3. time \in Nat /\ p.queued.time \in Nat /\ Min(Delays) \in Nat
        BY <2>1, <2>3, Numbers, ShortestDelay DEF Proposals
      <3> HIDE DEF p
      <3> QED
        BY <2>3, <3>1, <3>2, <3>3 DEF Waited
    <2>6. EffectOf(p.actions)
      <3>1. Len(p.actions) \in Nat /\ DOMAIN p.actions = 1..Len(p.actions)
        BY <2>3, DAOAssumption DEF Proposals
      <3>2. /\ \A f \in Fields : config'[f] = ValueAfter(p.actions, f, config[f])
            /\ pendingAdmin' = ValueAfter(p.actions, "pendingAdmin", pendingAdmin)
            /\ delay' = ValueAfter(p.actions, "delay", delay)
        BY <2>2 DEF Execute, Calls
      <3> HIDE DEF p
      <3>3. \A f \in Fields : config'[f] # config[f] => Sets(p.actions, f, config'[f])
        BY <3>1, <3>2, ChangedIsSet
      <3>4. delay' # delay => Sets(p.actions, "delay", delay')
        BY <3>1, <3>2, ChangedIsSet
      <3>5. Resets => Sets(p.actions, "pendingAdmin", pendingAdmin')
        BY <3>1, <3>2, ChangedIsSet DEF Resets
      <3> QED
        BY <3>3, <3>4, <3>5 DEF EffectOf
    <2> QED
      BY <2>3, <2>4, <2>5, <2>6
  <1> QED
    BY <1>1, <1>2, <1>3, Invariant, PTL DEF Spec, NoticeBeforeEffect

\* state(): the DAO implements ProposalLifecycle.  What it says of a proposal only moves
\* forward, whatever is called and however time passes.
THEOREM LifeMovesForward == Spec => StatesMoveForward
  <1>1. Init => Lifecycle!LifecycleInit
    BY DEF Init, Lifecycle!LifecycleInit, Stage, ProposalIds
  <1>2. IInv /\ IInv' /\ [Next]_vars => [Lifecycle!LifecycleNext]_Stage
    <2> SUFFICES ASSUME IInv, IInv', [Next]_vars PROVE Lifecycle!LifecycleNext
      OBVIOUS
    <2>1. Stage' \in [1..MaxProposals -> Lifecycle!Stages]
      <3>1. \A id : State(id)' \in Lifecycle!Stages
        BY DEF State, Lifecycle!Stages
      <3>2. "None" \in Lifecycle!Stages
        BY DEF Lifecycle!Stages
      <3> QED
        BY <3>1, <3>2 DEF Stage
    <2>2. ASSUME NEW id \in 1..MaxProposals
          PROVE  Lifecycle!Moves(Stage[id], Stage'[id])
      <3>1. CASE id \in ProposalIds
        <4>1. id \in ProposalIds' /\ Lifecycle!Moves(State(id), State(id)')
          BY <3>1, EveryStepMoves, Lasting DEF IInv
        <4> QED
          BY <3>1, <4>1 DEF Stage
      <3>2. CASE id \notin ProposalIds /\ id \notin ProposalIds'
        BY <3>2 DEF Stage, Lifecycle!Moves
      <3>3. CASE id \notin ProposalIds /\ id \in ProposalIds'
        <4>1. PICK a \in Accounts, actions \in ActionLists :
                     /\ proposals'[id] = NewProposal(a, actions)
                     /\ UNCHANGED block
          BY <3>3, OnlyProposeAdds DEF IInv
        <4>2. block <= block + config["votingDelay"]
          BY Numbers DEF IInv
        <4>3. State(id)' = "Pending"
          BY <4>1, <4>2 DEF State, NewProposal
        <4>4. Stage[id] = "None" /\ Stage'[id] = "Pending"
          BY <3>3, <4>3 DEF Stage
        <4> QED
          BY <4>4 DEF Lifecycle!Moves, Lifecycle!Successors
      <3> QED
        BY <3>1, <3>2, <3>3
    <2> QED
      BY <2>1, <2>2 DEF Lifecycle!LifecycleNext
  <1> QED
    BY <1>1, <1>2, Invariant, PTL DEF Spec, StatesMoveForward, Lifecycle!LifecycleSpec
=============================================================================
