--------------------------- MODULE ReleaseProofs ---------------------------
(***************************************************************************)
(* What holds of a release of Nouns: of the art on its way from the files  *)
(* to the token, the page and the API, for all files, hashes and failures, *)
(* and of the deployment of the contracts by any number of runs at once.   *)
(***************************************************************************)
EXTENDS NounsArt, Deployment, NounsImageProofs, FiniteSetTheorems, SequenceTheorems, TLAPS

-----------------------------------------------------------------------------
(* Art that is added to.                                                   *)

\* Colors added to a palette change nothing about what the contract can draw over it.
LEMMA GenerateStays ==
    ASSUME NEW image \in Image, NEW before, NEW after, Extends(after, before),
           ~GenerateRects(image, before).panic
    PROVE  GenerateRects(image, after) = GenerateRects(image, before)
  <1> DEFINE rects == image.rects
             n == Len(rects)
  <1>1. /\ before \in Seq(Keys) /\ after \in Seq(Keys)
        /\ Len(before) \in Nat /\ Len(after) \in Nat /\ Len(before) <= Len(after)
        /\ \A i \in 1..Len(before) : after[i] = before[i]
    BY DEF Extends
  <1>2. PICK pos, svg :
            /\ Draws(pos, svg, image, before)
            /\ GenerateRects(image, before) =
                   [panic |-> \E k \in 1..n : Beyond(k, pos, image, before), part |-> svg[n]]
    BY <1>1, BothDraw, Zenon
  <1>3. PICK pos2, svg2 :
            /\ Draws(pos2, svg2, image, after)
            /\ GenerateRects(image, after) =
                   [panic |-> \E k \in 1..n : Beyond(k, pos2, image, after), part |-> svg2[n]]
    BY <1>1, BothDraw, Zenon
  <1>4. n \in Nat /\ \A k \in 1..n : rects[k] \in Rect
    BY DEF Image
  <1>5. ASSUME NEW k \in 1..n
        PROVE  ~Beyond(k, pos, image, before)
    BY <1>2
  <1>6. ASSUME NEW k \in 1..n, rects[k].colorIndex # 0
        PROVE  /\ InTables(before, pos[k - 1], rects[k])
               /\ InTables(after, pos[k - 1], rects[k])
               /\ \A at : Drawing(after, at, rects[k]) = Drawing(before, at, rects[k])
    <2>1. InTables(before, pos[k - 1], rects[k])
      BY <1>5, <1>6 DEF Beyond
    <2>2. rects[k].colorIndex \in Nat /\ rects[k].colorIndex < Len(before)
      BY <1>4, <2>1 DEF InTables, Rect
    <2>3. InTables(after, pos[k - 1], rects[k])
      BY <1>1, <2>1, <2>2 DEF InTables
    <2>4. Fill(after, rects[k].colorIndex) = Fill(before, rects[k].colorIndex)
      <3> DEFINE i == rects[k].colorIndex
      <3>1. i + 1 \in 1..Len(before) /\ i < Len(before) /\ i < Len(after)
        BY <1>1, <2>2
      <3> HIDE DEF i
      <3>2. Fill(after, i) = Fill(before, i)
        BY <1>1, <3>1 DEF Fill
      <3> QED
        BY <3>2 DEF i
    <2> QED
      BY <2>1, <2>3, <2>4 DEF Drawing
  <1> DEFINE T == {k \in 0..n : pos2[k] = pos[k] /\ svg2[k] = svg[k]}
  <1>7. 0 \in T
    BY <1>2, <1>3, <1>4 DEF Draws
  <1>8. ASSUME NEW k \in 0..n - 1, k \in T
        PROVE  k + 1 \in T
    <2>1. k + 1 \in 1..n /\ (k + 1) - 1 = k
      BY <1>4
    <2> DEFINE j == k + 1
    <2>2. /\ pos[j] = Moved(pos[j - 1], rects[j], image)
          /\ svg[j] = IF rects[j].colorIndex = 0 THEN svg[j - 1]
                      ELSE Append(svg[j - 1], Drawing(before, pos[j - 1], rects[j]))
      BY <1>2, <2>1 DEF Draws
    <2>3. /\ pos2[j] = Moved(pos2[j - 1], rects[j], image)
          /\ svg2[j] = IF rects[j].colorIndex = 0 THEN svg2[j - 1]
                       ELSE Append(svg2[j - 1], Drawing(after, pos2[j - 1], rects[j]))
      BY <1>3, <2>1 DEF Draws
    <2>4. pos2[j - 1] = pos[j - 1] /\ svg2[j - 1] = svg[j - 1]
      BY <1>8, <2>1
    <2>5. rects[j].colorIndex # 0 =>
              Drawing(after, pos2[j - 1], rects[j]) = Drawing(before, pos2[j - 1], rects[j])
      BY <1>6, <2>1
    <2>6. j \in 0..n
      BY <1>4
    <2> HIDE DEF j, rects, n
    <2>7. pos2[j] = pos[j]
      BY <2>2, <2>3, <2>4
    <2>8. svg2[j] = svg[j]
      BY <2>2, <2>3, <2>4, <2>5
    <2>9. j \in T
      BY <2>6, <2>7, <2>8
    <2> QED
      BY <2>9 DEF j
  <1>9. \A k \in 0..n : k \in T
    <2> HIDE DEF T
    <2> QED
      BY <1>4, <1>7, <1>8, Reached
  <1>10. svg2[n] = svg[n]
    BY <1>4, <1>9
  <1>11. ASSUME NEW k \in 1..n
         PROVE  ~Beyond(k, pos2, image, after)
    <2>1. pos2[k - 1] = pos[k - 1]
      BY <1>4, <1>9
    <2> QED
      BY <1>6, <2>1 DEF Beyond
  <1> QED
    <2> HIDE DEF n, rects
    <2>1. (\E k \in 1..n : Beyond(k, pos2, image, after))
            <=> (\E k \in 1..n : Beyond(k, pos, image, before))
      BY <1>5, <1>11
    <2>2. (\E k \in 1..n : Beyond(k, pos2, image, after))
            = (\E k \in 1..n : Beyond(k, pos, image, before))
      BY <2>1, Zenon
    <2> QED
      BY <1>2, <1>3, <1>10, <2>2, Zenon

-----------------------------------------------------------------------------
(* The seed.                                                               *)

\* Sequences of one length with the same elements.
LEMMA SamePart ==
    ASSUME NEW S, NEW s, NEW a \in Int, NEW b \in Int, NEW t, NEW c \in Int, NEW d \in Int,
           b - a = d - c, \A i \in a..b : s[i] \in S, \A i \in c..d : t[i] \in S,
           \A i \in a..b : s[i] = t[(i - a) + c]
    PROVE  SubSeq(s, a, b) = SubSeq(t, c, d)
  <1> DEFINE x == SubSeq(s, a, b)
             y == SubSeq(t, c, d)
  <1>1. /\ x \in Seq(S) /\ Len(x) = IF a <= b THEN b - a + 1 ELSE 0
        /\ \A i \in 1..b - a + 1 : x[i] = s[a + i - 1]
    BY SubSeqProperties
  <1>2. /\ y \in Seq(S) /\ Len(y) = IF c <= d THEN d - c + 1 ELSE 0
        /\ \A i \in 1..d - c + 1 : y[i] = t[c + i - 1]
    BY SubSeqProperties
  <1>3. Len(x) = Len(y)
    BY <1>1, <1>2
  <1>4. ASSUME NEW i \in 1..Len(x)
        PROVE  x[i] = y[i]
    <2>1. i \in 1..b - a + 1 /\ i \in 1..d - c + 1 /\ a + i - 1 \in a..b
      BY <1>1
    <2>2. x[i] = s[a + i - 1] /\ y[i] = t[c + i - 1]
      BY <1>1, <1>2, <2>1
    <2>3. ((a + i - 1) - a) + c = c + i - 1
      BY <2>1
    <2>4. s[a + i - 1] = t[((a + i - 1) - a) + c]
      BY <2>1
    <2> QED
      BY <2>2, <2>3, <2>4
  <1> HIDE DEF x, y
  <1>5. x = y
    BY <1>1, <1>2, <1>3, <1>4, SeqEqual
  <1> QED
    BY <1>5 DEF x, y

\* A number with enough digits ends in what the seeder takes of the hash.
LEMMA SameSlice ==
    ASSUME NEW digest \in Digests, NEW i \in 0..4, Len(Shifted(digest, i)) >= Slice
    PROVE  SubSeq(Shifted(digest, i), Len(Shifted(digest, i)) - Slice + 1, Len(Shifted(digest, i)))
               = SubSeq(digest, Len(digest) - (i + 1) * Slice + 1, Len(digest) - i * Slice)
  <1> DEFINE c == Len(digest) - i * Slice
             S == 0..Byte - 1
             shifted == SubSeq(digest, 1, c)
             digits == {j \in DOMAIN shifted : shifted[j] # 0}
             w == Shifted(digest, i)
  <1>1. digest \in Seq(S) /\ Len(digest) \in Nat /\ Slice \in Nat \ {0} /\ Len(digest) > 5 * Slice
    BY ArtAssumption
  <1>2. i * Slice \in Nat /\ (i + 1) * Slice = i * Slice + Slice /\ i * Slice <= 4 * Slice
    <2>1. CASE i = 0 BY <1>1, <2>1
    <2>2. CASE i = 1 BY <1>1, <2>2
    <2>3. CASE i = 2 BY <1>1, <2>3
    <2>4. CASE i = 3 BY <1>1, <2>4
    <2>5. CASE i = 4 BY <1>1, <2>5
    <2> QED
      BY <2>1, <2>2, <2>3, <2>4, <2>5
  <1>3. /\ c \in Nat /\ c > Slice /\ c <= Len(digest)
        /\ Len(digest) - (i + 1) * Slice + 1 = c - Slice + 1
    <2> DEFINE p == i * Slice
               q == (i + 1) * Slice
    <2>1. p \in Nat /\ q = p + Slice /\ p <= 4 * Slice
      BY <1>2
    <2> SUFFICES /\ Len(digest) - p \in Nat /\ Len(digest) - p > Slice
                 /\ Len(digest) - p <= Len(digest)
                 /\ Len(digest) - q + 1 = Len(digest) - p - Slice + 1
      OBVIOUS
    <2> HIDE DEF p, q
    <2> QED
      BY <1>1, <2>1
  <1>4. \A j \in 1..c : digest[j] \in S
    <2> SUFFICES ASSUME NEW j \in 1..c PROVE digest[j] \in S
      OBVIOUS
    <2>1. j \in 1..Len(digest)
      BY <1>1, <1>3
    <2> HIDE DEF S, c
    <2> QED
      BY <1>1, <2>1, ElementOfSeq
  <1> HIDE DEF c
  <1>5. /\ shifted \in Seq(S) /\ Len(shifted) = c
        /\ \A j \in 1..c : shifted[j] = digest[j]
    <2>1. /\ shifted \in Seq(S) /\ Len(shifted) = IF 1 <= c THEN c - 1 + 1 ELSE 0
          /\ \A j \in 1..c - 1 + 1 : shifted[j] = digest[1 + j - 1]
      BY <1>3, <1>4, SubSeqProperties
    <2> QED
      BY <1>1, <1>3, <2>1
  <1>6. w = IF digits = {} THEN <<0>> ELSE SubSeq(shifted, MinOf(digits), Len(shifted))
    BY DEF Shifted, c
  <1>7. Len(w) >= Slice
    OBVIOUS
  <1> SUFFICES SubSeq(w, Len(w) - Slice + 1, Len(w)) = SubSeq(digest, c - Slice + 1, c)
    BY <1>3 DEF c
  <1> HIDE DEF w, shifted
  <1>8. CASE digits = {}
    <2>1. w = <<0>> /\ Len(w) = 1 /\ Slice = 1
      BY <1>1, <1>6, <1>7, <1>8
    <2>2. digest[c] = 0
      <3>1. c \in DOMAIN shifted
        BY <1>3, <1>5, <1>1
      <3>2. shifted[c] = 0
        BY <1>8, <3>1
      <3> QED
        BY <1>1, <1>3, <1>5, <3>2
    <2>3. SubSeq(w, 1, 1) = SubSeq(digest, c, c)
      <3>1. \A j \in 1..1 : w[j] \in S /\ w[j] = digest[(j - 1) + c]
        BY <1>3, <2>1, <2>2, ImageAssumption
      <3>2. \A j \in c..c : digest[j] \in S
        BY <1>1, <1>3, <1>4
      <3> HIDE DEF S
      <3> QED
        BY <1>3, <3>1, <3>2, SamePart
    <2> QED
      BY <1>3, <2>1, <2>3
  <1>9. CASE digits # {}
    <2> DEFINE m == MinOf(digits)
    <2>1. m \in digits
      <3>1. digits \in SUBSET Nat
        BY <1>5
      <3> HIDE DEF digits
      <3> QED
        BY <1>9, <3>1, MinOfIs
    <2>2. m \in 1..c /\ m \in Nat
      BY <1>3, <1>5, <2>1
    <2> HIDE DEF m, digits
    <2>3. w = SubSeq(shifted, m, c)
      BY <1>5, <1>6, <1>9 DEF m
    <2>4. /\ w \in Seq(S) /\ Len(w) = c - m + 1
          /\ \A j \in 1..c - m + 1 : w[j] = shifted[m + j - 1]
      <3>1. \A j \in m..c : shifted[j] \in S
        <4> SUFFICES ASSUME NEW j \in m..c PROVE shifted[j] \in S
          OBVIOUS
        <4>1. j \in 1..c
          BY <1>3, <2>2
        <4> HIDE DEF S
        <4> QED
          BY <1>4, <1>5, <4>1
      <3> HIDE DEF S
      <3> QED
        BY <1>3, <2>2, <2>3, <3>1, SubSeqProperties
    <2>5. Len(w) \in Nat /\ Len(w) >= Slice /\ c - Slice + 1 >= m
      BY <1>1, <1>3, <1>7, <2>2, <2>4
    <2>6. \A j \in Len(w) - Slice + 1..Len(w) :
              w[j] \in S /\ w[j] = digest[(j - (Len(w) - Slice + 1)) + (c - Slice + 1)]
      <3> SUFFICES ASSUME NEW j \in Len(w) - Slice + 1..Len(w)
                   PROVE  w[j] \in S /\ w[j] = digest[(j - (Len(w) - Slice + 1)) + (c - Slice + 1)]
        OBVIOUS
      <3>1. j \in 1..c - m + 1 /\ m + j - 1 \in 1..c
        BY <1>1, <1>3, <2>2, <2>4, <2>5
      <3>2. w[j] = shifted[m + j - 1] /\ shifted[m + j - 1] = digest[m + j - 1]
        BY <1>5, <2>4, <3>1
      <3>3. (j - (Len(w) - Slice + 1)) + (c - Slice + 1) = m + j - 1
        BY <1>1, <1>3, <2>2, <2>4, <3>1
      <3>4. digest[m + j - 1] \in S
        BY <1>4, <3>1
      <3> QED
        BY <3>2, <3>3, <3>4
    <2>7. \A j \in c - Slice + 1..c : digest[j] \in S
      BY <1>1, <1>3, <1>4
    <2>8. Len(w) - (Len(w) - Slice + 1) = c - (c - Slice + 1)
      BY <1>1, <1>3, <2>5
    <2> DEFINE a == Len(w) - Slice + 1
               b == Len(w)
               e == c - Slice + 1
    <2>9. a \in Int /\ b \in Int /\ e \in Int /\ c \in Int
      BY <1>1, <1>3, <2>5
    <2> SUFFICES SubSeq(w, a, b) = SubSeq(digest, e, c)
      OBVIOUS
    <2>10. b - a = c - e
      BY <2>8
    <2>11. \A j \in a..b : w[j] \in S
      BY <2>6
    <2>12. \A j \in e..c : digest[j] \in S
      BY <2>7
    <2>13. \A j \in a..b : w[j] = digest[(j - a) + e]
      BY <2>6
    <2> HIDE DEF a, b, e, S
    <2> QED
      BY ONLY <2>9, <2>10, <2>11, <2>12, <2>13, SamePart, SMTT(30)
  <1> QED
    BY <1>8, <1>9

\* A number of digits.
OneDigit(value, byte) == value * Byte + byte

\* Value written out.
LEMMA ValueIs ==
    ASSUME NEW bytes
    PROVE  Value(bytes) =
               (CHOOSE g : g = [s \in SUBSET DOMAIN bytes |->
                                  IF s = {} THEN 0
                                  ELSE OneDigit(g[s \ {Max(s)}], bytes[Max(s)])])
                  [DOMAIN bytes]
  BY Zenon DEF Value, FoldLeft, MapThenFoldSet, OneDigit

\* The number after every digit.
LEMMA ValueRuns ==
    ASSUME NEW bytes \in Seq(0..Byte - 1)
    PROVE  \E f \in [0..Len(bytes) -> Nat] :
               /\ f[0] = 0
               /\ \A k \in 1..Len(bytes) :
                      f[k] = OneDigit(f[k - 1], bytes[k])
               /\ Value(bytes) = f[Len(bytes)]
  <1> DEFINE seq == bytes
             n == Len(seq)
             step == [p \in Nat \X (1..n) |-> OneDigit(p[1], seq[p[2]])]
             Folded(g) == [s \in SUBSET DOMAIN seq |->
                              IF s = {} THEN 0 ELSE OneDigit(g[s \ {Max(s)}], seq[Max(s)])]
             G == CHOOSE g : g = Folded(g)
  <1>1. n \in Nat /\ DOMAIN seq = 1..n
    OBVIOUS
  <1>2. 0 \in Nat
    OBVIOUS
  <1>3. \A x \in Nat, k \in 1..n :
            /\ OneDigit(x, seq[k]) \in Nat
            /\ step[<<x, k>>] = OneDigit(x, seq[k])
    <2> SUFFICES ASSUME NEW x \in Nat, NEW k \in 1..n
                 PROVE  /\ OneDigit(x, seq[k]) \in Nat
                        /\ step[<<x, k>>] = OneDigit(x, seq[k])
      OBVIOUS
    <2>1. seq[k] \in Nat
      BY <1>1, ImageAssumption
    <2>2. x * Byte \in Nat
      BY ImageAssumption
    <2> QED
      BY <2>1, <2>2 DEF OneDigit
  <1>4. step \in [Nat \X (1..n) -> Nat]
    BY <1>3
  <1> HIDE DEF step, seq, n
  <1>5. PICK g \in [SUBSET (1..n) -> Nat] : FoldsSets(g, Nat, 0, n, step)
    BY <1>1, <1>2, <1>4, PrefixFold
  <1>6. g = Folded(g)
    <2>1. ASSUME NEW s \in SUBSET (1..n)
          PROVE  g[s] = IF s = {} THEN 0 ELSE OneDigit(g[s \ {Max(s)}], seq[Max(s)])
      <3>1. CASE s = {}
        BY <1>5, <3>1 DEF FoldsSets
      <3>2. CASE s # {}
        <4>1. Max(s) \in 1..n /\ s \ {Max(s)} \in SUBSET (1..n)
          BY <1>1, <3>2, LastOf
        <4>2. g[s \ {Max(s)}] \in Nat
          BY <1>5, <4>1
        <4> QED
          BY <1>3, <1>5, <3>2, <4>1, <4>2 DEF FoldsSets
      <3> QED
        BY <3>1, <3>2
    <2> QED
      BY <1>1, <2>1
  <1>7. G = Folded(G)
    BY <1>6
  <1> HIDE DEF G
  <1>8. FoldsSets(G, Nat, 0, n, step)
    <2>1. \A s \in SUBSET (1..n) : s # {} => Max(s) \in 1..n
      BY <1>1, LastOf
    <2>2. G[{}] = 0
      BY <1>1, <1>7
    <2>3. ASSUME NEW s \in SUBSET (1..n), s # {}
          PROVE  G[s] = OneDigit(G[s \ {Max(s)}], seq[Max(s)])
      BY <1>1, <1>7, <2>3
    <2> HIDE DEF Folded
    <2> QED
      BY <1>3, <2>1, <2>2, <2>3 DEF FoldsSets
  <1>9. PICK f : FoldsPrefixes(f, Nat, 0, n, step, G[1..n])
    BY <1>1, <1>2, <1>4, <1>8, PrefixesOf
  <1>10. Value(bytes) = G[1..n]
    BY <1>1, ValueIs DEF G, seq
  <1>11. \A k \in 1..n : f[k] = OneDigit(f[k - 1], seq[k])
    <2>1. \A k \in 1..n : f[k - 1] \in Nat
      BY <1>1, <1>9 DEF FoldsPrefixes
    <2> QED
      BY <1>3, <1>9, <2>1 DEF FoldsPrefixes
  <1> QED
    BY <1>9, <1>10, <1>11 DEF FoldsPrefixes, n, seq


\* The value of bytes is a natural number.
LEMMA ValueTyped ==
    ASSUME NEW bytes \in Seq(0..Byte - 1)
    PROVE  Value(bytes) \in Nat
  <1>1. PICK f \in [0..Len(bytes) -> Nat] : Value(bytes) = f[Len(bytes)]
    BY ValueRuns
  <1>2. Len(bytes) \in 0..Len(bytes)
    OBVIOUS
  <1> QED
    BY <1>1, <1>2

\* What the seeder takes of a hash is a number, and the remainder is below the count.
LEMMA SliceTyped ==
    ASSUME NEW digest \in Digests, NEW i \in 0..4
    PROVE  Uint48(digest, i) \in Nat
  <1> DEFINE a == Len(digest) - (i + 1) * Slice + 1
             b == Len(digest) - i * Slice
             S == 0..Byte - 1
  <1>1. digest \in Seq(S) /\ Len(digest) \in Nat /\ Slice \in Nat \ {0} /\ Len(digest) > 5 * Slice
    BY ArtAssumption
  <1>2. a \in Int /\ b \in Int /\ a >= 1 /\ b <= Len(digest)
    <2>1. CASE i = 0 BY <1>1, <2>1
    <2>2. CASE i = 1 BY <1>1, <2>2
    <2>3. CASE i = 2 BY <1>1, <2>3
    <2>4. CASE i = 3 BY <1>1, <2>4
    <2>5. CASE i = 4 BY <1>1, <2>5
    <2> QED
      BY <2>1, <2>2, <2>3, <2>4, <2>5
  <1> HIDE DEF a, b
  <1>3. ASSUME NEW j \in a..b PROVE digest[j] \in S
    <2>1. j \in 1..Len(digest)
      BY <1>1, <1>2
    <2> HIDE DEF S
    <2> QED
      BY <1>1, <2>1, ElementOfSeq
  <1>4. SubSeq(digest, a, b) \in Seq(S)
    <2> HIDE DEF S
    <2> QED
      BY <1>2, <1>3, SubSeqProperties
  <1> QED
    BY <1>4, ValueTyped DEF Uint48, a, b

\* A remainder is below the divisor.
LEMMA RemainderBelow ==
    ASSUME NEW a \in Nat, NEW b \in Nat \ {0}
    PROVE  a % b \in 0..b - 1
  OBVIOUS

\* The library takes from a hash what the seeder takes, unless it cannot cast it.
LEMMA SamePartForetold ==
    ASSUME NEW digest \in Digests, NEW i \in 0..4, NEW count,
           ~(Len(Shifted(digest, i)) < Slice)
    PROVE  getPseudorandomPart(digest, i, count) = Uint48(digest, i) % count
  <1>1. Len(Shifted(digest, i)) >= Slice
    <2> DEFINE S == 0..Byte - 1
               c == Len(digest) - i * Slice
    <2>1. Len(Shifted(digest, i)) \in Int
      <3> DEFINE shifted == SubSeq(digest, 1, c)
                 digits == {j \in DOMAIN shifted : shifted[j] # 0}
      <3>1. digest \in Seq(S) /\ Len(digest) \in Nat /\ Slice \in Nat \ {0} /\ Len(digest) > 5 * Slice
        BY ArtAssumption
      <3>2. c \in Int /\ c <= Len(digest)
        <4>1. CASE i = 0 BY <3>1, <4>1
        <4>2. CASE i = 1 BY <3>1, <4>2
        <4>3. CASE i = 2 BY <3>1, <4>3
        <4>4. CASE i = 3 BY <3>1, <4>4
        <4>5. CASE i = 4 BY <3>1, <4>5
        <4> QED
          BY <4>1, <4>2, <4>3, <4>4, <4>5
      <3>3. Shifted(digest, i) =
                IF digits = {} THEN <<0>> ELSE SubSeq(shifted, MinOf(digits), Len(shifted))
        BY DEF Shifted
      <3> HIDE DEF c
      <3>4. \A j \in 1..c : digest[j] \in S
        <4> SUFFICES ASSUME NEW j \in 1..c PROVE digest[j] \in S
          OBVIOUS
        <4>1. j \in 1..Len(digest)
          BY <3>1, <3>2
        <4> HIDE DEF S
        <4> QED
          BY <3>1, <4>1, ElementOfSeq
      <3>5. shifted \in Seq(S)
        <4> HIDE DEF S
        <4> QED
          BY <3>2, <3>4, SubSeqProperties
      <3> HIDE DEF shifted, S
      <3>6. CASE digits = {}
        BY <3>3, <3>6
      <3>7. CASE digits # {}
        <4> DEFINE m == MinOf(digits)
        <4>1. digits \in SUBSET Nat /\ DOMAIN shifted = 1..Len(shifted) /\ Len(shifted) \in Nat
          BY <3>5
        <4>2. m \in digits
          <5> HIDE DEF digits
          <5> QED
            BY <3>7, <4>1, MinOfIs
        <4>3. m \in 1..Len(shifted)
          BY <4>1, <4>2
        <4> HIDE DEF m, digits
        <4>4. \A j \in m..Len(shifted) : shifted[j] \in S
          <5> SUFFICES ASSUME NEW j \in m..Len(shifted) PROVE shifted[j] \in S
            OBVIOUS
          <5>1. j \in 1..Len(shifted)
            BY <4>1, <4>3
          <5> QED
            BY <3>5, <5>1, ElementOfSeq
        <4>5. SubSeq(shifted, m, Len(shifted)) \in Seq(S)
          BY <4>1, <4>3, <4>4, SubSeqProperties
        <4>6. Len(SubSeq(shifted, m, Len(shifted))) \in Nat
          BY <4>5
        <4>7. Shifted(digest, i) = SubSeq(shifted, m, Len(shifted))
          BY <3>3, <3>7 DEF m
        <4>8. Len(Shifted(digest, i)) \in Nat
          BY <4>6, <4>7, Zenon
        <4> QED
          BY <4>8
      <3> QED
        BY <3>6, <3>7
    <2> QED
      BY <2>1, ArtAssumption
  <1> QED
    BY <1>1, SameSlice DEF getPseudorandomPart, Uint48

-----------------------------------------------------------------------------
(* The folders.                                                            *)

\* The four kinds in their order.
LEMMA KindsAre ==
    /\ KindSet = {"bodies", "accessories", "heads", "glasses"}
    /\ Kinds[1] = "bodies" /\ Kinds[2] = "accessories" /\ Kinds[3] = "heads" /\ Kinds[4] = "glasses"
    /\ Len(Kinds) = 4 /\ \A k \in 1..4 : Kinds[k] \in KindSet
    /\ \A kind \in KindSet : \E k \in 1..4 : Kinds[k] = kind
  <1>1. DOMAIN Kinds = 1..4 /\ Len(Kinds) = 4
    BY DEF Kinds
  <1>2. Kinds[1] = "bodies" /\ Kinds[2] = "accessories" /\ Kinds[3] = "heads" /\ Kinds[4] = "glasses"
    BY DEF Kinds
  <1>3. KindSet = {Kinds[i] : i \in 1..4}
    BY <1>1 DEF KindSet, ToSet
  <1>4. 1..4 = {1, 2, 3, 4}
    OBVIOUS
  <1>5. KindSet = {"bodies", "accessories", "heads", "glasses"}
    BY <1>2, <1>3, <1>4
  <1> QED
    BY <1>1, <1>2, <1>3, <1>5

\* No folder of a release is empty.
LEMMA FilesAre ==
    ASSUME edition \in 1..Len(Editions)
    PROVE  Files \in [KindSet -> Seq(Names)] /\ \A kind \in KindSet : Files[kind] # <<>>
  <1>1. edition \in DOMAIN Editions /\ Editions[edition] \in [KindSet -> Seq(Names)]
    BY FilesAssumption
  <1> QED
    BY <1>1, FilesAssumption DEF Files

\* The loops come to every file of every folder, and to nothing else.
LEMMA AllFilesAre ==
    ASSUME edition \in 1..Len(Editions)
    PROVE  /\ AllFiles \in Seq(Names)
           /\ \A kind \in KindSet : \A i \in DOMAIN Files[kind] :
                  /\ Files[kind][i] \in Names
                  /\ \E j \in 1..Len(AllFiles) : AllFiles[j] = Files[kind][i]
  <1> DEFINE seqs == [k \in 1..Len(Kinds) |-> Files[Kinds[k]]]
  <1>1. seqs \in Seq(Seq(Names)) /\ Len(seqs) = 4 /\ \A k \in 1..4 : seqs[k] = Files[Kinds[k]]
    <2>1. \A k \in 1..4 : Files[Kinds[k]] \in Seq(Names)
      BY KindsAre, FilesAre
    <2> QED
      BY <2>1, KindsAre
  <1>2. AllFiles = FlattenSeq(seqs)
    BY DEF AllFiles
  <1> HIDE DEF seqs
  <1>3. PICK f : Flattens(f, Names, seqs)
    BY <1>1, FlattenRuns
  <1>4. /\ f \in [0..4 -> Seq(Names)] /\ AllFiles = f[4]
        /\ \A k \in 1..4 : f[k] = f[k - 1] \o seqs[k]
    BY <1>1, <1>2, <1>3 DEF Flattens
  <1>5. ASSUME NEW k \in 1..4
        PROVE  f[k - 1] \in Seq(Names) /\ seqs[k] \in Seq(Names) /\ f[k] = f[k - 1] \o seqs[k]
    <2>1. k - 1 \in 0..4 /\ k \in 1..Len(seqs)
      BY <1>1
    <2>2. f[k - 1] \in Seq(Names)
      BY <1>4, <2>1
    <2>3. seqs[k] \in Seq(Names)
      BY <1>1, <2>1, ElementOfSeq
    <2> QED
      BY <1>4, <2>2, <2>3
  <1> DEFINE Holds(s, x) == \E j \in 1..Len(s) : s[j] = x
  <1>6. ASSUME NEW s \in Seq(Names), NEW t \in Seq(Names), NEW x
        PROVE  Holds(s, x) \/ Holds(t, x) => Holds(s \o t, x)
    <2>0. /\ Len(s \o t) = Len(s) + Len(t) /\ Len(s) \in Nat /\ Len(t) \in Nat
          /\ \A i \in 1 .. Len(s) + Len(t) : (s \o t)[i] = IF i <= Len(s) THEN s[i] ELSE t[i - Len(s)]
      BY ConcatProperties
    <2>1. ASSUME NEW j \in 1..Len(s), s[j] = x
          PROVE  Holds(s \o t, x)
      <3>1. j \in 1..Len(s) + Len(t) /\ j <= Len(s)
        BY <2>0
      <3>2. (s \o t)[j] = x
        BY <2>0, <2>1, <3>1
      <3> QED
        BY <2>0, <3>1, <3>2
    <2>2. ASSUME NEW j \in 1..Len(t), t[j] = x
          PROVE  Holds(s \o t, x)
      <3>1. Len(s) + j \in 1..Len(s) + Len(t) /\ ~(Len(s) + j <= Len(s)) /\ Len(s) + j - Len(s) = j
        BY <2>0
      <3>2. (s \o t)[Len(s) + j] = x
        BY <2>0, <2>2, <3>1
      <3> QED
        BY <2>0, <3>1, <3>2
    <2> QED
      BY <2>1, <2>2
  <1>7. ASSUME NEW x, NEW k \in 1..4, Holds(f[k - 1], x) \/ Holds(seqs[k], x)
        PROVE  Holds(f[k], x)
    <2> HIDE DEF Holds
    <2> QED
      BY <1>5, <1>6, <1>7
  <1>8. ASSUME NEW x, NEW k \in 1..4, Holds(seqs[k], x)
        PROVE  Holds(f[4], x)
    <2> HIDE DEF Holds
    <2>1. Holds(f[k], x)
      BY <1>7, <1>8
    <2>2. Holds(f[1], x) => Holds(f[2], x)
      <3>1. 2 \in 1..4 /\ 2 - 1 = 1
        OBVIOUS
      <3> QED
        BY <1>7, <3>1
    <2>3. Holds(f[2], x) => Holds(f[3], x)
      <3>1. 3 \in 1..4 /\ 3 - 1 = 2
        OBVIOUS
      <3> QED
        BY <1>7, <3>1
    <2>4. Holds(f[3], x) => Holds(f[4], x)
      <3>1. 4 \in 1..4 /\ 4 - 1 = 3
        OBVIOUS
      <3> QED
        BY <1>7, <3>1
    <2>5. k = 1 \/ k = 2 \/ k = 3 \/ k = 4
      OBVIOUS
    <2> QED
      BY <2>1, <2>2, <2>3, <2>4, <2>5
  <1>9. ASSUME NEW kind \in KindSet, NEW i \in DOMAIN Files[kind]
        PROVE  Files[kind][i] \in Names /\ Holds(AllFiles, Files[kind][i])
    <2>1. PICK k \in 1..4 : Kinds[k] = kind
      BY KindsAre
    <2>2. Files[kind] \in Seq(Names) /\ DOMAIN Files[kind] = 1..Len(Files[kind])
      BY FilesAre
    <2>3. Files[kind][i] \in Names /\ Holds(seqs[k], Files[kind][i])
      BY <1>1, <2>1, <2>2
    <2> HIDE DEF Holds
    <2> QED
      BY <1>4, <1>8, <2>3
  <1>10. AllFiles \in Seq(Names)
    BY <1>4
  <1> QED
    BY <1>9, <1>10

\* The files of any release are so many.
LEMMA EditionFlattened ==
    ASSUME NEW e \in 1..Len(Editions)
    PROVE  Len(FlattenSeq([k \in 1..Len(Kinds) |-> Editions[e][Kinds[k]]])) \in Nat
  <1> DEFINE seqs == [k \in 1..Len(Kinds) |-> Editions[e][Kinds[k]]]
  <1>1. seqs \in Seq(Seq(Names)) /\ Len(seqs) = 4
    <2>1. e \in DOMAIN Editions /\ Editions[e] \in [KindSet -> Seq(Names)]
      BY FilesAssumption
    <2>2. \A k \in 1..4 : Editions[e][Kinds[k]] \in Seq(Names)
      BY <2>1, KindsAre
    <2> QED
      BY <2>2, KindsAre
  <1> HIDE DEF seqs
  <1>2. PICK f : Flattens(f, Names, seqs)
    BY <1>1, FlattenRuns
  <1>3. f \in [0..4 -> Seq(Names)] /\ FlattenSeq(seqs) = f[4]
    BY <1>1, <1>2 DEF Flattens
  <1>4. FlattenSeq(seqs) \in Seq(Names)
    BY <1>3
  <1> QED
    BY <1>4 DEF seqs

-----------------------------------------------------------------------------
(* chunkArray.                                                             *)

\* A part of a sequence and the one after it.
LEMMA PartsJoin ==
    ASSUME NEW S, NEW s \in Seq(S), NEW a \in Nat, NEW b \in Nat, a <= b, b <= Len(s)
    PROVE  SubSeq(s, 1, a) \o SubSeq(s, a + 1, b) = SubSeq(s, 1, b)
  <1> DEFINE x == SubSeq(s, 1, a)
             y == SubSeq(s, a + 1, b)
             z == SubSeq(s, 1, b)
  <1>0. Len(s) \in Nat /\ \A i \in 1..Len(s) : s[i] \in S
    OBVIOUS
  <1>1. x \in Seq(S) /\ Len(x) = a /\ \A i \in 1..a : x[i] = s[i]
    <2>1. \A i \in 1..a : s[i] \in S
      BY <1>0
    <2>2. /\ x \in Seq(S) /\ Len(x) = IF 1 <= a THEN a - 1 + 1 ELSE 0
          /\ \A i \in 1..a - 1 + 1 : x[i] = s[1 + i - 1]
      BY <2>1, SubSeqProperties
    <2> HIDE DEF x
    <2>3. \A i \in 1..a : x[i] = s[i]
      <3> SUFFICES ASSUME NEW i \in 1..a PROVE x[i] = s[i]
        OBVIOUS
      <3>1. i \in 1..a - 1 + 1 /\ 1 + i - 1 = i
        OBVIOUS
      <3> QED
        BY <2>2, <3>1
    <2> QED
      BY <2>2, <2>3
  <1>2. z \in Seq(S) /\ Len(z) = b /\ \A i \in 1..b : z[i] = s[i]
    <2>1. \A i \in 1..b : s[i] \in S
      BY <1>0
    <2>2. /\ z \in Seq(S) /\ Len(z) = IF 1 <= b THEN b - 1 + 1 ELSE 0
          /\ \A i \in 1..b - 1 + 1 : z[i] = s[1 + i - 1]
      BY <2>1, SubSeqProperties
    <2> HIDE DEF z
    <2>3. \A i \in 1..b : z[i] = s[i]
      <3> SUFFICES ASSUME NEW i \in 1..b PROVE z[i] = s[i]
        OBVIOUS
      <3>1. i \in 1..b - 1 + 1 /\ 1 + i - 1 = i
        OBVIOUS
      <3> QED
        BY <2>2, <3>1
    <2> QED
      BY <2>2, <2>3
  <1>3. y \in Seq(S) /\ Len(y) = b - a /\ \A i \in 1..b - a : y[i] = s[a + i]
    <2> DEFINE c == a + 1
    <2>1. \A i \in c..b : s[i] \in S
      BY <1>0
    <2>2. c \in Int /\ c = a + 1
      OBVIOUS
    <2> HIDE DEF c
    <2>3. /\ SubSeq(s, c, b) \in Seq(S)
          /\ Len(SubSeq(s, c, b)) = IF c <= b THEN b - c + 1 ELSE 0
          /\ \A i \in 1..b - c + 1 : SubSeq(s, c, b)[i] = s[c + i - 1]
      BY <2>1, <2>2, SubSeqProperties
    <2>4. y = SubSeq(s, c, b)
      BY DEF c
    <2> HIDE DEF y
    <2>5. \A i \in 1..b - a : y[i] = s[a + i]
      <3> SUFFICES ASSUME NEW i \in 1..b - a PROVE y[i] = s[a + i]
        OBVIOUS
      <3>1. i \in 1..b - c + 1 /\ c + i - 1 = a + i
        BY <2>2
      <3> QED
        BY <2>3, <2>4, <3>1
    <2>6. Len(y) = b - a
      BY <2>2, <2>3, <2>4
    <2> QED
      BY <2>3, <2>4, <2>5, <2>6
  <1> HIDE DEF x, y, z
  <1>4. /\ x \o y \in Seq(S) /\ Len(x \o y) = b
        /\ \A i \in 1..b : (x \o y)[i] = IF i <= a THEN x[i] ELSE y[i - a]
    <2>1. /\ x \o y \in Seq(S) /\ Len(x \o y) = Len(x) + Len(y)
          /\ \A i \in 1..Len(x) + Len(y) : (x \o y)[i] = IF i <= Len(x) THEN x[i] ELSE y[i - Len(x)]
      BY <1>1, <1>3, ConcatProperties
    <2>2. Len(x) + Len(y) = b
      BY <1>1, <1>3
    <2> QED
      BY <1>1, <2>1, <2>2
  <1>5. ASSUME NEW i \in 1..b
        PROVE  (x \o y)[i] = z[i]
    <2>1. CASE i <= a
      BY <1>1, <1>2, <1>4, <2>1
    <2>2. CASE ~(i <= a)
      <3>1. i - a \in 1..b - a /\ a + (i - a) = i
        BY <2>2
      <3>2. y[i - a] = s[i]
        BY <1>3, <3>1
      <3> QED
        BY <1>2, <1>4, <2>2, <3>2
    <2> QED
      BY <2>1, <2>2
  <1>6. x \o y = z
    BY <1>2, <1>4, <1>5, SeqEqual
  <1> QED
    BY <1>6 DEF x, y, z

\* All of a sequence.
LEMMA WholeSeq ==
    ASSUME NEW S, NEW s \in Seq(S)
    PROVE  SubSeq(s, 1, Len(s)) = s /\ SubSeq(s, 1, 0) = <<>>
  <1> DEFINE z == SubSeq(s, 1, Len(s))
             b == Len(s)
  <1>0. b \in Nat /\ \A i \in 1..b : s[i] \in S
    OBVIOUS
  <1> HIDE DEF b
  <1>1. /\ SubSeq(s, 1, b) \in Seq(S)
        /\ Len(SubSeq(s, 1, b)) = IF 1 <= b THEN b - 1 + 1 ELSE 0
        /\ \A i \in 1..b - 1 + 1 : SubSeq(s, 1, b)[i] = s[1 + i - 1]
    BY <1>0, SubSeqProperties
  <1>2. z = SubSeq(s, 1, b)
    BY DEF b
  <1> HIDE DEF z
  <1>3. z \in Seq(S) /\ Len(z) = Len(s)
    BY <1>0, <1>1, <1>2 DEF b
  <1>4. ASSUME NEW i \in 1..Len(z) PROVE z[i] = s[i]
    <2>1. i \in 1..b - 1 + 1 /\ 1 + i - 1 = i
      BY <1>0, <1>3 DEF b
    <2> QED
      BY <1>1, <1>2, <2>1
  <1>5. z = s
    BY <1>3, <1>4, SeqEqual
  <1>6. SubSeq(s, 1, 0) = <<>>
    BY SubSeqEmpty
  <1> QED
    BY <1>5, <1>6 DEF z

\* MinOf of two.
LEMMA SmallerOf ==
    ASSUME NEW p \in Nat, NEW q \in Nat
    PROVE  MinOf({p, q}) = IF p <= q THEN p ELSE q
  <1> DEFINE S == {p, q}
             m == MinOf(S)
  <1>1. S \in SUBSET Nat /\ S # {} /\ p \in S /\ q \in S
    OBVIOUS
  <1>2. m \in S /\ \A x \in S : m <= x
    <2> HIDE DEF S
    <2> QED
      BY <1>1, MinOfIs
  <1>3. (m = p \/ m = q) /\ m <= p /\ m <= q
    BY <1>2
  <1> HIDE DEF m
  <1>4. m = IF p <= q THEN p ELSE q
    BY <1>3
  <1> QED
    BY <1>4 DEF m

\* How many chunks there are.
ChunkCount(array) == (Len(array) + ChunkSize - 1) \div ChunkSize

\* Rounded up, the count of chunks covers the length, and no chunk but the last does.
LEMMA ChunkCountIs ==
    ASSUME NEW l \in Nat, NEW c \in Nat \ {0}
    PROVE  LET n == (l + c - 1) \div c
           IN  n \in Nat /\ n * c >= l /\ \A i \in 0..n - 1 : i * c < l
  <1> DEFINE n == (l + c - 1) \div c
             r == (l + c - 1) % c
  <1>1. l + c - 1 \in Nat
    OBVIOUS
  <1>2. n \in Nat /\ r \in 0..c - 1 /\ l + c - 1 = n * c + r
    OBVIOUS
  <1> HIDE DEF n, r
  <1>3. n * c \in Nat
    BY <1>2
  <1>4. n * c >= l
    BY <1>2, <1>3
  <1>5. ASSUME NEW i \in 0..n - 1 PROVE i * c < l
    <2>1. n - 1 - i \in Nat /\ (n - 1 - i) * c \in Nat /\ i * c \in Nat
      BY <1>2
    <2>2. (n - 1 - i) * c = n * c - c - i * c
      BY <1>2
    <2>3. n * c - c - i * c >= 0
      BY <2>1, <2>2
    <2> DEFINE p == n * c
               q == i * c
    <2>4. p \in Nat /\ q \in Nat /\ p - c - q >= 0 /\ l + c - 1 = p + r /\ r \in 0..c - 1
      BY <1>2, <1>3, <2>1, <2>3
    <2> HIDE DEF p, q
    <2>5. q < l
      BY <2>4
    <2> QED
      BY <2>5 DEF q
  <1> QED
    BY <1>2, <1>4, <1>5 DEF n

\* The first c chunks of an array, one after the other.
UpTo(array, c) == SubSeq(array, 1, MinOf({c * ChunkSize, Len(array)}))

\* chunkArray leaves nothing out: the chunks one after the other are the array.
LEMMA ChunksAre ==
    ASSUME NEW S, NEW array \in Seq(S)
    PROVE  /\ ChunkCount(array) \in Nat
           /\ chunkArray(array, ChunkSize) \in Seq(Seq(S))
           /\ Len(chunkArray(array, ChunkSize)) = ChunkCount(array)
           /\ UpTo(array, 0) = <<>> /\ UpTo(array, ChunkCount(array)) = array
           /\ \A c \in 0..ChunkCount(array) - 1 :
                  UpTo(array, c) \o chunkArray(array, ChunkSize)[c + 1] = UpTo(array, c + 1)
  <1> DEFINE l == Len(array)
             n == ChunkCount(array)
             chunks == chunkArray(array, ChunkSize)
  <1>1. l \in Nat /\ ChunkSize \in Nat \ {0}
    BY ArtAssumption
  <1>2. n \in Nat /\ n * ChunkSize >= l /\ \A i \in 0..n - 1 : i * ChunkSize < l
    <2> HIDE DEF l
    <2>1. n = (l + ChunkSize - 1) \div ChunkSize
      BY DEF ChunkCount, l
    <2> HIDE DEF n
    <2> QED
      BY <1>1, <2>1, ChunkCountIs
  <1>3. chunks = [i \in 1..n |-> SubSeq(array, (i - 1) * ChunkSize + 1, MinOf({i * ChunkSize, l}))]
    BY DEF chunkArray, ChunkCount
  <1> HIDE DEF chunks, n
  <1>4. ASSUME NEW i \in 1..n
        PROVE  /\ (i - 1) * ChunkSize \in Nat /\ i * ChunkSize \in Nat
               /\ i * ChunkSize = (i - 1) * ChunkSize + ChunkSize
               /\ (i - 1) * ChunkSize < l
               /\ MinOf({i * ChunkSize, l}) \in Nat /\ MinOf({i * ChunkSize, l}) <= l
               /\ (i - 1) * ChunkSize <= MinOf({i * ChunkSize, l})
    <2>1. i - 1 \in Nat /\ i - 1 \in 0..n - 1 /\ i \in Nat
      BY <1>2
    <2>2. /\ (i - 1) * ChunkSize \in Nat /\ i * ChunkSize \in Nat
          /\ i * ChunkSize = (i - 1) * ChunkSize + ChunkSize
      BY <1>1, <2>1
    <2>3. (i - 1) * ChunkSize < l
      BY <1>2, <2>1
    <2> DEFINE p == (i - 1) * ChunkSize
               q == i * ChunkSize
    <2>4. p \in Nat /\ q \in Nat /\ q = p + ChunkSize /\ p < l
      BY <2>2, <2>3
    <2> HIDE DEF p, q, l
    <2>5. MinOf({q, l}) = IF q <= l THEN q ELSE l
      BY <1>1, <2>4, SmallerOf
    <2>6. MinOf({q, l}) \in Nat /\ MinOf({q, l}) <= l /\ p <= MinOf({q, l})
      BY <1>1, <2>4, <2>5
    <2> QED
      BY <2>2, <2>3, <2>6 DEF p, q
  <1>5. ASSUME NEW i \in 1..n
        PROVE  chunks[i] \in Seq(S)
    <2> DEFINE p == (i - 1) * ChunkSize
               a == p + 1
               b == MinOf({i * ChunkSize, l})
    <2>1. a \in Int /\ b \in Int /\ a >= 1 /\ b <= l
      <3>1. p \in Nat /\ b \in Nat /\ b <= l
        BY <1>4
      <3> HIDE DEF p, b, l
      <3> QED
        BY <3>1
    <2>2. chunks[i] = SubSeq(array, a, b)
      BY <1>3
    <2> HIDE DEF a, b
    <2>3. \A j \in a..b : array[j] \in S
      BY <1>1, <2>1
    <2>4. SubSeq(array, a, b) \in Seq(S)
      BY <2>1, <2>3, SubSeqProperties
    <2> QED
      BY <2>2, <2>4
  <1>6. chunks \in Seq(Seq(S)) /\ Len(chunks) = n
    <2> DEFINE T == Seq(S)
    <2>1. chunks \in [1..n -> T]
      BY <1>3, <1>5
    <2> HIDE DEF T
    <2> QED
      BY <1>2, <2>1 DEF T
  <1>7. UpTo(array, 0) = <<>>
    <2>1. 0 * ChunkSize = 0
      BY <1>1
    <2>2. MinOf({0, l}) = 0
      <3> HIDE DEF l
      <3>1. MinOf({0, l}) = IF 0 <= l THEN 0 ELSE l
        BY <1>1, SmallerOf
      <3> QED
        BY <1>1, <3>1
    <2> QED
      BY <2>1, <2>2, WholeSeq DEF UpTo
  <1>8. UpTo(array, n) = array
    <2> DEFINE q == n * ChunkSize
    <2>1. q \in Nat /\ q >= l
      BY <1>1, <1>2
    <2>2. MinOf({q, l}) = l
      <3> HIDE DEF l, q
      <3>1. MinOf({q, l}) = IF q <= l THEN q ELSE l
        BY <1>1, <2>1, SmallerOf
      <3> QED
        BY <1>1, <2>1, <3>1
    <2> QED
      BY <2>2, WholeSeq DEF UpTo
  <1>9. ASSUME NEW c \in 0..n - 1
        PROVE  UpTo(array, c) \o chunks[c + 1] = UpTo(array, c + 1)
    <2> DEFINE i == c + 1
               p == c * ChunkSize
               q == i * ChunkSize
               b == MinOf({q, l})
    <2>1. i \in 1..n /\ i - 1 = c
      BY <1>2
    <2>2. p \in Nat /\ q \in Nat /\ p < l /\ b \in Nat /\ b <= l /\ p <= b
      BY <1>4, <2>1
    <2>3. chunks[i] = SubSeq(array, p + 1, b)
      BY <1>3, <2>1
    <2>4. UpTo(array, c) = SubSeq(array, 1, p)
      <3>1. MinOf({p, l}) = p
        <4> HIDE DEF l, p
        <4>1. MinOf({p, l}) = IF p <= l THEN p ELSE l
          BY <1>1, <2>2, SmallerOf
        <4> QED
          BY <1>1, <2>2, <4>1
      <3> QED
        BY <3>1 DEF UpTo
    <2>5. UpTo(array, i) = SubSeq(array, 1, b)
      BY DEF UpTo
    <2> HIDE DEF i, p, q, b
    <2>6. SubSeq(array, 1, p) \o SubSeq(array, p + 1, b) = SubSeq(array, 1, b)
      BY <2>2, PartsJoin
    <2>7. UpTo(array, c) \o chunks[i] = UpTo(array, i)
      BY <2>3, <2>4, <2>5, <2>6
    <2> QED
      BY <2>7 DEF i
  <1> QED
    BY <1>2, <1>6, <1>7, <1>8, <1>9 DEF chunks, n

-----------------------------------------------------------------------------
(* populate-descriptor.                                                    *)

Contents == [backgrounds : Nat, palette : Seq(Keys), parts : [KindSet -> Seq(Image)]]

AddCalls ==
    [add : {"backgrounds"}, items : Seq(Nat)] \cup [add : {"palette"}, items : Seq(Keys)]
        \cup [add : KindSet, items : Seq(Image)]

\* image-data.json: images of every kind, each of which covers a picture.
Shipped(data) ==
    /\ data \in [palette : Seq(Keys), images : [KindSet -> Seq(Image)]]
    /\ \A kind \in KindSet :
           /\ data.images[kind] # <<>>
           /\ Len(data.palette) <= Byte => \A i \in 1..Len(data.images[kind]) :
                  \E picture \in Canvas : Covers(data.images[kind][i], picture, data.palette)

\* The transactions p of one run, a of them with accessories and h with heads.
Listed(p, data, a, h) ==
    /\ a \in Nat /\ a = ChunkCount(data.images["accessories"])
    /\ h \in Nat /\ h = ChunkCount(data.images["heads"])
    /\ p \in Seq(AddCalls) /\ Len(p) = a + h + 4
    /\ p[1] = [add |-> "backgrounds", items |-> [i \in 1..Backgrounds |-> i]]
    /\ p[2] = [add |-> "palette", items |-> data.palette]
    /\ p[3] = [add |-> "bodies", items |-> data.images["bodies"]]
    /\ \A i \in 1..a : p[3 + i] = [add |-> "accessories",
                                   items |-> chunkArray(data.images["accessories"], ChunkSize)[i]]
    /\ \A i \in 1..h : p[3 + a + i] = [add |-> "heads",
                                       items |-> chunkArray(data.images["heads"], ChunkSize)[i]]
    /\ p[4 + a + h] = [add |-> "glasses", items |-> data.images["glasses"]]

\* Many calls for one kind.
LEMMA AddManyIs ==
    ASSUME NEW kind \in KindSet, NEW array \in Seq(Image)
    PROVE  /\ AddMany(kind, chunkArray(array, ChunkSize)) \in Seq(AddCalls)
           /\ Len(AddMany(kind, chunkArray(array, ChunkSize))) = ChunkCount(array)
           /\ \A i \in 1..ChunkCount(array) :
                  AddMany(kind, chunkArray(array, ChunkSize))[i]
                      = [add |-> kind, items |-> chunkArray(array, ChunkSize)[i]]
  <1> DEFINE n == ChunkCount(array)
             chunks == chunkArray(array, ChunkSize)
             many == AddMany(kind, chunks)
  <1>1. n \in Nat /\ chunks \in Seq(Seq(Image)) /\ Len(chunks) = n
    BY ChunksAre
  <1> HIDE DEF n, chunks
  <1>2. DOMAIN chunks = 1..n /\ \A i \in 1..n : chunks[i] \in Seq(Image)
    BY <1>1
  <1>3. many = [i \in 1..n |-> [add |-> kind, items |-> chunks[i]]]
    BY <1>2 DEF AddMany
  <1>4. \A i \in 1..n : [add |-> kind, items |-> chunks[i]] \in AddCalls
    BY <1>2 DEF AddCalls
  <1> HIDE DEF many
  <1>5. many \in [1..n -> AddCalls]
    BY <1>3, <1>4
  <1>6. many \in Seq(AddCalls) /\ Len(many) = n
    BY <1>1, <1>5
  <1> QED
    BY <1>3, <1>6 DEF many, chunks, n

\* The transactions of a run, counted.
LEMMA PopulateTxsAre ==
    ASSUME NEW data, Shipped(data)
    PROVE  \E a, h : Listed(PopulateTxs(data), data, a, h)
  <1> DEFINE a == ChunkCount(data.images["accessories"])
             h == ChunkCount(data.images["heads"])
             b1 == [add |-> "backgrounds", items |-> [i \in 1..Backgrounds |-> i]]
             b2 == [add |-> "palette", items |-> data.palette]
             b3 == [add |-> "bodies", items |-> data.images["bodies"]]
             b4 == [add |-> "glasses", items |-> data.images["glasses"]]
             s1 == <<b1, b2, b3>>
             s2 == AddMany("accessories", chunkArray(data.images["accessories"], ChunkSize))
             s3 == AddMany("heads", chunkArray(data.images["heads"], ChunkSize))
             s4 == <<b4>>
             chunk2(i) == [add |-> "accessories",
                           items |-> chunkArray(data.images["accessories"], ChunkSize)[i]]
             chunk3(i) == [add |-> "heads",
                           items |-> chunkArray(data.images["heads"], ChunkSize)[i]]
  <1>1. /\ data.palette \in Seq(Keys) /\ data.images["bodies"] \in Seq(Image)
        /\ data.images["accessories"] \in Seq(Image) /\ data.images["heads"] \in Seq(Image)
        /\ data.images["glasses"] \in Seq(Image)
    BY KindsAre DEF Shipped
  <1>2. /\ a \in Nat /\ s2 \in Seq(AddCalls) /\ Len(s2) = a
        /\ \A i \in 1..a : s2[i] = chunk2(i)
    <2>1. "accessories" \in KindSet
      BY KindsAre
    <2> QED
      BY <1>1, <2>1, AddManyIs, ChunksAre
  <1>3. /\ h \in Nat /\ s3 \in Seq(AddCalls) /\ Len(s3) = h
        /\ \A i \in 1..h : s3[i] = chunk3(i)
    <2>1. "heads" \in KindSet
      BY KindsAre
    <2> QED
      BY <1>1, <2>1, AddManyIs, ChunksAre
  <1>4. b1 \in AddCalls /\ b2 \in AddCalls /\ b3 \in AddCalls /\ b4 \in AddCalls
    <2>1. [i \in 1..Backgrounds |-> i] \in Seq(Nat)
      BY ArtAssumption
    <2>2. "bodies" \in KindSet /\ "glasses" \in KindSet
      BY KindsAre
    <2> QED
      BY <1>1, <2>1, <2>2 DEF AddCalls
  <1> DEFINE p == PopulateTxs(data)
  <1>5. p = ((s1 \o s2) \o s3) \o s4
    BY DEF PopulateTxs
  <1> HIDE DEF a, h, b1, b2, b3, b4, s2, s3, chunk2, chunk3, p
  <1>6. /\ s1 \in Seq(AddCalls) /\ Len(s1) = 3 /\ s1[1] = b1 /\ s1[2] = b2 /\ s1[3] = b3
        /\ s4 \in Seq(AddCalls) /\ Len(s4) = 1 /\ s4[1] = b4
    BY <1>4
  <1> HIDE DEF s1, s4
  <1> DEFINE t == s1 \o s2
             u == t \o s3
  <1>7. /\ t \in Seq(AddCalls) /\ Len(t) = 3 + a
        /\ \A i \in 1..3 + a : t[i] = IF i <= 3 THEN s1[i] ELSE s2[i - 3]
    <2>1. /\ t \in Seq(AddCalls) /\ Len(t) = Len(s1) + Len(s2)
          /\ \A i \in 1..Len(s1) + Len(s2) : t[i] = IF i <= Len(s1) THEN s1[i] ELSE s2[i - Len(s1)]
      BY <1>2, <1>6, ConcatProperties
    <2> HIDE DEF t
    <2> QED
      BY <1>2, <1>6, <2>1
  <1> HIDE DEF t
  <1>8. /\ u \in Seq(AddCalls) /\ Len(u) = 3 + a + h
        /\ \A i \in 1..3 + a + h : u[i] = IF i <= 3 + a THEN t[i] ELSE s3[i - (3 + a)]
    <2>1. /\ u \in Seq(AddCalls) /\ Len(u) = Len(t) + Len(s3)
          /\ \A i \in 1..Len(t) + Len(s3) : u[i] = IF i <= Len(t) THEN t[i] ELSE s3[i - Len(t)]
      BY <1>3, <1>7, ConcatProperties
    <2> HIDE DEF u
    <2>2. Len(t) + Len(s3) = 3 + a + h
      BY <1>2, <1>3, <1>7
    <2> QED
      BY <1>7, <2>1, <2>2
  <1> HIDE DEF u
  <1>9. /\ p \in Seq(AddCalls) /\ Len(p) = 4 + a + h
        /\ \A i \in 1..4 + a + h : p[i] = IF i <= 3 + a + h THEN u[i] ELSE s4[i - (3 + a + h)]
    <2>1. p = u \o s4
      BY <1>5 DEF u, t
    <2>2. /\ u \o s4 \in Seq(AddCalls) /\ Len(u \o s4) = Len(u) + Len(s4)
          /\ \A i \in 1..Len(u) + Len(s4) :
                 (u \o s4)[i] = IF i <= Len(u) THEN u[i] ELSE s4[i - Len(u)]
      BY <1>6, <1>8, ConcatProperties
    <2>3. Len(u) + Len(s4) = 4 + a + h
      BY <1>2, <1>3, <1>6, <1>8
    <2> QED
      BY <1>8, <2>1, <2>2, <2>3
  <1>10. ASSUME NEW i \in 1..3
         PROVE  p[i] = s1[i]
    <2>1. i \in 1..4 + a + h /\ i <= 3 + a + h /\ i \in 1..3 + a + h /\ i <= 3 + a /\ i \in 1..3 + a
      BY <1>2, <1>3
    <2>2. p[i] = u[i]
      BY <1>9, <2>1
    <2>3. u[i] = t[i]
      BY <1>8, <2>1
    <2>4. t[i] = s1[i]
      BY <1>7, <2>1
    <2> QED
      BY <2>2, <2>3, <2>4
  <1>11. ASSUME NEW i \in 1..a
         PROVE  p[3 + i] = chunk2(i)
    <2> DEFINE j == 3 + i
    <2>1. /\ j \in 1..4 + a + h /\ j <= 3 + a + h /\ j \in 1..3 + a + h /\ j <= 3 + a
          /\ j \in 1..3 + a /\ ~(j <= 3) /\ j - 3 = i
      BY <1>2, <1>3
    <2> HIDE DEF j
    <2>2. p[j] = u[j]
      BY <1>9, <2>1
    <2>3. u[j] = t[j]
      BY <1>8, <2>1
    <2>4. t[j] = s2[i]
      BY <1>7, <2>1
    <2>5. p[j] = chunk2(i)
      BY <1>2, <2>2, <2>3, <2>4
    <2> QED
      BY <2>5 DEF j
  <1>12. ASSUME NEW i \in 1..h
         PROVE  p[3 + a + i] = chunk3(i)
    <2> DEFINE j == 3 + a + i
    <2>1. /\ j \in 1..4 + a + h /\ j <= 3 + a + h /\ j \in 1..3 + a + h /\ ~(j <= 3 + a)
          /\ j - (3 + a) = i
      BY <1>2, <1>3
    <2> HIDE DEF j
    <2>2. p[j] = u[j]
      BY <1>9, <2>1
    <2>3. u[j] = s3[i]
      BY <1>8, <2>1
    <2>4. p[j] = chunk3(i)
      BY <1>3, <2>2, <2>3
    <2> QED
      BY <2>4 DEF j
  <1>13. p[4 + a + h] = b4
    <2> DEFINE j == 4 + a + h
    <2>1. j \in 1..4 + a + h /\ ~(j <= 3 + a + h) /\ j - (3 + a + h) = 1
      BY <1>2, <1>3
    <2>2. p[j] = s4[j - (3 + a + h)]
      BY <1>9, <2>1
    <2> QED
      BY <1>6, <2>1, <2>2
  <1>14. 4 + a + h = a + h + 4
    BY <1>2, <1>3
  <1>15. p[1] = b1 /\ p[2] = b2 /\ p[3] = b3
    BY <1>6, <1>10
  <1>16. Listed(p, data, a, h)
    BY <1>2, <1>3, <1>9, <1>11, <1>12, <1>13, <1>14, <1>15
       DEF Listed, a, h, b1, b2, b3, b4, chunk2, chunk3
  <1> QED
    BY <1>16 DEF p

\* What a call adds.
LEMMA AddedIs ==
    ASSUME NEW contents \in Contents, NEW tx \in AddCalls
    PROVE  /\ WithAdded(contents, tx) \in Contents
           /\ WithAdded(contents, tx).backgrounds =
                  IF tx.add = "backgrounds" THEN contents.backgrounds + Len(tx.items)
                  ELSE contents.backgrounds
           /\ WithAdded(contents, tx).palette =
                  IF tx.add = "palette" THEN contents.palette \o tx.items ELSE contents.palette
           /\ \A kind \in KindSet :
                  WithAdded(contents, tx).parts[kind] =
                      IF tx.add = kind THEN contents.parts[kind] \o tx.items
                      ELSE contents.parts[kind]
  <1> DEFINE d == WithAdded(contents, tx)
  <1>0. /\ contents.backgrounds \in Nat /\ contents.palette \in Seq(Keys)
        /\ contents.parts \in [KindSet -> Seq(Image)]
        /\ contents = [backgrounds |-> contents.backgrounds, palette |-> contents.palette,
                         parts |-> contents.parts]
        /\ "palette" \notin KindSet /\ "backgrounds" \notin KindSet
    BY KindsAre DEF Contents
  <1>1. CASE tx \in [add : {"backgrounds"}, items : Seq(Nat)]
    <2>1. tx.add = "backgrounds" /\ Len(tx.items) \in Nat
      BY <1>1
    <2>2. d = [contents EXCEPT !.backgrounds = @ + Len(tx.items)]
      BY <2>1 DEF WithAdded
    <2>3. d = [backgrounds |-> contents.backgrounds + Len(tx.items),
               palette |-> contents.palette, parts |-> contents.parts]
      BY <1>0, <2>2
    <2> HIDE DEF d
    <2>4. contents.backgrounds + Len(tx.items) \in Nat
      BY <1>0, <2>1
    <2>5. d \in Contents
      BY <1>0, <2>3, <2>4 DEF Contents
    <2>6. \A kind \in KindSet : tx.add # kind
      BY <1>0, <2>1
    <2>7. \A kind \in KindSet :
              d.parts[kind] = IF tx.add = kind THEN contents.parts[kind] \o tx.items
                              ELSE contents.parts[kind]
      BY <2>3, <2>6
    <2>8. tx.add # "palette"
      BY <2>1
    <2> QED
      BY <2>1, <2>3, <2>5, <2>7, <2>8 DEF d
  <1>2. CASE tx \in [add : {"palette"}, items : Seq(Keys)]
    <2>1. tx.add = "palette" /\ tx.items \in Seq(Keys)
      BY <1>2
    <2>2. d = [contents EXCEPT !.palette = @ \o tx.items]
      BY <2>1 DEF WithAdded
    <2>3. d = [backgrounds |-> contents.backgrounds,
               palette |-> contents.palette \o tx.items, parts |-> contents.parts]
      BY <1>0, <2>2
    <2> HIDE DEF d
    <2>4. contents.palette \o tx.items \in Seq(Keys)
      BY <1>0, <2>1, ConcatProperties
    <2>5. d \in Contents
      BY <1>0, <2>3, <2>4 DEF Contents
    <2>6. \A kind \in KindSet : tx.add # kind
      BY <1>0, <2>1
    <2>7. \A kind \in KindSet :
              d.parts[kind] = IF tx.add = kind THEN contents.parts[kind] \o tx.items
                              ELSE contents.parts[kind]
      BY <2>3, <2>6
    <2>8. tx.add # "backgrounds"
      BY <2>1
    <2>9. d.palette = IF tx.add = "palette" THEN contents.palette \o tx.items
                      ELSE contents.palette
      BY <2>1, <2>3
    <2>10. d.backgrounds = IF tx.add = "backgrounds" THEN contents.backgrounds + Len(tx.items)
                           ELSE contents.backgrounds
      BY <2>3, <2>8
    <2> QED
      BY <2>5, <2>7, <2>9, <2>10, Zenon DEF d
  <1>3. CASE tx \in [add : KindSet, items : Seq(Image)]
    <2>1. tx.add \in KindSet /\ tx.items \in Seq(Image)
          /\ tx.add # "palette" /\ tx.add # "backgrounds"
      BY <1>0, <1>3
    <2> DEFINE k == tx.add
               more == contents.parts[k] \o tx.items
               parts == [contents.parts EXCEPT ![k] = more]
    <2>2. d = [contents EXCEPT !.parts[k] = @ \o tx.items]
      BY <2>1 DEF WithAdded
    <2>3. d = [backgrounds |-> contents.backgrounds, palette |-> contents.palette,
               parts |-> parts]
      BY <1>0, <2>2
    <2>4. more \in Seq(Image)
      <3>1. contents.parts[k] \in Seq(Image)
        BY <1>0, <2>1
      <3> QED
        BY <2>1, <3>1, ConcatProperties
    <2> HIDE DEF d, more
    <2>5. /\ parts \in [KindSet -> Seq(Image)]
          /\ \A kind \in KindSet : parts[kind] = IF tx.add = kind THEN more ELSE contents.parts[kind]
      BY <1>0, <2>1, <2>4
    <2> HIDE DEF parts
    <2>6. d \in Contents
      BY <1>0, <2>3, <2>5 DEF Contents
    <2>7. \A kind \in KindSet :
              d.parts[kind] = IF tx.add = kind THEN contents.parts[kind] \o tx.items
                              ELSE contents.parts[kind]
      BY <2>3, <2>5 DEF more
    <2> QED
      BY <2>1, <2>3, <2>6, <2>7 DEF d
  <1> QED
    BY <1>1, <1>2, <1>3 DEF AddCalls

\* What a descriptor has after m of the transactions of the first run.
FilledTo(d, data, a, h, m) ==
    /\ d.backgrounds = IF m >= 1 THEN Backgrounds ELSE 0
    /\ d.palette = IF m >= 2 THEN data.palette ELSE <<>>
    /\ d.parts["bodies"] = IF m >= 3 THEN data.images["bodies"] ELSE <<>>
    /\ d.parts["accessories"] = UpTo(data.images["accessories"],
                                     IF m <= 3 THEN 0 ELSE IF m <= 3 + a THEN m - 3 ELSE a)
    /\ d.parts["heads"] = UpTo(data.images["heads"],
                               IF m <= 3 + a THEN 0 ELSE IF m <= 3 + a + h THEN m - 3 - a ELSE h)
    /\ d.parts["glasses"] = IF m >= 4 + a + h THEN data.images["glasses"] ELSE <<>>

\* One more is mined.
LEMMA FilledOn ==
    ASSUME NEW data, Shipped(data), NEW p, NEW a, NEW h, Listed(p, data, a, h),
           NEW contents \in Contents, NEW m \in 0..a + h + 3,
           FilledTo(contents, data, a, h, m)
    PROVE  FilledTo(WithAdded(contents, p[m + 1]), data, a, h, m + 1)
  <1> DEFINE k == m + 1
             tx == p[k]
             d == WithAdded(contents, tx)
  <1>1. /\ a \in Nat /\ h \in Nat /\ p \in Seq(AddCalls) /\ Len(p) = a + h + 4
        /\ a = ChunkCount(data.images["accessories"]) /\ h = ChunkCount(data.images["heads"])
    BY DEF Listed
  <1>2. m \in Nat /\ k \in 1..Len(p) /\ k \in Nat
    BY <1>1
  <1> HIDE DEF k
  <1>3. tx \in AddCalls
    BY <1>1, <1>2, ElementOfSeq
  <1>4. /\ data.palette \in Seq(Keys) /\ data.images["bodies"] \in Seq(Image)
        /\ data.images["accessories"] \in Seq(Image) /\ data.images["heads"] \in Seq(Image)
        /\ data.images["glasses"] \in Seq(Image)
    BY KindsAre DEF Shipped
  <1>5. /\ "bodies" \in KindSet /\ "accessories" \in KindSet /\ "heads" \in KindSet
        /\ "glasses" \in KindSet
    BY KindsAre
  <1>6. /\ d.backgrounds = IF tx.add = "backgrounds" THEN contents.backgrounds + Len(tx.items)
                           ELSE contents.backgrounds
        /\ d.palette = IF tx.add = "palette" THEN contents.palette \o tx.items
                       ELSE contents.palette
        /\ \A kind \in KindSet :
               d.parts[kind] = IF tx.add = kind THEN contents.parts[kind] \o tx.items
                               ELSE contents.parts[kind]
    <2> HIDE DEF tx
    <2> QED
      BY <1>3, AddedIs
  <1> DEFINE U(c) == UpTo(data.images["accessories"], c)
             V(c) == UpTo(data.images["heads"], c)
             atAcc(n) == IF n <= 3 THEN 0 ELSE IF n <= 3 + a THEN n - 3 ELSE a
             atHead(n) == IF n <= 3 + a THEN 0 ELSE IF n <= 3 + a + h THEN n - 3 - a ELSE h
  <1>7. /\ contents.backgrounds = IF m >= 1 THEN Backgrounds ELSE 0
        /\ contents.palette = IF m >= 2 THEN data.palette ELSE <<>>
        /\ contents.parts["bodies"] = IF m >= 3 THEN data.images["bodies"] ELSE <<>>
        /\ contents.parts["accessories"] = U(atAcc(m))
        /\ contents.parts["heads"] = V(atHead(m))
        /\ contents.parts["glasses"] = IF m >= 4 + a + h THEN data.images["glasses"] ELSE <<>>
    BY DEF FilledTo
  <1> SUFFICES
        /\ d.backgrounds = IF k >= 1 THEN Backgrounds ELSE 0
        /\ d.palette = IF k >= 2 THEN data.palette ELSE <<>>
        /\ d.parts["bodies"] = IF k >= 3 THEN data.images["bodies"] ELSE <<>>
        /\ d.parts["accessories"] = U(atAcc(k))
        /\ d.parts["heads"] = V(atHead(k))
        /\ d.parts["glasses"] = IF k >= 4 + a + h THEN data.images["glasses"] ELSE <<>>
    BY DEF FilledTo, k
  <1>8. k = m + 1
    BY DEF k
  <1> HIDE DEF d, U, V
  <1>9. \A s \in Seq(Image) : <<>> \o s = s
    BY ConcatEmptySeq
  <1>17. a \in Nat /\ h \in Nat /\ m \in Nat /\ k \in Nat /\ k = m + 1 /\ m <= a + h + 3
    BY <1>1, <1>2, <1>8
  <1>10. CASE m = 0
    <2>1. tx.add = "backgrounds" /\ tx.items = [i \in 1..Backgrounds |-> i]
      <3>1. tx = [add |-> "backgrounds", items |-> [i \in 1..Backgrounds |-> i]]
        BY <1>8, <1>10 DEF Listed
      <3> QED
        BY <3>1
    <2>2. Len(tx.items) = Backgrounds /\ Backgrounds \in Nat
      BY <2>1, ArtAssumption
    <2> HIDE DEF tx
    <2>3. d.backgrounds = Backgrounds
      BY <1>6, <1>7, <1>10, <2>1, <2>2
    <2>4. /\ d.palette = contents.palette
          /\ d.parts["bodies"] = contents.parts["bodies"]
          /\ d.parts["accessories"] = contents.parts["accessories"]
          /\ d.parts["heads"] = contents.parts["heads"]
          /\ d.parts["glasses"] = contents.parts["glasses"]
      BY <1>5, <1>6, <2>1
    <2>5. atAcc(k) = atAcc(m) /\ atHead(k) = atHead(m)
      BY <1>17, <1>10
    <2> HIDE DEF atAcc, atHead
    <2> QED
      BY <1>7, <1>17, <1>10, <2>3, <2>4, <2>5
  <1>11. CASE m = 1
    <2>1. tx.add = "palette" /\ tx.items = data.palette
      <3>1. tx = [add |-> "palette", items |-> data.palette]
        BY <1>8, <1>11 DEF Listed
      <3> QED
        BY <3>1
    <2>2. <<>> \o data.palette = data.palette
      BY <1>4, ConcatEmptySeq
    <2> HIDE DEF tx
    <2>3. d.palette = data.palette
      BY <1>6, <1>7, <1>11, <2>1, <2>2
    <2>4. /\ d.backgrounds = contents.backgrounds
          /\ d.parts["bodies"] = contents.parts["bodies"]
          /\ d.parts["accessories"] = contents.parts["accessories"]
          /\ d.parts["heads"] = contents.parts["heads"]
          /\ d.parts["glasses"] = contents.parts["glasses"]
      BY <1>5, <1>6, <2>1
    <2>5. atAcc(k) = atAcc(m) /\ atHead(k) = atHead(m)
      BY <1>17, <1>11
    <2> HIDE DEF atAcc, atHead
    <2> QED
      BY <1>7, <1>17, <1>11, <2>3, <2>4, <2>5
  <1>12. CASE m = 2
    <2>1. tx.add = "bodies" /\ tx.items = data.images["bodies"]
      <3>1. tx = [add |-> "bodies", items |-> data.images["bodies"]]
        BY <1>8, <1>12 DEF Listed
      <3> QED
        BY <3>1
    <2> HIDE DEF tx
    <2>2. d.parts["bodies"] = data.images["bodies"]
      <3>1. contents.parts["bodies"] = <<>>
        BY <1>7, <1>12
      <3>2. d.parts["bodies"] = <<>> \o data.images["bodies"]
        BY <1>5, <1>6, <2>1, <3>1
      <3>3. <<>> \o data.images["bodies"] = data.images["bodies"]
        BY <1>4, <1>9
      <3> QED
        BY <3>2, <3>3
    <2>4. /\ d.backgrounds = contents.backgrounds
          /\ d.palette = contents.palette
          /\ d.parts["accessories"] = contents.parts["accessories"]
          /\ d.parts["heads"] = contents.parts["heads"]
          /\ d.parts["glasses"] = contents.parts["glasses"]
      BY <1>5, <1>6, <2>1
    <2>5. atAcc(k) = atAcc(m) /\ atHead(k) = atHead(m)
      BY <1>17, <1>12
    <2> HIDE DEF atAcc, atHead
    <2> QED
      BY <1>7, <1>17, <1>12, <2>2, <2>4, <2>5
  <1>13. CASE m \in 3..2 + a
    <2> DEFINE i == m - 2
               c == m - 3
    <2>1. i \in 1..a /\ 3 + i = k /\ c \in 0..a - 1 /\ c + 1 = i
      BY <1>17, <1>13
    <2> HIDE DEF i, c
    <2>2. tx.add = "accessories"
          /\ tx.items = chunkArray(data.images["accessories"], ChunkSize)[i]
      <3>1. tx = [add |-> "accessories",
                  items |-> chunkArray(data.images["accessories"], ChunkSize)[i]]
        BY <2>1 DEF Listed
      <3> QED
        BY <3>1
    <2>3. U(c) \o tx.items = U(i)
      <3>1. UpTo(data.images["accessories"], c)
                \o chunkArray(data.images["accessories"], ChunkSize)[c + 1]
                    = UpTo(data.images["accessories"], c + 1)
        BY <1>1, <1>4, <2>1, ChunksAre
      <3> QED
        BY <2>1, <2>2, <3>1 DEF U
    <2>4. atAcc(m) = c /\ atAcc(k) = i /\ atHead(k) = atHead(m)
      BY <1>17, <1>13, <2>1 DEF i, c
    <2> HIDE DEF tx, atAcc, atHead
    <2>5. d.parts["accessories"] = U(i)
      BY <1>5, <1>6, <1>7, <2>2, <2>3, <2>4
    <2>6. /\ d.backgrounds = contents.backgrounds
          /\ d.palette = contents.palette
          /\ d.parts["bodies"] = contents.parts["bodies"]
          /\ d.parts["heads"] = contents.parts["heads"]
          /\ d.parts["glasses"] = contents.parts["glasses"]
      BY <1>5, <1>6, <2>2
    <2> QED
      BY <1>7, <1>17, <1>13, <2>4, <2>5, <2>6
  <1>14. CASE m \in 3 + a..2 + a + h
    <2> DEFINE i == m - 2 - a
               c == m - 3 - a
    <2>1. i \in 1..h /\ 3 + a + i = k /\ c \in 0..h - 1 /\ c + 1 = i
      BY <1>17, <1>14
    <2> HIDE DEF i, c
    <2>2. tx.add = "heads" /\ tx.items = chunkArray(data.images["heads"], ChunkSize)[i]
      <3>1. tx = [add |-> "heads", items |-> chunkArray(data.images["heads"], ChunkSize)[i]]
        BY <2>1 DEF Listed
      <3> QED
        BY <3>1
    <2>3. V(c) \o tx.items = V(i)
      <3>1. UpTo(data.images["heads"], c) \o chunkArray(data.images["heads"], ChunkSize)[c + 1]
                = UpTo(data.images["heads"], c + 1)
        BY <1>1, <1>4, <2>1, ChunksAre
      <3> QED
        BY <2>1, <2>2, <3>1 DEF V
    <2>4. atHead(m) = c /\ atHead(k) = i /\ atAcc(k) = atAcc(m)
      BY <1>17, <1>14, <2>1 DEF i, c
    <2> HIDE DEF tx, atAcc, atHead
    <2>5. d.parts["heads"] = V(i)
      BY <1>5, <1>6, <1>7, <2>2, <2>3, <2>4
    <2>6. /\ d.backgrounds = contents.backgrounds
          /\ d.palette = contents.palette
          /\ d.parts["bodies"] = contents.parts["bodies"]
          /\ d.parts["accessories"] = contents.parts["accessories"]
          /\ d.parts["glasses"] = contents.parts["glasses"]
      BY <1>5, <1>6, <2>2
    <2> QED
      BY <1>7, <1>17, <1>14, <2>4, <2>5, <2>6
  <1>15. CASE m = 3 + a + h
    <2>1. k = 4 + a + h
      BY <1>17, <1>15
    <2>2. tx.add = "glasses" /\ tx.items = data.images["glasses"]
      <3>1. tx = [add |-> "glasses", items |-> data.images["glasses"]]
        BY <2>1 DEF Listed
      <3> QED
        BY <3>1
    <2> HIDE DEF tx
    <2>3. d.parts["glasses"] = data.images["glasses"]
      <3>1. contents.parts["glasses"] = <<>>
        BY <1>1, <1>7, <1>15
      <3> QED
        BY <1>4, <1>5, <1>6, <1>9, <2>2, <3>1
    <2>4. /\ d.backgrounds = contents.backgrounds
          /\ d.palette = contents.palette
          /\ d.parts["bodies"] = contents.parts["bodies"]
          /\ d.parts["accessories"] = contents.parts["accessories"]
          /\ d.parts["heads"] = contents.parts["heads"]
      BY <1>5, <1>6, <2>2
    <2>5. atAcc(k) = atAcc(m) /\ atHead(k) = atHead(m)
      BY <1>17, <1>15
    <2> HIDE DEF atAcc, atHead
    <2> QED
      BY <1>7, <1>17, <1>15, <2>3, <2>4, <2>5
  <1>16. m = 0 \/ m = 1 \/ m = 2 \/ m \in 3..2 + a \/ m \in 3 + a..2 + a + h \/ m = 3 + a + h
    BY <1>17
  <1> QED
    BY <1>10, <1>11, <1>12, <1>13, <1>14, <1>15, <1>16

\* Nothing is there at the start, and everything after the last of them.
LEMMA FilledBounds ==
    ASSUME NEW data, Shipped(data), NEW p, NEW a, NEW h, Listed(p, data, a, h), NEW d
    PROVE  /\ (/\ d.backgrounds = 0 /\ d.palette = <<>>
               /\ \A kind \in KindSet : d.parts[kind] = <<>>) => FilledTo(d, data, a, h, 0)
           /\ FilledTo(d, data, a, h, a + h + 4) =>
                  /\ d.backgrounds = Backgrounds /\ d.palette = data.palette
                  /\ \A kind \in KindSet : d.parts[kind] = data.images[kind]
  <1>1. /\ a \in Nat /\ h \in Nat
        /\ a = ChunkCount(data.images["accessories"]) /\ h = ChunkCount(data.images["heads"])
    BY DEF Listed
  <1>2. data.images["accessories"] \in Seq(Image) /\ data.images["heads"] \in Seq(Image)
    BY KindsAre DEF Shipped
  <1>3. /\ UpTo(data.images["accessories"], 0) = <<>>
        /\ UpTo(data.images["accessories"], a) = data.images["accessories"]
        /\ UpTo(data.images["heads"], 0) = <<>> /\ UpTo(data.images["heads"], h) = data.images["heads"]
    BY <1>1, <1>2, ChunksAre
  <1>4. KindSet = {"bodies", "accessories", "heads", "glasses"}
    BY KindsAre
  <1>5. ASSUME d.backgrounds = 0, d.palette = <<>>,
               \A kind \in KindSet : d.parts[kind] = <<>>
        PROVE  FilledTo(d, data, a, h, 0)
    <2>1. 0 <= 3 + a /\ ~(0 >= 4 + a + h)
      BY <1>1
    <2> QED
      BY <1>3, <1>4, <1>5, <2>1 DEF FilledTo
  <1>6. ASSUME FilledTo(d, data, a, h, a + h + 4)
        PROVE  /\ d.backgrounds = Backgrounds /\ d.palette = data.palette
               /\ \A kind \in KindSet : d.parts[kind] = data.images[kind]
    <2> DEFINE m == a + h + 4
    <2>1. /\ m \in Nat /\ m >= 1 /\ m >= 2 /\ m >= 3 /\ ~(m <= 3) /\ ~(m <= 3 + a)
          /\ ~(m <= 3 + a + h) /\ m >= 4 + a + h
      BY <1>1
    <2>2. FilledTo(d, data, a, h, m)
      BY <1>6
    <2> HIDE DEF m
    <2>3. /\ d.backgrounds = Backgrounds /\ d.palette = data.palette
          /\ d.parts["bodies"] = data.images["bodies"]
          /\ d.parts["accessories"] = UpTo(data.images["accessories"], a)
          /\ d.parts["heads"] = UpTo(data.images["heads"], h)
          /\ d.parts["glasses"] = data.images["glasses"]
      BY <2>1, <2>2 DEF FilledTo
    <2> QED
      BY <1>3, <1>4, <2>3
  <1> QED
    BY <1>5, <1>6

-----------------------------------------------------------------------------
(* What the token says of a noun.                                          *)

Seeds == [background : Nat, part : [1..4 -> Nat]]
Nouns == [digest : Digests, by : Descriptors, burned : BOOLEAN, seed : Seeds]

\* dataURI by its parts.
LEMMA URIIs ==
    ASSUME NEW d, NEW seed
    PROVE  genericDataURI(d, seed) =
               IF Has(d, seed) /\ ~\E k \in 1..4 : PartOf(d, seed, k).panic
               THEN Drawn(seed.background, [k \in 1..4 |-> PartOf(d, seed, k).part])
               ELSE Panic
  <1> DEFINE parts == [k \in 1..4 |-> PartOf(d, seed, k)]
  <1>1. \A k \in 1..4 : parts[k] = PartOf(d, seed, k)
    OBVIOUS
  <1>2. genericDataURI(d, seed) =
            IF ~Has(d, seed) \/ \E k \in 1..4 : parts[k].panic THEN Panic
            ELSE Drawn(seed.background, [k \in 1..4 |-> parts[k].part])
    BY DEF genericDataURI
  <1>3. [k \in 1..4 |-> parts[k].part] = [k \in 1..4 |-> PartOf(d, seed, k).part]
    OBVIOUS
  <1> HIDE DEF parts
  <1>4. (\E k \in 1..4 : parts[k].panic) <=> \E k \in 1..4 : PartOf(d, seed, k).panic
    BY <1>1
  <1> QED
    BY <1>2, <1>3, <1>4, Zenon

\* A drawing is not a panic.
LEMMA DrawnIsNoPanic ==
    ASSUME NEW background, NEW svgs
    PROVE  Drawn(background, svgs) # Panic
  <1>1. "panic" \in DOMAIN Panic /\ "panic" \notin DOMAIN Drawn(background, svgs)
    BY DEF Panic, Drawn
  <1> QED
    BY <1>1

\* A descriptor to which something has been added.
Grown(after, before) ==
    /\ before.backgrounds <= after.backgrounds
    /\ Extends(after.palette, before.palette)
    /\ \A kind \in KindSet :
           /\ Len(before.parts[kind]) <= Len(after.parts[kind])
           /\ \A i \in 1..Len(before.parts[kind]) : after.parts[kind][i] = before.parts[kind][i]

\* A sequence with another one after it begins as before.
LEMMA Longer ==
    ASSUME NEW S, NEW s \in Seq(S), NEW t \in Seq(S)
    PROVE  /\ Len(s) <= Len(s \o t) /\ Len(s) \in Nat
           /\ \A i \in 1..Len(s) : (s \o t)[i] = s[i]
  <1>1. /\ Len(s \o t) = Len(s) + Len(t) /\ Len(s) \in Nat /\ Len(t) \in Nat
        /\ \A i \in 1..Len(s) + Len(t) : (s \o t)[i] = IF i <= Len(s) THEN s[i] ELSE t[i - Len(s)]
    BY ConcatProperties
  <1>2. ASSUME NEW i \in 1..Len(s) PROVE (s \o t)[i] = s[i]
    <2>1. i \in 1..Len(s) + Len(t) /\ i <= Len(s)
      BY <1>1
    <2> QED
      BY <1>1, <2>1
  <1>3. Len(s) <= Len(s \o t)
    BY <1>1
  <1> QED
    BY <1>1, <1>2, <1>3

\* Every call only adds.
LEMMA AddedGrows ==
    ASSUME NEW contents \in Contents, NEW tx \in AddCalls
    PROVE  Grown(WithAdded(contents, tx), contents)
  <1> DEFINE d == WithAdded(contents, tx)
  <1>1. /\ d \in Contents
        /\ d.backgrounds = IF tx.add = "backgrounds" THEN contents.backgrounds + Len(tx.items)
                           ELSE contents.backgrounds
        /\ d.palette = IF tx.add = "palette" THEN contents.palette \o tx.items
                       ELSE contents.palette
        /\ \A kind \in KindSet :
               d.parts[kind] = IF tx.add = kind THEN contents.parts[kind] \o tx.items
                               ELSE contents.parts[kind]
    BY AddedIs
  <1> HIDE DEF d
  <1>2. /\ contents.palette \in Seq(Keys) /\ d.palette \in Seq(Keys)
        /\ \A kind \in KindSet : contents.parts[kind] \in Seq(Image)
        /\ "palette" \notin KindSet /\ "backgrounds" \notin KindSet
    BY <1>1, KindsAre DEF Contents
  <1>3. Extends(d.palette, contents.palette)
    <2>1. CASE tx.add = "palette"
      <3>1. tx.items \in Seq(Keys)
        BY <1>2, <2>1 DEF AddCalls
      <3>2. d.palette = contents.palette \o tx.items
        BY <1>1, <2>1
      <3> DEFINE p == contents.palette
                 q == tx.items
      <3>3. p \in Seq(Keys) /\ q \in Seq(Keys) /\ d.palette = p \o q
        BY <1>2, <3>1, <3>2
      <3> SUFFICES Extends(d.palette, p)
        OBVIOUS
      <3> HIDE DEF p, q
      <3>4. Len(p) <= Len(p \o q) /\ \A i \in 1..Len(p) : (p \o q)[i] = p[i]
        BY <3>3, Longer
      <3> QED
        BY <1>2, <3>3, <3>4, Zenon DEF Extends
    <2>2. CASE tx.add # "palette"
      <3>1. d.palette = contents.palette /\ Len(contents.palette) \in Nat
        BY <1>1, <1>2, <2>2
      <3> QED
        BY <1>2, <3>1 DEF Extends
    <2> QED
      BY <2>1, <2>2
  <1>4. ASSUME NEW kind \in KindSet
        PROVE  /\ Len(contents.parts[kind]) <= Len(d.parts[kind])
               /\ \A i \in 1..Len(contents.parts[kind]) :
                      d.parts[kind][i] = contents.parts[kind][i]
    <2>1. CASE tx.add = kind
      <3>1. tx.items \in Seq(Image)
        BY <1>2, <2>1 DEF AddCalls
      <3>2. d.parts[kind] = contents.parts[kind] \o tx.items
        BY <1>1, <2>1
      <3> DEFINE p == contents.parts[kind]
                 q == tx.items
      <3>3. p \in Seq(Image) /\ q \in Seq(Image) /\ d.parts[kind] = p \o q
        BY <1>2, <3>1, <3>2
      <3> SUFFICES /\ Len(p) <= Len(d.parts[kind])
                   /\ \A i \in 1..Len(p) : d.parts[kind][i] = p[i]
        OBVIOUS
      <3> HIDE DEF p, q
      <3>4. Len(p) <= Len(p \o q) /\ \A i \in 1..Len(p) : (p \o q)[i] = p[i]
        BY <3>3, Longer
      <3> QED
        BY <3>3, <3>4, Zenon
    <2>2. CASE tx.add # kind
      <3>1. d.parts[kind] = contents.parts[kind] /\ Len(contents.parts[kind]) \in Nat
        BY <1>1, <1>2, <2>2
      <3> QED
        BY <3>1
    <2> QED
      BY <2>1, <2>2
  <1>5. contents.backgrounds <= d.backgrounds
    <2>1. contents.backgrounds \in Nat
      BY DEF Contents
    <2>2. tx.add = "backgrounds" => Len(tx.items) \in Nat
      BY <1>2 DEF AddCalls
    <2> QED
      BY <1>1, <2>1, <2>2
  <1> QED
    BY <1>3, <1>4, <1>5 DEF Grown, d

\* What a seed asks for is the same with more around it.
LEMMA HasStays ==
    ASSUME NEW d \in Contents, NEW d2 \in Contents, Grown(d2, d),
           NEW seed \in Seeds, Has(d, seed)
    PROVE  /\ Has(d2, seed)
           /\ \A k \in 1..4 :
                  /\ d.parts[Kinds[k]][seed.part[k] + 1] \in Image
                  /\ d2.parts[Kinds[k]][seed.part[k] + 1] = d.parts[Kinds[k]][seed.part[k] + 1]
  <1>1. ASSUME NEW k \in 1..4
        PROVE  /\ Kinds[k] \in KindSet
               /\ seed.part[k] \in Nat /\ seed.part[k] + 1 \in 1..Len(d.parts[Kinds[k]])
               /\ d.parts[Kinds[k]][seed.part[k] + 1] \in Image
               /\ d2.parts[Kinds[k]][seed.part[k] + 1] = d.parts[Kinds[k]][seed.part[k] + 1]
               /\ seed.part[k] < Len(d2.parts[Kinds[k]])
    <2> DEFINE kind == Kinds[k]
               i == seed.part[k]
               j == i + 1
    <2>1. kind \in KindSet
      BY KindsAre
    <2>2. d.parts[kind] \in Seq(Image) /\ d2.parts[kind] \in Seq(Image)
      BY <2>1 DEF Contents
    <2>3. i \in Nat /\ i < Len(d.parts[kind])
      BY DEF Seeds, Has
    <2>4. /\ Len(d.parts[kind]) \in Nat /\ Len(d2.parts[kind]) \in Nat
          /\ Len(d.parts[kind]) <= Len(d2.parts[kind])
          /\ \A x \in 1..Len(d.parts[kind]) : d2.parts[kind][x] = d.parts[kind][x]
      BY <2>1, <2>2, SMTT(30) DEF Grown
    <2>5. j = i + 1
      OBVIOUS
    <2> HIDE DEF kind, i, j
    <2>6. j \in 1..Len(d.parts[kind]) /\ i < Len(d2.parts[kind])
      BY <2>3, <2>4, <2>5
    <2>7. d.parts[kind][j] \in Image /\ d2.parts[kind][j] = d.parts[kind][j]
      BY <2>2, <2>4, <2>6, ElementOfSeq
    <2> QED
      BY <2>1, <2>3, <2>6, <2>7 DEF kind, i, j
  <1>2. seed.background < d2.backgrounds
    BY DEF Has, Grown, Contents, Seeds
  <1>3. Has(d2, seed)
    BY <1>1, <1>2 DEF Has
  <1> QED
    BY <1>1, <1>3

\* What the token says of a noun it says for good.
LEMMA URIStays ==
    ASSUME NEW d \in Contents, NEW d2 \in Contents, Grown(d2, d), NEW seed \in Seeds,
           genericDataURI(d, seed) # Panic
    PROVE  genericDataURI(d2, seed) = genericDataURI(d, seed)
  <1>1. Has(d, seed) /\ ~\E k \in 1..4 : PartOf(d, seed, k).panic
    BY URIIs
  <1>2. ASSUME NEW k \in 1..4
        PROVE  PartOf(d2, seed, k) = PartOf(d, seed, k)
    <2> DEFINE image == d.parts[Kinds[k]][seed.part[k] + 1]
    <2>1. image \in Image /\ d2.parts[Kinds[k]][seed.part[k] + 1] = image
      BY <1>1, HasStays
    <2> HIDE DEF image
    <2>2. ~GenerateRects(image, d.palette).panic
      BY <1>1 DEF PartOf, image
    <2>3. Extends(d2.palette, d.palette)
      BY DEF Grown
    <2>4. GenerateRects(image, d2.palette) = GenerateRects(image, d.palette)
      BY <2>1, <2>2, <2>3, GenerateStays
    <2> QED
      BY <2>1, <2>4 DEF PartOf, image
  <1>3. Has(d2, seed) /\ ~\E k \in 1..4 : PartOf(d2, seed, k).panic
    BY <1>1, <1>2, HasStays
  <1>4. [k \in 1..4 |-> PartOf(d2, seed, k).part] = [k \in 1..4 |-> PartOf(d, seed, k).part]
    BY <1>2
  <1> QED
    BY <1>1, <1>3, <1>4, URIIs, Zenon

-----------------------------------------------------------------------------
(* The art on its way.                                                     *)

\* The specification of the art by itself.
ArtSpec == ArtInit /\ [][ArtNext]_artVars

ArtData == [palette : Seq(Keys), images : [KindSet -> Seq(Image)]]

\* The files encoded are the first of all.
FilesInv ==
    /\ edition \in 1..Len(Editions)
    /\ IsFiniteSet(DOMAIN images) /\ Cardinality(DOMAIN images) <= Len(AllFiles)
    /\ DOMAIN images = {AllFiles[j] : j \in 1..Cardinality(DOMAIN images)}
    /\ \A name \in DOMAIN painted : name \in Names /\ painted[name] = PictureOf[name]

ImageDataInv == imageData = NoData \/ Shipped(imageData)
ContractsDataInv == contractsData = NoData \/ Shipped(contractsData)

FillingInv ==
    /\ art \in [Descriptors -> Contents] /\ txs \in Seq(AddCalls)
    /\ descriptor \in Descriptors /\ populating.to \in Descriptors
    /\ released \in [Descriptors -> ArtData \cup {NoData, Mixed}]

NounsInv ==
    /\ nouns \in Seq(Nouns)
    /\ \A id \in 1..Len(nouns) : Has(art[nouns[id].by], nouns[id].seed)

\* What a descriptor says of a noun.
Says(answer) ==
    /\ answer.id \in 1..Len(nouns) /\ answer.by \in Descriptors
    /\ answer.uri # Panic
    /\ answer.uri = genericDataURI(art[answer.by], nouns[answer.id].seed)

RequestsInv == \A request \in requests : Says(request)
MetadataInv == \A id \in DOMAIN metadata : metadata[id].id = id /\ Says(metadata[id])

\* The transactions on their way to a descriptor.
Pending(addr) == IF populating.to = addr THEN txs ELSE <<>>

\* What the seeder makes of a hash once a descriptor is filled with some data.
SeedOf(data, digest) ==
    [background |-> Uint48(digest, 0) % Backgrounds,
     part |-> [k \in 1..4 |-> Uint48(digest, k) % Len(data.images[Kinds[k]])]]

Unminted(addr) == \A id \in 1..Len(nouns) : nouns[id].by # addr
Seeded(addr, data) ==
    \A id \in 1..Len(nouns) :
        nouns[id].by = addr => nouns[id].seed = SeedOf(data, nouns[id].digest)

Unfilled(addr) ==
    released[addr] = NoData /\ art[addr] = Bare /\ Pending(addr) = <<>> /\ Unminted(addr)

\* The run has come so far that m of its transactions are mined.
Filling(addr, data, a, h, m) ==
    /\ Listed(PopulateTxs(data), data, a, h) /\ m \in 0..a + h + 4
    /\ Len(Pending(addr)) = (a + h + 4) - m
    /\ \A i \in 1..Len(Pending(addr)) : Pending(addr)[i] = PopulateTxs(data)[m + i]
    /\ FilledTo(art[addr], data, a, h, m)
    /\ m >= 2 => Len(data.palette) <= Byte
    /\ m < a + h + 4 => Unminted(addr)

Filled(addr) ==
    /\ Shipped(released[addr])
    /\ \E a, h, m : Filling(addr, released[addr], a, h, m)
    /\ Seeded(addr, released[addr])

ReleasedAt(addr) == released[addr] = Mixed \/ Unfilled(addr) \/ Filled(addr)
ReleasedInv == \A addr \in Descriptors : ReleasedAt(addr)

ArtInv ==
    /\ EncoderInv /\ FilesInv /\ ImageDataInv /\ ContractsDataInv /\ FillingInv /\ NounsInv
    /\ RequestsInv /\ MetadataInv /\ ReleasedInv

\* Data has images; what stands for none has not.
LEMMA ShippedIs ==
    ASSUME NEW data, Shipped(data)
    PROVE  data \in ArtData /\ data # NoData /\ data # Mixed
  <1>1. data \in ArtData
    BY DEF Shipped, ArtData
  <1>2. "images" \in DOMAIN data
    BY <1>1 DEF ArtData
  <1>3. "images" \notin DOMAIN NoData /\ "images" \notin DOMAIN Mixed
    BY DEF NoData, Mixed
  <1> QED
    BY <1>1, <1>2, <1>3

\* And they are not the same.
LEMMA NoDataIs == NoData # Mixed
  <1>1. "palette" \in DOMAIN NoData /\ "palette" \notin DOMAIN Mixed
    BY DEF NoData, Mixed
  <1> QED
    BY <1>1

\* What the invariant says of types.
LEMMA ArtTyped ==
    ASSUME ArtInv
    PROVE  /\ art \in [Descriptors -> Contents] /\ txs \in Seq(AddCalls) /\ Len(txs) \in Nat
           /\ \A addr \in Descriptors : art[addr] \in Contents
           /\ descriptor \in Descriptors /\ populating.to \in Descriptors
           /\ released \in [Descriptors -> ArtData \cup {NoData, Mixed}]
           /\ nouns \in Seq(Nouns) /\ Len(nouns) \in Nat /\ DOMAIN nouns = 1..Len(nouns)
           /\ \A id \in 1..Len(nouns) : nouns[id] \in Nouns
           /\ \A id \in 1..Len(nouns) :
                  /\ nouns[id].seed \in Seeds /\ nouns[id].digest \in Digests
                  /\ nouns[id].by \in Descriptors /\ nouns[id].burned \in BOOLEAN
                  /\ Has(art[nouns[id].by], nouns[id].seed)
           /\ imageData # NoData => Shipped(imageData)
           /\ contractsData # NoData => Shipped(contractsData)
           /\ edition \in 1..Len(Editions)
  <1>1. /\ art \in [Descriptors -> Contents] /\ txs \in Seq(AddCalls)
        /\ descriptor \in Descriptors /\ populating.to \in Descriptors
        /\ released \in [Descriptors -> ArtData \cup {NoData, Mixed}]
    BY DEF ArtInv, FillingInv
  <1>2. Len(txs) \in Nat /\ \A addr \in Descriptors : art[addr] \in Contents
    BY <1>1
  <1>3. nouns \in Seq(Nouns) /\ \A id \in 1..Len(nouns) : Has(art[nouns[id].by], nouns[id].seed)
    BY DEF ArtInv, NounsInv
  <1>4. /\ Len(nouns) \in Nat /\ DOMAIN nouns = 1..Len(nouns)
        /\ \A id \in 1..Len(nouns) : nouns[id] \in Nouns
    BY <1>3
  <1>5. \A id \in 1..Len(nouns) :
            /\ nouns[id].seed \in Seeds /\ nouns[id].digest \in Digests
            /\ nouns[id].by \in Descriptors /\ nouns[id].burned \in BOOLEAN
    BY <1>4 DEF Nouns
  <1>6. /\ imageData # NoData => Shipped(imageData)
        /\ contractsData # NoData => Shipped(contractsData)
        /\ edition \in 1..Len(Editions)
    BY DEF ArtInv, ImageDataInv, ContractsDataInv, FilesInv
  <1> QED
    BY <1>1, <1>2, <1>3, <1>4, <1>5, <1>6, Zenon

\* The invariant holds before anything is encoded.
LEMMA ArtStarts ==
    ASSUME ArtInit
    PROVE  ArtInv
  <1>1. EncoderInv
    BY EncoderStarts DEF ArtInit
  <1>2. FilesInv
    <2>1. images = <<>> /\ painted = <<>>
      BY DEF ArtInit, EncoderInit
    <2>2. DOMAIN images = {} /\ DOMAIN painted = {}
      BY <2>1
    <2>3. IsFiniteSet(DOMAIN images) /\ Cardinality(DOMAIN images) = 0
      BY <2>2, FS_EmptySet
    <2>4. edition \in 1..Len(Editions)
      BY FilesAssumption DEF ArtInit
    <2>5. Len(AllFiles) \in Nat
      BY <2>4, AllFilesAre
    <2> QED
      BY <2>2, <2>3, <2>4, <2>5 DEF FilesInv
  <1>3. ImageDataInv /\ ContractsDataInv
    BY DEF ArtInit, ImageDataInv, ContractsDataInv
  <1>4. Bare \in Contents
    BY EmptySeq DEF Bare, Contents
  <1>5. FillingInv
    BY <1>4, EmptySeq DEF ArtInit, FillingInv
  <1>6. NounsInv /\ RequestsInv /\ MetadataInv
    <2>1. nouns = <<>> /\ metadata = <<>> /\ requests = {}
      BY DEF ArtInit
    <2>2. nouns \in Seq(Nouns) /\ Len(nouns) = 0 /\ DOMAIN metadata = {}
      BY <2>1
    <2> QED
      BY <2>1, <2>2 DEF NounsInv, RequestsInv, MetadataInv
  <1>7. ASSUME NEW addr \in Descriptors PROVE Unfilled(addr)
    BY DEF ArtInit, Unfilled, Pending, Unminted
  <1> QED
    BY <1>1, <1>2, <1>3, <1>5, <1>6, <1>7 DEF ArtInv, ReleasedInv, ReleasedAt

-----------------------------------------------------------------------------
(* What a step leaves alone.                                               *)

\* The files left alone.
LEMMA FilesStay ==
    ASSUME ArtInv, UNCHANGED <<encoderVars, edition>>
    PROVE  EncoderInv' /\ FilesInv'
  <1>1. AllFiles' = AllFiles
    BY DEF AllFiles, Files
  <1> QED
    BY <1>1 DEF ArtInv, EncoderInv, PaletteInv, ImagesInv, FilesInv, encoderVars

\* Nothing of the nouns changes but that they may be burned, and descriptors only grow.
LEMMA NounsStay ==
    ASSUME ArtInv, art' \in [Descriptors -> Contents],
           \A addr \in Descriptors : Grown(art'[addr], art[addr]),
           nouns' \in Seq(Nouns), Len(nouns') = Len(nouns),
           \A id \in 1..Len(nouns) :
               /\ nouns'[id].by = nouns[id].by /\ nouns'[id].seed = nouns[id].seed
    PROVE  NounsInv' /\ \A answer : Says(answer) => Says(answer)'
  <1>1. ASSUME NEW id \in 1..Len(nouns)
        PROVE  Has(art'[nouns'[id].by], nouns'[id].seed)
    <2> DEFINE d == art[nouns[id].by]
               d2 == art'[nouns[id].by]
               seed == nouns[id].seed
    <2>1. d \in Contents /\ d2 \in Contents /\ Grown(d2, d) /\ seed \in Seeds /\ Has(d, seed)
      BY ArtTyped
    <2> HIDE DEF d, d2, seed
    <2>2. Has(d2, seed)
      BY <2>1, HasStays
    <2> QED
      BY <2>2 DEF d2, seed
  <1>2. NounsInv'
    BY <1>1 DEF NounsInv
  <1>3. ASSUME NEW answer, Says(answer)
        PROVE  Says(answer)'
    <2> DEFINE d == art[answer.by]
               d2 == art'[answer.by]
               seed == nouns[answer.id].seed
    <2>1. /\ answer.id \in 1..Len(nouns) /\ answer.by \in Descriptors
          /\ answer.uri # Panic /\ answer.uri = genericDataURI(d, seed)
      BY <1>3 DEF Says
    <2>2. d \in Contents /\ d2 \in Contents /\ Grown(d2, d) /\ seed \in Seeds
      BY <2>1, ArtTyped
    <2> HIDE DEF d, d2, seed
    <2>3. genericDataURI(d2, seed) = genericDataURI(d, seed)
      BY <2>1, <2>2, URIStays
    <2> QED
      BY <2>1, <2>3 DEF Says, d2, seed
  <1> QED
    BY <1>2, <1>3

\* A descriptor grows by nothing.
LEMMA SameGrown ==
    ASSUME NEW d \in Contents
    PROVE  Grown(d, d)
  <1>1. /\ d.backgrounds \in Nat /\ d.palette \in Seq(Keys) /\ Len(d.palette) \in Nat
        /\ \A kind \in KindSet : d.parts[kind] \in Seq(Image) /\ Len(d.parts[kind]) \in Nat
    BY DEF Contents
  <1> QED
    BY <1>1 DEF Grown, Extends

\* The chain left alone.
LEMMA ChainStays ==
    ASSUME ArtInv, UNCHANGED <<art, nouns>>
    PROVE  NounsInv' /\ \A answer : Says(answer) => Says(answer)'
  BY DEF ArtInv, NounsInv, Says

\* Answers that stay.
LEMMA AnswersStay ==
    ASSUME ArtInv, \A answer : Says(answer) => Says(answer)',
           requests' = requests, metadata' = metadata
    PROVE  RequestsInv' /\ MetadataInv'
  BY Zenon DEF ArtInv, RequestsInv, MetadataInv

\* A descriptor that a step has nothing to do with.
LEMMA ReleasedStays ==
    ASSUME NEW addr \in Descriptors, ReleasedAt(addr),
           art'[addr] = art[addr], released'[addr] = released[addr],
           Pending(addr)' = Pending(addr),
           Unminted(addr) => Unminted(addr)',
           \A data : Seeded(addr, data) => Seeded(addr, data)'
    PROVE  ReleasedAt(addr)'
  <1>1. CASE Unfilled(addr)
    <2>1. Unfilled(addr)'
      BY <1>1, Zenon DEF Unfilled
    <2> QED
      BY <2>1 DEF ReleasedAt
  <1>2. CASE Filled(addr)
    <2>1. PICK a, h, m : Filling(addr, released[addr], a, h, m)
      BY <1>2 DEF Filled
    <2>2. Filling(addr, released[addr], a, h, m)'
      <3> DEFINE data == released[addr]
      <3>1. /\ Listed(PopulateTxs(data), data, a, h) /\ m \in 0..a + h + 4
            /\ Len(Pending(addr)) = (a + h + 4) - m
            /\ \A i \in 1..Len(Pending(addr)) : Pending(addr)[i] = PopulateTxs(data)[m + i]
            /\ FilledTo(art[addr], data, a, h, m)
            /\ m >= 2 => Len(data.palette) <= Byte
            /\ m < a + h + 4 => Unminted(addr)
        BY <2>1, Zenon DEF Filling
      <3>2. data' = data
        OBVIOUS
      <3> HIDE DEF data
      <3>3. Filling(addr, data, a, h, m)'
        BY <3>1, <3>2, Zenon DEF Filling
      <3> QED
        BY <3>3 DEF data
    <2>3. Seeded(addr, released[addr])'
      <3>1. Seeded(addr, released[addr])
        BY <1>2 DEF Filled
      <3> QED
        BY <3>1
    <2>4. Shipped(released'[addr])
      BY <1>2 DEF Filled
    <2>5. Filled(addr)'
      BY <2>2, <2>3, <2>4, Zenon DEF Filled
    <2> QED
      BY <2>5 DEF ReleasedAt
  <1>3. CASE released[addr] = Mixed
    BY <1>3 DEF ReleasedAt
  <1> QED
    BY <1>1, <1>2, <1>3 DEF ReleasedAt

\* All descriptors a step has nothing to do with.
LEMMA AllStay ==
    ASSUME ArtInv, UNCHANGED <<art, released, populating, txs, nouns>>
    PROVE  ReleasedInv'
  <1>1. ASSUME NEW addr \in Descriptors
        PROVE  ReleasedAt(addr)'
    <2>1. ReleasedAt(addr) /\ art'[addr] = art[addr] /\ released'[addr] = released[addr]
      BY DEF ArtInv, ReleasedInv
    <2>2. Pending(addr)' = Pending(addr) /\ (Unminted(addr) => Unminted(addr)')
      BY DEF Pending, Unminted
    <2>3. \A data : Seeded(addr, data) => Seeded(addr, data)'
      BY DEF Seeded
    <2> QED
      BY <2>1, <2>2, <2>3, ReleasedStays
  <1> QED
    BY <1>1 DEF ReleasedInv

-----------------------------------------------------------------------------
(* encode.ts                                                               *)

\* One more file: those encoded are the first of all, and their images can be drawn.
LEMMA EncodeFileStays ==
    ASSUME ArtInv, EncodeFile
    PROVE  EncoderInv' /\ FilesInv'
  <1> DEFINE c == Cardinality(DOMAIN images)
             file == AllFiles[c + 1]
  <1>1. /\ IsFiniteSet(DOMAIN images) /\ c \in Nat /\ c < Len(AllFiles) /\ Len(AllFiles) \in Nat
        /\ DOMAIN images = {AllFiles[j] : j \in 1..c}
    BY ArtTyped, AllFilesAre, FS_CardinalityType DEF ArtInv, FilesInv, EncodeFile
  <1>2. encodeImage(file, PictureOf[file])
    BY DEF EncodeFile
  <1> HIDE DEF c
  <1>3. file \in Names
    <2>1. c + 1 \in 1..Len(AllFiles)
      BY <1>1
    <2> QED
      BY <2>1, ArtTyped, AllFilesAre, ElementOfSeq
  <1>4. PictureOf[file] \in Pictures
    BY <1>3, FilesAssumption
  <1> HIDE DEF file
  <1>5. /\ EncoderInv'
        /\ DOMAIN images' = DOMAIN images \cup {file}
        /\ painted'[file] = PictureOf[file]
        /\ \A n \in DOMAIN painted : n # file => painted'[n] = painted[n]
    BY <1>2, <1>4, EncoderStays DEF ArtInv
  <1>6. DOMAIN painted = DOMAIN images /\ DOMAIN painted' = DOMAIN images'
    BY <1>5 DEF ArtInv, EncoderInv, ImagesInv
  <1>7. \A name \in DOMAIN painted' : name \in Names /\ painted'[name] = PictureOf[name]
    BY <1>3, <1>5, <1>6 DEF ArtInv, FilesInv
  <1>8. /\ IsFiniteSet(DOMAIN images')
        /\ Cardinality(DOMAIN images') = IF file \in DOMAIN images THEN c ELSE c + 1
    BY <1>1, <1>5, FS_AddElement DEF c
  <1>9. DOMAIN images' = {AllFiles[j] : j \in 1..Cardinality(DOMAIN images')}
    <2>1. CASE file \in DOMAIN images
      BY <1>1, <1>5, <1>8, <2>1
    <2>2. CASE file \notin DOMAIN images
      <3>1. 1..c + 1 = 1..c \cup {c + 1}
        BY <1>1
      <3>2. {AllFiles[j] : j \in 1..c + 1} = {AllFiles[j] : j \in 1..c} \cup {AllFiles[c + 1]}
        BY <3>1
      <3> QED
        BY <1>1, <1>5, <1>8, <2>2, <3>2 DEF file
    <2> QED
      BY <2>1, <2>2
  <1>10. Cardinality(DOMAIN images') <= Len(AllFiles)
    BY <1>1, <1>8
  <1>11. edition' = edition /\ edition \in 1..Len(Editions)
    BY ArtTyped DEF EncodeFile
  <1>12. AllFiles' = AllFiles
    BY <1>11 DEF AllFiles, Files
  <1> QED
    BY <1>5, <1>7, <1>8, <1>9, <1>10, <1>11, <1>12 DEF FilesInv

\* What encode.ts writes has an image for every file, and each can be drawn.
LEMMA DataIsShipped ==
    ASSUME ArtInv, WriteImageData
    PROVE  Shipped(Data)
  <1> DEFINE data == Data
  <1>1. \A kind \in KindSet : \A i \in DOMAIN Files[kind] : Files[kind][i] \in DOMAIN images
    <2>1. DOMAIN images = {AllFiles[j] : j \in 1..Len(AllFiles)}
      BY DEF ArtInv, FilesInv, WriteImageData
    <2> QED
      BY <2>1, ArtTyped, AllFilesAre
  <1>2. ASSUME NEW name \in DOMAIN images
        PROVE  /\ images[name] \in Image
               /\ Len(colors) <= Byte => \E picture \in Canvas : Covers(images[name], picture, colors)
    <2>1. name \in DOMAIN painted
      BY DEF ArtInv, EncoderInv, ImagesInv
    <2>2. Drawable(images[name], painted[name], colors)
      BY <2>1 DEF ArtInv, EncoderInv, ImagesInv
    <2>3. Framed(painted[name])
      BY <2>1, FilesAssumption DEF ArtInv, FilesInv
    <2> QED
      BY <2>2, <2>3 DEF Drawable
  <1>3. colors \in Seq(Keys)
    BY DEF ArtInv, EncoderInv, PaletteInv
  <1>4. /\ data.palette = colors
        /\ data.images = [k \in KindSet |-> [i \in DOMAIN Files[k] |-> images[Files[k][i]]]]
        /\ data = [palette |-> data.palette, images |-> data.images]
    BY DEF Data
  <1> HIDE DEF data
  <1>5. ASSUME NEW kind \in KindSet
        PROVE  /\ data.images[kind] \in Seq(Image) /\ Len(data.images[kind]) = Len(Files[kind])
               /\ \A i \in 1..Len(data.images[kind]) : data.images[kind][i] = images[Files[kind][i]]
    <2>1. Files[kind] \in Seq(Names)
      BY ArtTyped, FilesAre
    <2> DEFINE n == Len(Files[kind])
               s == data.images[kind]
    <2>2. n \in Nat /\ DOMAIN Files[kind] = 1..n
      BY <2>1
    <2>3. s = [i \in 1..n |-> images[Files[kind][i]]]
      BY <1>4, <2>2
    <2>4. \A i \in 1..n : images[Files[kind][i]] \in Image
      BY <1>1, <1>2, <2>2
    <2> HIDE DEF n, s
    <2>5. s \in Seq(Image) /\ Len(s) = n /\ \A i \in 1..n : s[i] = images[Files[kind][i]]
      BY <2>2, <2>3, <2>4
    <2> QED
      BY <2>5 DEF n, s
  <1>6. data.images \in [KindSet -> Seq(Image)]
    BY <1>4, <1>5
  <1>7. data \in [palette : Seq(Keys), images : [KindSet -> Seq(Image)]]
    BY <1>3, <1>4, <1>6
  <1>8. ASSUME NEW kind \in KindSet, Len(data.palette) <= Byte,
               NEW i \in 1..Len(data.images[kind])
        PROVE  \E picture \in Canvas : Covers(data.images[kind][i], picture, data.palette)
    <2>1. i \in DOMAIN Files[kind]
      <3>1. Files[kind] \in Seq(Names)
        BY ArtTyped, FilesAre
      <3> QED
        BY <1>5, <3>1
    <2>2. Files[kind][i] \in DOMAIN images /\ data.images[kind][i] = images[Files[kind][i]]
      BY <1>1, <1>5, <2>1
    <2> QED
      BY <1>2, <1>4, <1>8, <2>2
  <1>9. \A kind \in KindSet : data.images[kind] # <<>>
    <2>1. \A kind \in KindSet : Files[kind] \in Seq(Names) /\ Files[kind] # <<>>
      BY ArtTyped, FilesAre
    <2> QED
      BY <1>5, <2>1
  <1> QED
    BY <1>7, <1>8, <1>9 DEF Shipped, data

\* A file is encoded.
LEMMA EncodeStays ==
    ASSUME ArtInv, EncodeFile
    PROVE  ArtInv'
  <1>1. UNCHANGED <<imageData, contractsData, fillingVars, tokenVars, apiVars>>
    BY DEF EncodeFile
  <1>2. ImageDataInv' /\ ContractsDataInv' /\ FillingInv'
    BY <1>1 DEF ArtInv, ImageDataInv, ContractsDataInv, FillingInv, fillingVars, tokenVars
  <1>3. NounsInv' /\ RequestsInv' /\ MetadataInv'
    BY <1>1, ChainStays, AnswersStay DEF fillingVars, tokenVars, apiVars
  <1>4. ReleasedInv'
    BY <1>1, AllStay DEF fillingVars, tokenVars
  <1> QED
    BY <1>2, <1>3, <1>4, EncodeFileStays DEF ArtInv

\* image-data.json is written.
LEMMA WriteStays ==
    ASSUME ArtInv, WriteImageData
    PROVE  ArtInv'
  <1>1. /\ imageData' = Data
        /\ UNCHANGED <<encoderVars, edition, contractsData, fillingVars, tokenVars, apiVars>>
    BY DEF WriteImageData
  <1>2. ImageDataInv'
    BY <1>1, DataIsShipped DEF ImageDataInv
  <1>3. ContractsDataInv' /\ FillingInv'
    BY <1>1 DEF ArtInv, ContractsDataInv, FillingInv, fillingVars, tokenVars
  <1>4. NounsInv' /\ RequestsInv' /\ MetadataInv'
    BY <1>1, ChainStays, AnswersStay DEF fillingVars, tokenVars, apiVars
  <1>5. ReleasedInv'
    BY <1>1, AllStay DEF fillingVars, tokenVars
  <1> QED
    BY <1>1, <1>2, <1>3, <1>4, <1>5, FilesStay DEF ArtInv

\* Images have been added, and another encoder begins.
LEMMA NextEditionStays ==
    ASSUME ArtInv, NextEdition
    PROVE  ArtInv'
  <1>1. /\ edition < Len(Editions) /\ edition' = edition + 1 /\ NewEncoder
        /\ UNCHANGED <<imageData, contractsData, fillingVars, tokenVars, apiVars>>
    BY DEF NextEdition
  <1>2. EncoderInv'
    BY <1>1 DEF NewEncoder, EncoderInv, PaletteInv, ImagesInv, Keys
  <1>3. FilesInv'
    <2>1. edition' \in 1..Len(Editions)
      BY <1>1, ArtTyped, FilesAssumption
    <2>2. Len(AllFiles)' \in Nat
      <3>1. ASSUME NEW e \in 1..Len(Editions)
            PROVE  Len(FlattenSeq([k \in 1..Len(Kinds) |-> Editions[e][Kinds[k]]])) \in Nat
        BY EditionFlattened
      <3> QED
        BY <2>1, <3>1 DEF AllFiles, Files
    <2>3. images' = <<>> /\ painted' = <<>>
      BY <1>1 DEF NewEncoder
    <2>4. DOMAIN images' = {} /\ DOMAIN painted' = {}
      BY <2>3
    <2>5. IsFiniteSet(DOMAIN images') /\ Cardinality(DOMAIN images') = 0
      BY <2>4, FS_EmptySet
    <2> QED
      BY <2>1, <2>2, <2>4, <2>5 DEF FilesInv
  <1>4. ImageDataInv' /\ ContractsDataInv' /\ FillingInv'
    BY <1>1 DEF ArtInv, ImageDataInv, ContractsDataInv, FillingInv, fillingVars, tokenVars
  <1>5. NounsInv' /\ RequestsInv' /\ MetadataInv'
    BY <1>1, ChainStays, AnswersStay DEF fillingVars, tokenVars, apiVars
  <1>6. ReleasedInv'
    BY <1>1, AllStay DEF fillingVars, tokenVars
  <1> QED
    BY <1>2, <1>3, <1>4, <1>5, <1>6 DEF ArtInv

\* The other copy.
LEMMA CopyStays ==
    ASSUME ArtInv, CopyImageData
    PROVE  ArtInv'
  <1>1. /\ imageData # NoData /\ contractsData' = imageData
        /\ UNCHANGED <<encoderVars, edition, imageData, fillingVars, tokenVars, apiVars>>
    BY DEF CopyImageData
  <1>2. ImageDataInv' /\ ContractsDataInv' /\ FillingInv'
    BY <1>1 DEF ArtInv, ImageDataInv, ContractsDataInv, FillingInv, fillingVars, tokenVars
  <1>3. NounsInv' /\ RequestsInv' /\ MetadataInv'
    BY <1>1, ChainStays, AnswersStay DEF fillingVars, tokenVars, apiVars
  <1>4. ReleasedInv'
    BY <1>1, AllStay DEF fillingVars, tokenVars
  <1> QED
    BY <1>1, <1>2, <1>3, <1>4, FilesStay DEF ArtInv

-----------------------------------------------------------------------------
(* The descriptors.                                                        *)

\* Whatever leaves the files alone.
LEMMA OthersStay ==
    ASSUME ArtInv, UNCHANGED filesVars,
           FillingInv', NounsInv', RequestsInv', MetadataInv', ReleasedInv'
    PROVE  ArtInv'
  <1>1. EncoderInv' /\ FilesInv'
    BY FilesStay DEF filesVars
  <1>2. ImageDataInv' /\ ContractsDataInv'
    BY DEF ArtInv, ImageDataInv, ContractsDataInv, filesVars
  <1> QED
    BY <1>1, <1>2 DEF ArtInv

\* populate-descriptor sends its transactions: none of them is mined yet.
LEMMA PopulateStays ==
    ASSUME ArtInv, NEW addr \in Descriptors, Populate(addr)
    PROVE  ArtInv'
  <1> DEFINE data == contractsData
             p == PopulateTxs(data)
  <1>1. /\ data # NoData /\ txs = <<>>
        /\ populating' = [to |-> addr, data |-> data] /\ txs' = p
        /\ released' = [released EXCEPT ![addr] = IF @ = NoData THEN data ELSE Mixed]
        /\ UNCHANGED <<filesVars, art, arePartsLocked, tokenVars, apiVars>>
    BY DEF Populate
  <1>2. Shipped(data) /\ data \in ArtData
    BY <1>1, ArtTyped, ShippedIs
  <1> HIDE DEF data
  <1>3. PICK a, h : Listed(p, data, a, h)
    BY <1>2, PopulateTxsAre
  <1>4. p \in Seq(AddCalls) /\ Len(p) = a + h + 4 /\ a \in Nat /\ h \in Nat
    BY <1>3 DEF Listed
  <1> HIDE DEF p
  <1>5. FillingInv'
    <2>1. released' \in [Descriptors -> ArtData \cup {NoData, Mixed}]
      BY <1>1, <1>2, ArtTyped
    <2> QED
      BY <1>1, <1>4, <2>1, ArtTyped DEF FillingInv, tokenVars
  <1>6. NounsInv' /\ RequestsInv' /\ MetadataInv'
    BY <1>1, ChainStays, AnswersStay DEF tokenVars, apiVars
  <1>7. ASSUME NEW other \in Descriptors, other # addr
        PROVE  ReleasedAt(other)'
    <2>1. ReleasedAt(other) /\ art'[other] = art[other] /\ released'[other] = released[other]
      BY <1>1, <1>7, ArtTyped DEF ArtInv, ReleasedInv
    <2>2. Pending(other)' = Pending(other)
      BY <1>1, <1>7 DEF Pending
    <2>3. Unminted(other) => Unminted(other)'
      BY <1>1 DEF Unminted, tokenVars
    <2>4. \A d : Seeded(other, d) => Seeded(other, d)'
      BY <1>1 DEF Seeded, tokenVars
    <2> QED
      BY <2>1, <2>2, <2>3, <2>4, ReleasedStays
  <1>8. ReleasedAt(addr)'
    <2>1. CASE Unfilled(addr)
      <3>1. released'[addr] = data
        BY <1>1, <2>1, ArtTyped DEF Unfilled
      <3>2. Unminted(addr) /\ art[addr] = Bare
        BY <2>1 DEF Unfilled
      <3>3. Unminted(addr)' /\ Seeded(addr, data)'
        BY <1>1, <3>2 DEF Unminted, Seeded, tokenVars
      <3>4. FilledTo(art[addr], data, a, h, 0)
        <4>1. /\ Bare.backgrounds = 0 /\ Bare.palette = <<>>
              /\ \A kind \in KindSet : Bare.parts[kind] = <<>>
          BY DEF Bare
        <4> QED
          BY <1>2, <1>3, <3>2, <4>1, FilledBounds
      <3>5. Pending(addr)' = p
        BY <1>1 DEF Pending
      <3>6. /\ 0 \in 0..a + h + 4 /\ (a + h + 4) - 0 = a + h + 4 /\ ~(0 >= 2)
            /\ \A i \in 1..Len(p) : p[i] = p[0 + i]
        BY <1>4
      <3>7. Filling(addr, data, a, h, 0)'
        BY <1>1, <1>3, <1>4, <3>3, <3>4, <3>5, <3>6 DEF Filling, p, data, filesVars
      <3>8. Filled(addr)'
        <4>1. data' = released'[addr] /\ Shipped(released'[addr])
          BY <1>1, <1>2, <3>1 DEF data, filesVars
        <4>2. Filling(addr, released[addr], a, h, 0)' /\ Seeded(addr, released[addr])'
          BY <3>3, <3>7, <4>1
        <4> QED
          BY <4>1, <4>2 DEF Filled
      <3> QED
        BY <3>8 DEF ReleasedAt
    <2>2. CASE ~Unfilled(addr)
      <3>1. released[addr] # NoData
        BY <2>2, NoDataIs, ShippedIs DEF ArtInv, ReleasedInv, ReleasedAt, Filled
      <3>2. released'[addr] = Mixed
        BY <1>1, <3>1, ArtTyped
      <3> QED
        BY <3>2 DEF ReleasedAt
    <2> QED
      BY <2>1, <2>2
  <1>9. ReleasedInv'
    BY <1>7, <1>8 DEF ReleasedInv
  <1> QED
    BY <1>1, <1>5, <1>6, <1>9, OthersStay

\* Of a descriptor that was mixed nothing more is said, the others are left alone.
LEMMA MixedStays ==
    ASSUME ArtInv, NEW addr \in Descriptors,
           released' = [released EXCEPT ![addr] = Mixed],
           \A other \in Descriptors \ {addr} :
               art'[other] = art[other] /\ Pending(other)' = Pending(other),
           nouns' = nouns
    PROVE  ReleasedInv' /\ released' \in [Descriptors -> ArtData \cup {NoData, Mixed}]
  <1>1. ASSUME NEW other \in Descriptors, other # addr
        PROVE  ReleasedAt(other)'
    <2>1. /\ ReleasedAt(other) /\ art'[other] = art[other] /\ released'[other] = released[other]
          /\ Pending(other)' = Pending(other)
      BY <1>1, ArtTyped DEF ArtInv, ReleasedInv
    <2>2. Unminted(other) => Unminted(other)'
      BY DEF Unminted
    <2>3. \A d : Seeded(other, d) => Seeded(other, d)'
      BY DEF Seeded
    <2> QED
      BY <2>1, <2>2, <2>3, ReleasedStays
  <1>2. released'[addr] = Mixed /\ released' \in [Descriptors -> ArtData \cup {NoData, Mixed}]
    BY ArtTyped
  <1> QED
    BY <1>1, <1>2 DEF ReleasedInv, ReleasedAt

\* populate-descriptor ends early.
LEMMA AbortStays ==
    ASSUME ArtInv, AbortPopulate
    PROVE  ArtInv'
  <1>1. /\ txs' = <<>> /\ released' = [released EXCEPT ![populating.to] = Mixed]
        /\ UNCHANGED <<filesVars, art, populating, tokenVars, apiVars>>
    BY DEF AbortPopulate
  <1>2. /\ populating.to \in Descriptors /\ nouns' = nouns
        /\ \A other \in Descriptors \ {populating.to} :
               art'[other] = art[other] /\ Pending(other)' = Pending(other)
    BY <1>1, ArtTyped DEF Pending, tokenVars
  <1>3. ReleasedInv' /\ released' \in [Descriptors -> ArtData \cup {NoData, Mixed}]
    BY <1>1, <1>2, MixedStays
  <1>4. FillingInv'
    BY <1>1, <1>3, EmptySeq, ArtTyped DEF FillingInv, tokenVars
  <1>5. NounsInv' /\ RequestsInv' /\ MetadataInv'
    BY <1>1, ChainStays, AnswersStay DEF tokenVars, apiVars
  <1> QED
    BY <1>1, <1>3, <1>4, <1>5, OthersStay

\* One descriptor is added to.
LEMMA AddedStays ==
    ASSUME ArtInv, NEW addr \in Descriptors, NEW tx \in AddCalls,
           art' = [art EXCEPT ![addr] = WithAdded(@, tx)], nouns' = nouns
    PROVE  /\ art' \in [Descriptors -> Contents] /\ art'[addr] = WithAdded(art[addr], tx)
           /\ \A other \in Descriptors \ {addr} : art'[other] = art[other]
           /\ NounsInv' /\ \A answer : Says(answer) => Says(answer)'
  <1> DEFINE d == WithAdded(art[addr], tx)
  <1>1. d \in Contents /\ Grown(d, art[addr])
    <2>1. art[addr] \in Contents
      BY ArtTyped
    <2> QED
      BY <2>1, AddedIs, AddedGrows
  <1>2. art' = [art EXCEPT ![addr] = d]
    OBVIOUS
  <1> HIDE DEF d
  <1>3. /\ art' \in [Descriptors -> Contents] /\ art'[addr] = d
        /\ \A other \in Descriptors \ {addr} : art'[other] = art[other]
    BY <1>1, <1>2, ArtTyped
  <1>4. ASSUME NEW other \in Descriptors
        PROVE  Grown(art'[other], art[other])
    <2>1. CASE other = addr
      BY <1>1, <1>3, <2>1
    <2>2. CASE other # addr
      <3>1. art'[other] = art[other] /\ art[other] \in Contents
        BY <1>3, <2>2, ArtTyped
      <3> QED
        BY <3>1, SameGrown
    <2> QED
      BY <2>1, <2>2
  <1>5. NounsInv' /\ \A answer : Says(answer) => Says(answer)'
    BY <1>3, <1>4, ArtTyped, NounsStay
  <1> QED
    BY <1>3, <1>5 DEF d

\* A transaction is mined as it should: the descriptor is one further.
LEMMA FillingGoesOn ==
    ASSUME NEW addr \in Descriptors, NEW data, Shipped(data),
           NEW a, NEW h, NEW m, Filling(addr, data, a, h, m),
           art[addr] \in Contents, populating.to = addr, populating' = populating,
           txs \in Seq(AddCalls), txs # <<>>, txs' = Tail(txs), Permitted(addr, Head(txs)),
           art'[addr] = WithAdded(art[addr], Head(txs)), nouns' = nouns
    PROVE  Filling(addr, data, a, h, m + 1)'
  <1> DEFINE p == PopulateTxs(data)
             last == a + h + 4
             m2 == m + 1
             tx == Head(txs)
  <1>1. /\ Listed(p, data, a, h) /\ m \in 0..last /\ Pending(addr) = txs
        /\ Len(txs) = last - m
        /\ \A i \in 1..Len(txs) : txs[i] = p[m + i]
        /\ FilledTo(art[addr], data, a, h, m)
        /\ m >= 2 => Len(data.palette) <= Byte
        /\ m < last => Unminted(addr)
    BY Zenon DEF Filling, Pending
  <1>2. /\ tx \in AddCalls /\ Tail(txs) \in Seq(AddCalls)
        /\ Len(txs) \in Nat /\ Len(txs) >= 1 /\ tx = txs[1]
        /\ Len(Tail(txs)) = Len(txs) - 1
        /\ \A i \in 1..Len(Tail(txs)) : Tail(txs)[i] = txs[i + 1]
    BY HeadTailProperties
  <1>3. a \in Nat /\ h \in Nat
    BY <1>1 DEF Listed
  <1>4. m \in Nat /\ m \in 0..a + h + 3 /\ m < last /\ m2 \in 0..last /\ last - m2 = Len(txs) - 1
    BY <1>1, <1>2, <1>3, SMTT(30)
  <1>5. tx = p[m2]
    <2>1. 1 \in 1..Len(txs)
      BY <1>2
    <2> QED
      BY <1>1, <1>2, <2>1
  <1> HIDE DEF p
  <1>6. FilledTo(WithAdded(art[addr], p[m + 1]), data, a, h, m + 1)
    BY <1>1, <1>4, FilledOn
  <1>7. FilledTo(art'[addr], data, a, h, m2)
    BY <1>5, <1>6
  <1>8. m2 >= 2 => Len(data.palette) <= Byte
    <2>1. CASE m = 1
      <3>1. tx.add = "palette" /\ tx.items = data.palette
        <4>1. tx = [add |-> "palette", items |-> data.palette]
          BY <1>1, <1>5, <2>1, SMTT(30) DEF Listed
        <4> QED
          BY <4>1
      <3>2. Len(art[addr].palette) + Len(tx.items) <= Byte
        BY <3>1 DEF Permitted
      <3>3. art[addr].palette = <<>>
        BY <1>1, <2>1 DEF FilledTo
      <3>4. data.palette \in Seq(Keys)
        BY DEF Shipped
      <3> QED
        BY <3>1, <3>2, <3>3, <3>4
    <2>2. CASE m # 1
      BY <1>1, <1>4, <2>2
    <2> QED
      BY <2>1, <2>2
  <1>9. Unminted(addr)'
    BY <1>1, <1>4 DEF Unminted
  <1>10. Pending(addr)' = txs' /\ Len(txs') = last - m2
    BY <1>2, <1>4 DEF Pending
  <1>11. \A i \in 1..Len(txs') : txs'[i] = p[m2 + i]
    <2> SUFFICES ASSUME NEW i \in 1..Len(txs') PROVE txs'[i] = p[m2 + i]
      OBVIOUS
    <2> DEFINE j == i + 1
    <2>1. j \in 1..Len(txs) /\ m + j = m2 + i
      BY <1>2, <1>4
    <2>2. txs'[i] = txs[j]
      BY <1>2
    <2> HIDE DEF j, m2
    <2>3. txs[j] = p[m + j]
      BY <1>1, <2>1
    <2> QED
      BY <2>1, <2>2, <2>3
  <1> HIDE DEF m2
  <1>12. Filling(addr, data, a, h, m2)'
    BY <1>1, <1>4, <1>7, <1>8, <1>9, <1>10, <1>11 DEF Filling, p
  <1> QED
    BY <1>12 DEF m2

\* A transaction is mined.
LEMMA MineStays ==
    ASSUME ArtInv, NEW enoughGas \in BOOLEAN, MineTx(enoughGas)
    PROVE  ArtInv'
  <1> DEFINE addr == populating.to
             tx == Head(txs)
  <1>1. /\ txs # <<>> /\ txs' = Tail(txs)
        /\ UNCHANGED <<filesVars, populating, tokenVars, apiVars>>
    BY DEF MineTx
  <1>2. addr \in Descriptors /\ nouns' = nouns /\ descriptor' = descriptor
    BY <1>1, ArtTyped DEF tokenVars
  <1>3. txs \in Seq(AddCalls) /\ tx \in AddCalls /\ Tail(txs) \in Seq(AddCalls)
    BY <1>1, ArtTyped, HeadTailProperties
  <1>4. \A other \in Descriptors \ {addr} : Pending(other)' = Pending(other)
    BY <1>1 DEF Pending
  <1>5. CASE enoughGas /\ Permitted(addr, tx)
    <2>1. art' = [art EXCEPT ![addr] = WithAdded(@, tx)] /\ released' = released
      BY <1>5 DEF MineTx
    <2> HIDE DEF tx
    <2>2. /\ art' \in [Descriptors -> Contents] /\ art'[addr] = WithAdded(art[addr], tx)
          /\ \A other \in Descriptors \ {addr} : art'[other] = art[other]
          /\ NounsInv' /\ \A answer : Says(answer) => Says(answer)'
      <3> HIDE DEF addr
      <3> QED
        BY <1>2, <1>3, <2>1, AddedStays
    <2>3. FillingInv'
      BY <1>1, <1>2, <1>3, <2>1, <2>2, ArtTyped DEF FillingInv
    <2>4. RequestsInv' /\ MetadataInv'
      BY <1>1, <2>2, AnswersStay DEF apiVars
    <2>5. ASSUME NEW other \in Descriptors, other # addr
          PROVE  ReleasedAt(other)'
      <3>1. /\ ReleasedAt(other) /\ art'[other] = art[other] /\ released'[other] = released[other]
            /\ Pending(other)' = Pending(other)
        BY <1>4, <2>1, <2>2, <2>5 DEF ArtInv, ReleasedInv
      <3>2. Unminted(other) => Unminted(other)'
        BY <1>2 DEF Unminted
      <3>3. \A d : Seeded(other, d) => Seeded(other, d)'
        BY <1>2 DEF Seeded
      <3> QED
        BY <3>1, <3>2, <3>3, ReleasedStays
    <2>6. ASSUME NEW data, released[addr] = data, data # Mixed
          PROVE  ReleasedAt(addr)'
      <3>1. Filled(addr)
        BY <1>1, <1>2, <2>6 DEF ArtInv, ReleasedInv, ReleasedAt, Unfilled, Pending
      <3>2. PICK a, h, m : Filling(addr, released[addr], a, h, m)
        BY <3>1 DEF Filled
      <3>3. Shipped(data) /\ Filling(addr, data, a, h, m) /\ Seeded(addr, data)
        BY <2>6, <3>1, <3>2 DEF Filled
      <3>4. PICK to \in Descriptors : to = addr
        BY <1>2
      <3>5. Filling(to, data, a, h, m + 1)'
        <4>1. /\ art[to] \in Contents /\ populating.to = to /\ populating' = populating
              /\ Permitted(to, Head(txs)) /\ art'[to] = WithAdded(art[to], Head(txs))
              /\ Filling(to, data, a, h, m)
          BY <1>1, <1>5, <2>2, <3>3, <3>4, ArtTyped DEF tx
        <4> HIDE DEF addr
        <4> QED
          BY <1>1, <1>2, <1>3, <3>3, <4>1, FillingGoesOn
      <3>6. Seeded(to, data)'
        BY <1>2, <3>3, <3>4 DEF Seeded
      <3>7. released'[to] = data /\ addr' = to
        BY <1>1, <2>1, <2>6, <3>4
      <3> HIDE DEF addr
      <3>8. Filled(to)'
        <4>1. Filling(to, released[to], a, h, m + 1)' /\ Seeded(to, released[to])'
          BY <3>5, <3>6, <3>7
        <4>2. Shipped(released'[to])
          BY <3>3, <3>7
        <4> QED
          BY <4>1, <4>2 DEF Filled
      <3> QED
        BY <3>7, <3>8 DEF ReleasedAt
    <2>7. released[addr] = Mixed => ReleasedAt(addr)'
      BY <1>1, <2>1 DEF ReleasedAt
    <2>8. ReleasedInv'
      <3>1. addr' = addr /\ ReleasedAt(addr)'
        BY <1>1, <2>6, <2>7
      <3>2. ASSUME NEW other \in Descriptors
            PROVE  ReleasedAt(other)'
        <4>1. CASE other = addr
          BY <3>1, <4>1 DEF ReleasedAt, Unfilled, Filled, Filling, Pending, Seeded, Unminted
        <4>2. CASE other # addr
          BY <2>5, <4>2
        <4> QED
          BY <4>1, <4>2
      <3> QED
        BY <3>2 DEF ReleasedInv
    <2> QED
      BY <1>1, <2>2, <2>3, <2>4, <2>8, OthersStay
  <1>6. CASE ~(enoughGas /\ Permitted(addr, tx))
    <2>1. released' = [released EXCEPT ![addr] = Mixed] /\ art' = art
      BY <1>6 DEF MineTx
    <2>2. \A other \in Descriptors \ {addr} :
              art'[other] = art[other] /\ Pending(other)' = Pending(other)
      BY <1>4, <2>1
    <2>3. ReleasedInv' /\ released' \in [Descriptors -> ArtData \cup {NoData, Mixed}]
      <3> HIDE DEF addr
      <3> QED
        BY <1>2, <2>1, <2>2, MixedStays
    <2>4. FillingInv'
      BY <1>1, <1>2, <1>3, <2>1, <2>3, ArtTyped DEF FillingInv
    <2>5. NounsInv' /\ RequestsInv' /\ MetadataInv'
      BY <1>1, <1>2, <2>1, ChainStays, AnswersStay DEF apiVars
    <2> QED
      BY <1>1, <2>3, <2>4, <2>5, OthersStay
  <1> QED
    BY <1>5, <1>6

\* The owner adds a part.
LEMMA AddPartStays ==
    ASSUME ArtInv, imageData # NoData, NEW addr \in Descriptors, NEW kind \in KindSet,
           AddPart(addr, kind, imageData.images[kind][1])
    PROVE  ArtInv'
  <1> DEFINE image == imageData.images[kind][1]
             tx == [add |-> kind, items |-> <<image>>]
  <1>1. image \in Image
    <2>1. Shipped(imageData)
      BY ArtTyped
    <2>2. imageData.images[kind] \in Seq(Image) /\ imageData.images[kind] # <<>>
      BY <2>1 DEF Shipped
    <2>3. 1 \in 1..Len(imageData.images[kind])
      BY <2>2
    <2> QED
      BY <2>2, <2>3, ElementOfSeq
  <1>2. /\ art' = [art EXCEPT ![addr] = WithAdded(@, tx)]
        /\ released' = [released EXCEPT ![addr] = Mixed]
        /\ UNCHANGED <<filesVars, populating, txs, tokenVars, apiVars>>
    BY DEF AddPart
  <1> HIDE DEF image
  <1>3. tx \in AddCalls
    <2>1. <<image>> \in Seq(Image)
      BY <1>1
    <2> QED
      BY <2>1 DEF AddCalls
  <1> HIDE DEF tx
  <1>4. /\ art' \in [Descriptors -> Contents]
        /\ \A other \in Descriptors \ {addr} : art'[other] = art[other]
        /\ NounsInv' /\ \A answer : Says(answer) => Says(answer)'
    BY <1>2, <1>3, AddedStays DEF tokenVars
  <1>5. ReleasedInv' /\ released' \in [Descriptors -> ArtData \cup {NoData, Mixed}]
    <2>1. nouns' = nouns
      BY <1>2 DEF tokenVars
    <2>2. \A other \in Descriptors \ {addr} :
              art'[other] = art[other] /\ Pending(other)' = Pending(other)
      BY <1>2, <1>4 DEF Pending
    <2> QED
      BY <1>2, <2>1, <2>2, MixedStays
  <1>6. FillingInv'
    BY <1>2, <1>4, <1>5, ArtTyped DEF FillingInv, tokenVars
  <1>7. RequestsInv' /\ MetadataInv'
    BY <1>2, <1>4, AnswersStay DEF apiVars
  <1> QED
    BY <1>2, <1>4, <1>5, <1>6, <1>7, OthersStay

\* The owner locks the parts.
LEMMA LockStays ==
    ASSUME ArtInv, NEW addr \in Descriptors, LockParts(addr)
    PROVE  ArtInv'
  <1>1. UNCHANGED <<filesVars, art, populating, txs, additions, released, tokenVars, apiVars>>
    BY DEF LockParts
  <1>2. FillingInv'
    BY <1>1, ArtTyped DEF FillingInv, tokenVars
  <1>3. NounsInv' /\ RequestsInv' /\ MetadataInv'
    BY <1>1, ChainStays, AnswersStay DEF tokenVars, apiVars
  <1>4. ReleasedInv'
    BY <1>1, AllStay DEF tokenVars
  <1> QED
    BY <1>1, <1>2, <1>3, <1>4, OthersStay

\* A seed is of what a descriptor has.
LEMMA SeedTyped ==
    ASSUME NEW contents \in Contents, contents.backgrounds > 0,
           \A kind \in KindSet : contents.parts[kind] # <<>>, NEW digest \in Digests
    PROVE  generateSeed(digest, contents) \in Seeds /\ Has(contents, generateSeed(digest, contents))
  <1> DEFINE seed == generateSeed(digest, contents)
             part == [k \in 1..4 |-> Uint48(digest, k) % Len(contents.parts[Kinds[k]])]
             background == Uint48(digest, 0) % contents.backgrounds
  <1>1. background \in Nat
    <2>1. Uint48(digest, 0) \in Nat /\ contents.backgrounds \in Nat \ {0}
      BY SliceTyped DEF Contents
    <2> DEFINE u == Uint48(digest, 0)
               n == contents.backgrounds
    <2>2. u \in Nat /\ n \in Nat \ {0}
      BY <2>1
    <2> SUFFICES u % n \in Nat
      OBVIOUS
    <2> HIDE DEF u, n
    <2>3. u % n \in 0..n - 1
      BY <2>2, RemainderBelow
    <2> QED
      BY <2>2, <2>3
  <1>2. ASSUME NEW k \in 1..4
        PROVE  part[k] \in Nat /\ part[k] < Len(contents.parts[Kinds[k]])
    <2> DEFINE u == Uint48(digest, k)
               n == Len(contents.parts[Kinds[k]])
    <2>1. Kinds[k] \in KindSet
      BY KindsAre
    <2>2. contents.parts[Kinds[k]] \in Seq(Image) /\ contents.parts[Kinds[k]] # <<>>
      BY <2>1 DEF Contents
    <2>3. n \in Nat \ {0}
      BY <2>2
    <2>4. u \in Nat
      BY SliceTyped
    <2> HIDE DEF u, n
    <2>5. u % n \in 0..n - 1
      BY <2>3, <2>4, RemainderBelow
    <2>6. part[k] = u % n
      BY DEF u, n
    <2> HIDE DEF part
    <2>7. part[k] \in Nat /\ part[k] < n
      BY <2>3, <2>5, <2>6
    <2> QED
      BY <2>7 DEF n
  <1>3. seed = [background |-> background, part |-> part]
    BY DEF generateSeed
  <1>4. part \in [1..4 -> Nat]
    BY <1>2
  <1> HIDE DEF seed, part, background
  <1>5. seed \in Seeds
    BY <1>1, <1>3, <1>4 DEF Seeds
  <1>6. seed.background < contents.backgrounds
    <2>1. contents.backgrounds \in Nat \ {0} /\ Uint48(digest, 0) \in Nat
      BY SliceTyped DEF Contents
    <2> DEFINE u == Uint48(digest, 0)
               n == contents.backgrounds
    <2>2. u \in Nat /\ n \in Nat \ {0} /\ background = u % n
      BY <2>1 DEF background
    <2> SUFFICES u % n < n
      BY <1>3, <2>2
    <2> HIDE DEF u, n
    <2>3. u % n \in 0..n - 1
      BY <2>2, RemainderBelow
    <2> QED
      BY <2>2, <2>3
  <1>7. Has(contents, seed)
    BY <1>2, <1>3, <1>6 DEF Has
  <1> QED
    BY <1>5, <1>7 DEF seed

\* A noun is minted: by a descriptor that one run fills when it is complete, for the
\* glasses come last.
LEMMA MintStays ==
    ASSUME ArtInv, NEW digest \in Digests, Mint(digest)
    PROVE  ArtInv'
  <1> DEFINE contents == art[descriptor]
             seed == generateSeed(digest, contents)
             noun == [digest |-> digest, by |-> descriptor, burned |-> FALSE, seed |-> seed]
             n == Len(nouns)
  <1>1. /\ contents.backgrounds > 0 /\ \A k \in KindSet : contents.parts[k] # <<>>
        /\ nouns' = Append(nouns, noun)
        /\ UNCHANGED <<filesVars, fillingVars, descriptor, apiVars>>
    BY DEF Mint
  <1>2. UNCHANGED <<art, released, populating, txs>>
    BY <1>1 DEF fillingVars
  <1>3. contents \in Contents /\ descriptor \in Descriptors
    BY ArtTyped
  <1>4. seed \in Seeds /\ Has(contents, seed)
    <2> HIDE DEF contents
    <2> QED
      BY <1>1, <1>3, SeedTyped
  <1>5. noun \in Nouns /\ noun.seed = seed /\ noun.digest = digest /\ noun.by = descriptor
    BY <1>3, <1>4 DEF Nouns
  <1> HIDE DEF noun, seed
  <1>6. /\ n \in Nat /\ nouns' \in Seq(Nouns) /\ Len(nouns') = n + 1 /\ nouns'[n + 1] = noun
        /\ \A i \in 1..n : nouns'[i] = nouns[i]
    BY <1>1, <1>5, ArtTyped, AppendProperties
  <1> HIDE DEF n
  <1>7. \A id \in 1..Len(nouns') : id \in 1..n \/ id = n + 1
    BY <1>6
  <1>8. NounsInv'
    <2>1. ASSUME NEW id \in 1..Len(nouns')
          PROVE  Has(art'[nouns'[id].by], nouns'[id].seed)
      <3>1. CASE id \in 1..n
        BY <1>2, <1>6, <3>1, ArtTyped DEF n
      <3>2. CASE id = n + 1
        BY <1>2, <1>4, <1>5, <1>6, <3>2 DEF contents
      <3> QED
        BY <1>7, <3>1, <3>2
    <2> QED
      BY <1>6, <2>1 DEF NounsInv
  <1>9. ASSUME NEW answer, Says(answer)
        PROVE  Says(answer)'
    <2>1. answer.id \in 1..n /\ answer.id \in 1..n + 1
      BY <1>6, <1>9 DEF Says, n
    <2>2. nouns'[answer.id] = nouns[answer.id]
      BY <1>6, <2>1
    <2> QED
      BY <1>2, <1>6, <1>9, <2>1, <2>2 DEF Says
  <1>10. RequestsInv' /\ MetadataInv'
    BY <1>1, <1>9, AnswersStay DEF apiVars
  <1>11. ASSUME NEW addr \in Descriptors, addr # descriptor
         PROVE  ReleasedAt(addr)'
    <2>1. /\ ReleasedAt(addr) /\ art'[addr] = art[addr] /\ released'[addr] = released[addr]
          /\ Pending(addr)' = Pending(addr)
      BY <1>2 DEF ArtInv, ReleasedInv, Pending
    <2>2. \A id \in 1..Len(nouns') : nouns'[id].by = addr => id \in 1..n /\ nouns'[id] = nouns[id]
      BY <1>5, <1>6, <1>7, <1>11
    <2>3. Unminted(addr) => Unminted(addr)'
      BY <2>2 DEF Unminted, n
    <2>4. \A d : Seeded(addr, d) => Seeded(addr, d)'
      BY <2>2 DEF Seeded, n
    <2> QED
      BY <2>1, <2>3, <2>4, ReleasedStays
  <1>12. ASSUME NEW addr \in Descriptors, addr = descriptor, released[addr] # Mixed
         PROVE  Filled(addr)'
    <2> DEFINE data == released[addr]
    <2>1. Filled(addr)
      <3>1. contents # Bare
        BY <1>1 DEF Bare
      <3> QED
        BY <1>12, <3>1 DEF ArtInv, ReleasedInv, ReleasedAt, Unfilled
    <2>2. PICK a, h, m : Filling(addr, data, a, h, m)
      BY <2>1 DEF Filled
    <2>3. Shipped(data) /\ Seeded(addr, data)
      BY <2>1 DEF Filled
    <2>4. data = released'[addr] /\ art'[addr] = art[addr] /\ contents = art[addr]
      BY <1>2, <1>12
    <2> HIDE DEF data, contents
    <2>5. /\ Listed(PopulateTxs(data), data, a, h) /\ m \in 0..a + h + 4
          /\ FilledTo(contents, data, a, h, m)
          /\ Len(Pending(addr)) = (a + h + 4) - m
          /\ \A i \in 1..Len(Pending(addr)) : Pending(addr)[i] = PopulateTxs(data)[m + i]
          /\ m >= 2 => Len(data.palette) <= Byte
      BY <2>2, <2>4 DEF Filling
    <2>6. a \in Nat /\ h \in Nat
      BY <2>5 DEF Listed
    <2>7. m = a + h + 4
      <3>1. contents.parts["glasses"] # <<>>
        BY <1>1, KindsAre
      <3>2. contents.parts["glasses"] = IF m >= 4 + a + h THEN data.images["glasses"] ELSE <<>>
        BY <2>5 DEF FilledTo
      <3>3. m >= 4 + a + h
        BY <3>1, <3>2
      <3> QED
        BY <2>5, <2>6, <3>3
    <2>8. /\ contents.backgrounds = Backgrounds
          /\ \A kind \in KindSet : contents.parts[kind] = data.images[kind]
      BY <2>3, <2>5, <2>7, FilledBounds
    <2>9. seed = SeedOf(data, digest)
      <3>1. \A k \in 1..4 : contents.parts[Kinds[k]] = data.images[Kinds[k]]
        BY <2>8, KindsAre
      <3>2. [k \in 1..4 |-> Uint48(digest, k) % Len(contents.parts[Kinds[k]])]
                = [k \in 1..4 |-> Uint48(digest, k) % Len(data.images[Kinds[k]])]
        BY <3>1
      <3> QED
        BY <2>8, <3>2, Zenon DEF generateSeed, SeedOf, seed
    <2>10. Seeded(addr, data)'
      <3>1. ASSUME NEW id \in 1..Len(nouns'), nouns'[id].by = addr
            PROVE  nouns'[id].seed = SeedOf(data, nouns'[id].digest)
        <4>1. CASE id \in 1..n
          BY <1>6, <2>3, <3>1, <4>1 DEF Seeded, n
        <4>2. CASE id = n + 1
          BY <1>5, <1>6, <2>9, <4>2
        <4> QED
          BY <1>7, <4>1, <4>2
      <3>2. data' = data
        BY <2>4 DEF data
      <3> QED
        BY <3>1, <3>2 DEF Seeded, SeedOf
    <2>11. Filling(addr, data, a, h, m)'
      <3>1. ~(m < a + h + 4)
        BY <2>6, <2>7
      <3>2. Pending(addr)' = Pending(addr) /\ data' = data
        BY <1>2, <2>4 DEF Pending, data
      <3>3. FilledTo(art'[addr], data, a, h, m)
        BY <2>4, <2>5
      <3> QED
        BY <2>5, <3>1, <3>2, <3>3 DEF Filling
    <2>12. Filling(addr, released[addr], a, h, m)' /\ Seeded(addr, released[addr])'
      BY <2>4, <2>10, <2>11 DEF data
    <2> QED
      BY <2>3, <2>4, <2>12 DEF Filled
  <1>13. ReleasedInv'
    <2>1. ASSUME NEW addr \in Descriptors
          PROVE  ReleasedAt(addr)'
      <3>1. released[addr] = Mixed => ReleasedAt(addr)'
        BY <1>2 DEF ReleasedAt
      <3> QED
        BY <1>11, <1>12, <3>1 DEF ReleasedAt
    <2> QED
      BY <2>1 DEF ReleasedInv
  <1>14. FillingInv'
    BY <1>1, <1>2 DEF ArtInv, FillingInv
  <1> QED
    BY <1>1, <1>8, <1>10, <1>13, <1>14, OthersStay

\* A noun is burned: its seed stays.
LEMMA BurnStays ==
    ASSUME ArtInv, NEW id \in DOMAIN nouns, Burn(id)
    PROVE  ArtInv'
  <1>1. /\ nouns' = [nouns EXCEPT ![id].burned = TRUE]
        /\ UNCHANGED <<filesVars, fillingVars, descriptor, apiVars>>
    BY DEF Burn
  <1>2. UNCHANGED <<art, released, populating, txs>>
    BY <1>1 DEF fillingVars
  <1> DEFINE noun == [nouns[id] EXCEPT !.burned = TRUE]
  <1>3. id \in 1..Len(nouns) /\ nouns[id] \in Nouns
    BY ArtTyped
  <1>4. /\ noun.by = nouns[id].by /\ noun.seed = nouns[id].seed
        /\ noun.digest = nouns[id].digest
    BY <1>3 DEF Nouns
  <1>5. noun \in Nouns
    BY <1>3 DEF Nouns
  <1>6. nouns' = [nouns EXCEPT ![id] = noun]
    BY <1>1
  <1> HIDE DEF noun
  <1>7. /\ nouns' \in Seq(Nouns) /\ Len(nouns') = Len(nouns)
        /\ \A i \in 1..Len(nouns) : nouns'[i] = IF i = id THEN noun ELSE nouns[i]
    BY <1>3, <1>5, <1>6, ArtTyped
  <1>8. \A i \in 1..Len(nouns) :
            /\ nouns'[i].by = nouns[i].by /\ nouns'[i].seed = nouns[i].seed
            /\ nouns'[i].digest = nouns[i].digest
    BY <1>4, <1>7
  <1>9. NounsInv' /\ \A answer : Says(answer) => Says(answer)'
    <2>1. \A addr \in Descriptors : Grown(art'[addr], art[addr])
      BY <1>2, ArtTyped, SameGrown
    <2> QED
      BY <1>2, <1>7, <1>8, <2>1, ArtTyped, NounsStay
  <1>10. RequestsInv' /\ MetadataInv'
    BY <1>1, <1>9, AnswersStay DEF apiVars
  <1>11. ReleasedInv'
    <2>1. ASSUME NEW addr \in Descriptors
          PROVE  ReleasedAt(addr)'
      <3>1. /\ ReleasedAt(addr) /\ art'[addr] = art[addr] /\ released'[addr] = released[addr]
            /\ Pending(addr)' = Pending(addr)
        BY <1>2 DEF ArtInv, ReleasedInv, Pending
      <3>2. Unminted(addr) => Unminted(addr)'
        BY <1>7, <1>8 DEF Unminted
      <3>3. \A d : Seeded(addr, d) => Seeded(addr, d)'
        BY <1>7, <1>8 DEF Seeded
      <3> QED
        BY <3>1, <3>2, <3>3, ReleasedStays
    <2> QED
      BY <2>1 DEF ReleasedInv
  <1>12. FillingInv'
    BY <1>1, <1>2 DEF ArtInv, FillingInv
  <1> QED
    BY <1>1, <1>9, <1>10, <1>11, <1>12, OthersStay

\* The token is to ask another descriptor.
LEMMA SetDescriptorStays ==
    ASSUME ArtInv, NEW addr \in Descriptors, SetDescriptor(addr)
    PROVE  ArtInv'
  <1>1. descriptor' = addr /\ UNCHANGED <<filesVars, fillingVars, nouns, apiVars>>
    BY DEF SetDescriptor
  <1>2. FillingInv'
    BY <1>1, ArtTyped DEF FillingInv, fillingVars
  <1>3. NounsInv' /\ RequestsInv' /\ MetadataInv'
    BY <1>1, ChainStays, AnswersStay DEF fillingVars, apiVars
  <1>4. ReleasedInv'
    BY <1>1, AllStay DEF fillingVars
  <1> QED
    BY <1>1, <1>2, <1>3, <1>4, OthersStay

\* The token answers.
LEMMA AskStays ==
    ASSUME ArtInv, NEW id \in DOMAIN nouns, AskToken(id)
    PROVE  ArtInv'
  <1> DEFINE uri == dataURI(id)
             answer == [id |-> id, uri |-> uri, by |-> descriptor]
  <1>1. /\ uri # Panic /\ requests' = requests \cup {answer}
        /\ UNCHANGED <<filesVars, fillingVars, tokenVars, metadata>>
    BY DEF AskToken
  <1>2. uri = genericDataURI(art[descriptor], nouns[id].seed)
    BY <1>1 DEF dataURI
  <1> HIDE DEF uri
  <1>3. Says(answer)
    BY <1>1, <1>2, ArtTyped DEF Says
  <1> HIDE DEF answer
  <1>4. NounsInv' /\ \A other : Says(other) => Says(other)'
    BY <1>1, ChainStays DEF fillingVars, tokenVars
  <1>5. RequestsInv' /\ MetadataInv'
    BY <1>1, <1>3, <1>4, Zenon DEF ArtInv, RequestsInv, MetadataInv
  <1>6. FillingInv'
    BY <1>1 DEF ArtInv, FillingInv, fillingVars, tokenVars
  <1>7. ReleasedInv'
    BY <1>1, AllStay DEF fillingVars, tokenVars
  <1> QED
    BY <1>1, <1>4, <1>5, <1>6, <1>7, OthersStay

\* The API keeps what the token said.
LEMMA StoreStays ==
    ASSUME ArtInv, NEW request \in requests, StoreMetadata(request)
    PROVE  ArtInv'
  <1>1. /\ requests' = requests \ {request} /\ metadata' = With(metadata, request.id, request)
        /\ UNCHANGED <<filesVars, fillingVars, tokenVars>>
    BY DEF StoreMetadata
  <1>2. NounsInv' /\ \A answer : Says(answer) => Says(answer)'
    BY <1>1, ChainStays DEF fillingVars, tokenVars
  <1>3. Says(request)
    BY DEF ArtInv, RequestsInv
  <1>4. RequestsInv'
    BY <1>1, <1>2 DEF ArtInv, RequestsInv
  <1>5. MetadataInv'
    <2>1. ASSUME NEW id \in DOMAIN metadata'
          PROVE  metadata'[id].id = id /\ Says(metadata'[id])
      <3>1. CASE id = request.id
        <4>1. metadata'[id] = request
          BY <1>1, <2>1, <3>1 DEF With
        <4> QED
          BY <1>3, <3>1, <4>1
      <3>2. CASE id # request.id
        <4>1. id \in DOMAIN metadata /\ metadata'[id] = metadata[id]
          BY <1>1, <2>1, <3>2 DEF With
        <4> QED
          BY <4>1 DEF ArtInv, MetadataInv
      <3> QED
        BY <3>1, <3>2
    <2>2. \A answer : Says(answer) => Says(answer)'
      BY <1>2
    <2>3. ASSUME NEW id \in DOMAIN metadata'
          PROVE  (metadata[id].id = id /\ Says(metadata[id]))'
      <3>1. UNCHANGED <<nouns, art>>
        BY <1>1 DEF tokenVars, fillingVars
      <3> QED
        BY <2>1, <2>3, <3>1 DEF Says
    <2> QED
      BY <2>3 DEF MetadataInv
  <1>6. FillingInv'
    BY <1>1 DEF ArtInv, FillingInv, fillingVars, tokenVars
  <1>7. ReleasedInv'
    BY <1>1, AllStay DEF fillingVars, tokenVars
  <1> QED
    BY <1>1, <1>2, <1>4, <1>5, <1>6, <1>7, OthersStay

\* Every step keeps the invariant.
LEMMA ArtStays ==
    ASSUME ArtInv, [ArtNext]_artVars
    PROVE  ArtInv'
  <1>1. CASE EncodeFile
    BY <1>1, EncodeStays
  <1>2. CASE WriteImageData
    BY <1>2, WriteStays
  <1>3. CASE NextEdition
    BY <1>3, NextEditionStays
  <1>4. CASE CopyImageData
    BY <1>4, CopyStays
  <1>5. CASE \E a \in Descriptors : Populate(a) \/ LockParts(a) \/ SetDescriptor(a)
    BY <1>5, PopulateStays, LockStays, SetDescriptorStays
  <1>6. CASE AbortPopulate
    BY <1>6, AbortStays
  <1>7. CASE \E enoughGas \in BOOLEAN : MineTx(enoughGas)
    BY <1>7, MineStays
  <1>8. CASE /\ imageData # NoData
             /\ \E a \in Descriptors, kind \in KindSet : AddPart(a, kind, imageData.images[kind][1])
    BY <1>8, AddPartStays
  <1>9. CASE \E digest \in Digests : Mint(digest)
    BY <1>9, MintStays
  <1>10. CASE \E id \in DOMAIN nouns : Burn(id) \/ AskToken(id)
    BY <1>10, BurnStays, AskStays
  <1>11. CASE \E request \in requests : StoreMetadata(request)
    BY <1>11, StoreStays
  <1>12. CASE UNCHANGED artVars
    <2>1. UNCHANGED <<filesVars, art, released, populating, txs, nouns, descriptor, apiVars>>
      BY <1>12 DEF artVars, fillingVars, tokenVars
    <2>2. FillingInv'
      BY <2>1 DEF ArtInv, FillingInv
    <2>3. NounsInv' /\ RequestsInv' /\ MetadataInv'
      BY <2>1, ChainStays, AnswersStay DEF apiVars
    <2> QED
      BY <2>1, <2>2, <2>3, AllStay, OthersStay
  <1> QED
    BY <1>1, <1>2, <1>3, <1>4, <1>5, <1>6, <1>7, <1>8, <1>9, <1>10, <1>11, <1>12, Zenon DEF ArtNext

-----------------------------------------------------------------------------
(* What follows.                                                           *)

\* The invariant is enough for SeedForetold: both sides take the same bytes of the hash.
LEMMA Foretold ==
    ASSUME ArtInv
    PROVE  SeedForetold
  <1> SUFFICES ASSUME NEW id \in DOMAIN nouns, Released(nouns[id].by), imageData # NoData,
                      \A kind \in KindSet : Len(released[nouns[id].by].images[kind])
                                                = Len(imageData.images[kind])
               PROVE  getNounSeedFromBlockHash(nouns[id].digest) \in {nouns[id].seed, Throws}
    BY DEF SeedForetold
  <1> DEFINE digest == nouns[id].digest
             data == released[nouns[id].by]
  <1>1. id \in 1..Len(nouns) /\ digest \in Digests /\ nouns[id].by \in Descriptors
    BY ArtTyped
  <1>2. nouns[id].seed = SeedOf(data, digest)
    <2>1. Filled(nouns[id].by)
      BY <1>1 DEF ArtInv, ReleasedInv, ReleasedAt, Unfilled, Released
    <2> QED
      BY <1>1, <2>1 DEF Filled, Seeded
  <1>3. \A k \in 1..4 : Len(data.images[Kinds[k]]) = Len(imageData.images[Kinds[k]])
    BY KindsAre
  <1> HIDE DEF digest, data
  <1> SUFFICES getNounSeedFromBlockHash(digest) \in {SeedOf(data, digest), Throws}
    BY <1>2 DEF digest
  <1>4. CASE \E i \in 0..4 : Len(Shifted(digest, i)) < Slice
    BY <1>4 DEF getNounSeedFromBlockHash
  <1>5. CASE ~\E i \in 0..4 : Len(Shifted(digest, i)) < Slice
    <2>1. ASSUME NEW i \in 0..4, NEW count
          PROVE  getPseudorandomPart(digest, i, count) = Uint48(digest, i) % count
      <3>1. ~(Len(Shifted(digest, i)) < Slice)
        BY <1>5
      <3> QED
        BY <1>1, <3>1, SamePartForetold
    <2>2. getPseudorandomPart(digest, 0, Backgrounds) = Uint48(digest, 0) % Backgrounds
      BY <2>1
    <2>3. [k \in 1..4 |-> getPseudorandomPart(digest, k, Len(imageData.images[Kinds[k]]))]
              = [k \in 1..4 |-> Uint48(digest, k) % Len(data.images[Kinds[k]])]
      <3>1. \A k \in 1..4 : k \in 0..4
        OBVIOUS
      <3> QED
        BY <1>3, <2>1, <3>1
    <2>4. getNounSeedFromBlockHash(digest) = SeedOf(data, digest)
      BY <1>5, <2>2, <2>3, Zenon DEF getNounSeedFromBlockHash, SeedOf
    <2> QED
      BY <2>4
  <1> QED
    BY <1>4, <1>5

\* A sequence that another begins with.
LEMMA PrefixIs ==
    ASSUME NEW S, NEW s \in Seq(S), NEW t \in Seq(S), IsPrefix(s, t)
    PROVE  Len(s) <= Len(t) /\ \A i \in 1..Len(s) : t[i] = s[i]
  <1> DEFINE n == Len(s)
  <1>1. n \in Nat /\ Len(t) \in Nat /\ n <= Len(t) /\ SubSeq(s, 1, n) = SubSeq(t, 1, n)
    BY DEF IsPrefix
  <1>2. SubSeq(s, 1, n) = s
    BY WholeSeq
  <1>3. \A i \in 1..n : t[i] \in S
    BY <1>1
  <1> HIDE DEF n
  <1>4. \A i \in 1..n - 1 + 1 : SubSeq(t, 1, n)[i] = t[1 + i - 1]
    BY <1>1, <1>3, SubSeqProperties
  <1>5. ASSUME NEW i \in 1..n
        PROVE  t[i] = s[i]
    <2>1. i \in 1..n - 1 + 1 /\ 1 + i - 1 = i
      BY <1>1
    <2> QED
      BY <1>1, <1>2, <1>4, <2>1
  <1> QED
    BY <1>1, <1>5 DEF n

\* What a descriptor that one run filled says of a seed, if it says anything: it has all
\* that the run was to add.
LEMMA FilledHas ==
    ASSUME NEW data, Shipped(data), NEW addr, NEW a, NEW h, NEW m, Filling(addr, data, a, h, m),
           NEW seed, Has(art[addr], seed), seed \in Seeds
    PROVE  /\ art[addr].palette = data.palette /\ Len(data.palette) <= Byte
           /\ \A kind \in KindSet : art[addr].parts[kind] = data.images[kind]
  <1>1. /\ Listed(PopulateTxs(data), data, a, h) /\ m \in 0..a + h + 4
        /\ FilledTo(art[addr], data, a, h, m) /\ (m >= 2 => Len(data.palette) <= Byte)
    BY DEF Filling
  <1>2. a \in Nat /\ h \in Nat
    BY <1>1 DEF Listed
  <1>3. m = a + h + 4
    <2>1. seed.part[4] \in Nat /\ seed.part[4] < Len(art[addr].parts["glasses"])
      BY KindsAre DEF Has, Seeds
    <2>2. art[addr].parts["glasses"] = IF m >= 4 + a + h THEN data.images["glasses"] ELSE <<>>
      BY <1>1 DEF FilledTo
    <2>3. m >= 4 + a + h
      BY <2>1, <2>2
    <2> QED
      BY <1>1, <1>2, <2>3
  <1>4. m >= 2
    BY <1>2, <1>3
  <1> QED
    BY <1>1, <1>3, <1>4, FilledBounds

\* An image of data is drawn alike by both programs.
LEMMA ShippedDraws ==
    ASSUME NEW data, Shipped(data), Len(data.palette) <= Byte,
           NEW kind \in KindSet, NEW i \in 1..Len(data.images[kind])
    PROVE  /\ data.images[kind][i] \in Image /\ data.palette \in Seq(Keys)
           /\ ~GenerateRects(data.images[kind][i], data.palette).panic
           /\ GenerateRects(data.images[kind][i], data.palette).part
                  = buildSVG(data.images[kind][i], data.palette)
  <1> DEFINE image == data.images[kind][i]
  <1>1. data.images[kind] \in Seq(Image) /\ data.palette \in Seq(Keys)
    BY DEF Shipped
  <1>2. image \in Image
    BY <1>1, ElementOfSeq
  <1>3. PICK picture \in Canvas : Covers(image, picture, data.palette)
    BY DEF Shipped
  <1> HIDE DEF image
  <1>4. /\ ~GenerateRects(image, data.palette).panic
        /\ GenerateRects(image, data.palette).part = buildSVG(image, data.palette)
    BY <1>1, <1>2, <1>3, SizeAssumption, CoversDraws
  <1> QED
    BY <1>1, <1>2, <1>4 DEF image

\* The token draws the nouns of a descriptor that one run filled.
LEMMA TokenDraws ==
    ASSUME ArtInv, Released(descriptor), NEW id \in DOMAIN nouns,
           nouns[id].by = descriptor, ~nouns[id].burned
    PROVE  dataURI(id) # Panic
  <1> DEFINE d == art[descriptor]
             data == released[descriptor]
             seed == nouns[id].seed
  <1>1. id \in 1..Len(nouns) /\ seed \in Seeds /\ Has(d, seed) /\ descriptor \in Descriptors
    BY ArtTyped
  <1>2. Filled(descriptor)
    BY <1>1 DEF ArtInv, ReleasedInv, ReleasedAt, Unfilled, Released
  <1>3. PICK a, h, m : Filling(descriptor, data, a, h, m)
    BY <1>2 DEF Filled
  <1>4. Shipped(data)
    BY <1>2 DEF Filled
  <1>5. dataURI(id) = genericDataURI(d, seed)
    BY DEF dataURI
  <1> HIDE DEF seed, data
  <1>6. /\ d.palette = data.palette /\ Len(data.palette) <= Byte
        /\ \A kind \in KindSet : d.parts[kind] = data.images[kind]
    BY <1>1, <1>3, <1>4, FilledHas
  <1> HIDE DEF d
  <1>7. ASSUME NEW k \in 1..4
        PROVE  ~PartOf(d, seed, k).panic
    <2> DEFINE kind == Kinds[k]
               i == seed.part[k]
               j == i + 1
    <2>1. kind \in KindSet /\ d.parts[kind] = data.images[kind]
      BY <1>6, KindsAre
    <2>2. i \in Nat /\ i < Len(d.parts[kind])
      BY <1>1 DEF Seeds, Has
    <2>3. Len(data.images[kind]) \in Nat
      <3>1. data.images[kind] \in Seq(Image)
        BY <1>4, <2>1 DEF Shipped
      <3> QED
        BY <3>1
    <2>4. PartOf(d, seed, k) = GenerateRects(data.images[kind][j], data.palette)
      BY <1>6, <2>1 DEF PartOf
    <2>5. j = i + 1
      OBVIOUS
    <2> HIDE DEF kind, i, j
    <2>6. j \in 1..Len(data.images[kind])
      BY <2>1, <2>2, <2>3, <2>5
    <2> QED
      BY <1>4, <1>6, <2>1, <2>4, <2>6, ShippedDraws
  <1>8. genericDataURI(d, seed) = Drawn(seed.background, [k \in 1..4 |-> PartOf(d, seed, k).part])
    BY <1>1, <1>7, URIIs
  <1> QED
    BY <1>5, <1>8, DrawnIsNoPanic

\* The page draws what the token says, when its file begins with the data of the descriptor.
LEMMA PageDraws ==
    ASSUME ArtInv, Released(descriptor), PageHas(released[descriptor]), NEW id \in DOMAIN nouns,
           dataURI(id) # Panic
    PROVE  getNoun(nouns[id].seed) = dataURI(id)
  <1> DEFINE d == art[descriptor]
             data == released[descriptor]
             seed == nouns[id].seed
             built(k) == buildSVG(imageData.images[Kinds[k]][seed.part[k] + 1], imageData.palette)
  <1>1. id \in 1..Len(nouns) /\ seed \in Seeds /\ descriptor \in Descriptors
    BY ArtTyped
  <1>2. Filled(descriptor)
    BY <1>1 DEF ArtInv, ReleasedInv, ReleasedAt, Unfilled, Released
  <1>3. PICK a, h, m : Filling(descriptor, data, a, h, m)
    BY <1>2 DEF Filled
  <1>4. /\ Shipped(data) /\ Shipped(imageData) /\ Len(imageData.palette) <= Byte
        /\ IsPrefix(data.palette, imageData.palette)
        /\ \A kind \in KindSet : IsPrefix(data.images[kind], imageData.images[kind])
    BY <1>2, ArtTyped DEF Filled, PageHas
  <1>5. dataURI(id) = genericDataURI(d, seed)
    BY DEF dataURI
  <1> HIDE DEF seed, data
  <1>6. /\ Has(d, seed) /\ \A k \in 1..4 : ~PartOf(d, seed, k).panic
        /\ genericDataURI(d, seed)
               = Drawn(seed.background, [k \in 1..4 |-> PartOf(d, seed, k).part])
    BY <1>5, URIIs
  <1>7. /\ d.palette = data.palette
        /\ \A kind \in KindSet : d.parts[kind] = data.images[kind]
    BY <1>1, <1>3, <1>4, <1>6, FilledHas
  <1> HIDE DEF d
  <1>8. Extends(imageData.palette, data.palette)
    <2>1. data.palette \in Seq(Keys) /\ imageData.palette \in Seq(Keys)
      BY <1>4 DEF Shipped
    <2> DEFINE before == data.palette
               after == imageData.palette
    <2> SUFFICES Extends(after, before)
      OBVIOUS
    <2>2. before \in Seq(Keys) /\ after \in Seq(Keys) /\ IsPrefix(before, after)
      BY <1>4, <2>1
    <2> HIDE DEF before, after
    <2>3. Len(before) <= Len(after) /\ \A i \in 1..Len(before) : after[i] = before[i]
      BY <2>2, PrefixIs
    <2> QED
      BY <2>2, <2>3 DEF Extends
  <1>9. ASSUME NEW k \in 1..4
        PROVE  /\ ~(seed.part[k] >= Len(imageData.images[Kinds[k]]))
               /\ PartOf(d, seed, k).part = built(k)
    <2> DEFINE kind == Kinds[k]
               i == seed.part[k]
               j == i + 1
               old == data.images[kind]
               new == imageData.images[kind]
    <2>1. kind \in KindSet /\ d.parts[kind] = old
      BY <1>7, KindsAre
    <2>2. old \in Seq(Image) /\ new \in Seq(Image) /\ IsPrefix(old, new)
      BY <1>4, <2>1 DEF Shipped
    <2>3. i \in Nat /\ i < Len(old)
      <3>1. i \in Nat /\ i < Len(d.parts[kind])
        BY <1>1, <1>6 DEF Seeds, Has
      <3> QED
        BY <2>1, <3>1
    <2>4. /\ PartOf(d, seed, k) = GenerateRects(old[j], data.palette)
          /\ built(k) = buildSVG(new[j], imageData.palette)
      BY <1>7, <2>1 DEF PartOf
    <2>5. j = i + 1
      OBVIOUS
    <2> HIDE DEF i, j
    <2>6. Len(old) <= Len(new) /\ \A x \in 1..Len(old) : new[x] = old[x]
      <3> HIDE DEF old, new
      <3> QED
        BY <2>2, PrefixIs
    <2>7. Len(old) \in Nat /\ Len(new) \in Nat
      <3> HIDE DEF old, new
      <3> QED
        BY <2>2
    <2>8. j \in 1..Len(old) /\ j \in 1..Len(new) /\ ~(i >= Len(new))
      <3> HIDE DEF old, new
      <3> QED
        BY <2>3, <2>5, <2>6, <2>7
    <2>9. new[j] = old[j]
      <3> HIDE DEF old, new
      <3> QED
        BY <2>6, <2>8
    <2>10. /\ new[j] \in Image
           /\ GenerateRects(new[j], imageData.palette).part = buildSVG(new[j], imageData.palette)
      <3> HIDE DEF kind, j
      <3> QED
        BY <1>4, <2>1, <2>8, ShippedDraws
    <2>11. ~GenerateRects(old[j], data.palette).panic
      BY <1>6, <2>4
    <2>12. GenerateRects(new[j], imageData.palette) = GenerateRects(new[j], data.palette)
      <3> DEFINE image == new[j]
      <3>1. image \in Image /\ ~GenerateRects(image, data.palette).panic
        BY <2>9, <2>10, <2>11
      <3> HIDE DEF image
      <3>2. GenerateRects(image, imageData.palette) = GenerateRects(image, data.palette)
        BY <1>8, <3>1, GenerateStays
      <3> QED
        BY <3>2 DEF image
    <2> QED
      BY <2>4, <2>8, <2>9, <2>10, <2>12 DEF i
  <1> HIDE DEF built
  <1>10. dataURI(id) = Drawn(seed.background, [k \in 1..4 |-> built(k)])
    <2>1. [k \in 1..4 |-> PartOf(d, seed, k).part] = [k \in 1..4 |-> built(k)]
      BY <1>9
    <2> QED
      BY <1>5, <1>6, <2>1
  <1>11. getNoun(seed) = Drawn(seed.background, [k \in 1..4 |-> built(k)])
    <2>1. ~\E k \in 1..4 : seed.part[k] >= Len(imageData.images[Kinds[k]])
      BY <1>9
    <2>2. [k \in 1..4 |-> buildSVG(getNounData(seed)[k], imageData.palette)] = [k \in 1..4 |-> built(k)]
      BY DEF getNounData, built
    <2> QED
      BY <2>1, <2>2, Zenon DEF getNoun
  <1> QED
    BY <1>10, <1>11 DEF seed

\* The invariant is enough for PageDrawsTheToken.
LEMMA PageAgrees ==
    ASSUME ArtInv
    PROVE  PageDrawsTheToken
  <1> SUFFICES ASSUME Released(descriptor), PageHas(released[descriptor]), NEW id \in DOMAIN nouns
               PROVE  /\ nouns[id].by = descriptor /\ ~nouns[id].burned => dataURI(id) # Panic
                      /\ dataURI(id) # Panic =>
                             StandaloneNounWithSeed(id) \in
                                 {dataURI(id)} \cup IF nouns[id].seed = NoSeed THEN {Blank} ELSE {}
    BY Zenon DEF PageDrawsTheToken
  <1>1. nouns[id].by = descriptor /\ ~nouns[id].burned => dataURI(id) # Panic
    BY TokenDraws
  <1>2. dataURI(id) # Panic => getNoun(nouns[id].seed) = dataURI(id)
    BY PageDraws
  <1>3. useNounSeed(id) = nouns[id].seed
    BY DEF useNounSeed
  <1> QED
    BY <1>1, <1>2, <1>3 DEF StandaloneNounWithSeed

\* The invariant is enough for MetadataAgrees.
LEMMA AnswersAgree ==
    ASSUME ArtInv
    PROVE  MetadataAgrees
  <1> SUFFICES ASSUME NEW id \in DOMAIN metadata, metadata[id].by = descriptor, ~nouns[id].burned
               PROVE  metadata[id].uri = dataURI(id)
    BY DEF MetadataAgrees
  <1>1. metadata[id].id = id /\ Says(metadata[id])
    BY DEF ArtInv, MetadataInv
  <1> QED
    BY <1>1 DEF Says, dataURI

\* The invariant holds for good.
LEMMA ArtInvariant == ArtSpec => []ArtInv
  <1>1. ArtInit => ArtInv
    BY ArtStarts
  <1>2. ArtInv /\ [ArtNext]_artVars => ArtInv'
    BY ArtStays
  <1> QED
    BY <1>1, <1>2, PTL DEF ArtSpec

\* StandaloneNoun and NounsDescriptor: see PageDrawsTheToken.  For all files and pictures,
\* editions, digests, gas and mints, however the copy, populate-descriptor and the DAO that
\* adds parts and replaces descriptors are interleaved.
THEOREM PageDrawsTheTokenAlways == ArtSpec => []PageDrawsTheToken
  <1>1. ArtInv => PageDrawsTheToken
    BY PageAgrees
  <1> QED
    BY <1>1, ArtInvariant, PTL

\* NounsToken and the cache of the API: see MetadataAgrees.  For any number of requests, in
\* whatever order they are answered and stored.
THEOREM MetadataAgreesAlways == ArtSpec => []MetadataAgrees
  <1>1. ArtInv => MetadataAgrees
    BY AnswersAgree
  <1> QED
    BY <1>1, ArtInvariant, PTL

\* NounsSeeder and getNounSeedFromBlockHash: see SeedForetold.  For all digests and counts
\* of parts.
THEOREM SeedForetoldAlways == ArtSpec => []SeedForetold
  <1>1. ArtInv => SeedForetold
    BY Foretold
  <1> QED
    BY <1>1, ArtInvariant, PTL

\* Nothing but encode.ts touches an encoder, and it encodes what the files hold.
LEMMA ArtEncodes == ArtSpec => EncoderSpec
  <1>1. ArtInit => EncoderInit
    BY DEF ArtInit
  <1>2. ArtInv /\ [ArtNext]_artVars => [Encoding \/ NewEncoder]_encoderVars
    <2> SUFFICES ASSUME ArtInv, [ArtNext]_artVars
                 PROVE  [Encoding \/ NewEncoder]_encoderVars
      OBVIOUS
    <2>1. CASE EncodeFile
      <3> DEFINE n == Cardinality(DOMAIN images)
                 file == AllFiles[n + 1]
      <3>1. n \in Nat /\ Len(AllFiles) \in Nat /\ n + 1 \in 1..Len(AllFiles)
        BY <2>1, ArtTyped, AllFilesAre, FS_CardinalityType DEF EncodeFile, ArtInv, FilesInv
      <3>2. file \in Names
        <4> HIDE DEF n
        <4> QED
          BY <3>1, ArtTyped, AllFilesAre, ElementOfSeq
      <3>3. PictureOf[file] \in Pictures
        <4> HIDE DEF file
        <4> QED
          BY <3>2, FilesAssumption
      <3>4. encodeImage(file, PictureOf[file])
        BY <2>1 DEF EncodeFile
      <3> HIDE DEF file
      <3> QED
        BY <3>2, <3>3, <3>4 DEF Encoding
    <2>2. CASE NextEdition
      BY <2>2 DEF NextEdition
    <2>3. CASE ArtNext /\ ~EncodeFile /\ ~NextEdition
      BY <2>3 DEF ArtNext, WriteImageData, CopyImageData, Populate, AbortPopulate, MineTx, AddPart,
                  LockParts, Mint, Burn, SetDescriptor, AskToken, StoreMetadata, filesVars
    <2>4. CASE UNCHANGED artVars
      BY <2>4 DEF artVars, filesVars
    <2> QED
      BY <2>1, <2>2, <2>3, <2>4
  <1> QED
    BY <1>1, <1>2, ArtInvariant, PTL DEF ArtSpec, EncoderSpec

\* encode.ts: see DrawnAsPainted.  For all files of a release, whatever becomes of them later.
THEOREM FilesDrawnAsPainted == ArtSpec => DrawnAsPainted
  BY ArtEncodes, EncodedIsDrawn, PTL

-----------------------------------------------------------------------------
(* The deployment tasks.                                                   *)

\* The specification of the deployment tasks by themselves.
DeploymentSpec == DeploymentInit /\ [][DeploymentNext]_deploymentVars

IsSequence(s) == \E S : s \in Seq(S)

\* What is appended to a sequence comes after what it has.
LEMMA Appended ==
    ASSUME NEW s, NEW e, IsSequence(s)
    PROVE  /\ IsSequence(Append(s, e)) /\ Len(s) \in Nat
           /\ Len(Append(s, e)) = Len(s) + 1 /\ Append(s, e)[Len(s) + 1] = e
           /\ \A i \in 1..Len(s) : Append(s, e)[i] = s[i]
  <1>1. PICK S : s \in Seq(S)
    BY DEF IsSequence
  <1> DEFINE S2 == S \cup {e}
  <1>2. s \in Seq(S2) /\ e \in S2
    BY <1>1
  <1>3. Append(s, e) \in Seq(S2)
    BY <1>2, AppendProperties
  <1> HIDE DEF S2
  <1> QED
    BY <1>2, <1>3, AppendProperties DEF IsSequence

\* What entry i of the ledger was told stays when another is mined.
LEMMA EntryUpdated ==
    ASSUME NEW s, IsSequence(s), NEW k \in 1..Len(s), NEW e, e.args = s[k].args
    PROVE  /\ IsSequence([s EXCEPT ![k] = e]) /\ Len([s EXCEPT ![k] = e]) = Len(s)
           /\ \A i \in 1..Len(s) : [s EXCEPT ![k] = e][i].args = s[i].args
  <1>1. PICK S : s \in Seq(S)
    BY DEF IsSequence
  <1> DEFINE S2 == S \cup {e}
             t == [s EXCEPT ![k] = e]
  <1>2. s \in Seq(S2) /\ e \in S2
    BY <1>1
  <1> HIDE DEF S2
  <1>3. t \in Seq(S2) /\ Len(t) = Len(s) /\ \A i \in 1..Len(s) : t[i] = IF i = k THEN e ELSE s[i]
    BY <1>2
  <1> HIDE DEF t
  <1>4. \A i \in 1..Len(s) : t[i].args = s[i].args
    BY <1>3
  <1>5. IsSequence(t) /\ Len(t) = Len(s)
    BY <1>3 DEF IsSequence
  <1> QED
    BY <1>4, <1>5 DEF t

Done == {"deployed", "populated", "unpaused", "proposed"}

Tasks == [script : {"none", "deploy", "deploy-local"},
          phase : {"idle", "deploying", "exited"} \cup Done, nonce : Nat, address : Seq(Nat)]

\* A contract of run r is in the ledger; token and timelock were told what the task computed.
Told(r) ==
    \A i \in 1..Len(task[r].address) :
        /\ task[r].address[i] + 1 \in 1..Len(ledger)
        /\ Contracts(task[r].script)[i] = "NounsToken" =>
               ledger[task[r].address[i] + 1].args.minter
                   = task[r].nonce + AUCTION_HOUSE_PROXY_NONCE_OFFSET(task[r].script)
        /\ Contracts(task[r].script)[i] = "NounsDAOExecutor" =>
               ledger[task[r].address[i] + 1].args.admin
                   = task[r].nonce + GOVERNOR_N_DELEGATOR_NONCE_OFFSET(task[r].script)

Complete(r) ==
    task[r].phase \in Done => Len(task[r].address) = Len(Contracts(task[r].script))

DeploymentInv ==
    /\ task \in [Runs -> Tasks] /\ mined \in Nat /\ IsSequence(ledger)
    /\ \A r \in Runs : Told(r) /\ Complete(r)

\* No task has begun.
LEMMA DeploymentStarts == DeploymentInit => DeploymentInv
  <1> SUFFICES ASSUME DeploymentInit PROVE DeploymentInv
    OBVIOUS
  <1>1. ledger \in Seq({}) /\ task \in [Runs -> Tasks]
    BY DEF DeploymentInit, Tasks, Done
  <1>2. ASSUME NEW r \in Runs PROVE Told(r) /\ Complete(r)
    BY DEF DeploymentInit, Told, Complete, Done
  <1> QED
    BY <1>1, <1>2 DEF DeploymentInit, DeploymentInv, IsSequence

\* No two contracts have one name.
LEMMA ContractNames ==
    /\ NounsContracts \in Seq({NounsContracts[k] : k \in 1..10}) /\ Len(NounsContracts) = 10
    /\ NounsContracts[4] = "NounsToken" /\ NounsContracts[7] = "NounsAuctionHouseProxy"
    /\ NounsContracts[8] = "NounsDAOExecutor" /\ NounsContracts[10] = "NounsDAOProxy"
    /\ \A k \in 1..10 : NounsContracts[k] # "WETH"
    /\ \A i, j \in 1..10 : NounsContracts[i] = NounsContracts[j] => i = j
  <1> DEFINE N == NounsContracts
  <1>1. Len(N) = 10 /\ DOMAIN N = 1..10
    BY DEF NounsContracts
  <1>2. /\ N[1] = "NFTDescriptor" /\ N[2] = "NounsDescriptor" /\ N[3] = "NounsSeeder"
        /\ N[4] = "NounsToken" /\ N[5] = "NounsAuctionHouse"
        /\ N[6] = "NounsAuctionHouseProxyAdmin" /\ N[7] = "NounsAuctionHouseProxy"
        /\ N[8] = "NounsDAOExecutor" /\ N[9] = "NounsDAOLogicV1" /\ N[10] = "NounsDAOProxy"
    BY DEF NounsContracts
  <1>3. N = [k \in 1..10 |-> N[k]]
    BY DEF NounsContracts
  <1> HIDE DEF N
  <1>4. \A k \in 1..10 : N[k] # "WETH"
    BY <1>2
  <1>5. \A i, j \in 1..10 : N[i] = N[j] => i = j
    BY <1>2
  <1>6. N \in Seq({N[k] : k \in 1..10})
    BY <1>3
  <1> QED
    BY <1>1, <1>2, <1>4, <1>5, <1>6 DEF N

\* The offsets are those of the proxies among the contracts.
LEMMA Positions ==
    ASSUME NEW r \in Runs, task[r] \in Tasks,
           Len(task[r].address) = Len(Contracts(task[r].script))
    PROVE  LET o == IF task[r].script = "deploy" THEN 0 ELSE 1
           IN  /\ Len(task[r].address) = 10 + o
               /\ Address(r, "NounsToken") = task[r].address[4 + o]
               /\ Address(r, "NounsAuctionHouseProxy") = task[r].address[7 + o]
               /\ Address(r, "NounsDAOExecutor") = task[r].address[8 + o]
               /\ Address(r, "NounsDAOProxy") = task[r].address[10 + o]
               /\ Contracts(task[r].script)[4 + o] = "NounsToken"
               /\ Contracts(task[r].script)[8 + o] = "NounsDAOExecutor"
  <1> DEFINE o == IF task[r].script = "deploy" THEN 0 ELSE 1
             c == Contracts(task[r].script)
             a == task[r].address
  <1>1. /\ Len(c) = 10 + o
        /\ c[4 + o] = "NounsToken" /\ c[7 + o] = "NounsAuctionHouseProxy"
        /\ c[8 + o] = "NounsDAOExecutor" /\ c[10 + o] = "NounsDAOProxy"
        /\ \A i, j \in 1..10 + o : c[i] = c[j] => i = j
    <2>1. CASE task[r].script = "deploy"
      <3>1. o = 0 /\ c = NounsContracts
        BY <2>1 DEF Contracts
      <3> HIDE DEF o, c
      <3> QED
        BY <3>1, ContractNames
    <2>2. CASE task[r].script # "deploy"
      <3>1. o = 1 /\ c = <<"WETH">> \o NounsContracts
        BY <2>2 DEF Contracts
      <3> HIDE DEF o, c
      <3>2. Len(c) = 11 /\ \A k \in 1..11 : c[k] = IF k = 1 THEN "WETH" ELSE NounsContracts[k - 1]
        <4> DEFINE S == {NounsContracts[k] : k \in 1..10} \cup {"WETH"}
        <4>1. NounsContracts \in Seq(S) /\ Len(NounsContracts) = 10
          BY ContractNames
        <4>2. <<"WETH">> \in Seq(S) /\ Len(<<"WETH">>) = 1 /\ <<"WETH">>[1] = "WETH"
          OBVIOUS
        <4> HIDE DEF S
        <4> DEFINE w == <<"WETH">>
        <4> HIDE DEF w
        <4>3. Len(c) = 11 /\ \A k \in 1..11 : c[k] = IF k <= 1 THEN w[k] ELSE NounsContracts[k - 1]
          <5>1. w \in Seq(S) /\ Len(w) = 1 /\ c = w \o NounsContracts
            BY <3>1, <4>2 DEF w
          <5>2. /\ Len(w \o NounsContracts) = Len(w) + Len(NounsContracts)
                /\ \A k \in 1..(Len(w) + Len(NounsContracts)) :
                       (w \o NounsContracts)[k] = IF k <= Len(w) THEN w[k]
                                                ELSE NounsContracts[k - Len(w)]
            <6>1. \A u, v \in Seq(S) :
                      /\ Len(u \o v) = Len(u) + Len(v)
                      /\ \A k \in 1..(Len(u) + Len(v)) :
                             (u \o v)[k] = IF k <= Len(u) THEN u[k] ELSE v[k - Len(u)]
              BY ConcatProperties
            <6> QED
              BY <4>1, <5>1, <6>1, Zenon
          <5>3. Len(w) + Len(NounsContracts) = 11
            BY <4>1, <5>1
          <5> QED
            BY <5>1, <5>2, <5>3
        <4> QED
          BY <4>2, <4>3 DEF w
      <3>3. ASSUME NEW i \in 1..11, NEW j \in 1..11, c[i] = c[j] PROVE i = j
        <4>1. CASE i = 1 \/ j = 1
          <5>1. \A k \in 1..10 : NounsContracts[k] # "WETH"
            BY ContractNames
          <5>2. \A k \in 1..11 : k # 1 => k - 1 \in 1..10
            OBVIOUS
          <5> QED
            BY <3>2, <3>3, <4>1, <5>1, <5>2
        <4>2. CASE i # 1 /\ j # 1
          <5>1. i - 1 \in 1..10 /\ j - 1 \in 1..10 /\ NounsContracts[i - 1] = NounsContracts[j - 1]
            BY <3>2, <3>3, <4>2, SMTT(30)
          <5>2. i - 1 = j - 1
            BY <5>1, ContractNames
          <5> QED
            BY <5>2
        <4> QED
          BY <4>1, <4>2
      <3>4. c[5] = NounsContracts[4] /\ c[8] = NounsContracts[7] /\ c[9] = NounsContracts[8]
            /\ c[11] = NounsContracts[10]
        BY <3>2
      <3> QED
        BY <3>1, <3>2, <3>3, <3>4, ContractNames, SMTT(30)
    <2> QED
      BY <2>1, <2>2
  <1>2. DOMAIN a = 1..10 + o
    BY <1>1 DEF Tasks
  <1>3. o \in {0, 1}
    OBVIOUS
  <1> HIDE DEF o, c, a
  <1>4. ASSUME NEW k \in 1..10 + o, NEW name, c[k] = name
        PROVE  (CHOOSE i \in DOMAIN a : c[i] = name) = k
    <2>1. k \in DOMAIN a
      BY <1>2
    <2>2. \A i \in DOMAIN a : c[i] = name => i = k
      BY <1>1, <1>2, <1>4
    <2> QED
      BY <1>4, <2>1, <2>2
  <1>5. 4 + o \in 1..10 + o /\ 7 + o \in 1..10 + o /\ 8 + o \in 1..10 + o /\ 10 + o \in 1..10 + o
    BY <1>3
  <1>6. /\ Address(r, "NounsToken") = a[4 + o]
        /\ Address(r, "NounsAuctionHouseProxy") = a[7 + o]
        /\ Address(r, "NounsDAOExecutor") = a[8 + o]
        /\ Address(r, "NounsDAOProxy") = a[10 + o]
    BY <1>1, <1>4, <1>5 DEF Address, a, c
  <1> QED
    BY <1>1, <1>2, <1>3, <1>6 DEF Tasks, a, c, o

\* The invariant is enough for DeployedAsPlanned.
LEMMA PlannedByInv == DeploymentInv => DeployedAsPlanned
  <1> SUFFICES ASSUME DeploymentInv, NEW r \in Runs, task[r].phase \in Done, Alone(r)
               PROVE  Connected(r)
    BY DEF DeployedAsPlanned, Deployed, Done
  <1> DEFINE o == IF task[r].script = "deploy" THEN 0 ELSE 1
             a == task[r].address
  <1>1. task[r] \in Tasks /\ Told(r) /\ Len(a) = Len(Contracts(task[r].script))
    BY DEF DeploymentInv, Complete
  <1>2. /\ Len(a) = 10 + o
        /\ Address(r, "NounsToken") = a[4 + o]
        /\ Address(r, "NounsAuctionHouseProxy") = a[7 + o]
        /\ Address(r, "NounsDAOExecutor") = a[8 + o]
        /\ Address(r, "NounsDAOProxy") = a[10 + o]
        /\ Contracts(task[r].script)[4 + o] = "NounsToken"
        /\ Contracts(task[r].script)[8 + o] = "NounsDAOExecutor"
    BY <1>1, Positions
  <1>3. /\ \A i \in 1..10 + o : a[i] = task[r].nonce + i - 1
        /\ task[r].nonce \in Nat
    BY <1>1, <1>2, SMTT(30) DEF Alone, Tasks
  <1>4. /\ AUCTION_HOUSE_PROXY_NONCE_OFFSET(task[r].script) = 6 + o
        /\ GOVERNOR_N_DELEGATOR_NONCE_OFFSET(task[r].script) = 9 + o
    BY DEF AUCTION_HOUSE_PROXY_NONCE_OFFSET, GOVERNOR_N_DELEGATOR_NONCE_OFFSET
  <1>5. /\ o \in {0, 1} /\ 4 + o \in 1..10 + o /\ 7 + o \in 1..10 + o
        /\ 8 + o \in 1..10 + o /\ 10 + o \in 1..10 + o
    OBVIOUS
  <1> HIDE DEF o
  <1>6. ledger[a[4 + o] + 1].args.minter = task[r].nonce + (6 + o)
    BY <1>1, <1>2, <1>4, <1>5, Zenon DEF Told
  <1>7. ledger[a[8 + o] + 1].args.admin = task[r].nonce + (9 + o)
    BY <1>1, <1>2, <1>4, <1>5, Zenon DEF Told
  <1> HIDE DEF a
  <1>8. a[7 + o] = task[r].nonce + (6 + o) /\ a[10 + o] = task[r].nonce + (9 + o)
    BY <1>3, <1>5
  <1> QED
    BY <1>2, <1>6, <1>7, <1>8 DEF Connected

\* What a run has been told stays when only other runs, or its phase, change.
LEMMA ToldStays ==
    ASSUME NEW r \in Runs, Told(r), task[r] \in Tasks,
           task'[r].address = task[r].address, task'[r].nonce = task[r].nonce,
           task'[r].script = task[r].script, Len(ledger) \in Nat, Len(ledger') \in Nat,
           Len(ledger) <= Len(ledger'),
           \A i \in 1..Len(ledger) : ledger'[i].args = ledger[i].args
    PROVE  Told(r)'
  <1> SUFFICES ASSUME NEW i \in 1..Len(task[r].address)
               PROVE  /\ task[r].address[i] + 1 \in 1..Len(ledger')
                      /\ ledger'[task[r].address[i] + 1].args = ledger[task[r].address[i] + 1].args
    BY DEF Told
  <1>1. task[r].address[i] + 1 \in 1..Len(ledger)
    BY DEF Told
  <1> QED
    BY <1>1

\* A transaction is the last of the ledger.
LEMMA SentAppends ==
    ASSUME NEW r, NEW name, NEW args, Sent(r, name, args), IsSequence(ledger), mined \in Nat
    PROVE  /\ IsSequence(ledger') /\ Len(ledger) \in Nat /\ Len(ledger') = Len(ledger) + 1
           /\ \A i \in 1..Len(ledger) : ledger'[i] = ledger[i]
           /\ ledger'[Len(ledger) + 1].args = args
           /\ mined' \in Nat
  <1> DEFINE e == [run |-> r, name |-> name, args |-> args, succeeded |-> network = "local"]
  <1>1. ledger' = Append(ledger, e) /\ e.args = args
    BY DEF Sent
  <1> HIDE DEF e
  <1> QED
    BY <1>1, Appended DEF Sent

\* Every step of a task keeps the invariant.
LEMMA DeploymentStays ==
    ASSUME DeploymentInv, [DeploymentNext]_deploymentVars
    PROVE  DeploymentInv'
  <1> USE DEF DeploymentInv
  <1>0. Len(ledger) \in Nat
    BY Appended
  <1>1. ASSUME NEW r \in Runs, NEW script \in {"deploy", "deploy-local"}, Start(r, script)
        PROVE  DeploymentInv'
    <2>1. task' \in [Runs -> Tasks] /\ task'[r].address = <<>> /\ task'[r].phase = "deploying"
      BY <1>1 DEF Start, Tasks, Done
    <2>2. ASSUME NEW q \in Runs PROVE Told(q)' /\ Complete(q)'
      <3>1. CASE q = r
        BY <2>1, <3>1 DEF Told, Complete, Done
      <3>2. CASE q # r
        <4>1. task'[q] = task[q] /\ ledger' = ledger
          BY <1>1, <3>2 DEF Start
        <4> QED
          BY <4>1 DEF Told, Complete
      <3> QED
        BY <3>1, <3>2
    <2> QED
      BY <1>1, <2>1, <2>2 DEF Start, Tasks, Done
  <1>2. ASSUME NEW r \in Runs, Deploy(r)
        PROVE  DeploymentInv'
    <2> DEFINE args == Args(r, Name(r))
               n == Len(task[r].address)
               c == Contracts(task[r].script)
    <2>1. /\ IsSequence(ledger') /\ Len(ledger') = Len(ledger) + 1
          /\ \A i \in 1..Len(ledger) : ledger'[i] = ledger[i]
          /\ ledger'[Len(ledger) + 1].args = args
          /\ mined' \in Nat
      BY <1>2, SentAppends DEF Deploy
    <2>2. task[r] \in Tasks /\ n \in Nat
      BY DEF Tasks
    <2>3. /\ task'[r].address = Append(task[r].address, Len(ledger))
          /\ task'[r].nonce = task[r].nonce /\ task'[r].script = task[r].script
          /\ task'[r].phase = "deploying"
          /\ task' \in [Runs -> Tasks]
          /\ \A q \in Runs : q # r => task'[q] = task[q]
      <3> DEFINE b == Append(task[r].address, Len(ledger))
                 t == [script |-> task[r].script, phase |-> "deploying",
                       nonce |-> task[r].nonce, address |-> b]
      <3>1. b \in Seq(Nat)
        BY <1>0, <2>2 DEF Tasks
      <3>2. task' = [task EXCEPT ![r].address = b] /\ task[r].phase = "deploying"
        BY <1>2 DEF Deploy
      <3> HIDE DEF b
      <3>3. t \in Tasks /\ [task[r] EXCEPT !.address = b] = t
        BY <2>2, <3>1, <3>2, SMTT(30) DEF Tasks
      <3>4. task' = [task EXCEPT ![r] = t]
        BY <3>2, <3>3
      <3>5. task' \in [Runs -> Tasks] /\ task'[r] = t /\ \A q \in Runs : q # r => task'[q] = task[q]
        <4> HIDE DEF t
        <4> QED
          BY <3>3, <3>4
      <3> QED
        BY <3>2, <3>5 DEF b
    <2>4. /\ Len(task'[r].address) = n + 1 /\ task'[r].address[n + 1] = Len(ledger)
          /\ \A i \in 1..n : task'[r].address[i] = task[r].address[i]
      BY <1>0, <2>2, <2>3 DEF Tasks
    <2>5. Told(r)'
      <3>1. ASSUME NEW i \in 1..n
            PROVE  /\ task'[r].address[i] + 1 \in 1..Len(ledger')
                   /\ c[i] = "NounsToken" =>
                         ledger'[task'[r].address[i] + 1].args.minter
                             = task[r].nonce + AUCTION_HOUSE_PROXY_NONCE_OFFSET(task[r].script)
                   /\ c[i] = "NounsDAOExecutor" =>
                         ledger'[task'[r].address[i] + 1].args.admin
                             = task[r].nonce + GOVERNOR_N_DELEGATOR_NONCE_OFFSET(task[r].script)
        <4>1. task[r].address[i] + 1 \in 1..Len(ledger)
          BY DEF Told
        <4>2. /\ ledger'[task'[r].address[i] + 1] = ledger[task[r].address[i] + 1]
              /\ task'[r].address[i] + 1 \in 1..Len(ledger')
          BY <1>0, <2>1, <2>4, <4>1, SMTT(30)
        <4>3. Told(r)
          OBVIOUS
        <4> HIDE DEF DeploymentInv
        <4> QED
          BY <4>2, <4>3, Zenon DEF Told
      <3>2. /\ c[n + 1] = "NounsToken" =>
                   args.minter = task[r].nonce + AUCTION_HOUSE_PROXY_NONCE_OFFSET(task[r].script)
            /\ c[n + 1] = "NounsDAOExecutor" =>
                   args.admin = task[r].nonce + GOVERNOR_N_DELEGATOR_NONCE_OFFSET(task[r].script)
        BY DEF Args, Name
      <3> HIDE DEF args, n, c
      <3>3. ASSUME NEW i \in 1..n + 1
            PROVE  /\ task'[r].address[i] + 1 \in 1..Len(ledger')
                   /\ c[i] = "NounsToken" =>
                         ledger'[task'[r].address[i] + 1].args.minter
                             = task[r].nonce + AUCTION_HOUSE_PROXY_NONCE_OFFSET(task[r].script)
                   /\ c[i] = "NounsDAOExecutor" =>
                         ledger'[task'[r].address[i] + 1].args.admin
                             = task[r].nonce + GOVERNOR_N_DELEGATOR_NONCE_OFFSET(task[r].script)
        <4>1. CASE i \in 1..n
          BY <3>1, <4>1
        <4>2. CASE i = n + 1
          BY <1>0, <2>1, <2>4, <3>2, <4>2
        <4> QED
          BY <2>2, <4>1, <4>2
      <3> QED
        BY <2>3, <2>4, <3>3 DEF Told, c
    <2>6. ASSUME NEW q \in Runs PROVE Told(q)' /\ Complete(q)'
      <3>1. CASE q = r
        BY <2>3, <2>5, <3>1 DEF Complete, Done
      <3>2. CASE q # r
        <4>1. task'[q] = task[q]
          BY <2>3, <3>2
        <4>2. Told(q)'
          BY <1>0, <2>1, <4>1, ToldStays
        <4> QED
          BY <4>1, <4>2 DEF Complete
      <3> QED
        BY <3>1, <3>2
    <2> QED
      BY <2>1, <2>3, <2>6
  <1>3. ASSUME NEW r \in Runs, Exit(r)
        PROVE  DeploymentInv'
    <2> DEFINE t == [script |-> task[r].script, phase |-> "exited", nonce |-> 0,
                     address |-> <<>>]
    <2>0. task' = [task EXCEPT ![r] = t] /\ t \in Tasks
      <3>1. task[r] \in Tasks
        OBVIOUS
      <3>3. t \in Tasks
        BY <3>1 DEF Tasks
      <3> QED
        BY <1>3, <3>3 DEF Exit
    <2>1. task' \in [Runs -> Tasks] /\ task'[r].address = <<>> /\ task'[r].phase = "exited"
      BY <2>0
    <2>2. ASSUME NEW q \in Runs PROVE Told(q)' /\ Complete(q)'
      <3>1. CASE q = r
        BY <2>1, <3>1 DEF Told, Complete, Done
      <3>2. CASE q # r
        <4>1. task'[q] = task[q] /\ ledger' = ledger
          BY <1>3, <3>2 DEF Exit
        <4> QED
          BY <4>1 DEF Told, Complete
      <3> QED
        BY <3>1, <3>2
    <2> QED
      BY <1>3, <2>1, <2>2 DEF Exit, Tasks, Done
  <1>4. ASSUME NEW r \in Runs, Finish(r)
        PROVE  DeploymentInv'
    <2>1. /\ task' \in [Runs -> Tasks] /\ task'[r].address = task[r].address
          /\ task'[r].nonce = task[r].nonce /\ task'[r].script = task[r].script
          /\ \A q \in Runs : q # r => task'[q] = task[q]
      BY <1>4 DEF Finish, Tasks, Done
    <2>2. ASSUME NEW q \in Runs PROVE Told(q)' /\ Complete(q)'
      <3>1. Told(q)'
        BY <1>0, <1>4, <2>1, ToldStays DEF Finish
      <3>2. Complete(q)'
        BY <1>4, <2>1 DEF Finish, Complete
      <3> QED
        BY <3>1, <3>2
    <2> QED
      BY <1>4, <2>1, <2>2 DEF Finish
  <1>5. ASSUME NEW r \in Runs, NEW from \in Done, NEW to \in Done, NEW name,
               LocalStep(r, from, to, name)
        PROVE  DeploymentInv'
    <2>1. /\ task' \in [Runs -> Tasks] /\ task'[r].address = task[r].address
          /\ task'[r].nonce = task[r].nonce /\ task'[r].script = task[r].script
          /\ \A q \in Runs : q # r => task'[q] = task[q]
          /\ task[r].phase \in Done
      BY <1>5 DEF LocalStep, Tasks, Done
    <2>2. /\ IsSequence(ledger') /\ Len(ledger') = Len(ledger) + 1 /\ mined' \in Nat
          /\ \A i \in 1..Len(ledger) : ledger'[i] = ledger[i]
      BY <1>5, SentAppends DEF LocalStep
    <2>3. ASSUME NEW q \in Runs PROVE Told(q)' /\ Complete(q)'
      <3>1. task'[q].address = task[q].address /\ task'[q].nonce = task[q].nonce
            /\ task'[q].script = task[q].script
        BY <2>1
      <3>2. Told(q)'
        BY <1>0, <2>2, <3>1, ToldStays
      <3>3. Complete(q)'
        BY <2>1, <3>1 DEF Complete
      <3> QED
        BY <3>2, <3>3
    <2> QED
      BY <2>1, <2>2, <2>3
  <1>6. ASSUME NEW succeeds \in BOOLEAN, MineNext(succeeds)
        PROVE  DeploymentInv'
    <2>1. mined + 1 \in 1..Len(ledger)
      BY <1>0, <1>6 DEF MineNext
    <2>2. /\ IsSequence(ledger') /\ Len(ledger') = Len(ledger)
          /\ \A i \in 1..Len(ledger) : ledger'[i].args = ledger[i].args
      <3> DEFINE e == [ledger[mined + 1] EXCEPT !.succeeded = succeeds]
      <3>1. ledger' = [ledger EXCEPT ![mined + 1] = e] /\ e.args = ledger[mined + 1].args
        BY <1>6 DEF MineNext
      <3> HIDE DEF e
      <3>2. IsSequence(ledger)
        OBVIOUS
      <3> DEFINE k == mined + 1
      <3>3. k \in 1..Len(ledger) /\ e.args = ledger[k].args
        BY <2>1, <3>1
      <3>4. ledger' = [ledger EXCEPT ![k] = e]
        BY <3>1
      <3> HIDE DEF k, DeploymentInv
      <3>5. /\ IsSequence([ledger EXCEPT ![k] = e]) /\ Len([ledger EXCEPT ![k] = e]) = Len(ledger)
            /\ \A i \in 1..Len(ledger) : [ledger EXCEPT ![k] = e][i].args = ledger[i].args
        BY <3>2, <3>3, EntryUpdated
      <3> QED
        BY <3>4, <3>5
    <2>3. ASSUME NEW q \in Runs PROVE Told(q)' /\ Complete(q)'
      <3>1. Told(q)'
        BY <1>0, <1>6, <2>2, ToldStays DEF MineNext
      <3> QED
        BY <1>6, <3>1 DEF MineNext, Complete
    <2> QED
      BY <1>6, <2>2, <2>3 DEF MineNext
  <1>7. CASE UNCHANGED deploymentVars
    BY <1>7 DEF deploymentVars, Told, Complete
  <1>8. ASSUME NEW r \in Runs, PopulateDescriptor(r) \/ Unpause(r) \/ CreateProposal(r)
        PROVE  DeploymentInv'
    <2>1. \E from \in Done, to \in Done : \E name : LocalStep(r, from, to, name)
      BY <1>8 DEF PopulateDescriptor, Unpause, CreateProposal, Done
    <2> QED
      BY <1>5, <2>1
  <1> QED
    BY <1>1, <1>2, <1>3, <1>4, <1>6, <1>7, <1>8 DEF DeploymentNext

\* The token is told the auction house's proxy and the timelock the DAO's, in every
\* deployment that had the account for itself, whatever other runs do.
THEOREM DeployedAsPlannedAlways == DeploymentSpec => []DeployedAsPlanned
  <1>1. DeploymentInit => DeploymentInv
    BY DeploymentStarts
  <1>2. DeploymentInv /\ [DeploymentNext]_deploymentVars => DeploymentInv'
    BY DeploymentStays
  <1>3. DeploymentInv => DeployedAsPlanned
    BY PlannedByInv
  <1> QED
    BY <1>1, <1>2, <1>3, PTL DEF DeploymentSpec
=============================================================================
