-------------------------- MODULE NounsImageProofs --------------------------
(***************************************************************************)
(* What holds of pictures encoded by the SDK and drawn by the page and the *)
(* contract, for all sizes, pictures and palettes.  An encoded picture     *)
(* Covers its picture: its rects lead from the top over every pixel within *)
(* the bounds, each over pixels of its color.  What covers a picture is    *)
(* drawn right by both programs, and every framed picture is encoded as an *)
(* image that covers it.                                                   *)
(***************************************************************************)
EXTENDS NounsImage, FiniteSetTheorems, WellFoundedInduction, NaturalsInduction,
        SequenceTheorems, TLAPS

-----------------------------------------------------------------------------
(* Folds over sequences, one element after the other.                      *)

\* A set of natural numbers that is not empty has a smallest member.
LEMMA SmallestOf ==
    ASSUME NEW T \in SUBSET Nat, T # {}
    PROVE  \E m \in T : \A k \in T : m <= k
  <1> DEFINE R == OpToRel(<, Nat)
  <1>1. IsWellFoundedOn(R, Nat)
    BY NatLessThanWellFounded
  <1>2. PICK m \in T : \A k \in T : ~(<<k, m>> \in R)
    <2> HIDE DEF R
    <2> QED
      BY <1>1, WFMin
  <1>3. \A k \in T : <<k, m>> \in R <=> k < m
    BY DEF OpToRel
  <1> HIDE DEF R
  <1>4. \A k \in T : ~(k < m)
    BY <1>2, <1>3
  <1> QED
    BY <1>4

\* A set with zero that has the successor of each of its numbers below n has all up to n.
LEMMA Reached ==
    ASSUME NEW n \in Nat, NEW T, 0 \in T,
           \A k \in 0..n - 1 : k \in T => k + 1 \in T
    PROVE  \A k \in 0..n : k \in T
  <1> DEFINE missing == {k \in 0..n : k \notin T}
  <1>1. ASSUME missing # {} PROVE FALSE
    <2>1. missing \in SUBSET Nat
      OBVIOUS
    <2>2. PICK m \in missing : \A k \in missing : m <= k
      <3> HIDE DEF missing
      <3> QED
        BY <1>1, <2>1, SmallestOf
    <2>3. m \in 1..n /\ m - 1 \in 0..n - 1 /\ m - 1 \in T
      BY <2>2
    <2> QED
      BY <2>3
  <1> QED
    BY <1>1

\* The last of the first k.
LEMMA MaxOfPrefix ==
    ASSUME NEW k \in Nat, NEW s \in SUBSET (1..k + 1), k + 1 \in s
    PROVE  Max(s) = k + 1
  <1>1. \A y \in s : k + 1 >= y
    OBVIOUS
  <1>2. Max(s) \in s /\ \A y \in s : Max(s) >= y
    BY <1>1 DEF Max
  <1>3. Max(s) \in 1..k + 1 /\ Max(s) >= k + 1
    BY <1>2
  <1> QED
    BY <1>3

\* g folds the subsets of 1..n with their highest member last, f the first k numbers.
FoldsSets(g, X, base, n, step) ==
    /\ g[{}] = base
    /\ \A s \in SUBSET (1..n) :
           s # {} /\ g[s \ {Max(s)}] \in X => g[s] = step[<<g[s \ {Max(s)}], Max(s)>>]

FoldsPrefixes(f, X, base, n, step, last) ==
    /\ f \in [0..n -> X] /\ f[0] = base /\ f[n] = last
    /\ \A k \in 1..n : f[k] = step[<<f[k - 1], k>>]

\* There is such a g.
LEMMA PrefixFold ==
    ASSUME NEW X, NEW base \in X, NEW n \in Nat, NEW step \in [X \X (1..n) -> X]
    PROVE  \E g \in [SUBSET (1..n) -> X] : FoldsSets(g, X, base, n, step)
  <1> DEFINE Good(k, g) == g \in [SUBSET (1..k) -> X] /\ FoldsSets(g, X, base, k, step)
             T == {k \in 0..n : \E g : Good(k, g)}
  <1>1. 0 \in T
    <2>1. Good(0, [s \in SUBSET (1..0) |-> base])
      <3>1. 1..0 = {}
        OBVIOUS
      <3> QED
        BY <3>1 DEF FoldsSets
    <2> HIDE DEF Good
    <2> QED
      BY <2>1
  <1>2. ASSUME NEW k \in 0..n - 1, k \in T PROVE k + 1 \in T
    <2>1. PICK g : Good(k, g)
      BY <1>2
    <2> DEFINE lower(s) == s \ {k + 1}
               h == [s \in SUBSET (1..k + 1) |->
                        IF k + 1 \in s THEN step[<<g[lower(s)], k + 1>>] ELSE g[s]]
    <2>2. ASSUME NEW s \in SUBSET (1..k + 1) PROVE lower(s) \in SUBSET (1..k)
      OBVIOUS
    <2>3. ASSUME NEW s \in SUBSET (1..k + 1), k + 1 \notin s PROVE s \in SUBSET (1..k)
      BY <2>3
    <2>4. ASSUME NEW s \in SUBSET (1..k + 1)
          PROVE  h[s] = IF s = {} THEN base ELSE step[<<h[s \ {Max(s)}], Max(s)>>]
      <3>1. CASE k + 1 \in s
        <4>1. Max(s) = k + 1
          BY <3>1, MaxOfPrefix
        <4>2. lower(s) \in SUBSET (1..k) /\ lower(s) \in SUBSET (1..k + 1) /\ k + 1 \notin lower(s)
          OBVIOUS
        <4>3. h[lower(s)] = g[lower(s)]
          BY <4>2
        <4> QED
          BY <3>1, <4>1, <4>3
      <3>2. CASE k + 1 \notin s
        <4>1. s \in SUBSET (1..k) /\ h[s] = g[s]
          BY <2>3, <3>2
        <4>2. s \ {Max(s)} \in SUBSET (1..k) /\ k + 1 \notin s \ {Max(s)}
          <5> HIDE DEF h
          <5> QED
            BY <3>2, <4>1
        <4>3. s \ {Max(s)} \in SUBSET (1..k + 1)
          OBVIOUS
        <4>4. h[s \ {Max(s)}] = g[s \ {Max(s)}]
          BY <4>2, <4>3
        <4>5. g[s] = IF s = {} THEN base ELSE step[<<g[s \ {Max(s)}], Max(s)>>]
          BY <2>1, <4>1 DEF FoldsSets
        <4> HIDE DEF h
        <4> QED
          BY <4>1, <4>4, <4>5
      <3> QED
        BY <3>1, <3>2
    <2>5. h \in [SUBSET (1..k + 1) -> X]
      <3>1. ASSUME NEW s \in SUBSET (1..k + 1) PROVE h[s] \in X
        <4>1. CASE k + 1 \in s
          <5>1. g[lower(s)] \in X
            BY <2>1, <2>2
          <5>2. k + 1 \in 1..n
            OBVIOUS
          <5> QED
            BY <4>1, <5>1, <5>2
        <4>2. CASE k + 1 \notin s
          BY <2>1, <2>3, <4>2
        <4> QED
          BY <4>1, <4>2
      <3> QED
        BY <3>1
    <2>6. Good(k + 1, h)
      <3> HIDE DEF h
      <3> QED
        BY <2>4, <2>5 DEF FoldsSets
    <2> HIDE DEF Good, h
    <2> QED
      BY <2>6
  <1>3. n \in T
    <2> HIDE DEF T
    <2> QED
      BY <1>1, <1>2, Reached
  <1> QED
    BY <1>3

\* Of some positions one is the highest.
LEMMA LastOf ==
    ASSUME NEW n \in Nat, NEW s \in SUBSET (1..n), s # {}
    PROVE  /\ Max(s) \in s /\ Max(s) \in 1..n /\ s \ {Max(s)} \in SUBSET (1..n)
           /\ \A i \in s : i <= Max(s)
  <1> DEFINE T == {n - i : i \in s}
  <1>1. T \in SUBSET Nat /\ T # {}
    <2>1. \A i \in s : n - i \in Nat
      OBVIOUS
    <2>2. PICK i \in s : TRUE
      OBVIOUS
    <2>3. n - i \in T
      OBVIOUS
    <2> QED
      BY <2>1, <2>3
  <1>2. PICK m \in T : \A j \in T : m <= j
    <2> HIDE DEF T
    <2> QED
      BY <1>1, SmallestOf
  <1>3. PICK x \in s : m = n - x
    OBVIOUS
  <1>4. \A y \in s : x >= y
    <2> SUFFICES ASSUME NEW y \in s PROVE x >= y
      OBVIOUS
    <2>1. n - y \in T
      OBVIOUS
    <2>2. m <= n - y
      <3> HIDE DEF T
      <3> QED
        BY <1>2, <2>1
    <2> QED
      BY <1>3, <2>2
  <1>5. Max(s) \in s /\ \A y \in s : Max(s) >= y
    BY <1>4 DEF Max
  <1>6. \A y \in s : y \in Int
    OBVIOUS
  <1> QED
    BY <1>5, <1>6

\* The first k numbers, and the highest of them.
LEMMA PrefixSets ==
    ASSUME NEW n \in Nat, NEW k \in 1..n
    PROVE  /\ 1..k \in SUBSET (1..n) /\ 1..k # {}
           /\ Max(1..k) = k /\ (1..k) \ {k} = 1..k - 1
  <1> DEFINE j == k - 1
  <1>1. j \in Nat /\ j + 1 = k /\ 1..k \in SUBSET (1..j + 1) /\ j + 1 \in 1..k
    OBVIOUS
  <1>2. Max(1..k) = j + 1
    <2> HIDE DEF j
    <2> QED
      BY <1>1, MaxOfPrefix
  <1>3. k \in 1..k /\ \A i \in 1..k : i \in 1..n
    OBVIOUS
  <1> QED
    BY <1>1, <1>2, <1>3

\* What such a function has for the first k, one after the other.
LEMMA PrefixesOf ==
    ASSUME NEW X, NEW base \in X, NEW n \in Nat, NEW step \in [X \X (1..n) -> X], NEW g,
           FoldsSets(g, X, base, n, step)
    PROVE  \E f : FoldsPrefixes(f, X, base, n, step, g[1..n])
  <1> DEFINE f == [k \in 0..n |-> g[1..k]]
             T == {k \in 0..n : f[k] \in X}
  <1>1. f[0] = base
    <2>1. 1..0 = {}
      OBVIOUS
    <2>2. g[{}] = base
      BY DEF FoldsSets
    <2>3. f[0] = g[1..0]
      OBVIOUS
    <2> HIDE DEF f
    <2> QED
      BY <2>1, <2>2, <2>3
  <1>2. ASSUME NEW k \in 1..n, f[k - 1] \in X PROVE f[k] = step[<<f[k - 1], k>>]
    <2>1. f[k] = g[1..k] /\ f[k - 1] = g[1..k - 1]
      OBVIOUS
    <2> HIDE DEF f
    <2>2. g[1..k] = step[<<g[1..k - 1], k>>]
      BY <1>2, <2>1, PrefixSets DEF FoldsSets
    <2> QED
      BY <2>1, <2>2
  <1>3. \A k \in 0..n : k \in T
    <2>1. 0 \in T
      BY <1>1
    <2>2. \A k \in 0..n - 1 : k \in T => k + 1 \in T
      <3> SUFFICES ASSUME NEW k \in 0..n - 1, k \in T PROVE k + 1 \in T
        OBVIOUS
      <3>1. k + 1 \in 1..n /\ (k + 1) - 1 = k /\ f[k] \in X
        OBVIOUS
      <3> HIDE DEF f
      <3>2. f[k + 1] = step[<<f[k], k + 1>>]
        BY <1>2, <3>1
      <3> QED
        BY <3>1, <3>2
    <2> HIDE DEF T
    <2> QED
      BY <2>1, <2>2, Reached
  <1>4. f \in [0..n -> X] /\ f[n] = g[1..n]
    BY <1>3
  <1>5. \A k \in 1..n : f[k - 1] \in X
    BY <1>3
  <1> HIDE DEF f
  <1> QED
    BY <1>1, <1>2, <1>4, <1>5 DEF FoldsPrefixes

\* Likewise a function of 0..n that has the value at k from that at k - 1.
LEMMA RecursionExists ==
    ASSUME NEW X, NEW base \in X, NEW n \in Nat, NEW step \in [X \X (1..n) -> X]
    PROVE  \E f, last : FoldsPrefixes(f, X, base, n, step, last)
  <1>1. PICK g \in [SUBSET (1..n) -> X] : FoldsSets(g, X, base, n, step)
    BY PrefixFold
  <1> QED
    BY <1>1, PrefixesOf
\* What is appended to the second of two sequences is appended to both.
LEMMA AppendToSecond ==
    ASSUME NEW S, NEW s \in Seq(S), NEW t \in Seq(S), NEW x \in S
    PROVE  s \o Append(t, x) = Append(s \o t, x)
  OBVIOUS

-----------------------------------------------------------------------------
(* The two programs that draw.                                             *)

Keys == Hex \cup {NoColor}
Rect == [length : Nat, colorIndex : Nat]
SvgRect == [width : Nat, x : Int, y : Int, fill : Keys]
Place == [x : Int, y : Int]
Image == [top : Int, right : Int, left : Int, rects : Seq(Rect)]

\* Where an image begins.
Origin(image) == [x |-> image.left, y |-> image.top]

\* The rect of an SVG that stands for one of an image.
Drawing(palette, at, rect) ==
    [width |-> rect.length, x |-> at.x, y |-> at.y, fill |-> Fill(palette, rect.colorIndex)]

\* What the contract's tables hold.
InTables(palette, at, rect) ==
    /\ rect.length <= Width
    /\ at.x <= Width /\ at.y <= Width
    /\ rect.colorIndex < Len(palette)

\* What each program does with one rect.
Built(image, palette, state, rect) ==
    [at |-> Moved(state.at, rect, image),
     svg |-> IF rect.colorIndex = 0 THEN state.svg
             ELSE Append(state.svg, Drawing(palette, state.at, rect))]
NothingBuilt(image) == [at |-> Origin(image), svg |-> <<>>]
BuildStates == [at : Place, svg : Seq(SvgRect)]

Generated(image, palette, state, rect) ==
    [at |-> Moved(state.at, rect, image),
     buffer |-> IF rect.colorIndex = 0 THEN state.buffer
                ELSE IF Len(Append(state.buffer, Drawing(palette, state.at, rect))) >= 4
                     THEN <<>> ELSE Append(state.buffer, Drawing(palette, state.at, rect)),
     part |-> IF /\ rect.colorIndex # 0
                 /\ Len(Append(state.buffer, Drawing(palette, state.at, rect))) >= 4
              THEN state.part \o Append(state.buffer, Drawing(palette, state.at, rect))
              ELSE state.part,
     panic |-> state.panic \/ (rect.colorIndex # 0 /\ ~InTables(palette, state.at, rect))]
NothingGenerated(image) == [at |-> Origin(image), buffer |-> <<>>, part |-> <<>>, panic |-> FALSE]
GenerateStates == [at : Place, buffer : Seq(SvgRect), part : Seq(SvgRect), panic : BOOLEAN]

\* buildSVG written out: the fold is a function of the sets of positions.
LEMMA BuildIs ==
    ASSUME NEW image, NEW palette
    PROVE  buildSVG(image, palette) =
               (CHOOSE g : g = [s \in SUBSET DOMAIN image.rects |->
                                  IF s = {} THEN NothingBuilt(image)
                                  ELSE Built(image, palette, g[s \ {Max(s)}], image.rects[Max(s)])])
                  [DOMAIN image.rects].svg
  BY Zenon DEF buildSVG, FoldLeft, MapThenFoldSet, Built, NothingBuilt, Drawing, Origin

\* _generateSVGRects written out likewise.
LEMMA GenerateIs ==
    ASSUME NEW image, NEW palette
    PROVE  LET h == (CHOOSE g : g =
                      [s \in SUBSET DOMAIN image.rects |->
                          IF s = {} THEN NothingGenerated(image)
                          ELSE Generated(image, palette, g[s \ {Max(s)}], image.rects[Max(s)])])
                            [DOMAIN image.rects]
           IN  GenerateRects(image, palette) = [panic |-> h.panic, part |-> h.part \o h.buffer]
  BY Zenon DEF GenerateRects, FoldLeft, MapThenFoldSet, Generated, NothingGenerated, Drawing, Origin, InTables

\* A rect of an SVG has a number for its width and a color to fill it with.
LEMMA DrawingTyped ==
    ASSUME NEW palette \in Seq(Keys), NEW at \in Place, NEW rect \in Rect
    PROVE  Drawing(palette, at, rect) \in SvgRect
  <1>1. Fill(palette, rect.colorIndex) \in Keys
    <2>1. rect.colorIndex \in Nat
      BY DEF Rect
    <2>2. CASE rect.colorIndex < Len(palette)
      <3>1. rect.colorIndex + 1 \in 1..Len(palette)
        BY <2>1, <2>2
      <3> QED
        BY <2>2, <3>1 DEF Fill
    <2>3. CASE ~(rect.colorIndex < Len(palette))
      BY <2>3 DEF Fill, Keys
    <2> QED
      BY <2>2, <2>3
  <1> QED
    BY <1>1 DEF Drawing, SvgRect, Place, Rect

\* The place after a rect is a place.
LEMMA MovedTyped ==
    ASSUME NEW image \in Image, NEW at \in Place, NEW rect \in Rect
    PROVE  Moved(at, rect, image) \in Place
  BY DEF Moved, Place, Rect, Image

\* The page's loop goes from state to state.
LEMMA BuiltTyped ==
    ASSUME NEW image \in Image, NEW palette \in Seq(Keys), NEW state \in BuildStates,
           NEW rect \in Rect
    PROVE  Built(image, palette, state, rect) \in BuildStates
  <1>1. state.at \in Place /\ state.svg \in Seq(SvgRect)
    BY DEF BuildStates
  <1>2. Append(state.svg, Drawing(palette, state.at, rect)) \in Seq(SvgRect)
    BY <1>1, DrawingTyped, AppendProperties
  <1>3. Moved(state.at, rect, image) \in Place
    BY <1>1, MovedTyped
  <1> QED
    BY <1>1, <1>2, <1>3 DEF Built, BuildStates

\* So does the contract's.
LEMMA GeneratedTyped ==
    ASSUME NEW image \in Image, NEW palette \in Seq(Keys), NEW state \in GenerateStates,
           NEW rect \in Rect
    PROVE  Generated(image, palette, state, rect) \in GenerateStates
  <1>1. /\ state.at \in Place /\ state.buffer \in Seq(SvgRect) /\ state.part \in Seq(SvgRect)
        /\ state.panic \in BOOLEAN
    BY DEF GenerateStates
  <1> DEFINE full == Append(state.buffer, Drawing(palette, state.at, rect))
  <1>2. full \in Seq(SvgRect)
    BY <1>1, DrawingTyped, AppendProperties
  <1>3. Moved(state.at, rect, image) \in Place
    BY <1>1, MovedTyped
  <1> HIDE DEF full
  <1>4. state.part \o full \in Seq(SvgRect)
    BY <1>1, <1>2, ConcatProperties
  <1>5. <<>> \in Seq(SvgRect)
    BY EmptySeq
  <1> QED
    BY <1>1, <1>2, <1>3, <1>4, <1>5, Zenon DEF Generated, GenerateStates, full

\* The states of the page's loop.
LEMMA BuildRuns ==
    ASSUME NEW image \in Image, NEW palette \in Seq(Keys)
    PROVE  \E f \in [0..Len(image.rects) -> BuildStates] :
               /\ f[0] = NothingBuilt(image)
               /\ \A k \in 1..Len(image.rects) :
                      f[k] = Built(image, palette, f[k - 1], image.rects[k])
               /\ buildSVG(image, palette) = f[Len(image.rects)].svg
  <1> DEFINE seq == image.rects
             n == Len(seq)
             step == [p \in BuildStates \X (1..n) |-> Built(image, palette, p[1], seq[p[2]])]
             Folded(g) == [s \in SUBSET DOMAIN seq |->
                              IF s = {} THEN NothingBuilt(image) ELSE Built(image, palette, g[s \ {Max(s)}], seq[Max(s)])]
             G == CHOOSE g : g = Folded(g)
  <1>1. n \in Nat /\ DOMAIN seq = 1..n
    BY DEF Image
  <1>2. NothingBuilt(image) \in BuildStates
    BY EmptySeq DEF NothingBuilt, BuildStates, Origin, Place, Image
  <1>3. \A x \in BuildStates, k \in 1..n :
            /\ Built(image, palette, x, seq[k]) \in BuildStates
            /\ step[<<x, k>>] = Built(image, palette, x, seq[k])
    <2>1. \A k \in 1..n : seq[k] \in Rect
      BY DEF Image
    <2> HIDE DEF seq, n
    <2> QED
      BY <2>1, BuiltTyped
  <1>4. step \in [BuildStates \X (1..n) -> BuildStates]
    BY <1>3
  <1> HIDE DEF step, seq, n
  <1>5. PICK g \in [SUBSET (1..n) -> BuildStates] : FoldsSets(g, BuildStates, NothingBuilt(image), n, step)
    BY <1>1, <1>2, <1>4, PrefixFold
  <1>6. g = Folded(g)
    <2>1. ASSUME NEW s \in SUBSET (1..n)
          PROVE  g[s] = IF s = {} THEN NothingBuilt(image) ELSE Built(image, palette, g[s \ {Max(s)}], seq[Max(s)])
      <3>1. CASE s = {}
        BY <1>5, <3>1 DEF FoldsSets
      <3>2. CASE s # {}
        <4>1. Max(s) \in 1..n /\ s \ {Max(s)} \in SUBSET (1..n)
          BY <1>1, <3>2, LastOf
        <4>2. g[s \ {Max(s)}] \in BuildStates
          BY <1>5, <4>1
        <4> QED
          BY <1>3, <1>5, <3>2, <4>1, <4>2 DEF FoldsSets
      <3> QED
        BY <3>1, <3>2
    <2> QED
      BY <1>1, <2>1
  <1>7. G = Folded(G)
    BY <1>6
  <1> HIDE DEF G
  <1>8. FoldsSets(G, BuildStates, NothingBuilt(image), n, step)
    <2>1. \A s \in SUBSET (1..n) : s # {} => Max(s) \in 1..n
      BY <1>1, LastOf
    <2>2. G[{}] = NothingBuilt(image)
      BY <1>1, <1>7
    <2>3. ASSUME NEW s \in SUBSET (1..n), s # {}
          PROVE  G[s] = Built(image, palette, G[s \ {Max(s)}], seq[Max(s)])
      BY <1>1, <1>7, <2>3
    <2> HIDE DEF Folded
    <2> QED
      BY <1>3, <2>1, <2>2, <2>3 DEF FoldsSets
  <1>9. PICK f : FoldsPrefixes(f, BuildStates, NothingBuilt(image), n, step, G[1..n])
    BY <1>1, <1>2, <1>4, <1>8, PrefixesOf
  <1>10. buildSVG(image, palette) = G[1..n].svg
    BY <1>1, BuildIs DEF G, seq
  <1>11. \A k \in 1..n : f[k] = Built(image, palette, f[k - 1], seq[k])
    <2>1. \A k \in 1..n : f[k - 1] \in BuildStates
      BY <1>1, <1>9 DEF FoldsPrefixes
    <2> QED
      BY <1>3, <1>9, <2>1 DEF FoldsPrefixes
  <1> QED
    BY <1>9, <1>10, <1>11 DEF FoldsPrefixes, n, seq

\* The states of the contract's loop.
LEMMA GenerateRuns ==
    ASSUME NEW image \in Image, NEW palette \in Seq(Keys)
    PROVE  \E f \in [0..Len(image.rects) -> GenerateStates] :
               /\ f[0] = NothingGenerated(image)
               /\ \A k \in 1..Len(image.rects) :
                      f[k] = Generated(image, palette, f[k - 1], image.rects[k])
               /\ GenerateRects(image, palette) =
                      [panic |-> f[Len(image.rects)].panic,
                       part |-> f[Len(image.rects)].part \o f[Len(image.rects)].buffer]
  <1> DEFINE seq == image.rects
             n == Len(seq)
             step == [p \in GenerateStates \X (1..n) |-> Generated(image, palette, p[1], seq[p[2]])]
             Folded(g) == [s \in SUBSET DOMAIN seq |->
                              IF s = {} THEN NothingGenerated(image) ELSE Generated(image, palette, g[s \ {Max(s)}], seq[Max(s)])]
             G == CHOOSE g : g = Folded(g)
  <1>1. n \in Nat /\ DOMAIN seq = 1..n
    BY DEF Image
  <1>2. NothingGenerated(image) \in GenerateStates
    BY EmptySeq DEF NothingGenerated, GenerateStates, Origin, Place, Image
  <1>3. \A x \in GenerateStates, k \in 1..n :
            /\ Generated(image, palette, x, seq[k]) \in GenerateStates
            /\ step[<<x, k>>] = Generated(image, palette, x, seq[k])
    <2>1. \A k \in 1..n : seq[k] \in Rect
      BY DEF Image
    <2> HIDE DEF seq, n
    <2> QED
      BY <2>1, GeneratedTyped
  <1>4. step \in [GenerateStates \X (1..n) -> GenerateStates]
    BY <1>3
  <1> HIDE DEF step, seq, n
  <1>5. PICK g \in [SUBSET (1..n) -> GenerateStates] : FoldsSets(g, GenerateStates, NothingGenerated(image), n, step)
    BY <1>1, <1>2, <1>4, PrefixFold
  <1>6. g = Folded(g)
    <2>1. ASSUME NEW s \in SUBSET (1..n)
          PROVE  g[s] = IF s = {} THEN NothingGenerated(image) ELSE Generated(image, palette, g[s \ {Max(s)}], seq[Max(s)])
      <3>1. CASE s = {}
        BY <1>5, <3>1 DEF FoldsSets
      <3>2. CASE s # {}
        <4>1. Max(s) \in 1..n /\ s \ {Max(s)} \in SUBSET (1..n)
          BY <1>1, <3>2, LastOf
        <4>2. g[s \ {Max(s)}] \in GenerateStates
          BY <1>5, <4>1
        <4> QED
          BY <1>3, <1>5, <3>2, <4>1, <4>2 DEF FoldsSets
      <3> QED
        BY <3>1, <3>2
    <2> QED
      BY <1>1, <2>1
  <1>7. G = Folded(G)
    BY <1>6
  <1> HIDE DEF G
  <1>8. FoldsSets(G, GenerateStates, NothingGenerated(image), n, step)
    <2>1. \A s \in SUBSET (1..n) : s # {} => Max(s) \in 1..n
      BY <1>1, LastOf
    <2>2. G[{}] = NothingGenerated(image)
      BY <1>1, <1>7
    <2>3. ASSUME NEW s \in SUBSET (1..n), s # {}
          PROVE  G[s] = Generated(image, palette, G[s \ {Max(s)}], seq[Max(s)])
      BY <1>1, <1>7, <2>3
    <2> HIDE DEF Folded
    <2> QED
      BY <1>3, <2>1, <2>2, <2>3 DEF FoldsSets
  <1>9. PICK f : FoldsPrefixes(f, GenerateStates, NothingGenerated(image), n, step, G[1..n])
    BY <1>1, <1>2, <1>4, <1>8, PrefixesOf
  <1>10. GenerateRects(image, palette) =
             [panic |-> G[1..n].panic, part |-> G[1..n].part \o G[1..n].buffer]
    BY <1>1, GenerateIs DEF G, seq
  <1>11. \A k \in 1..n : f[k] = Generated(image, palette, f[k - 1], seq[k])
    <2>1. \A k \in 1..n : f[k - 1] \in GenerateStates
      BY <1>1, <1>9 DEF FoldsPrefixes
    <2> QED
      BY <1>3, <1>9, <2>1 DEF FoldsPrefixes
  <1> QED
    BY <1>9, <1>10, <1>11 DEF FoldsPrefixes, n, seq

\* The places and the SVG after every rect, whichever program draws.
Draws(pos, svg, image, palette) ==
    /\ pos \in [0..Len(image.rects) -> Place] /\ pos[0] = Origin(image)
    /\ svg \in [0..Len(image.rects) -> Seq(SvgRect)] /\ svg[0] = <<>>
    /\ \A k \in 1..Len(image.rects) :
           /\ pos[k] = Moved(pos[k - 1], image.rects[k], image)
           /\ svg[k] = IF image.rects[k].colorIndex = 0 THEN svg[k - 1]
                       ELSE Append(svg[k - 1], Drawing(palette, pos[k - 1], image.rects[k]))

\* Rect k is beyond what the contract's tables hold.
Beyond(k, pos, image, palette) ==
    image.rects[k].colorIndex # 0 /\ ~InTables(palette, pos[k - 1], image.rects[k])

\* One rect keeps what the contract has gathered equal to what the page has.
LEMMA GatheredStays ==
    ASSUME NEW image \in Image, NEW palette \in Seq(Keys), NEW rect \in Rect,
           NEW b \in BuildStates, NEW g \in GenerateStates,
           g.at = b.at, g.part \o g.buffer = b.svg
    PROVE  LET g2 == Generated(image, palette, g, rect)
               b2 == Built(image, palette, b, rect)
           IN  g2.at = b2.at /\ g2.part \o g2.buffer = b2.svg
  <1> DEFINE new == Drawing(palette, b.at, rect)
             g2 == Generated(image, palette, g, rect)
             b2 == Built(image, palette, b, rect)
             full == Append(g.buffer, new)
  <1>1. /\ b.at \in Place /\ g.buffer \in Seq(SvgRect) /\ g.part \in Seq(SvgRect)
        /\ new \in SvgRect /\ full \in Seq(SvgRect)
    <2>1. b.at \in Place /\ g.buffer \in Seq(SvgRect) /\ g.part \in Seq(SvgRect)
      BY DEF BuildStates, GenerateStates
    <2>2. new \in SvgRect
      BY <2>1, DrawingTyped
    <2> HIDE DEF new
    <2> QED
      BY <2>1, <2>2, AppendProperties
  <1>2. g2.at = b2.at
    BY DEF Generated, Built
  <1>3. g.part \o full = Append(b.svg, new)
    <2> HIDE DEF new
    <2>1. g.part \in Seq(SvgRect) /\ g.buffer \in Seq(SvgRect) /\ new \in SvgRect
      BY <1>1
    <2> HIDE DEF new, g2, b2, full
    <2>2. g.part \o Append(g.buffer, new) = Append(g.part \o g.buffer, new)
      <3>1. \A s, t \in Seq(SvgRect), x \in SvgRect : s \o Append(t, x) = Append(s \o t, x)
        BY AppendToSecond
      <3> QED
        BY <2>1, <3>1, Zenon
    <2> QED
      BY <2>2 DEF full
  <1>4. g2.part \o g2.buffer = b2.svg
    <2>1. CASE rect.colorIndex = 0
      <3>1. g2.part = g.part /\ g2.buffer = g.buffer /\ b2.svg = b.svg
        BY <2>1 DEF Generated, Built
      <3> QED
        BY <3>1
    <2>2. CASE rect.colorIndex # 0 /\ Len(full) >= 4
      <3>1. g2.part = g.part \o full /\ g2.buffer = <<>> /\ b2.svg = Append(b.svg, new)
        BY <2>2 DEF Generated, Built
      <3>2. (g.part \o full) \o <<>> = g.part \o full
        <4> HIDE DEF full, new
        <4>1. g.part \o full \in Seq(SvgRect)
          BY <1>1, ConcatProperties
        <4> QED
          BY <4>1, ConcatEmptySeq
      <3> QED
        BY <1>3, <3>1, <3>2
    <2>3. CASE rect.colorIndex # 0 /\ ~(Len(full) >= 4)
      <3>1. g2.part = g.part /\ g2.buffer = full /\ b2.svg = Append(b.svg, new)
        BY <2>3 DEF Generated, Built
      <3> QED
        BY <1>3, <3>1
    <2> QED
      BY <2>1, <2>2, <2>3
  <1> QED
    BY <1>2, <1>4

\* Both programs draw the same rects.
LEMMA BothDraw ==
    ASSUME NEW image \in Image, NEW palette \in Seq(Keys)
    PROVE  \E pos, svg :
               /\ Draws(pos, svg, image, palette)
               /\ buildSVG(image, palette) = svg[Len(image.rects)]
               /\ GenerateRects(image, palette) =
                      [panic |-> \E k \in 1..Len(image.rects) : Beyond(k, pos, image, palette),
                       part |-> svg[Len(image.rects)]]
  <1> DEFINE rects == image.rects
             n == Len(rects)
  <1>1. n \in Nat /\ \A k \in 1..n : rects[k] \in Rect
    BY DEF Image
  <1>2. PICK f \in [0..n -> BuildStates] :
            /\ f[0] = NothingBuilt(image)
            /\ \A k \in 1..n : f[k] = Built(image, palette, f[k - 1], rects[k])
            /\ buildSVG(image, palette) = f[n].svg
    BY BuildRuns, Zenon
  <1>3. PICK h \in [0..n -> GenerateStates] :
            /\ h[0] = NothingGenerated(image)
            /\ \A k \in 1..n : h[k] = Generated(image, palette, h[k - 1], rects[k])
            /\ GenerateRects(image, palette) =
                   [panic |-> h[n].panic, part |-> h[n].part \o h[n].buffer]
    BY GenerateRuns, Zenon
  <1> HIDE DEF rects, n
  <1> DEFINE pos == [k \in 0..n |-> f[k].at]
             svg == [k \in 0..n |-> f[k].svg]
             Alike(k) == h[k].at = f[k].at /\ h[k].part \o h[k].buffer = f[k].svg
             Panics(k) == h[k].panic = \E j \in 1..k : Beyond(j, pos, image, palette)
             T == {k \in 0..n : Alike(k) /\ Panics(k)}
  <1>4. \A k \in 0..n : f[k] \in BuildStates /\ h[k] \in GenerateStates
    BY <1>2, <1>3
  <1>5. 0 \in T
    <2>1. h[0] = NothingGenerated(image) /\ f[0] = NothingBuilt(image) /\ 0 \in 0..n
      BY <1>1, <1>2, <1>3
    <2>2. Alike(0)
      BY <2>1 DEF NothingGenerated, NothingBuilt
    <2>3. h[0].panic = FALSE
      BY <2>1 DEF NothingGenerated
    <2>4. ~ \E j \in 1..0 : Beyond(j, pos, image, palette)
      OBVIOUS
    <2> QED
      BY <2>1, <2>2, <2>3, <2>4
  <1>6. ASSUME NEW k \in 0..n - 1, k \in T PROVE k + 1 \in T
    <2>1. k \in 0..n /\ k + 1 \in 1..n /\ k + 1 \in 0..n /\ (k + 1) - 1 = k
      BY <1>1
    <2>2. /\ f[k + 1] = Built(image, palette, f[k], rects[k + 1])
          /\ h[k + 1] = Generated(image, palette, h[k], rects[k + 1])
          /\ rects[k + 1] \in Rect
      BY <1>1, <1>2, <1>3, <2>1
    <2>3. Alike(k) /\ Panics(k)
      BY <1>6
    <2>4. Alike(k + 1)
      <3>1. f[k] \in BuildStates /\ h[k] \in GenerateStates
        BY <1>4, <2>1
      <3>2. h[k].at = f[k].at /\ h[k].part \o h[k].buffer = f[k].svg
        BY <2>3
      <3> HIDE DEF pos, svg, T
      <3> QED
        BY <2>2, <3>1, <3>2, GatheredStays, ZenonT(30)
    <2>5. Panics(k + 1)
      <3>1. h[k + 1].panic = (h[k].panic \/ (/\ rects[k + 1].colorIndex # 0
                                             /\ ~InTables(palette, h[k].at, rects[k + 1])))
        BY <2>2 DEF Generated
      <3>2. pos[k] = h[k].at
        BY <2>1, <2>3
      <3>3. Beyond(k + 1, pos, image, palette) =
                (rects[k + 1].colorIndex # 0 /\ ~InTables(palette, h[k].at, rects[k + 1]))
        BY <2>1, <3>2, Zenon DEF Beyond, rects
      <3> HIDE DEF pos
      <3>4. (\E j \in 1..k + 1 : Beyond(j, pos, image, palette)) =
                ((\E j \in 1..k : Beyond(j, pos, image, palette))
                     \/ Beyond(k + 1, pos, image, palette))
        <4>1. 1..k + 1 = (1..k) \cup {k + 1}
          OBVIOUS
        <4> QED
          BY <4>1, Zenon
      <3>5. h[k].panic \in BOOLEAN /\ h[k + 1].panic \in BOOLEAN
        BY <1>4, <2>1 DEF GenerateStates
      <3> QED
        BY <2>3, <3>1, <3>3, <3>4, Zenon
    <2> QED
      BY <2>1, <2>4, <2>5
  <1>7. n \in T
    <2> HIDE DEF T
    <2>1. \A k \in 0..n : k \in T
      BY <1>1, <1>5, <1>6, Reached
    <2> QED
      BY <1>1, <2>1
  <1>8. GenerateRects(image, palette) =
            [panic |-> \E j \in 1..n : Beyond(j, pos, image, palette), part |-> svg[n]]
    <2>1. Alike(n) /\ Panics(n) /\ svg[n] = f[n].svg
      BY <1>1, <1>7
    <2> HIDE DEF pos, svg
    <2> QED
      BY <1>3, <2>1, Zenon
  <1>9. Draws(pos, svg, image, palette)
    <2>1. \A k \in 0..n : pos[k] \in Place /\ svg[k] \in Seq(SvgRect)
      BY <1>4 DEF BuildStates
    <2>2. pos[0] = Origin(image) /\ svg[0] = <<>>
      BY <1>1, <1>2 DEF NothingBuilt
    <2>3. ASSUME NEW k \in 1..n
          PROVE  /\ pos[k] = Moved(pos[k - 1], rects[k], image)
                 /\ svg[k] = IF rects[k].colorIndex = 0 THEN svg[k - 1]
                             ELSE Append(svg[k - 1], Drawing(palette, pos[k - 1], rects[k]))
      <3>1. k \in 0..n /\ k - 1 \in 0..n
        BY <1>1
      <3>2. f[k] = Built(image, palette, f[k - 1], rects[k])
        BY <1>2
      <3>3. /\ pos[k] = f[k].at /\ pos[k - 1] = f[k - 1].at
            /\ svg[k] = f[k].svg /\ svg[k - 1] = f[k - 1].svg
        BY <3>1
      <3> HIDE DEF pos, svg
      <3> QED
        BY <3>2, <3>3 DEF Built
    <2>4. pos \in [0..n -> Place] /\ svg \in [0..n -> Seq(SvgRect)]
      BY <2>1
    <2> HIDE DEF pos, svg
    <2> QED
      BY <2>2, <2>3, <2>4 DEF Draws, n, rects
  <1>10. buildSVG(image, palette) = svg[n]
    BY <1>1, <1>2
  <1> HIDE DEF pos, svg
  <1> QED
    BY <1>8, <1>9, <1>10, Zenon DEF n, rects

-----------------------------------------------------------------------------
(* What is seen.                                                           *)

Over(svg, y, x) ==
    {i \in DOMAIN svg : svg[i].y = y /\ x \in svg[i].x..(svg[i].x + svg[i].width - 1)}
SeenAt(svg, y, x) == IF Over(svg, y, x) = {} THEN NoColor ELSE svg[MaxOf(Over(svg, y, x))].fill

\* What is seen, pixel by pixel.
LEMMA SeenIs ==
    ASSUME NEW svg
    PROVE  Seen(svg) = [y \in 0..Height - 1 |-> [x \in 0..Width - 1 |-> SeenAt(svg, y, x)]]
  BY Zenon DEF Seen, SeenAt, Over

Hits(r, y, x) == r.y = y /\ x \in r.x..(r.x + r.width - 1)

\* A rect covers what is below it and nothing else.
LEMMA AppendSeen ==
    ASSUME NEW svg \in Seq(SvgRect), NEW r \in SvgRect, NEW y \in Int, NEW x \in Int
    PROVE  SeenAt(Append(svg, r), y, x) =
               IF Hits(r, y, x) THEN r.fill ELSE SeenAt(svg, y, x)
  <1> DEFINE n == Len(svg)
             new == Append(svg, r)
             hit == Hits(r, y, x)
             over == Over(svg, y, x)
             over2 == Over(new, y, x)
  <1>1. /\ n \in Nat /\ DOMAIN svg = 1..n /\ DOMAIN new = 1..n + 1 /\ new[n + 1] = r
        /\ \A i \in 1..n : new[i] = svg[i]
    BY AppendProperties
  <1> HIDE DEF new, n
  <1>2. over \in SUBSET (1..n)
    BY <1>1 DEF Over
  <1>3. over2 = over \cup (IF hit THEN {n + 1} ELSE {})
    <2>1. ASSUME NEW i PROVE i \in over2 <=> i \in over \/ (hit /\ i = n + 1)
      <3>1. CASE i \in 1..n
        BY <1>1, <3>1 DEF Over, Hits
      <3>2. CASE i = n + 1
        BY <1>1, <1>2, <3>2 DEF Over, Hits
      <3>3. CASE i \notin 1..n + 1
        BY <1>1, <3>3 DEF Over, Hits
      <3> QED
        BY <1>1, <3>1, <3>2, <3>3
    <2> QED
      BY <2>1
  <1> HIDE DEF over, over2
  <1>4. CASE hit
    <2>1. n + 1 \in over2 /\ \A i \in over2 : i <= n + 1
      BY <1>1, <1>2, <1>3, <1>4
    <2>2. MaxOf(over2) = n + 1
      <3>1. MaxOf(over2) \in over2 /\ \A i \in over2 : i <= MaxOf(over2)
        BY <2>1 DEF MaxOf
      <3>2. MaxOf(over2) \in 1..n + 1
        <4>1. over2 = over \cup {n + 1}
          BY <1>3, <1>4
        <4>2. over2 \subseteq 1..n + 1
          BY <1>1, <1>2, <4>1
        <4> QED
          BY <3>1, <4>2
      <3>3. n + 1 <= MaxOf(over2)
        BY <2>1, <3>1
      <3> QED
        BY <1>1, <3>2, <3>3
    <2>3. over2 # {} /\ new[MaxOf(over2)] = r
      BY <1>1, <2>1, <2>2
    <2> QED
      BY <1>4, <2>3 DEF SeenAt, over2, new
  <1>5. CASE ~hit
    <2>1. over2 = over
      BY <1>3, <1>5
    <2>2. over # {} => new[MaxOf(over)] = svg[MaxOf(over)]
      <3> SUFFICES ASSUME over # {} PROVE MaxOf(over) \in 1..n
        BY <1>1
      <3>1. Max(over) \in over /\ \A i \in over : i <= Max(over)
        BY <1>1, <1>2, LastOf
      <3>2. MaxOf(over) \in over
        BY <3>1 DEF MaxOf
      <3> QED
        BY <1>2, <3>2
    <2> QED
      BY <1>5, <2>1, <2>2 DEF SeenAt, over, over2, new
  <1> QED
    BY <1>4, <1>5

-----------------------------------------------------------------------------
(* What an encoded picture has to be for both programs to draw it.         *)

Canvas == [0..Height - 1 -> [0..Width - 1 -> Pixels]]

Shown(picture, y, x) ==
    IF picture[y][x].clear THEN NoColor ELSE picture[y][x].color

\* Index i of the palette says what is shown of the pixel.
Indexes(picture, palette, y, x, i) ==
    \/ i = 0 /\ picture[y][x].clear
    \/ /\ i \in 1..Len(palette) - 1 /\ ~picture[y][x].clear
       /\ palette[i + 1] = picture[y][x].color

\* A rect at a place within left and right, over pixels it is right about.
Stroke(left, right, picture, palette, at, rect, to) ==
    /\ rect \in Rect /\ rect.length >= 1
    /\ at.y \in 0..Height - 1 /\ left <= at.x /\ at.x + rect.length <= right
    /\ to = IF at.x + rect.length = right THEN [x |-> left, y |-> at.y + 1]
            ELSE [x |-> at.x + rect.length, y |-> at.y]
    /\ \A x \in at.x..at.x + rect.length - 1 :
           Indexes(picture, palette, at.y, x, rect.colorIndex)

\* Rects that lead from one place to another by such strokes.
Leads(rects, left, right, picture, palette, from, to) ==
    \E pos \in [0..Len(rects) -> Place] :
        /\ pos[0] = from /\ pos[Len(rects)] = to
        /\ \A k \in 1..Len(rects) :
               Stroke(left, right, picture, palette, pos[k - 1], rects[k], pos[k])

\* Outside of the bounds nothing is to be seen.
ClearOutside(picture, top, bottom, left, right) ==
    \A y \in 0..Height - 1, x \in 0..Width - 1 :
        y < top \/ y > bottom \/ x < left \/ x >= right => picture[y][x].clear

\* From the top to below the bottom, and from left to right on every line.
Covers(image, picture, palette) ==
    /\ 0 <= image.left /\ image.right <= Width
    /\ \E bottom \in Int :
           /\ ClearOutside(picture, image.top, bottom, image.left, image.right)
           /\ Leads(image.rects, image.left, image.right, picture, palette, Origin(image),
                    [x |-> image.left, y |-> bottom + 1])

\* What has been drawn when a loop has come to a place.
DrawnSoFar(svg, picture, at) ==
    \A y \in 0..Height - 1, x \in 0..Width - 1 :
        SeenAt(svg, y, x) = IF y < at.y \/ (y = at.y /\ x < at.x) THEN Shown(picture, y, x)
                            ELSE NoColor

\* A stroke of the right color draws its pixels, and nothing else.
LEMMA StrokeDraws ==
    ASSUME NEW picture \in Canvas, NEW palette \in Seq(Keys), NEW svg \in Seq(SvgRect),
           NEW at \in Place, NEW to, NEW rect, NEW left \in Int, NEW right \in Int,
           NEW top \in Int, NEW bottom \in Int,
           0 <= left, right <= Width, ClearOutside(picture, top, bottom, left, right),
           Stroke(left, right, picture, palette, at, rect, to),
           DrawnSoFar(svg, picture, at)
    PROVE  DrawnSoFar(IF rect.colorIndex = 0 THEN svg
                      ELSE Append(svg, Drawing(palette, at, rect)), picture, to)
  <1> DEFINE svg2 == IF rect.colorIndex = 0 THEN svg ELSE Append(svg, Drawing(palette, at, rect))
             r == Drawing(palette, at, rect)
  <1>1. /\ rect \in Rect /\ rect.length \in Nat /\ rect.length >= 1 /\ rect.colorIndex \in Nat
        /\ at.x \in Int /\ at.y \in Int /\ left <= at.x /\ at.x + rect.length <= right
        /\ to = IF at.x + rect.length = right THEN [x |-> left, y |-> at.y + 1]
                ELSE [x |-> at.x + rect.length, y |-> at.y]
    BY DEF Stroke, Rect, Place
  <1>2. r \in SvgRect /\ r.x = at.x /\ r.y = at.y /\ r.width = rect.length
        /\ r.fill = Fill(palette, rect.colorIndex)
    BY <1>1, DrawingTyped DEF Drawing
  <1> SUFFICES ASSUME NEW y \in 0..Height - 1, NEW x \in 0..Width - 1
               PROVE  SeenAt(svg2, y, x) =
                          IF y < to.y \/ (y = to.y /\ x < to.x) THEN Shown(picture, y, x)
                          ELSE NoColor
    BY DEF DrawnSoFar
  <1> DEFINE under == y = at.y /\ x \in at.x..at.x + rect.length - 1
  <1> HIDE DEF r
  <1>3. SeenAt(svg2, y, x) = IF rect.colorIndex # 0 /\ under THEN Fill(palette, rect.colorIndex)
                             ELSE SeenAt(svg, y, x)
    <2>1. CASE rect.colorIndex = 0
      BY <2>1
    <2>2. CASE rect.colorIndex # 0
      <3>1. y \in Int /\ x \in Int /\ svg \in Seq(SvgRect) /\ r \in SvgRect
        BY <1>2, ImageAssumption
      <3>2. SeenAt(Append(svg, r), y, x) =
               IF Hits(r, y, x) THEN r.fill ELSE SeenAt(svg, y, x)
        BY <3>1, AppendSeen
      <3> QED
        BY <1>2, <2>2, <3>2 DEF r, Hits
    <2> QED
      BY <2>1, <2>2
  <1> HIDE DEF svg2
  <1>4. under => Indexes(picture, palette, y, x, rect.colorIndex)
    BY DEF Stroke
  <1>5. under /\ rect.colorIndex # 0 => Fill(palette, rect.colorIndex) = Shown(picture, y, x)
    <2> SUFFICES ASSUME under, rect.colorIndex # 0
                 PROVE  Fill(palette, rect.colorIndex) = Shown(picture, y, x)
      OBVIOUS
    <2>1. /\ rect.colorIndex \in 1..Len(palette) - 1 /\ ~picture[y][x].clear
          /\ palette[rect.colorIndex + 1] = picture[y][x].color
      BY <1>1, <1>4 DEF Indexes
    <2>2. Fill(palette, rect.colorIndex) = palette[rect.colorIndex + 1]
      <3>1. rect.colorIndex < Len(palette)
        BY <2>1
      <3> QED
        BY <3>1 DEF Fill
    <2> QED
      BY <2>1, <2>2 DEF Shown
  <1>6. under /\ rect.colorIndex = 0 => Shown(picture, y, x) = NoColor
    BY <1>1, <1>4 DEF Indexes, Shown
  <1>7. x < left \/ x >= right => Shown(picture, y, x) = NoColor
    BY DEF ClearOutside, Shown
  <1>8. SeenAt(svg, y, x) = IF y < at.y \/ (y = at.y /\ x < at.x) THEN Shown(picture, y, x)
                            ELSE NoColor
    BY DEF DrawnSoFar
  <1>9. y \in Int /\ x \in Int
    BY ImageAssumption
  <1>10. CASE at.x + rect.length = right
    <2>1. to.x = left /\ to.y = at.y + 1
      BY <1>1, <1>10
    <2> QED
      BY <1>1, <1>3, <1>5, <1>6, <1>7, <1>8, <1>9, <1>10, <2>1, SMTT(30)
  <1>11. CASE at.x + rect.length # right
    <2>1. to.x = at.x + rect.length /\ to.y = at.y
      BY <1>1, <1>11
    <2> QED
      BY <1>1, <1>3, <1>5, <1>6, <1>8, <1>9, <2>1, SMTT(30)
  <1> QED
    BY <1>10, <1>11

Expected(picture) == [y \in 0..Height - 1 |-> [x \in 0..Width - 1 |-> Shown(picture, y, x)]]

\* An image that covers its picture is drawn right, by both programs.
LEMMA CoversDraws ==
    ASSUME NEW image \in Image, NEW palette \in Seq(Keys), NEW picture \in Canvas,
           Height <= Width, Covers(image, picture, palette)
    PROVE  /\ Seen(buildSVG(image, palette)) = Expected(picture)
           /\ ~GenerateRects(image, palette).panic
           /\ GenerateRects(image, palette).part = buildSVG(image, palette)
  <1> DEFINE rects == image.rects
             n == Len(rects)
             left == image.left
             right == image.right
  <1>1. n \in Nat /\ image.top \in Int /\ left \in Int /\ right \in Int /\ Origin(image) \in Place
    BY DEF Image, Origin, Place
  <1>2. PICK bottom \in Int :
            /\ ClearOutside(picture, image.top, bottom, left, right)
            /\ Leads(rects, left, right, picture, palette, Origin(image),
                     [x |-> left, y |-> bottom + 1])
    BY DEF Covers
  <1>3. 0 <= left /\ right <= Width
    BY DEF Covers
  <1> DEFINE last == [x |-> left, y |-> bottom + 1]
  <1>4. PICK pos \in [0..n -> Place] :
            /\ pos[0] = Origin(image) /\ pos[n] = last
            /\ \A k \in 1..n : Stroke(left, right, picture, palette, pos[k - 1], rects[k], pos[k])
    BY <1>2 DEF Leads
  <1>5. PICK pos2, svg :
            /\ Draws(pos2, svg, image, palette)
            /\ buildSVG(image, palette) = svg[n]
            /\ GenerateRects(image, palette) =
                   [panic |-> \E k \in 1..n : Beyond(k, pos2, image, palette), part |-> svg[n]]
    BY BothDraw, Zenon
  <1>6. /\ pos2[0] = Origin(image) /\ svg \in [0..n -> Seq(SvgRect)] /\ svg[0] = <<>>
        /\ \A k \in 1..n :
               /\ pos2[k] = Moved(pos2[k - 1], rects[k], image)
               /\ svg[k] = IF rects[k].colorIndex = 0 THEN svg[k - 1]
                           ELSE Append(svg[k - 1], Drawing(palette, pos2[k - 1], rects[k]))
    BY <1>5 DEF Draws
  <1> HIDE DEF last
  <1> DEFINE T == {k \in 0..n : pos2[k] = pos[k] /\ DrawnSoFar(svg[k], picture, pos[k])}
  <1>7. 0 \in T
    <2>1. pos2[0] = pos[0]
      BY <1>4, <1>6
    <2>2. DrawnSoFar(svg[0], picture, pos[0])
      <3> SUFFICES ASSUME NEW y \in 0..Height - 1, NEW x \in 0..Width - 1
                   PROVE  SeenAt(<<>>, y, x) =
                              IF y < image.top \/ (y = image.top /\ x < left)
                              THEN Shown(picture, y, x) ELSE NoColor
        BY <1>4, <1>6 DEF DrawnSoFar, Origin
      <3>1. SeenAt(<<>>, y, x) = NoColor
        BY DEF SeenAt, Over
      <3>2. y < image.top \/ (y = image.top /\ x < left) => Shown(picture, y, x) = NoColor
        BY <1>2 DEF ClearOutside, Shown
      <3> QED
        BY <3>1, <3>2
    <2>3. 0 \in 0..n
      BY <1>1
    <2> QED
      BY <2>1, <2>2, <2>3
  <1>8. ASSUME NEW k \in 0..n - 1, k \in T PROVE k + 1 \in T
    <2>1. k \in 0..n /\ k + 1 \in 1..n /\ k + 1 \in 0..n /\ (k + 1) - 1 = k
      BY <1>1
    <2>2. Stroke(left, right, picture, palette, pos[k], rects[k + 1], pos[k + 1])
      BY <1>4, <2>1
    <2>3. /\ pos2[k + 1] = Moved(pos2[k], rects[k + 1], image)
          /\ svg[k + 1] = IF rects[k + 1].colorIndex = 0 THEN svg[k]
                          ELSE Append(svg[k], Drawing(palette, pos2[k], rects[k + 1]))
      BY <1>6, <2>1
    <2>4. pos2[k] = pos[k] /\ DrawnSoFar(svg[k], picture, pos[k])
      BY <1>8
    <2>5. pos2[k + 1] = pos[k + 1]
      BY <2>2, <2>3, <2>4 DEF Stroke, Moved
    <2>6. svg[k] \in Seq(SvgRect) /\ pos[k] \in Place
      BY <1>4, <1>6, <2>1
    <2> HIDE DEF T, rects, n, left, right
    <2>7. DrawnSoFar(IF rects[k + 1].colorIndex = 0 THEN svg[k]
                     ELSE Append(svg[k], Drawing(palette, pos[k], rects[k + 1])),
                     picture, pos[k + 1])
      BY <1>1, <1>2, <1>3, <2>2, <2>4, <2>6, StrokeDraws
    <2>8. DrawnSoFar(svg[k + 1], picture, pos[k + 1])
      BY <2>3, <2>4, <2>7
    <2> QED
      BY <2>1, <2>5, <2>8 DEF T
  <1>9. \A k \in 0..n : k \in T
    <2> HIDE DEF T, n
    <2> QED
      BY <1>1, <1>7, <1>8, Reached
  <1>10. Seen(buildSVG(image, palette)) = Expected(picture)
    <2>1. n \in T /\ pos[n] = last
      BY <1>1, <1>4, <1>9
    <2>2. ASSUME NEW y \in 0..Height - 1, NEW x \in 0..Width - 1
          PROVE  SeenAt(svg[n], y, x) = Shown(picture, y, x)
      <3>1. SeenAt(svg[n], y, x) = IF y < bottom + 1 \/ (y = bottom + 1 /\ x < left)
                                   THEN Shown(picture, y, x) ELSE NoColor
        BY <2>1 DEF DrawnSoFar, last
      <3>2. y > bottom => Shown(picture, y, x) = NoColor
        BY <1>2 DEF ClearOutside, Shown
      <3>3. y \in Int /\ x \in Int
        BY ImageAssumption
      <3> QED
        BY <3>1, <3>2, <3>3
    <2> QED
      BY <1>5, <2>2, SeenIs DEF Expected
  <1>11. \A k \in 1..n : ~Beyond(k, pos2, image, palette)
    <2> SUFFICES ASSUME NEW k \in 1..n, rects[k].colorIndex # 0
                 PROVE  InTables(palette, pos2[k - 1], rects[k])
      BY DEF Beyond
    <2>1. k - 1 \in 0..n /\ k \in 0..n
      BY <1>1
    <2>2. pos2[k - 1] = pos[k - 1] /\ pos[k - 1] \in Place
      BY <1>4, <1>9, <2>1
    <2>3. Stroke(left, right, picture, palette, pos[k - 1], rects[k], pos[k])
      BY <1>4
    <2> DEFINE at == pos[k - 1]
               rect == rects[k]
    <2> HIDE DEF at, rect
    <2>4. /\ at.x \in Int /\ at.y \in Int /\ at.y <= Height - 1
          /\ left <= at.x /\ at.x + rect.length <= right /\ rect.length \in Nat
          /\ rect.length >= 1
      BY <2>2, <2>3, ImageAssumption DEF Stroke, Place, Rect, at, rect
    <2>5. rect.colorIndex < Len(palette)
      <3>1. at.x \in at.x..at.x + rect.length - 1
        BY <2>4
      <3>2. Indexes(picture, palette, at.y, at.x, rect.colorIndex)
        BY <2>3, <3>1 DEF Stroke, at, rect
      <3>3. rect.colorIndex \in 1..Len(palette) - 1
        BY <3>2 DEF Indexes, rect
      <3> QED
        BY <3>3
    <2>6. rect.length <= Width /\ at.x <= Width /\ at.y <= Width
      BY <1>1, <1>3, <2>4, ImageAssumption, SMTT(30)
    <2> QED
      BY <2>2, <2>5, <2>6 DEF InTables, at, rect
  <1> QED
    BY <1>5, <1>10, <1>11

-----------------------------------------------------------------------------
(* Flattened sequences.                                                    *)

\* The concatenation of the first k.
Flattens(f, S, seqs) ==
    /\ f \in [0..Len(seqs) -> Seq(S)] /\ f[0] = <<>> /\ FlattenSeq(seqs) = f[Len(seqs)]
    /\ \A k \in 1..Len(seqs) : f[k] = f[k - 1] \o seqs[k]

\* The concatenations one after the other, of n sequences.
LEMMA FlattenRunsTo ==
    ASSUME NEW S, NEW seqs, NEW n \in Nat, Len(seqs) = n, seqs \in Seq(Seq(S))
    PROVE  \E f : Flattens(f, S, seqs)
  <1> DEFINE X == Seq(S)
             empty == <<>>
             step == [p \in X \X (1..n) |-> p[1] \o seqs[p[2]]]
             Flat(g) == [i \in 1..Len(seqs) |-> IF i = 1 THEN seqs[i] ELSE g[i - 1] \o seqs[i]]
             G == CHOOSE g : g = Flat(g)
  <1>1. \A k \in 1..n : seqs[k] \in X
    OBVIOUS
  <1>2. empty \in X
    BY EmptySeq
  <1>3. \A x \in X, k \in 1..n : x \o seqs[k] \in X /\ step[<<x, k>>] = x \o seqs[k]
    <2> SUFFICES ASSUME NEW x \in X, NEW k \in 1..n
                 PROVE  x \o seqs[k] \in X /\ step[<<x, k>>] = x \o seqs[k]
      OBVIOUS
    <2>1. seqs[k] \in Seq(S) /\ x \in Seq(S)
      BY <1>1
    <2>2. x \o seqs[k] \in Seq(S)
      BY <2>1, ConcatProperties
    <2> QED
      BY <2>2
  <1>4. step \in [X \X (1..n) -> X]
    BY <1>3
  <1> HIDE DEF step, X, empty
  <1>5. PICK f, last : FoldsPrefixes(f, X, empty, n, step, last)
    BY <1>2, <1>4, RecursionExists
  <1>6. /\ f \in [0..n -> X] /\ f[0] = empty
        /\ \A k \in 1..n : f[k - 1] \in X /\ f[k] = f[k - 1] \o seqs[k]
    <2>1. f \in [0..n -> X] /\ f[0] = empty /\ \A k \in 1..n : f[k] = step[<<f[k - 1], k>>]
      BY <1>5 DEF FoldsPrefixes
    <2>2. ASSUME NEW k \in 1..n PROVE f[k - 1] \in X /\ f[k] = f[k - 1] \o seqs[k]
      <3>1. k - 1 \in 0..n
        OBVIOUS
      <3>2. f[k - 1] \in X
        BY <2>1, <3>1
      <3>3. f[k] = step[<<f[k - 1], k>>]
        BY <2>1
      <3>4. step[<<f[k - 1], k>>] = f[k - 1] \o seqs[k]
        BY <1>3, <3>2, Zenon
      <3> QED
        BY <3>2, <3>3, <3>4
    <2> QED
      BY <2>1, <2>2
  <1>7. \A k \in 1..n : f[k] = IF k = 1 THEN seqs[k] ELSE f[k - 1] \o seqs[k]
    <2> SUFFICES ASSUME 1 \in 1..n PROVE f[1] = seqs[1]
      BY <1>6
    <2>1. f[1] = f[0] \o seqs[1] /\ seqs[1] \in Seq(S)
      <3>1. f[1] = f[1 - 1] \o seqs[1] /\ seqs[1] \in X
        BY <1>1, <1>6
      <3> QED
        BY <3>1 DEF X
    <2> QED
      BY <1>6, <2>1, ConcatEmptySeq DEF empty
  <1>8. [k \in 1..n |-> f[k]] = Flat([k \in 1..n |-> f[k]])
    <2>1. \A k \in 1..n : k # 1 => k - 1 \in 1..n
      OBVIOUS
    <2> QED
      BY <1>7, <2>1
  <1>9. G = Flat(G)
    BY <1>8
  <1> HIDE DEF G
  <1> DEFINE T == {k \in 0..n : k >= 1 => G[k] = f[k]}
  <1>10. \A k \in 0..n : k \in T
    <2>1. 0 \in T
      OBVIOUS
    <2>2. ASSUME NEW k \in 0..n - 1, k \in T PROVE k + 1 \in T
      <3>1. k + 1 \in 1..n /\ k + 1 \in 0..n /\ (k + 1) - 1 = k
        OBVIOUS
      <3>2. G[k + 1] = IF k + 1 = 1 THEN seqs[k + 1] ELSE G[k] \o seqs[k + 1]
        BY <1>9, <3>1
      <3>3. k + 1 # 1 => G[k] = f[k]
        BY <2>2
      <3>4. f[k + 1] = IF k + 1 = 1 THEN seqs[k + 1] ELSE f[k] \o seqs[k + 1]
        BY <1>7, <3>1
      <3> QED
        BY <3>1, <3>2, <3>3, <3>4
    <2> HIDE DEF T
    <2> QED
      BY <2>1, <2>2, Reached
  <1>11. FlattenSeq(seqs) = f[n]
    <2>1. CASE n = 0
      <3>1. seqs = <<>>
        BY <2>1, EmptySeq
      <3>2. FlattenSeq(seqs) = seqs
        BY <2>1 DEF FlattenSeq
      <3> QED
        BY <1>6, <2>1, <3>1, <3>2 DEF empty
    <2>2. CASE n # 0
      <3>1. FlattenSeq(seqs) = G[Len(seqs)]
        BY <2>2, Zenon DEF FlattenSeq, G
      <3>2. n \in T /\ n >= 1
        BY <1>10, <2>2
      <3> QED
        BY <3>1, <3>2
    <2> QED
      BY <2>1, <2>2
  <1> QED
    BY <1>6, <1>11 DEF X, empty, Flattens

\* The same of any sequences.
LEMMA FlattenRuns ==
    ASSUME NEW S, NEW seqs \in Seq(Seq(S))
    PROVE  \E f : Flattens(f, S, seqs)
  <1>1. Len(seqs) \in Nat
    OBVIOUS
  <1> QED
    BY <1>1, FlattenRunsTo

-----------------------------------------------------------------------------
(* Strokes one after the other.                                            *)

\* No rects lead from a place to itself.
LEMMA LeadsNowhere ==
    ASSUME NEW left, NEW right, NEW picture, NEW palette, NEW at \in Place
    PROVE  Leads(<<>>, left, right, picture, palette, at, at)
  <1> DEFINE pos == [k \in 0..Len(<<>>) |-> at]
  <1>1. Len(<<>>) = 0 /\ pos[0] = at /\ pos \in [0..Len(<<>>) -> Place]
    OBVIOUS
  <1>2. \A k \in 1..Len(<<>>) : FALSE
    OBVIOUS
  <1> HIDE DEF pos
  <1> QED
    BY <1>1, <1>2 DEF Leads

\* One rect leads as its stroke does.
LEMMA LeadsOnce ==
    ASSUME NEW left, NEW right, NEW picture, NEW palette, NEW at \in Place, NEW to \in Place,
           NEW rect, Stroke(left, right, picture, palette, at, rect, to)
    PROVE  Leads(<<rect>>, left, right, picture, palette, at, to)
  <1> DEFINE s == <<rect>>
             pos == [k \in 0..1 |-> IF k = 0 THEN at ELSE to]
  <1>1. Len(s) = 1 /\ s[1] = rect /\ pos[0] = at /\ pos[1] = to /\ pos \in [0..1 -> Place]
    OBVIOUS
  <1> HIDE DEF pos, s
  <1>2. \A k \in 1..1 : Stroke(left, right, picture, palette, pos[k - 1], s[k], pos[k])
    BY <1>1
  <1>3. Leads(s, left, right, picture, palette, at, to)
    BY <1>1, <1>2 DEF Leads
  <1> QED
    BY <1>3 DEF s

\* What leads to a place and on from there leads all the way.
LEMMA LeadsOn ==
    ASSUME NEW left, NEW right, NEW picture, NEW palette, NEW a, NEW b, NEW c,
           NEW s \in Seq(Rect), NEW t \in Seq(Rect),
           Leads(s, left, right, picture, palette, a, b),
           Leads(t, left, right, picture, palette, b, c)
    PROVE  Leads(s \o t, left, right, picture, palette, a, c)
  <1> DEFINE m == Len(s)
             n == Len(t)
             u == s \o t
  <1>1. /\ m \in Nat /\ n \in Nat /\ Len(u) = m + n
        /\ \A k \in 1..m : u[k] = s[k]
        /\ \A k \in 1..n : u[m + k] = t[k]
    BY ConcatProperties
  <1>2. PICK p \in [0..m -> Place] :
            /\ p[0] = a /\ p[m] = b
            /\ \A k \in 1..m : Stroke(left, right, picture, palette, p[k - 1], s[k], p[k])
    BY DEF Leads
  <1>3. PICK q \in [0..n -> Place] :
            /\ q[0] = b /\ q[n] = c
            /\ \A k \in 1..n : Stroke(left, right, picture, palette, q[k - 1], t[k], q[k])
    BY DEF Leads
  <1> HIDE DEF m, n, u
  <1> DEFINE pos == [k \in 0..m + n |-> IF k <= m THEN p[k] ELSE q[k - m]]
  <1>4. /\ \A k \in 0..m : pos[k] = p[k]
        /\ \A k \in 0..n : pos[m + k] = q[k]
    <2>1. \A k \in 0..m : pos[k] = p[k]
      BY <1>1
    <2>2. ASSUME NEW k \in 0..n PROVE pos[m + k] = q[k]
      <3>1. m + k \in 0..m + n /\ (m + k) - m = k
        BY <1>1
      <3>2. CASE k = 0
        BY <1>1, <1>2, <1>3, <2>1, <3>1, <3>2
      <3>3. CASE k # 0
        <4>1. ~(m + k <= m)
          BY <1>1, <3>3
        <4> QED
          BY <3>1, <4>1
      <3> QED
        BY <3>2, <3>3
    <2> QED
      BY <2>1, <2>2
  <1>5. pos \in [0..m + n -> Place]
    <2> SUFFICES ASSUME NEW k \in 0..m + n PROVE pos[k] \in Place
      OBVIOUS
    <2>1. CASE k <= m
      BY <1>1, <2>1
    <2>2. CASE ~(k <= m)
      <3>1. k - m \in 0..n
        BY <1>1, <2>2
      <3> QED
        BY <2>2, <3>1
    <2> QED
      BY <2>1, <2>2
  <1> HIDE DEF pos
  <1>6. ASSUME NEW k \in 1..m + n
        PROVE  Stroke(left, right, picture, palette, pos[k - 1], u[k], pos[k])
    <2>1. CASE k <= m
      <3>1. k \in 1..m /\ k \in 0..m /\ k - 1 \in 0..m
        BY <1>1, <2>1
      <3>2. pos[k] = p[k] /\ pos[k - 1] = p[k - 1] /\ u[k] = s[k]
        BY <1>1, <1>4, <3>1
      <3> QED
        BY <1>2, <3>1, <3>2
    <2>2. CASE ~(k <= m)
      <3> DEFINE j == k - m
      <3>1. j \in 1..n /\ j \in 0..n /\ j - 1 \in 0..n /\ k = m + j /\ k - 1 = m + (j - 1)
        BY <1>1, <2>2
      <3> HIDE DEF j
      <3>2. pos[k] = q[j] /\ pos[k - 1] = q[j - 1] /\ u[k] = t[j]
        BY <1>1, <1>4, <3>1
      <3> QED
        BY <1>3, <3>1, <3>2
    <2> QED
      BY <2>1, <2>2
  <1>7. pos[0] = a /\ pos[m + n] = c
    BY <1>1, <1>2, <1>3, <1>4
  <1>8. Leads(u, left, right, picture, palette, a, c)
    BY <1>1, <1>5, <1>6, <1>7 DEF Leads
  <1> QED
    BY <1>8 DEF u

-----------------------------------------------------------------------------
(* The palette.                                                            *)

\* A pixel's color joins the palette.
SawColor(seen, p) == IF Contains(seen, p.color) THEN seen ELSE Append(seen, p.color)

\* Every pixel of a picture comes in the scan.
LEMMA Scanned ==
    ASSUME NEW picture \in Canvas
    PROVE  /\ Width * Height \in Nat
           /\ Len(Scan(picture)) = Width * Height /\ DOMAIN Scan(picture) = 1..Width * Height
           /\ \A i \in 1..Width * Height : Scan(picture)[i] \in Pixels
           /\ \A y \in 0..Height - 1, x \in 0..Width - 1 :
                  \E i \in 1..Width * Height : Scan(picture)[i] = picture[y][x]
  <1>1. Width * Height \in Nat
    BY ImageAssumption
  <1>2. Len(Scan(picture)) = Width * Height /\ DOMAIN Scan(picture) = 1..Width * Height
    BY <1>1 DEF Scan
  <1>3. ASSUME NEW i \in 1..Width * Height PROVE Scan(picture)[i] \in Pixels
    <2>1. (i - 1) \div Width \in 0..Height - 1 /\ (i - 1) % Width \in 0..Width - 1
      BY ImageAssumption
    <2>2. Scan(picture)[i] = picture[(i - 1) \div Width][(i - 1) % Width]
      BY DEF Scan
    <2> QED
      BY <2>1, <2>2 DEF Canvas
  <1>4. ASSUME NEW y \in 0..Height - 1, NEW x \in 0..Width - 1
        PROVE  \E i \in 1..Width * Height : Scan(picture)[i] = picture[y][x]
    <2> DEFINE i == y * Width + x + 1
    <2>1. i \in 1..Width * Height /\ (i - 1) \div Width = y /\ (i - 1) % Width = x
      BY ImageAssumption
    <2> HIDE DEF i
    <2>2. Scan(picture)[i] = picture[(i - 1) \div Width][(i - 1) % Width]
      BY <2>1 DEF Scan
    <2> QED
      BY <2>1, <2>2
  <1> QED
    BY <1>1, <1>2, <1>3, <1>4

\* The palette after a picture written out.
LEMMA ColorsAre ==
    ASSUME NEW before, NEW picture
    PROVE  ColorsAfter(before, picture) =
               (CHOOSE g : g = [s \in SUBSET DOMAIN Scan(picture) |->
                                  IF s = {} THEN before
                                  ELSE SawColor(g[s \ {Max(s)}], Scan(picture)[Max(s)])])
                  [DOMAIN Scan(picture)]
  BY Zenon DEF ColorsAfter, FoldLeft, MapThenFoldSet, SawColor

\* The palette after every pixel.
LEMMA ColorsRun ==
    ASSUME NEW before \in Seq(Keys), NEW picture \in Canvas
    PROVE  \E f \in [0..Len(Scan(picture)) -> Seq(Keys)] :
               /\ f[0] = before
               /\ \A k \in 1..Len(Scan(picture)) :
                      f[k] = SawColor(f[k - 1], Scan(picture)[k])
               /\ ColorsAfter(before, picture) = f[Len(Scan(picture))]
  <1> DEFINE seq == Scan(picture)
             n == Len(seq)
             step == [p \in Seq(Keys) \X (1..n) |-> SawColor(p[1], seq[p[2]])]
             Folded(g) == [s \in SUBSET DOMAIN seq |->
                              IF s = {} THEN before ELSE SawColor(g[s \ {Max(s)}], seq[Max(s)])]
             G == CHOOSE g : g = Folded(g)
  <1>1. n \in Nat /\ DOMAIN seq = 1..n
    BY Scanned
  <1>2. before \in Seq(Keys)
    OBVIOUS
  <1>3. \A x \in Seq(Keys), k \in 1..n :
            /\ SawColor(x, seq[k]) \in Seq(Keys)
            /\ step[<<x, k>>] = SawColor(x, seq[k])
    <2> SUFFICES ASSUME NEW x \in Seq(Keys), NEW k \in 1..n
                 PROVE  SawColor(x, seq[k]) \in Seq(Keys)
      OBVIOUS
    <2>1. seq[k].color \in Keys
      BY Scanned DEF Pixels, Keys
    <2> HIDE DEF seq
    <2> QED
      BY <2>1 DEF SawColor
  <1>4. step \in [Seq(Keys) \X (1..n) -> Seq(Keys)]
    BY <1>3
  <1> HIDE DEF step, seq, n
  <1>5. PICK g \in [SUBSET (1..n) -> Seq(Keys)] : FoldsSets(g, Seq(Keys), before, n, step)
    BY <1>1, <1>2, <1>4, PrefixFold
  <1>6. g = Folded(g)
    <2>1. ASSUME NEW s \in SUBSET (1..n)
          PROVE  g[s] = IF s = {} THEN before ELSE SawColor(g[s \ {Max(s)}], seq[Max(s)])
      <3>1. CASE s = {}
        BY <1>5, <3>1 DEF FoldsSets
      <3>2. CASE s # {}
        <4>1. Max(s) \in 1..n /\ s \ {Max(s)} \in SUBSET (1..n)
          BY <1>1, <3>2, LastOf
        <4>2. g[s \ {Max(s)}] \in Seq(Keys)
          BY <1>5, <4>1
        <4> QED
          BY <1>3, <1>5, <3>2, <4>1, <4>2 DEF FoldsSets
      <3> QED
        BY <3>1, <3>2
    <2> QED
      BY <1>1, <2>1
  <1>7. G = Folded(G)
    BY <1>6
  <1> HIDE DEF G
  <1>8. FoldsSets(G, Seq(Keys), before, n, step)
    <2>1. \A s \in SUBSET (1..n) : s # {} => Max(s) \in 1..n
      BY <1>1, LastOf
    <2>2. G[{}] = before
      BY <1>1, <1>7
    <2>3. ASSUME NEW s \in SUBSET (1..n), s # {}
          PROVE  G[s] = SawColor(G[s \ {Max(s)}], seq[Max(s)])
      BY <1>1, <1>7, <2>3
    <2> HIDE DEF Folded
    <2> QED
      BY <1>3, <2>1, <2>2, <2>3 DEF FoldsSets
  <1>9. PICK f : FoldsPrefixes(f, Seq(Keys), before, n, step, G[1..n])
    BY <1>1, <1>2, <1>4, <1>8, PrefixesOf
  <1>10. ColorsAfter(before, picture) = G[1..n]
    BY <1>1, ColorsAre DEF G, seq
  <1>11. \A k \in 1..n : f[k] = SawColor(f[k - 1], seq[k])
    <2>1. \A k \in 1..n : f[k - 1] \in Seq(Keys)
      BY <1>1, <1>9 DEF FoldsPrefixes
    <2> QED
      BY <1>3, <1>9, <2>1 DEF FoldsPrefixes
  <1> QED
    BY <1>9, <1>10, <1>11 DEF FoldsPrefixes, n, seq

\* A palette begins with what it was before, and has every color of the picture.
LEMMA ColorsGrow ==
    ASSUME NEW before \in Seq(Keys), NEW picture \in Canvas
    PROVE  LET after == ColorsAfter(before, picture)
           IN  /\ after \in Seq(Keys) /\ Len(before) <= Len(after)
               /\ \A i \in 1..Len(before) : after[i] = before[i]
               /\ \A y \in 0..Height - 1, x \in 0..Width - 1 :
                      \E i \in 1..Len(after) : after[i] = picture[y][x].color
  <1> DEFINE after == ColorsAfter(before, picture)
             seq == Scan(picture)
             n == Len(seq)
  <1>1. n \in Nat /\ \A k \in 1..n : seq[k] \in Pixels
    BY Scanned
  <1>2. PICK f \in [0..n -> Seq(Keys)] :
            /\ f[0] = before
            /\ \A k \in 1..n : f[k] = SawColor(f[k - 1], seq[k])
            /\ after = f[n]
    BY ColorsRun
  <1> HIDE DEF n, seq, after
  <1> DEFINE Begins(s, t) == Len(s) <= Len(t) /\ \A i \in 1..Len(s) : t[i] = s[i]
             Has(t, c) == \E i \in 1..Len(t) : t[i] = c
             T == {k \in 0..n : Begins(before, f[k]) /\ \A j \in 1..k : Has(f[k], seq[j].color)}
  <1>3. \A k \in 0..n : k \in T
    <2>1. 0 \in T
      BY <1>1, <1>2
    <2>2. ASSUME NEW k \in 0..n - 1, k \in T PROVE k + 1 \in T
      <3> DEFINE s == f[k]
                 t == f[k + 1]
                 c == seq[k + 1].color
      <3>1. /\ k + 1 \in 1..n /\ k + 1 \in 0..n /\ k \in 0..n /\ (k + 1) - 1 = k
        BY <1>1
      <3>2. s \in Seq(Keys) /\ c \in Keys /\ t = IF Contains(s, c) THEN s ELSE Append(s, c)
        BY <1>1, <1>2, <3>1 DEF SawColor, Pixels, Keys
      <3>3. Begins(before, s) /\ \A j \in 1..k : Has(s, seq[j].color)
        BY <2>2
      <3> HIDE DEF s, t, c
      <3>4. CASE Contains(s, c)
        <4>1. t = s /\ Has(s, c)
          BY <3>2, <3>4 DEF Contains
        <4>2. Begins(before, t) /\ \A j \in 1..k + 1 : Has(t, seq[j].color)
          <5> HIDE DEF Begins, Has
          <5> QED
            BY <3>1, <3>3, <4>1 DEF c
        <4> HIDE DEF Begins, Has
        <4> QED
          BY <3>1, <4>2 DEF t
      <3>5. CASE ~Contains(s, c)
        <4>1. t \in Seq(Keys) /\ Len(t) = Len(s) + 1 /\ t[Len(s) + 1] = c /\ \A i \in 1..Len(s) : t[i] = s[i]
          BY <3>2, <3>5, AppendProperties
        <4>2. Len(s) \in Nat /\ Len(before) \in Nat
          BY <3>2
        <4>3. Begins(before, t)
          BY <3>3, <4>1, <4>2
        <4>4. Has(t, c)
          BY <4>1, <4>2
        <4>5. \A d : Has(s, d) => Has(t, d)
          BY <4>1, <4>2
        <4>6. \A j \in 1..k + 1 : Has(t, seq[j].color)
          <5> HIDE DEF Begins, Has
          <5> QED
            BY <3>1, <3>3, <4>4, <4>5 DEF c
        <4> HIDE DEF Begins, Has
        <4> QED
          BY <3>1, <4>3, <4>6 DEF t
      <3> QED
        BY <3>4, <3>5
    <2> HIDE DEF T
    <2> QED
      BY <1>1, <2>1, <2>2, Reached
  <1>4. n \in T /\ after \in Seq(Keys)
    <2>1. n \in 0..n
      BY <1>1
    <2> HIDE DEF T
    <2> QED
      BY <1>2, <1>3, <2>1
  <1>5. Begins(before, after) /\ \A j \in 1..n : Has(after, seq[j].color)
    <2> HIDE DEF Begins, Has
    <2> QED
      BY <1>1, <1>2, <1>4
  <1>6. ASSUME NEW y \in 0..Height - 1, NEW x \in 0..Width - 1
        PROVE  Has(after, picture[y][x].color)
    <2>1. PICK i \in 1..n : seq[i] = picture[y][x]
      BY Scanned DEF n, seq
    <2> HIDE DEF Has
    <2> QED
      BY <1>5, <2>1
  <1> QED
    BY <1>4, <1>5, <1>6 DEF after

-----------------------------------------------------------------------------
(* A line in runs of one color.                                            *)

\* A palette with the colors of a picture and with '' at its first index.
Indexing(palette, picture) ==
    /\ palette \in Seq(Keys) /\ Len(palette) >= 1 /\ palette[1] = NoColor
    /\ \A y \in 0..Height - 1, x \in 0..Width - 1 :
           \E i \in 1..Len(palette) : palette[i] = picture[y][x].color

\* The index of a pixel is one it has been given a color at.
LEMMA IndexIs ==
    ASSUME NEW picture \in Canvas, NEW palette, Indexing(palette, picture),
           NEW y \in 0..Height - 1, NEW x \in 0..Width - 1
    PROVE  /\ ColorIndex(palette, picture[y][x]) \in Nat
           /\ Indexes(picture, palette, y, x, ColorIndex(palette, picture[y][x]))
  <1> DEFINE pixel == picture[y][x]
             i == CHOOSE i \in DOMAIN palette : palette[i] = pixel.color
  <1>1. pixel \in Pixels /\ palette \in Seq(Keys)
    BY DEF Canvas, Indexing
  <1>2. DOMAIN palette = 1..Len(palette)
    BY <1>1
  <1>3. \E k \in DOMAIN palette : palette[k] = pixel.color
    BY <1>2 DEF Indexing
  <1>4. i \in 1..Len(palette) /\ palette[i] = pixel.color
    BY <1>2, <1>3
  <1>5. pixel.color # NoColor
    BY <1>1, ImageAssumption DEF Pixels
  <1>6. i # 1
    BY <1>4, <1>5 DEF Indexing
  <1> HIDE DEF i
  <1>7. i - 1 \in 1..Len(palette) - 1 /\ (i - 1) + 1 = i
    BY <1>1, <1>4, <1>6
  <1>8. CASE pixel.clear
    <2>1. ColorIndex(palette, pixel) = 0
      BY <1>8 DEF ColorIndex
    <2> QED
      BY <1>8, <2>1 DEF Indexes
  <1>9. CASE ~pixel.clear
    <2>1. ColorIndex(palette, pixel) = i - 1
      BY <1>9 DEF ColorIndex, i
    <2>2. i - 1 \in Nat
      BY <1>1, <1>7
    <2>3. i - 1 \in 1..Len(palette) - 1 /\ palette[(i - 1) + 1] = picture[y][x].color
      BY <1>4, <1>7
    <2> QED
      BY <1>9, <2>1, <2>2, <2>3 DEF Indexes
  <1> QED
    BY <1>8, <1>9

\* The pixels that the loop over a line visits.
Cells(line) == [x \in 1..Width |-> line[x - 1]]
OneMore(rects, palette, pixel) == appendPixelToRect(rects, ColorIndex(palette, pixel))

\* The rects of a line written out.
LEMMA RectsAre ==
    ASSUME NEW line, NEW palette
    PROVE  Rects(line, palette) =
               (CHOOSE g : g = [s \in SUBSET DOMAIN Cells(line) |->
                                  IF s = {} THEN <<>>
                                  ELSE OneMore(g[s \ {Max(s)}], palette, Cells(line)[Max(s)])])
                  [DOMAIN Cells(line)]
  BY Zenon DEF Rects, FoldLeft, MapThenFoldSet, OneMore, Cells

\* A pixel more leaves a sequence of rects.
LEMMA OneMoreTyped ==
    ASSUME NEW rects \in Seq(Rect), NEW index \in Nat
    PROVE  appendPixelToRect(rects, index) \in Seq(Rect)
  <1> DEFINE n == Len(rects)
  <1>1. CASE rects = <<>> \/ rects[n].colorIndex # index
    <2>1. [length |-> 1, colorIndex |-> index] \in Rect
      BY DEF Rect
    <2> QED
      BY <1>1, <2>1 DEF appendPixelToRect
  <1>2. CASE ~(rects = <<>> \/ rects[n].colorIndex # index)
    <2>1. n \in 1..Len(rects) /\ rects[n] \in Rect
      BY <1>2, EmptySeq
    <2>2. [rects[n] EXCEPT !.length = @ + 1] \in Rect
      BY <2>1 DEF Rect
    <2>3. appendPixelToRect(rects, index) = [rects EXCEPT ![n] = [rects[n] EXCEPT !.length = @ + 1]]
      BY <1>2 DEF appendPixelToRect
    <2> QED
      BY <2>1, <2>2, <2>3
  <1> QED
    BY <1>1, <1>2

\* The rects after every pixel.
LEMMA RectsRun ==
    ASSUME NEW line, NEW palette, \A x \in 0..Width - 1 : ColorIndex(palette, line[x]) \in Nat
    PROVE  \E f \in [0..Len(Cells(line)) -> Seq(Rect)] :
               /\ f[0] = <<>>
               /\ \A k \in 1..Len(Cells(line)) :
                      f[k] = OneMore(f[k - 1], palette, Cells(line)[k])
               /\ Rects(line, palette) = f[Len(Cells(line))]
  <1> DEFINE seq == Cells(line)
             n == Len(seq)
             step == [p \in Seq(Rect) \X (1..n) |-> OneMore(p[1], palette, seq[p[2]])]
             Folded(g) == [s \in SUBSET DOMAIN seq |->
                              IF s = {} THEN <<>> ELSE OneMore(g[s \ {Max(s)}], palette, seq[Max(s)])]
             G == CHOOSE g : g = Folded(g)
  <1>1. n \in Nat /\ DOMAIN seq = 1..n
    BY ImageAssumption DEF Cells
  <1>2. <<>> \in Seq(Rect)
    BY EmptySeq
  <1>3. \A x \in Seq(Rect), k \in 1..n :
            /\ OneMore(x, palette, seq[k]) \in Seq(Rect)
            /\ step[<<x, k>>] = OneMore(x, palette, seq[k])
    <2>1. \A k \in 1..n : ColorIndex(palette, seq[k]) \in Nat
      <3> SUFFICES ASSUME NEW k \in 1..n PROVE ColorIndex(palette, seq[k]) \in Nat
        OBVIOUS
      <3>1. n = Width
        BY ImageAssumption DEF Cells
      <3>2. k \in 1..Width /\ k - 1 \in 0..Width - 1
        BY <3>1, ImageAssumption
      <3> QED
        BY <3>2 DEF Cells
    <2> HIDE DEF seq, n
    <2> QED
      BY <2>1, OneMoreTyped DEF OneMore
  <1>4. step \in [Seq(Rect) \X (1..n) -> Seq(Rect)]
    BY <1>3
  <1> HIDE DEF step, seq, n
  <1>5. PICK g \in [SUBSET (1..n) -> Seq(Rect)] : FoldsSets(g, Seq(Rect), <<>>, n, step)
    BY <1>1, <1>2, <1>4, PrefixFold
  <1>6. g = Folded(g)
    <2>1. ASSUME NEW s \in SUBSET (1..n)
          PROVE  g[s] = IF s = {} THEN <<>> ELSE OneMore(g[s \ {Max(s)}], palette, seq[Max(s)])
      <3>1. CASE s = {}
        BY <1>5, <3>1 DEF FoldsSets
      <3>2. CASE s # {}
        <4>1. Max(s) \in 1..n /\ s \ {Max(s)} \in SUBSET (1..n)
          BY <1>1, <3>2, LastOf
        <4>2. g[s \ {Max(s)}] \in Seq(Rect)
          BY <1>5, <4>1
        <4> QED
          BY <1>3, <1>5, <3>2, <4>1, <4>2 DEF FoldsSets
      <3> QED
        BY <3>1, <3>2
    <2> QED
      BY <1>1, <2>1
  <1>7. G = Folded(G)
    BY <1>6
  <1> HIDE DEF G
  <1>8. FoldsSets(G, Seq(Rect), <<>>, n, step)
    <2>1. \A s \in SUBSET (1..n) : s # {} => Max(s) \in 1..n
      BY <1>1, LastOf
    <2>2. G[{}] = <<>>
      BY <1>1, <1>7
    <2>3. ASSUME NEW s \in SUBSET (1..n), s # {}
          PROVE  G[s] = OneMore(G[s \ {Max(s)}], palette, seq[Max(s)])
      BY <1>1, <1>7, <2>3
    <2> HIDE DEF Folded
    <2> QED
      BY <1>3, <2>1, <2>2, <2>3 DEF FoldsSets
  <1>9. PICK f : FoldsPrefixes(f, Seq(Rect), <<>>, n, step, G[1..n])
    BY <1>1, <1>2, <1>4, <1>8, PrefixesOf
  <1>10. Rects(line, palette) = G[1..n]
    BY <1>1, RectsAre DEF G, seq
  <1>11. \A k \in 1..n : f[k] = OneMore(f[k - 1], palette, seq[k])
    <2>1. \A k \in 1..n : f[k - 1] \in Seq(Rect)
      BY <1>1, <1>9 DEF FoldsPrefixes
    <2> QED
      BY <1>3, <1>9, <2>1 DEF FoldsPrefixes
  <1> QED
    BY <1>9, <1>10, <1>11 DEF FoldsPrefixes, n, seq

\* Rects that cover the first pixels of a line in runs of one index, each from its start to
\* the next one's; neighbours differ.
RunsOf(rects, start, last, index) ==
    /\ rects \in Seq(Rect)
    /\ start \in [1..Len(rects) + 1 -> Nat] /\ start[1] = 0 /\ start[Len(rects) + 1] = last
    /\ \A i \in 1..Len(rects) :
           /\ start[i + 1] = start[i] + rects[i].length
           /\ \A x \in start[i]..start[i + 1] - 1 : index[x] = rects[i].colorIndex
    /\ \A i, j \in 1..Len(rects) + 1 : i < j => start[i] < start[j]
    /\ \A i \in 1..Len(rects) - 1 : rects[i].colorIndex # rects[i + 1].colorIndex

\* A pixel more leaves runs of one color, of one pixel more.
LEMMA RunsGrow ==
    ASSUME NEW rects, NEW start, NEW last \in Nat, NEW index,
           RunsOf(rects, start, last, index), index[last] \in Nat
    PROVE  \E start2 : RunsOf(appendPixelToRect(rects, index[last]), start2, last + 1, index)
  <1> DEFINE n == Len(rects)
             c == index[last]
             rects2 == appendPixelToRect(rects, c)
  <1>1. rects \in Seq(Rect) /\ n \in Nat /\ start \in [1..n + 1 -> Nat] /\ start[n + 1] = last
        /\ start[1] = 0
    BY DEF RunsOf
  <1>2. \A i \in 1..n : rects[i] \in Rect /\ rects[i].length \in Nat
    <2> SUFFICES ASSUME NEW i \in 1..n PROVE rects[i] \in Rect /\ rects[i].length \in Nat
      OBVIOUS
    <2>1. rects[i] \in Rect
      BY <1>1
    <2> QED
      BY <2>1 DEF Rect
  <1>3. /\ \A i \in 1..n :
               /\ start[i + 1] = start[i] + rects[i].length
               /\ \A x \in start[i]..start[i + 1] - 1 : index[x] = rects[i].colorIndex
        /\ \A i, j \in 1..n + 1 : i < j => start[i] < start[j]
        /\ \A i \in 1..n - 1 : rects[i].colorIndex # rects[i + 1].colorIndex
    BY DEF RunsOf
  <1>4. rects2 \in Seq(Rect)
    BY <1>1, OneMoreTyped
  <1> HIDE DEF c
  <1>5. CASE rects = <<>> \/ rects[n].colorIndex # c
    <2> DEFINE start2 == [i \in 1..n + 2 |-> IF i = n + 2 THEN last + 1 ELSE start[i]]
               new == [length |-> 1, colorIndex |-> c]
    <2>1. rects2 = Append(rects, new) /\ new \in Rect /\ new.length = 1 /\ new.colorIndex = c
      BY <1>5 DEF appendPixelToRect, Rect, c
    <2> HIDE DEF rects2, new, n
    <2>2. Len(rects2) = n + 1 /\ rects2[n + 1] = new /\ \A i \in 1..n : rects2[i] = rects[i]
      BY <1>1, <2>1, AppendProperties DEF n
    <2>3. /\ \A i \in 1..n + 1 : start2[i] = start[i]
          /\ start2[n + 2] = last + 1 /\ start2 \in [1..n + 2 -> Nat]
      BY <1>1
    <2> HIDE DEF start2
    <2>4. start2[1] = 0
      BY <1>1, <2>3
    <2>5. ASSUME NEW i \in 1..n + 1
          PROVE  /\ start2[i + 1] = start2[i] + rects2[i].length
                 /\ \A x \in start2[i]..start2[i + 1] - 1 : index[x] = rects2[i].colorIndex
      <3>1. CASE i \in 1..n
        <4>1. i \in 1..n + 1 /\ i + 1 \in 1..n + 1
          BY <1>1, <3>1
        <4>2. start2[i] = start[i] /\ start2[i + 1] = start[i + 1] /\ rects2[i] = rects[i]
          BY <2>2, <2>3, <3>1, <4>1
        <4> QED
          BY <1>3, <3>1, <4>2
      <3>2. CASE i = n + 1
        <4>1. start2[i] = last /\ start2[i + 1] = last + 1 /\ rects2[i] = new
          BY <1>1, <2>2, <2>3, <3>2
        <4>2. \A x \in last..(last + 1) - 1 : x = last
          OBVIOUS
        <4> QED
          BY <2>1, <4>1, <4>2 DEF c
      <3> QED
        BY <1>1, <3>1, <3>2
    <2>6. ASSUME NEW i \in 1..n + 2, NEW j \in 1..n + 2, i < j PROVE start2[i] < start2[j]
      <3>1. CASE j = n + 2
        <4>1. i \in 1..n + 1 /\ n + 1 \in 1..n + 1
          BY <1>1, <2>6, <3>1
        <4>2. start[i] <= last
          BY <1>1, <1>3, <4>1
        <4> QED
          BY <1>1, <2>3, <3>1, <4>1, <4>2
      <3>2. CASE j # n + 2
        <4>1. i \in 1..n + 1 /\ j \in 1..n + 1
          BY <1>1, <2>6, <3>2
        <4> QED
          BY <1>3, <2>3, <2>6, <4>1
      <3> QED
        BY <3>1, <3>2
    <2>7. ASSUME NEW i \in 1..n PROVE rects2[i].colorIndex # rects2[i + 1].colorIndex
      <3>1. CASE i = n
        <4>1. rects # <<>>
          BY <1>1, <3>1 DEF n
        <4> QED
          BY <1>5, <2>1, <2>2, <3>1, <4>1 DEF n
      <3>2. CASE i # n
        <4>1. i \in 1..n - 1 /\ i + 1 \in 1..n
          BY <1>1, <3>2
        <4> QED
          BY <1>3, <2>2, <4>1
      <3> QED
        BY <3>1, <3>2
    <2>8. Len(rects2) + 1 = n + 2 /\ Len(rects2) - 1 = n
      BY <1>1, <2>2
    <2>9. RunsOf(rects2, start2, last + 1, index)
      BY <1>4, <2>2, <2>3, <2>4, <2>5, <2>6, <2>7, <2>8 DEF RunsOf
    <2> QED
      BY <2>9 DEF rects2, c
  <1>6. CASE ~(rects = <<>> \/ rects[n].colorIndex # c)
    <2> DEFINE start2 == [i \in 1..n + 1 |-> IF i = n + 1 THEN last + 1 ELSE start[i]]
               new == [length |-> rects[n].length + 1, colorIndex |-> c]
    <2>1. n \in 1..n /\ n >= 1 /\ rects[n].colorIndex = c
      BY <1>1, <1>6, EmptySeq
    <2>2. rects2 = [rects EXCEPT ![n] = new] /\ new \in Rect
      <3>1. rects2 = [rects EXCEPT ![n] = [rects[n] EXCEPT !.length = @ + 1]]
        BY <1>6 DEF appendPixelToRect, c
      <3>2. rects[n] \in Rect
        BY <1>2, <2>1
      <3>3. [rects[n] EXCEPT !.length = @ + 1] = new
        BY <2>1, <3>2 DEF Rect
      <3>4. new \in Rect
        BY <2>1, <3>2 DEF Rect
      <3> QED
        BY <3>1, <3>3, <3>4
    <2>3. new.length = rects[n].length + 1 /\ new.colorIndex = c
      OBVIOUS
    <2> HIDE DEF rects2, new, n
    <2>4. Len(rects2) = n /\ \A i \in 1..n : rects2[i] = IF i = n THEN new ELSE rects[i]
      BY <1>1, <2>2 DEF n
    <2>5. /\ \A i \in 1..n : start2[i] = start[i]
          /\ start2[n + 1] = last + 1 /\ start2 \in [1..n + 1 -> Nat]
      BY <1>1
    <2> HIDE DEF start2
    <2>6. start2[1] = 0
      BY <1>1, <2>1, <2>5
    <2>7. ASSUME NEW i \in 1..n
          PROVE  /\ start2[i + 1] = start2[i] + rects2[i].length
                 /\ \A x \in start2[i]..start2[i + 1] - 1 : index[x] = rects2[i].colorIndex
      <3>1. CASE i # n
        <4>1. i + 1 \in 1..n
          BY <1>1, <3>1
        <4>2. start2[i] = start[i] /\ start2[i + 1] = start[i + 1] /\ rects2[i] = rects[i]
          BY <2>4, <2>5, <3>1, <4>1
        <4> QED
          BY <1>3, <4>2
      <3>2. CASE i = n
        <4>1. start2[i] = start[n] /\ start2[i + 1] = last + 1 /\ rects2[i] = new
          BY <2>1, <2>4, <2>5, <3>2
        <4>2. last = start[n] + rects[n].length /\ start[n] \in Nat /\ rects[n].length \in Nat
          BY <1>1, <1>2, <1>3, <2>1
        <4>3. ASSUME NEW x \in start[n]..(last + 1) - 1 PROVE index[x] = c
          <5>1. CASE x = last
            BY <5>1 DEF c
          <5>2. CASE x # last
            <6>1. x \in start[n]..start[n + 1] - 1
              BY <1>1, <4>2, <5>2
            <6> QED
              BY <1>3, <2>1, <6>1
          <5> QED
            BY <5>1, <5>2
        <4> QED
          BY <2>3, <4>1, <4>2, <4>3
      <3> QED
        BY <3>1, <3>2
    <2>8. ASSUME NEW i \in 1..n + 1, NEW j \in 1..n + 1, i < j PROVE start2[i] < start2[j]
      <3>1. CASE j = n + 1
        <4>1. i \in 1..n /\ n + 1 \in 1..n + 1
          BY <1>1, <2>8, <3>1
        <4>2. start[i] < last
          BY <1>1, <1>3, <4>1
        <4> QED
          BY <1>1, <2>5, <3>1, <4>1, <4>2
      <3>2. CASE j # n + 1
        <4>1. i \in 1..n /\ j \in 1..n
          BY <1>1, <2>8, <3>2
        <4> QED
          BY <1>3, <2>5, <2>8, <4>1
      <3> QED
        BY <3>1, <3>2
    <2>9. ASSUME NEW i \in 1..n - 1 PROVE rects2[i].colorIndex # rects2[i + 1].colorIndex
      <3>1. i \in 1..n /\ i + 1 \in 1..n /\ i # n
        BY <1>1
      <3>2. rects2[i] = rects[i] /\ rects2[i + 1].colorIndex = rects[i + 1].colorIndex
        BY <2>1, <2>3, <2>4, <3>1
      <3> QED
        BY <1>3, <3>2
    <2>10. RunsOf(rects2, start2, last + 1, index)
      BY <1>4, <2>4, <2>5, <2>6, <2>7, <2>8, <2>9 DEF RunsOf
    <2> QED
      BY <2>10 DEF rects2, c
  <1> QED
    BY <1>5, <1>6

\* A line in runs.
LEMMA LineRuns ==
    ASSUME NEW line, NEW palette,
           \A x \in 0..Width - 1 : ColorIndex(palette, line[x]) \in Nat
    PROVE  \E start : RunsOf(Rects(line, palette), start, Width,
                             [x \in 0..Width - 1 |-> ColorIndex(palette, line[x])])
  <1> DEFINE seq == Cells(line)
             index == [x \in 0..Width - 1 |-> ColorIndex(palette, line[x])]
  <1>1. Width \in Nat /\ Len(seq) = Width /\ \A k \in 1..Width : seq[k] = line[k - 1]
    BY ImageAssumption DEF Cells
  <1>2. PICK f \in [0..Width -> Seq(Rect)] :
            /\ f[0] = <<>>
            /\ \A k \in 1..Width : f[k] = OneMore(f[k - 1], palette, seq[k])
            /\ Rects(line, palette) = f[Width]
    BY <1>1, RectsRun
  <1> DEFINE Good(k) == \E start : RunsOf(f[k], start, k, index)
             T == {k \in 0..Width : Good(k)}
  <1>3. \A k \in 0..Width : k \in T
    <2>1. 0 \in T
      <3> DEFINE start == [i \in 1..1 |-> 0]
      <3>1. f[0] = <<>> /\ f[0] \in Seq(Rect) /\ Len(f[0]) = 0
        BY <1>1, <1>2
      <3>2. start \in [1..0 + 1 -> Nat] /\ start[1] = 0 /\ start[0 + 1] = 0
        OBVIOUS
      <3>3. \A i \in 1..0 : FALSE
        OBVIOUS
      <3>4. \A i, j \in 1..0 + 1 : ~(i < j)
        OBVIOUS
      <3>5. \A i \in 1..0 - 1 : FALSE
        OBVIOUS
      <3> HIDE DEF start, index
      <3>6. RunsOf(f[0], start, 0, index)
        BY <3>1, <3>2, <3>3, <3>4, <3>5 DEF RunsOf
      <3> QED
        BY <1>1, <3>6
    <2>2. ASSUME NEW k \in 0..Width - 1, k \in T PROVE k + 1 \in T
      <3>1. k + 1 \in 1..Width /\ k + 1 \in 0..Width /\ (k + 1) - 1 = k /\ k \in Nat
        BY <1>1
      <3>2. index[k] = ColorIndex(palette, line[k]) /\ index[k] \in Nat
        OBVIOUS
      <3>3. f[k + 1] = appendPixelToRect(f[k], index[k])
        BY <1>1, <1>2, <3>1, <3>2 DEF OneMore
      <3>4. PICK start : RunsOf(f[k], start, k, index)
        BY <2>2
      <3> HIDE DEF index
      <3>5. Good(k + 1)
        BY <3>1, <3>2, <3>3, <3>4, RunsGrow
      <3> HIDE DEF Good
      <3> QED
        BY <3>1, <3>5
    <2> HIDE DEF T
    <2> QED
      BY <1>1, <2>1, <2>2, Reached
  <1>4. Good(Width)
    <2>1. Width \in 0..Width
      BY <1>1
    <2> HIDE DEF Good
    <2> QED
      BY <1>3, <2>1
  <1> QED
    BY <1>2, <1>4

-----------------------------------------------------------------------------
(* The rows between the bounds.                                            *)

\* Rects that lead on from one piece to the next.
LEMMA LeadsFlat ==
    ASSUME NEW left, NEW right, NEW picture, NEW palette,
           NEW n \in Nat, NEW seqs \in Seq(Seq(Rect)), Len(seqs) = n,
           NEW at \in [0..n -> Place],
           \A k \in 1..n : Leads(seqs[k], left, right, picture, palette, at[k - 1], at[k])
    PROVE  /\ FlattenSeq(seqs) \in Seq(Rect)
           /\ Leads(FlattenSeq(seqs), left, right, picture, palette, at[0], at[n])
  <1>1. PICK f \in [0..n -> Seq(Rect)] :
            /\ f[0] = <<>> /\ FlattenSeq(seqs) = f[n]
            /\ \A k \in 1..n : f[k] = f[k - 1] \o seqs[k]
    <2>1. PICK f : Flattens(f, Rect, seqs)
      BY FlattenRuns
    <2> QED
      BY <2>1 DEF Flattens
  <1> DEFINE Good(k) == Leads(f[k], left, right, picture, palette, at[0], at[k])
             T == {k \in 0..n : Good(k)}
  <1>2. \A k \in 0..n : k \in T
    <2>1. 0 \in T
      BY <1>1, LeadsNowhere
    <2>2. ASSUME NEW k \in 0..n - 1, k \in T PROVE k + 1 \in T
      <3>1. k + 1 \in 1..n /\ k + 1 \in 0..n /\ (k + 1) - 1 = k /\ k \in 0..n
        OBVIOUS
      <3>2. f[k] \in Seq(Rect) /\ seqs[k + 1] \in Seq(Rect) /\ f[k + 1] = f[k] \o seqs[k + 1]
        <4>1. f[k + 1] = f[(k + 1) - 1] \o seqs[k + 1]
          BY <1>1, <3>1
        <4>2. seqs[k + 1] \in Seq(Rect)
          BY <3>1
        <4> QED
          BY <1>1, <3>1, <4>1, <4>2
      <3>3. Leads(seqs[k + 1], left, right, picture, palette, at[k], at[k + 1])
        BY <3>1
      <3>4. Good(k + 1)
        BY <2>2, <3>2, <3>3, LeadsOn
      <3> HIDE DEF Good
      <3> QED
        BY <3>1, <3>4
    <2> HIDE DEF T
    <2> QED
      BY <2>1, <2>2, Reached
  <1>3. n \in 0..n /\ n \in T
    BY <1>2
  <1> QED
    BY <1>1, <1>3

\* A row is empty when no pixel of it is drawn.
LEMMA EmptyRow ==
    ASSUME NEW rects, NEW start, NEW index, RunsOf(rects, start, Width, index)
    PROVE  /\ isEmptyRow(rects) <=> \A x \in 0..Width - 1 : index[x] = 0
           /\ Len(rects) \in Nat /\ Len(rects) >= 1
  <1> DEFINE n == Len(rects)
  <1>1. /\ rects \in Seq(Rect) /\ n \in Nat /\ start \in [1..n + 1 -> Nat]
        /\ start[1] = 0 /\ start[n + 1] = Width
        /\ \A i \in 1..n :
               /\ start[i + 1] = start[i] + rects[i].length
               /\ \A x \in start[i]..start[i + 1] - 1 : index[x] = rects[i].colorIndex
        /\ \A i, j \in 1..n + 1 : i < j => start[i] < start[j]
        /\ \A i \in 1..n - 1 : rects[i].colorIndex # rects[i + 1].colorIndex
    <2>1. rects \in Seq(Rect)
      BY DEF RunsOf
    <2>2. n \in Nat
      BY <2>1
    <2> QED
      BY <2>1, <2>2, Zenon DEF RunsOf
  <1>2. Width \in Nat /\ Width >= 1
    BY ImageAssumption
  <1>3. n >= 1
    BY <1>1, <1>2
  <1>4. rects[1] \in Rect /\ rects[1].length \in Nat
    <2>1. rects[1] \in Rect
      BY <1>1, <1>3
    <2> QED
      BY <2>1 DEF Rect
  <1>5. start[2] = rects[1].length
    <2>1. start[1 + 1] = start[1] + rects[1].length
      BY <1>1, <1>3
    <2> QED
      BY <1>1, <1>4, <2>1
  <1> HIDE DEF n
  <1>6. ASSUME isEmptyRow(rects), NEW x \in 0..Width - 1 PROVE index[x] = 0
    <2>1. start[1] = 0 /\ start[2] = Width /\ rects[1].colorIndex = 0
      BY <1>1, <1>5, <1>6 DEF isEmptyRow
    <2>2. \A z \in start[1]..start[1 + 1] - 1 : index[z] = rects[1].colorIndex
      BY <1>1, <1>3
    <2> QED
      BY <2>1, <2>2
  <1>7. ASSUME \A x \in 0..Width - 1 : index[x] = 0 PROVE isEmptyRow(rects)
    <2>1. ASSUME NEW i \in 1..n PROVE rects[i].colorIndex = 0
      <3>1. i \in 1..n + 1 /\ i + 1 \in 1..n + 1 /\ n + 1 \in 1..n + 1
        BY <1>1
      <3>2. start[i] < start[i + 1] /\ start[i + 1] <= Width /\ start[i] \in Nat
        <4>1. i + 1 = n + 1 \/ i + 1 < n + 1
          BY <1>1
        <4> QED
          BY <1>1, <1>2, <3>1, <4>1
      <3>3. start[i] \in start[i]..start[i + 1] - 1 /\ start[i] \in 0..Width - 1
        BY <1>1, <1>2, <3>1, <3>2
      <3> QED
        BY <1>1, <1>7, <3>3
    <2>2. n = 1
      <3>1. SUFFICES ASSUME n # 1 PROVE FALSE
        OBVIOUS
      <3>2. 1 \in 1..n - 1 /\ 1 \in 1..n /\ 2 \in 1..n
        BY <1>1, <1>3, <3>1
      <3>3. rects[1].colorIndex # rects[1 + 1].colorIndex
        BY <1>1, <3>2
      <3> QED
        BY <2>1, <3>2, <3>3
    <2>3. start[2] = Width
      BY <1>1, <2>2
    <2>4. rects[1].colorIndex = 0
      BY <2>1, <2>2
    <2> QED
      BY <1>5, <2>3, <2>4 DEF isEmptyRow
  <1> QED
    BY <1>1, <1>3, <1>6, <1>7 DEF n

\* The pixels before the last start of a row's first rect, and from its last rect on, are of
\* the index at the edge.
LEMMA Edges ==
    ASSUME NEW rects, NEW start, NEW index, RunsOf(rects, start, Width, index)
    PROVE  LET n == Len(rects)
           IN  /\ rects[1].length \in 1..Width /\ rects[n].length \in 1..Width
               /\ start[2] = rects[1].length /\ start[n] = Width - rects[n].length
               /\ \A x \in 0..rects[1].length - 1 : index[x] = index[0]
               /\ \A x \in Width - rects[n].length..Width - 1 : index[x] = index[Width - 1]
  <1> DEFINE n == Len(rects)
  <1>1. /\ rects \in Seq(Rect) /\ n \in Nat /\ start \in [1..n + 1 -> Nat]
        /\ start[1] = 0 /\ start[n + 1] = Width
        /\ \A i \in 1..n :
               /\ start[i + 1] = start[i] + rects[i].length
               /\ \A x \in start[i]..start[i + 1] - 1 : index[x] = rects[i].colorIndex
        /\ \A i, j \in 1..n + 1 : i < j => start[i] < start[j]
    BY DEF RunsOf
  <1>2. Width \in Nat /\ Width >= 1 /\ n >= 1
    BY ImageAssumption, EmptyRow
  <1>3. rects[1].length \in Nat /\ rects[n].length \in Nat
    <2>1. rects[1] \in Rect /\ rects[n] \in Rect
      BY <1>1, <1>2
    <2> QED
      BY <2>1 DEF Rect
  <1> HIDE DEF n
  <1>4. 1 \in 1..n /\ n \in 1..n /\ 1 \in 1..n + 1 /\ 2 \in 1..n + 1 /\ n \in 1..n + 1
        /\ n + 1 \in 1..n + 1 /\ 1 + 1 = 2
    BY <1>1, <1>2
  <1>5. start[2] = rects[1].length
    <2>1. start[1 + 1] = start[1] + rects[1].length
      BY <1>1, <1>4
    <2> QED
      BY <1>1, <1>3, <2>1
  <1>6. start[n] = Width - rects[n].length
    <2>1. start[n + 1] = start[n] + rects[n].length /\ start[n] \in Nat
      BY <1>1, <1>4
    <2> QED
      BY <1>1, <1>2, <1>3, <2>1
  <1>7. start[1] < start[2] /\ start[2] <= Width /\ start[n] < Width /\ start[n] \in Nat
    <2>1. 2 = n + 1 \/ 2 < n + 1
      BY <1>1, <1>2
    <2>2. n < n + 1 /\ 1 < 2
      BY <1>1
    <2> QED
      BY <1>1, <1>2, <1>4, <2>1, <2>2
  <1>8. \A x \in 0..rects[1].length - 1 : index[x] = rects[1].colorIndex
    <2>1. \A x \in start[1]..start[1 + 1] - 1 : index[x] = rects[1].colorIndex
      BY <1>1, <1>4
    <2> QED
      BY <1>1, <1>4, <1>5, <2>1
  <1>9. \A x \in Width - rects[n].length..Width - 1 : index[x] = rects[n].colorIndex
    <2>1. \A x \in start[n]..start[n + 1] - 1 : index[x] = rects[n].colorIndex
      BY <1>1, <1>4
    <2> QED
      BY <1>1, <1>6, <2>1
  <1>10. 0 \in 0..rects[1].length - 1 /\ Width - 1 \in Width - rects[n].length..Width - 1
    BY <1>1, <1>2, <1>3, <1>5, <1>6, <1>7, SMTT(30)
  <1>11. rects[1].length \in 1..Width /\ rects[n].length \in 1..Width
    BY <1>1, <1>2, <1>3, <1>5, <1>6, <1>7, SMTT(30)
  <1> QED
    BY <1>5, <1>6, <1>8, <1>9, <1>10, <1>11 DEF n

\* What is left of rect i between the bounds.
KeptLength(rects, left, right, i) ==
    LET n == Len(rects)
        margin == Width - right
    IN  CASE n = 1 -> right - left
          [] n > 1 /\ i = 1 /\ rects[i].length >= left -> rects[i].length - left
          [] n > 1 /\ i = n /\ rects[i].length >= margin -> rects[i].length - margin
          [] OTHER -> rects[i].length
KeptRects(rects, left, right) ==
    [i \in 1..Len(rects) |->
        IF Len(rects) > 1 /\ KeptLength(rects, left, right, i) = 0 THEN <<>>
        ELSE <<[length |-> KeptLength(rects, left, right, i), colorIndex |-> rects[i].colorIndex]>>]

\* getEncodedRow written out: what is kept of every rect of the row.
LEMMA EncodedRowIs ==
    ASSUME NEW rects, NEW left, NEW right
    PROVE  EncodedRow(rects, left, right) = FlattenSeq(KeptRects(rects, left, right))
  BY Zenon DEF EncodedRow, KeptRects, KeptLength

\* The rects of a row lead from its left bound to that of the row below.
LEMMA RowLeads ==
    ASSUME NEW picture, NEW palette, NEW y \in 0..Height - 1,
           NEW rects, NEW start, NEW index, RunsOf(rects, start, Width, index),
           \A x \in 0..Width - 1 : Indexes(picture, palette, y, x, index[x]),
           NEW left \in Nat, NEW right \in Nat, left < right, right <= Width,
           left <= rects[1].length, Width - right <= rects[Len(rects)].length
    PROVE  /\ EncodedRow(rects, left, right) \in Seq(Rect)
           /\ Leads(EncodedRow(rects, left, right), left, right, picture, palette,
                    [x |-> left, y |-> y], [x |-> left, y |-> y + 1])
  <1> DEFINE n == Len(rects)
             keeps(i) == KeptLength(rects, left, right, i)
             p == [i \in 0..n |-> IF i = 0 THEN left ELSE IF i = n THEN right ELSE start[i + 1]]
             at == [i \in 0..n |-> IF i # 0 /\ p[i] = right THEN [x |-> left, y |-> y + 1]
                                   ELSE [x |-> p[i], y |-> y]]
             piece == KeptRects(rects, left, right)
  <1>0. Width \in Nat /\ n \in Nat /\ n >= 1 /\ y \in Int
    BY ImageAssumption, EmptyRow
  <1>1. /\ rects \in Seq(Rect) /\ start \in [1..n + 1 -> Nat]
        /\ start[1] = 0 /\ start[n + 1] = Width
    BY DEF RunsOf
  <1>2. /\ \A i \in 1..n : start[i + 1] = start[i] + rects[i].length
        /\ \A i \in 1..n : \A x \in start[i]..start[i + 1] - 1 : index[x] = rects[i].colorIndex
        /\ \A i, j \in 1..n + 1 : i < j => start[i] < start[j]
    BY DEF RunsOf
  <1>3. /\ rects[1].length \in 1..Width /\ rects[n].length \in 1..Width
        /\ start[2] = rects[1].length /\ start[n] = Width - rects[n].length
    BY Edges
  <1>4. \A i \in 1..n : rects[i] \in Rect
    BY <1>1
  <1>5. \A i \in 1..n : rects[i].length \in Nat /\ rects[i].colorIndex \in Nat
    BY <1>4 DEF Rect
  <1> HIDE DEF n
  <1>6. /\ p[0] = left /\ p[n] = right
        /\ \A i \in 1..n - 1 : p[i] = start[i + 1]
        /\ \A i \in 0..n : p[i] \in Nat
    <2>1. p[0] = left /\ p[n] = right
      BY <1>0
    <2>2. ASSUME NEW i \in 1..n - 1 PROVE p[i] = start[i + 1] /\ p[i] \in Nat
      <3>1. i \in 0..n /\ i # 0 /\ i # n /\ i + 1 \in 1..n + 1
        BY <1>0
      <3> QED
        BY <1>1, <3>1
    <2>3. \A i \in 0..n : i = 0 \/ i = n \/ i \in 1..n - 1
      BY <1>0
    <2> HIDE DEF p
    <2> QED
      BY <2>1, <2>2, <2>3
  <1> HIDE DEF p
  <1>7. ASSUME NEW i \in 1..n
        PROVE  /\ i - 1 \in 0..n /\ i \in 0..n
               /\ keeps(i) = p[i] - p[i - 1] /\ p[i - 1] <= p[i]
               /\ start[i] <= p[i - 1] /\ p[i] <= start[i + 1] /\ p[i] <= right /\ left <= p[i - 1]
               /\ i > 1 /\ p[i - 1] = p[i] => p[i] = right
               /\ i = 1 => p[i - 1] < right
    <2>0. /\ i - 1 \in 0..n /\ i \in 0..n /\ i \in 1..n + 1 /\ i + 1 \in 1..n + 1
          /\ start[i] \in Nat /\ start[i + 1] \in Nat /\ start[i + 1] = start[i] + rects[i].length
      <3>1. i - 1 \in 0..n /\ i \in 0..n /\ i \in 1..n + 1 /\ i + 1 \in 1..n + 1
        BY <1>0
      <3> QED
        BY <1>1, <1>2, <3>1
    <2>1. CASE n = 1
      <3>1. i = 1 /\ p[i] = right /\ p[i - 1] = left /\ start[i] = 0 /\ start[i + 1] = Width
        BY <1>0, <1>1, <1>6, <2>1
      <3>2. keeps(i) = right - left
        BY <2>1 DEF KeptLength, n
      <3> QED
        BY <1>0, <2>0, <2>1, <3>1, <3>2
    <2>2. CASE n > 1
      <3>0. \A j \in 2..n : start[2] <= start[j] /\ start[j] <= start[n]
        <4> SUFFICES ASSUME NEW j \in 2..n PROVE start[2] <= start[j] /\ start[j] <= start[n]
          OBVIOUS
        <4>1. j \in 1..n + 1 /\ 2 \in 1..n + 1 /\ n \in 1..n + 1
          BY <1>0, <2>2
        <4>2. start[2] \in Nat /\ start[j] \in Nat /\ start[n] \in Nat
          BY <1>1, <4>1
        <4>3. (2 = j \/ 2 < j) /\ (j = n \/ j < n)
          BY <1>0
        <4> QED
          BY <1>2, <4>1, <4>2, <4>3, SMTT(30)
      <3>1. left <= start[2] /\ start[n] <= right /\ start[2] \in Nat /\ start[n] \in Nat
        BY <1>0, <1>3 DEF n
      <3>2. start[2] <= start[n] /\ (n > 2 => start[2] < start[n])
        <4>1. 2 \in 2..n /\ 2 \in 1..n + 1 /\ n \in 1..n + 1
          BY <1>0, <2>2
        <4> QED
          BY <1>2, <3>0, <4>1
      <3>3. CASE i = 1
        <4>1. p[i - 1] = left /\ p[i] = start[2] /\ start[i] = 0 /\ start[i + 1] = start[2]
          <5>1. i \in 1..n - 1 /\ i + 1 = 2 /\ i - 1 = 0
            BY <1>0, <2>2, <3>3
          <5> QED
            BY <1>1, <1>6, <3>3, <5>1
        <4>2. keeps(i) = rects[1].length - left
          <5>1. rects[i].length >= left /\ n # 1
            BY <1>3, <2>2, <3>3
          <5> QED
            BY <2>2, <3>3, <5>1 DEF KeptLength, n
        <4>3. keeps(i) = p[i] - p[i - 1]
          BY <1>3, <4>1, <4>2
        <4>4. p[i - 1] <= p[i] /\ start[i] <= p[i - 1] /\ p[i] <= start[i + 1] /\ left <= p[i - 1]
          BY <3>1, <4>1
        <4>5. p[i] <= right /\ p[i - 1] < right
          BY <3>1, <3>2, <4>1
        <4> HIDE DEF keeps
        <4> QED
          BY <2>0, <3>3, <4>3, <4>4, <4>5
      <3>4. CASE i = n
        <4>1. p[i] = right /\ p[i - 1] = start[n] /\ start[i + 1] = Width
          <5>1. i - 1 \in 1..n - 1 /\ (i - 1) + 1 = n
            BY <1>0, <2>2, <3>4
          <5> QED
            BY <1>1, <1>6, <3>4, <5>1
        <4>2. keeps(i) = rects[n].length - (Width - right)
          <5>1. rects[i].length >= Width - right /\ n # 1 /\ i # 1
            BY <2>2, <3>4 DEF n
          <5> QED
            BY <2>2, <3>4, <5>1 DEF KeptLength, n
        <4>3. rects[n].length \in Nat /\ start[i] = start[n] /\ start[n] = Width - rects[n].length
          BY <1>3, <3>4
        <4>4. keeps(i) = p[i] - p[i - 1]
          BY <1>0, <4>1, <4>2, <4>3
        <4>5. p[i - 1] <= p[i] /\ start[i] <= p[i - 1] /\ p[i] <= start[i + 1] /\ p[i] <= right
          BY <3>1, <4>1, <4>3
        <4>6. left <= p[i - 1]
          BY <3>1, <3>2, <4>1
        <4>7. i # 1
          BY <2>2, <3>4
        <4> HIDE DEF keeps
        <4> QED
          BY <2>0, <4>1, <4>4, <4>5, <4>6, <4>7
      <3>5. CASE i # 1 /\ i # n
        <4>1. i \in 2..n - 1 /\ i - 1 \in 1..n - 1 /\ i \in 1..n - 1 /\ (i - 1) + 1 = i
              /\ i \in 2..n /\ i + 1 \in 2..n
          BY <1>0, <3>5
        <4>2. p[i - 1] = start[i] /\ p[i] = start[i + 1]
          BY <1>6, <4>1
        <4>3. keeps(i) = rects[i].length
          BY <2>2, <3>5 DEF KeptLength, n
        <4>4. start[i] < start[i + 1]
          BY <1>2, <2>0
        <4>5. start[2] <= start[i] /\ start[i + 1] <= start[n]
          BY <3>0, <4>1
        <4>6. rects[i].length \in Nat
          BY <1>5
        <4>7. keeps(i) = p[i] - p[i - 1]
          BY <2>0, <4>2, <4>3, <4>6
        <4>8. p[i - 1] < p[i] /\ start[i] <= p[i - 1] /\ p[i] <= start[i + 1]
          BY <2>0, <4>2, <4>4
        <4>9. p[i] <= right /\ left <= p[i - 1]
          BY <2>0, <3>1, <4>2, <4>5, SMTT(30)
        <4>10. p[i - 1] \in Nat /\ p[i] \in Nat
          BY <2>0, <4>2
        <4> HIDE DEF keeps
        <4> QED
          BY <2>0, <3>5, <4>7, <4>8, <4>9, <4>10
      <3> QED
        BY <3>3, <3>4, <3>5
    <2> QED
      BY <1>0, <2>1, <2>2
  <1>8. at \in [0..n -> Place] /\ at[0] = [x |-> left, y |-> y] /\ at[n] = [x |-> left, y |-> y + 1]
    <2>1. at[0] = [x |-> left, y |-> y] /\ at[n] = [x |-> left, y |-> y + 1]
      BY <1>0, <1>6
    <2>2. ASSUME NEW i \in 0..n PROVE at[i] \in Place
      BY <1>0, <1>6 DEF Place
    <2> QED
      BY <2>1, <2>2
  <1>9. Len(piece) = n /\ piece \in Seq(Seq(Rect))
    <2>1. ASSUME NEW i \in 1..n PROVE piece[i] \in Seq(Rect)
      <3> DEFINE rect == [length |-> keeps(i), colorIndex |-> rects[i].colorIndex]
      <3>1. keeps(i) \in Nat
        <4> HIDE DEF keeps
        <4> QED
          BY <1>6, <1>7, SMTT(30)
      <3>2. rect \in Rect
        <4> HIDE DEF keeps
        <4> QED
          BY <1>5, <3>1 DEF Rect
      <3>3. piece[i] = IF n > 1 /\ keeps(i) = 0 THEN <<>> ELSE <<rect>>
        BY DEF KeptRects, n
      <3> HIDE DEF piece, keeps, rect
      <3> QED
        BY <3>2, <3>3, EmptySeq
    <2>2. DOMAIN piece = 1..n /\ piece = [i \in 1..n |-> piece[i]] /\ Len(piece) = n
      BY <1>0 DEF KeptRects, n
    <2> HIDE DEF piece
    <2> QED
      BY <1>0, <2>1, <2>2, SMTT(30)
  <1>10. ASSUME NEW i \in 1..n
         PROVE  Leads(piece[i], left, right, picture, palette, at[i - 1], at[i])
    <2> DEFINE rect == [length |-> keeps(i), colorIndex |-> rects[i].colorIndex]
    <2>1. piece[i] = IF n > 1 /\ keeps(i) = 0 THEN <<>> ELSE <<rect>>
      BY DEF KeptRects, n
    <2>2. /\ at[i - 1] = IF i - 1 # 0 /\ p[i - 1] = right THEN [x |-> left, y |-> y + 1]
                         ELSE [x |-> p[i - 1], y |-> y]
          /\ at[i] = IF p[i] = right THEN [x |-> left, y |-> y + 1] ELSE [x |-> p[i], y |-> y]
      BY <1>7
    <2>3. at[i - 1] \in Place /\ at[i] \in Place
      BY <1>7, <1>8
    <2>4. p[i - 1] \in Nat /\ p[i] \in Nat
      BY <1>6, <1>7
    <2> HIDE DEF keeps, piece, at
    <2>5. CASE n > 1 /\ keeps(i) = 0
      <3>1. piece[i] = <<>>
        BY <2>1, <2>5
      <3>2. p[i - 1] = p[i] /\ (i > 1 => p[i] = right) /\ (i = 1 => p[i - 1] < right)
        BY <1>7, <2>4, <2>5
      <3>3. at[i - 1] = at[i]
        BY <2>2, <2>4, <3>2
      <3> QED
        BY <2>3, <3>1, <3>3, LeadsNowhere
    <2>6. CASE ~(n > 1 /\ keeps(i) = 0)
      <3>1. piece[i] = <<rect>>
        BY <2>1, <2>6
      <3>2. p[i - 1] < p[i]
        <4>1. CASE n = 1
          BY <1>0, <1>6, <4>1
        <4>2. CASE n # 1
          BY <1>0, <1>7, <2>4, <2>6, <4>2
        <4> QED
          BY <4>1, <4>2
      <3>3. p[i] <= right /\ left <= p[i - 1] /\ keeps(i) = p[i] - p[i - 1]
            /\ start[i] <= p[i - 1] /\ p[i] <= start[i + 1]
        BY <1>7
      <3>4. at[i - 1] = [x |-> p[i - 1], y |-> y]
        BY <2>2, <2>4, <3>2, <3>3
      <3>5. rect \in Rect /\ rect.length = p[i] - p[i - 1] /\ rect.colorIndex = rects[i].colorIndex
        BY <1>5, <2>4, <3>2, <3>3 DEF Rect
      <3> HIDE DEF rect
      <3>6. ASSUME NEW x \in p[i - 1]..p[i] - 1
            PROVE  Indexes(picture, palette, y, x, rect.colorIndex)
        <4>1. start[i] \in Nat /\ start[i + 1] \in Nat /\ start[i + 1] <= Width
          <5>1. i \in 1..n + 1 /\ i + 1 \in 1..n + 1 /\ n + 1 \in 1..n + 1
            BY <1>0
          <5>2. i + 1 = n + 1 \/ i + 1 < n + 1
            BY <1>0
          <5> QED
            BY <1>0, <1>1, <1>2, <5>1, <5>2
        <4>2. x \in start[i]..start[i + 1] - 1 /\ x \in 0..Width - 1
          <5>1. start[i] <= x /\ x <= p[i] - 1 /\ x \in Int
            BY <2>4, <3>3, <4>1
          <5>2. p[i] <= start[i + 1] /\ start[i + 1] <= Width
            BY <3>3, <4>1
          <5> QED
            BY <1>0, <2>4, <4>1, <5>1, <5>2, SMTT(30)
        <4>3. index[x] = rect.colorIndex
          BY <1>2, <3>5, <4>2
        <4> QED
          BY <4>2, <4>3
      <3>7. Stroke(left, right, picture, palette, at[i - 1], rect, at[i])
        <4>1. at[i - 1].x = p[i - 1] /\ at[i - 1].y = y
          BY <3>4
        <4>2. p[i - 1] + rect.length = p[i] /\ rect.length >= 1
          BY <2>4, <3>2, <3>5
        <4>3. at[i] = IF p[i] = right THEN [x |-> left, y |-> y + 1] ELSE [x |-> p[i], y |-> y]
          BY <2>2
        <4> HIDE DEF p
        <4>4. at[i] = IF at[i - 1].x + rect.length = right THEN [x |-> left, y |-> at[i - 1].y + 1]
                      ELSE [x |-> at[i - 1].x + rect.length, y |-> at[i - 1].y]
          BY <4>1, <4>2, <4>3
        <4>5. \A x \in at[i - 1].x..at[i - 1].x + rect.length - 1 :
                  Indexes(picture, palette, at[i - 1].y, x, rect.colorIndex)
          <5>1. /\ at[i - 1].x = p[i - 1] /\ at[i - 1].y = y
                /\ at[i - 1].x + rect.length - 1 = p[i] - 1
            <6>1. at[i - 1].x + rect.length = p[i]
              BY <4>1, <4>2
            <6>2. rect.length \in Int /\ at[i - 1].x \in Int
              BY <2>4, <3>5, <4>1
            <6> HIDE DEF p
            <6> QED
              BY <2>4, <4>1, <6>1, <6>2
          <5>2. \A x \in p[i - 1]..p[i] - 1 : Indexes(picture, palette, y, x, rect.colorIndex)
            BY <3>6
          <5> QED
            BY <5>1, <5>2, Zenon
        <4>6. at[i - 1].y \in 0..Height - 1 /\ left <= at[i - 1].x /\ at[i - 1].x + rect.length <= right
          BY <3>3, <4>1, <4>2
        <4> QED
          BY <3>5, <4>2, <4>4, <4>5, <4>6 DEF Stroke
      <3> QED
        BY <2>3, <3>1, <3>7, LeadsOnce
    <2> QED
      BY <2>5, <2>6
  <1> HIDE DEF piece, at, keeps
  <1>11. /\ FlattenSeq(piece) \in Seq(Rect)
         /\ Leads(FlattenSeq(piece), left, right, picture, palette, at[0], at[n])
    BY <1>0, <1>8, <1>9, <1>10, LeadsFlat
  <1> QED
    BY <1>8, <1>11, EncodedRowIs DEF piece

-----------------------------------------------------------------------------
(* The lines with content.                                                 *)

BoundsStates == [top : Int, bottom : Int]

\* The bounds after each line.
BoundsRun(b, rows) ==
    /\ b \in [0..Height -> BoundsStates] /\ b[0] = [top |-> 0, bottom |-> 0]
    /\ \A y \in 1..Height : b[y] = BoundsAfterLine(b[y - 1], y - 1, isEmptyRow(rows[y - 1]))
    /\ Bounds(rows) = b[Height]

\* The bounds stay numbers.
LEMMA AfterLineTyped ==
    ASSUME NEW x \in BoundsStates, NEW y \in Int, NEW empty
    PROVE  BoundsAfterLine(x, y, empty) \in BoundsStates
  <1>1. x.top \in Int /\ x.bottom \in Int
    BY DEF BoundsStates
  <1> DEFINE top == IF ~empty /\ x.top = 0 THEN y ELSE x.top
             bottom == IF top = 0 THEN x.bottom
                       ELSE IF empty THEN (IF x.bottom = 0 THEN y - 1 ELSE x.bottom)
                       ELSE IF y = LastLine THEN y
                       ELSE 0
  <1>2. top \in Int
    BY <1>1
  <1>3. bottom \in Int
    <2> HIDE DEF top
    <2> QED
      BY <1>1
  <1>4. BoundsAfterLine(x, y, empty) = [top |-> top, bottom |-> bottom]
    BY DEF BoundsAfterLine
  <1> HIDE DEF top, bottom
  <1> QED
    BY <1>2, <1>3, <1>4 DEF BoundsStates

\* The bounds after every line.
LEMMA BoundsRuns ==
    ASSUME NEW rows
    PROVE  \E b : BoundsRun(b, rows)
  <1> DEFINE X == BoundsStates
             base == [top |-> 0, bottom |-> 0]
             next(x, y) == BoundsAfterLine(x, y - 1, isEmptyRow(rows[y - 1]))
             step == [p \in X \X (1..Height) |-> next(p[1], p[2])]
             After(g) == [y \in 0..Height |->
                             IF y = 0 THEN [top |-> 0, bottom |-> 0]
                             ELSE BoundsAfterLine(g[y - 1], y - 1, isEmptyRow(rows[y - 1]))]
             G == CHOOSE g : g = After(g)
  <1>0. Height \in Nat
    BY ImageAssumption
  <1>1. base \in X
    BY DEF BoundsStates
  <1>2. \A x \in X, y \in 1..Height : next(x, y) \in X /\ step[<<x, y>>] = next(x, y)
    BY <1>0, AfterLineTyped
  <1>3. step \in [X \X (1..Height) -> X]
    BY <1>2
  <1> HIDE DEF X, base, step, next
  <1>4. PICK f, last : FoldsPrefixes(f, X, base, Height, step, last)
    BY <1>0, <1>1, <1>3, RecursionExists
  <1>5. /\ f \in [0..Height -> X] /\ f[0] = base
        /\ \A y \in 1..Height : f[y] = next(f[y - 1], y)
    <2>1. /\ f \in [0..Height -> X] /\ f[0] = base
          /\ \A y \in 1..Height : f[y] = step[<<f[y - 1], y>>]
      BY <1>4 DEF FoldsPrefixes
    <2>2. ASSUME NEW y \in 1..Height PROVE f[y] = next(f[y - 1], y)
      <3>1. y - 1 \in 0..Height
        BY <1>0
      <3>2. f[y - 1] \in X
        BY <2>1, <3>1
      <3> QED
        BY <1>2, <2>1, <3>2
    <2> QED
      BY <2>1, <2>2
  <1>6. f = After(f)
    <2>1. ASSUME NEW y \in 0..Height
          PROVE  f[y] = IF y = 0 THEN [top |-> 0, bottom |-> 0]
                        ELSE BoundsAfterLine(f[y - 1], y - 1, isEmptyRow(rows[y - 1]))
      <3>1. CASE y = 0
        BY <1>5, <3>1 DEF base
      <3>2. CASE y # 0
        <4>1. y \in 1..Height
          BY <1>0, <3>2
        <4> QED
          BY <1>5, <3>2, <4>1 DEF next
      <3> QED
        BY <3>1, <3>2
    <2> QED
      BY <1>5, <2>1
  <1>7. G = After(G)
    BY <1>6
  <1> HIDE DEF G
  <1> DEFINE T == {y \in 0..Height : G[y] = f[y]}
  <1>8. \A y \in 0..Height : y \in T
    <2>1. 0 \in T
      BY <1>0, <1>5, <1>7 DEF base
    <2>2. ASSUME NEW y \in 0..Height - 1, y \in T PROVE y + 1 \in T
      <3>1. y + 1 \in 1..Height /\ y + 1 \in 0..Height /\ (y + 1) - 1 = y /\ y + 1 # 0
        BY <1>0
      <3>2. G[y + 1] = BoundsAfterLine(G[(y + 1) - 1], (y + 1) - 1, isEmptyRow(rows[(y + 1) - 1]))
        BY <1>7, <3>1
      <3>3. f[y + 1] = next(f[(y + 1) - 1], y + 1)
        BY <1>5, <3>1
      <3>4. G[y] = f[y]
        BY <2>2
      <3>5. G[y + 1] = f[y + 1]
        BY <3>1, <3>2, <3>3, <3>4 DEF next
      <3> QED
        BY <3>1, <3>5
    <2> HIDE DEF T
    <2> QED
      BY <1>0, <2>1, <2>2, Reached
  <1>9. Bounds(rows) = f[Height]
    <2>1. Bounds(rows) = G[Height]
      BY Zenon DEF Bounds, G
    <2>2. Height \in T
      BY <1>0, <1>8
    <2> QED
      BY <2>1, <2>2
  <1>10. BoundsRun(f, rows)
    BY <1>5, <1>9 DEF BoundsRun, X, base, next
  <1> QED
    BY <1>10

\* What the bounds say of the first y lines, where the first of all is empty.
BoundsOf(bounds, rows, y) ==
    \/ /\ \A z \in 0..y - 1 : isEmptyRow(rows[z])
       /\ bounds.top = 0 /\ bounds.bottom = 0
    \/ /\ bounds.top \in 1..y - 1 /\ ~isEmptyRow(rows[bounds.top])
       /\ \A z \in 0..bounds.top - 1 : isEmptyRow(rows[z])
       /\ \/ /\ ~isEmptyRow(rows[y - 1])
             /\ bounds.bottom = IF y - 1 = LastLine THEN y - 1 ELSE 0
          \/ /\ isEmptyRow(rows[y - 1])
             /\ bounds.bottom \in bounds.top..y - 2 /\ ~isEmptyRow(rows[bounds.bottom])
             /\ \A z \in bounds.bottom + 1..y - 1 : isEmptyRow(rows[z])

\* One more line keeps what the bounds say of the lines so far.
LEMMA BoundsStay ==
    ASSUME NEW rows, NEW bounds \in BoundsStates, NEW y \in Nat, y < Height, LastLine = Height - 1,
           isEmptyRow(rows[0]), BoundsOf(bounds, rows, y)
    PROVE  BoundsOf(BoundsAfterLine(bounds, y, isEmptyRow(rows[y])), rows, y + 1)
  <1> DEFINE E(z) == isEmptyRow(rows[z])
             after == BoundsAfterLine(bounds, y, E(y))
  <1>0. Height \in Nat /\ bounds.top \in Int /\ bounds.bottom \in Int /\ (y + 1) - 1 = y
    BY ImageAssumption DEF BoundsStates
  <1>1. after.top = IF ~E(y) /\ bounds.top = 0 THEN y ELSE bounds.top
    BY DEF BoundsAfterLine
  <1>2. after.bottom = IF after.top = 0 THEN bounds.bottom
                       ELSE IF E(y) THEN (IF bounds.bottom = 0 THEN y - 1 ELSE bounds.bottom)
                       ELSE IF y = LastLine THEN y
                       ELSE 0
    BY DEF BoundsAfterLine
  <1>3. E(0)
    OBVIOUS
  <1> SUFFICES BoundsOf(after, rows, y + 1)
    OBVIOUS
  <1> HIDE DEF after
  <1>4. \/ /\ \A z \in 0..y - 1 : E(z)
           /\ bounds.top = 0 /\ bounds.bottom = 0
        \/ /\ bounds.top \in 1..y - 1 /\ ~E(bounds.top)
           /\ \A z \in 0..bounds.top - 1 : E(z)
           /\ \/ /\ ~E(y - 1)
                 /\ bounds.bottom = IF y - 1 = LastLine THEN y - 1 ELSE 0
              \/ /\ E(y - 1)
                 /\ bounds.bottom \in bounds.top..y - 2 /\ ~E(bounds.bottom)
                 /\ \A z \in bounds.bottom + 1..y - 1 : E(z)
    BY DEF BoundsOf
  <1>5. BoundsOf(after, rows, y + 1) <=>
        \/ /\ \A z \in 0..(y + 1) - 1 : E(z)
           /\ after.top = 0 /\ after.bottom = 0
        \/ /\ after.top \in 1..(y + 1) - 1 /\ ~E(after.top)
           /\ \A z \in 0..after.top - 1 : E(z)
           /\ \/ /\ ~E((y + 1) - 1)
                 /\ after.bottom = IF (y + 1) - 1 = LastLine THEN (y + 1) - 1 ELSE 0
              \/ /\ E((y + 1) - 1)
                 /\ after.bottom \in after.top..(y + 1) - 2 /\ ~E(after.bottom)
                 /\ \A z \in after.bottom + 1..(y + 1) - 1 : E(z)
    BY DEF BoundsOf
  <1> HIDE DEF E
  <1>6. CASE (\A z \in 0..y - 1 : E(z)) /\ bounds.top = 0 /\ bounds.bottom = 0
    <2>1. CASE E(y)
      <3>1. after.top = 0 /\ after.bottom = 0
        BY <1>1, <1>2, <1>6, <2>1
      <3>2. \A z \in 0..y : E(z)
        <4>1. \A z \in 0..y : z = y \/ z \in 0..y - 1
          OBVIOUS
        <4> QED
          BY <1>6, <2>1, <4>1
      <3> QED
        BY <1>0, <1>5, <3>1, <3>2
    <2>2. CASE ~E(y)
      <3>1. y # 0 /\ after.top = y
        BY <1>1, <1>3, <1>6, <2>2
      <3>2. after.bottom = IF y = LastLine THEN y ELSE 0
        BY <1>2, <2>2, <3>1
      <3> QED
        BY <1>0, <1>5, <1>6, <2>2, <3>1, <3>2
    <2> QED
      BY <2>1, <2>2
  <1>7. CASE /\ bounds.top \in 1..y - 1 /\ ~E(bounds.top)
             /\ \A z \in 0..bounds.top - 1 : E(z)
             /\ \/ /\ ~E(y - 1)
                   /\ bounds.bottom = IF y - 1 = LastLine THEN y - 1 ELSE 0
                \/ /\ E(y - 1)
                   /\ bounds.bottom \in bounds.top..y - 2 /\ ~E(bounds.bottom)
                   /\ \A z \in bounds.bottom + 1..y - 1 : E(z)
    <2>1. after.top = bounds.top /\ bounds.top # 0 /\ bounds.top \in 1..y
      BY <1>1, <1>7
    <2>2. CASE ~E(y)
      <3>1. after.bottom = IF y = LastLine THEN y ELSE 0
        BY <1>2, <2>1, <2>2
      <3> QED
        BY <1>0, <1>5, <1>7, <2>1, <2>2, <3>1
    <2>3. CASE E(y) /\ ~E(y - 1)
      <3>1. y - 1 # LastLine
        BY <1>0
      <3>2. after.bottom = y - 1
        BY <1>2, <1>7, <2>1, <2>3, <3>1
      <3>3. (y + 1) - 2 = y - 1 /\ y - 1 \in bounds.top..y - 1
        BY <1>7, <2>1
      <3>4. \A z \in (y - 1) + 1..y : z = y
        OBVIOUS
      <3>5. \A z \in after.bottom + 1..y : E(z)
        BY <2>3, <3>2, <3>4
      <3> QED
        BY <1>0, <1>5, <1>7, <2>1, <2>3, <3>2, <3>3, <3>5
    <2>4. CASE E(y) /\ E(y - 1)
      <3>1. bounds.bottom \in bounds.top..y - 2 /\ ~E(bounds.bottom)
            /\ \A z \in bounds.bottom + 1..y - 1 : E(z)
        BY <1>7, <2>4
      <3>2. bounds.bottom # 0 /\ after.bottom = bounds.bottom
        BY <1>2, <2>1, <2>4, <3>1
      <3>3. \A z \in bounds.bottom + 1..y : z = y \/ z \in bounds.bottom + 1..y - 1
        BY <1>0
      <3>4. \A z \in after.bottom + 1..y : E(z)
        BY <2>4, <3>1, <3>2, <3>3
      <3>5. after.bottom \in after.top..(y + 1) - 2
        BY <2>1, <3>1, <3>2
      <3> QED
        BY <1>0, <1>5, <1>7, <2>1, <2>4, <3>1, <3>2, <3>4, <3>5
    <2> QED
      BY <2>2, <2>3, <2>4
  <1> QED
    BY <1>4, <1>6, <1>7

\* The bounds are the first and the last line with content.
LEMMA BoundsAre ==
    ASSUME NEW rows, LastLine = Height - 1, isEmptyRow(rows[0])
    PROVE  LET b == Bounds(rows)
           IN  \/ b.top = 0 /\ b.bottom = 0 /\ \A z \in 0..Height - 1 : isEmptyRow(rows[z])
               \/ /\ b.top \in 1..Height - 1 /\ b.bottom \in b.top..Height - 1
                  /\ ~isEmptyRow(rows[b.top])
                  /\ \A z \in 0..Height - 1 : z < b.top \/ z > b.bottom => isEmptyRow(rows[z])
  <1>0. Height \in Nat /\ Height >= 1
    BY ImageAssumption
  <1>1. PICK b : BoundsRun(b, rows)
    BY BoundsRuns
  <1>2. /\ b \in [0..Height -> BoundsStates] /\ b[0] = [top |-> 0, bottom |-> 0]
        /\ \A y \in 1..Height : b[y] = BoundsAfterLine(b[y - 1], y - 1, isEmptyRow(rows[y - 1]))
        /\ Bounds(rows) = b[Height]
    BY <1>1 DEF BoundsRun
  <1> DEFINE T == {y \in 0..Height : BoundsOf(b[y], rows, y)}
  <1>3. \A y \in 0..Height : y \in T
    <2>1. 0 \in T
      BY <1>0, <1>2 DEF BoundsOf
    <2>2. ASSUME NEW y \in 0..Height - 1, y \in T PROVE y + 1 \in T
      <3>1. y + 1 \in 1..Height /\ y + 1 \in 0..Height /\ (y + 1) - 1 = y /\ y \in 0..Height /\ y < Height
            /\ y \in Nat
        BY <1>0
      <3>2. b[y + 1] = BoundsAfterLine(b[(y + 1) - 1], (y + 1) - 1, isEmptyRow(rows[(y + 1) - 1]))
        BY <1>2, <3>1
      <3>3. b[y + 1] = BoundsAfterLine(b[y], y, isEmptyRow(rows[y]))
        BY <3>1, <3>2
      <3>4. BoundsOf(b[y + 1], rows, y + 1)
        BY <1>2, <2>2, <3>1, <3>3, BoundsStay
      <3> QED
        BY <3>1, <3>4
    <2> HIDE DEF T
    <2> QED
      BY <1>0, <2>1, <2>2, Reached
  <1> DEFINE c == b[Height]
  <1>4. BoundsOf(c, rows, Height) /\ c \in BoundsStates
    <2>1. Height \in 0..Height
      BY <1>0
    <2> QED
      BY <1>2, <1>3, <2>1
  <1>5. c.top \in Int /\ c.bottom \in Int
    BY <1>4 DEF BoundsStates
  <1> HIDE DEF c
  <1> DEFINE E(z) == isEmptyRow(rows[z])
  <1>6. \/ /\ \A z \in 0..Height - 1 : E(z)
           /\ c.top = 0 /\ c.bottom = 0
        \/ /\ c.top \in 1..Height - 1 /\ ~E(c.top)
           /\ \A z \in 0..c.top - 1 : E(z)
           /\ \/ /\ ~E(Height - 1)
                 /\ c.bottom = IF Height - 1 = LastLine THEN Height - 1 ELSE 0
              \/ /\ E(Height - 1)
                 /\ c.bottom \in c.top..Height - 2 /\ ~E(c.bottom)
                 /\ \A z \in c.bottom + 1..Height - 1 : E(z)
    BY <1>4 DEF BoundsOf
  <1> HIDE DEF E
  <1>7. \/ c.top = 0 /\ c.bottom = 0 /\ \A z \in 0..Height - 1 : E(z)
        \/ /\ c.top \in 1..Height - 1 /\ c.bottom \in c.top..Height - 1
           /\ ~E(c.top)
           /\ \A z \in 0..Height - 1 : z < c.top \/ z > c.bottom => E(z)
    <2> SUFFICES ASSUME /\ c.top \in 1..Height - 1 /\ ~E(c.top)
                        /\ \A z \in 0..c.top - 1 : E(z)
                        /\ \/ /\ ~E(Height - 1) /\ c.bottom = Height - 1
                           \/ /\ E(Height - 1)
                              /\ c.bottom \in c.top..Height - 2
                              /\ \A z \in c.bottom + 1..Height - 1 : E(z)
                 PROVE  /\ c.bottom \in c.top..Height - 1
                        /\ \A z \in 0..Height - 1 : z < c.top \/ z > c.bottom => E(z)
      BY <1>6
    <2>1. c.bottom \in c.top..Height - 1
      BY <1>0, <1>5
    <2>2. ASSUME NEW z \in 0..Height - 1, z < c.top \/ z > c.bottom PROVE E(z)
      <3>1. CASE z < c.top
        <4>1. z \in 0..c.top - 1
          BY <1>5, <3>1
        <4> QED
          BY <4>1
      <3>2. CASE z > c.bottom
        <4>1. c.bottom # Height - 1 /\ z \in c.bottom + 1..Height - 1
          BY <1>0, <1>5, <3>2
        <4> QED
          BY <4>1
      <3> QED
        BY <2>2, <3>1, <3>2
    <2> QED
      BY <2>1, <2>2
  <1>8. Bounds(rows) = c
    BY <1>2 DEF c
  <1> QED
    BY <1>7, <1>8 DEF E

-----------------------------------------------------------------------------
(* A picture encoded.                                                      *)

\* MinOf is the smallest.
LEMMA MinOfIs ==
    ASSUME NEW S \in SUBSET Nat, S # {}
    PROVE  MinOf(S) \in S /\ \A x \in S : MinOf(S) <= x
  <1>1. \E m \in S : \A x \in S : m <= x
    BY SmallestOf
  <1> QED
    BY <1>1, Zenon DEF MinOf

\* MaxOf is the highest.
LEMMA MaxOfIs ==
    ASSUME NEW n \in Nat, NEW S \in SUBSET (0..n), S # {}
    PROVE  MaxOf(S) \in S /\ \A x \in S : x <= MaxOf(S)
  <1> DEFINE T == {n - x : x \in S}
  <1>1. \A x \in S : n - x \in Nat /\ x \in Int
    OBVIOUS
  <1>2. T \in SUBSET Nat /\ T # {}
    BY <1>1
  <1>3. PICK m \in T : \A k \in T : m <= k
    <2> HIDE DEF T
    <2> QED
      BY <1>2, SmallestOf
  <1>4. PICK x \in S : m = n - x
    OBVIOUS
  <1>5. ASSUME NEW y \in S PROVE y <= x
    <2>1. n - y \in T
      OBVIOUS
    <2>2. m <= n - y
      BY <1>3, <2>1
    <2> QED
      BY <1>1, <1>4, <2>2
  <1>6. \E z \in S : \A y \in S : y <= z
    BY <1>5
  <1> QED
    BY <1>6, Zenon DEF MaxOf

\* What fits into bytes is kept.
LEMMA BytesTyped ==
    ASSUME NEW rects \in Seq(Rect)
    PROVE  Bytes(rects) \in Seq(Rect)
  <1>1. Byte \in Nat /\ Byte > 0
    BY ImageAssumption
  <1>2. DOMAIN rects = 1..Len(rects) /\ Len(rects) \in Nat
    OBVIOUS
  <1>3. ASSUME NEW i \in 1..Len(rects)
        PROVE  [length |-> rects[i].length % Byte, colorIndex |-> rects[i].colorIndex % Byte] \in Rect
    <2>1. rects[i].length \in Nat /\ rects[i].colorIndex \in Nat
      <3>1. rects[i] \in Rect
        OBVIOUS
      <3> QED
        BY <3>1 DEF Rect
    <2>2. rects[i].length % Byte \in Nat /\ rects[i].colorIndex % Byte \in Nat
      BY <1>1, <2>1
    <2> QED
      BY <2>2 DEF Rect
  <1>4. Bytes(rects) = [i \in 1..Len(rects) |->
            [length |-> rects[i].length % Byte, colorIndex |-> rects[i].colorIndex % Byte]]
    BY <1>2 DEF Bytes
  <1> QED
    BY <1>2, <1>3, <1>4

\* A number below the divisor is its own remainder.
LEMMA Remainder ==
    ASSUME NEW a \in Nat, NEW b \in Nat, a < b
    PROVE  a % b = a
  OBVIOUS

\* Rects that lead over a picture fit into bytes when the palette does.
LEMMA BytesKept ==
    ASSUME NEW rects \in Seq(Rect), NEW left \in Nat, NEW right \in Nat, right <= Width,
           NEW picture, NEW palette \in Seq(Keys), Len(palette) <= Byte, NEW a, NEW b,
           Leads(rects, left, right, picture, palette, a, b)
    PROVE  Bytes(rects) = rects
  <1>1. Byte \in Nat /\ Byte > 0 /\ Width \in Nat /\ Width < Byte
    BY ImageAssumption
  <1>2. DOMAIN rects = 1..Len(rects) /\ Len(rects) \in Nat
    OBVIOUS
  <1>3. PICK pos \in [0..Len(rects) -> Place] :
            \A k \in 1..Len(rects) : Stroke(left, right, picture, palette, pos[k - 1], rects[k], pos[k])
    BY DEF Leads
  <1>4. ASSUME NEW k \in 1..Len(rects)
        PROVE  [length |-> rects[k].length % Byte, colorIndex |-> rects[k].colorIndex % Byte] = rects[k]
    <2> DEFINE at == pos[k - 1]
               rect == rects[k]
    <2>1. at \in Place /\ Stroke(left, right, picture, palette, at, rect, pos[k])
      <3>1. k - 1 \in 0..Len(rects)
        OBVIOUS
      <3> QED
        BY <1>3, <3>1
    <2> HIDE DEF at, rect
    <2>2. at.x \in Int /\ rect \in Rect /\ rect.length \in Nat /\ rect.colorIndex \in Nat
      BY <2>1 DEF Place, Rect, Stroke
    <2>3. rect.length >= 1 /\ left <= at.x /\ at.x + rect.length <= right
      BY <2>1 DEF Stroke
    <2>4. rect.length < Byte
      BY <1>1, <2>2, <2>3
    <2>5. at.x \in at.x..at.x + rect.length - 1
      BY <2>2, <2>3
    <2>6. Indexes(picture, palette, at.y, at.x, rect.colorIndex)
      BY <2>1, <2>5 DEF Stroke
    <2>7. Len(palette) \in Nat
      OBVIOUS
    <2>8. rect.colorIndex < Byte
      BY <1>1, <2>2, <2>6, <2>7 DEF Indexes
    <2>9. rect.length % Byte = rect.length /\ rect.colorIndex % Byte = rect.colorIndex
      BY <1>1, <2>2, <2>4, <2>8, Remainder
    <2>10. rect = [length |-> rect.length, colorIndex |-> rect.colorIndex]
      BY <2>2 DEF Rect
    <2> QED
      BY <2>9, <2>10 DEF rect
  <1>5. Bytes(rects) = [i \in 1..Len(rects) |-> rects[i]]
    BY <1>2, <1>4 DEF Bytes
  <1>6. rects = [i \in 1..Len(rects) |-> rects[i]]
    BY <1>2
  <1> QED
    BY <1>5, <1>6

\* The indexes of a line of a picture.
IndexRow(picture, palette, y) == [x \in 0..Width - 1 |-> ColorIndex(palette, picture[y][x])]

\* Every line of a picture in runs; those of a framed picture begin and end with clear ones.
LEMMA PictureRuns ==
    ASSUME NEW picture \in Canvas, NEW palette, Indexing(palette, picture), NEW y \in 0..Height - 1
    PROVE  /\ \E start : RunsOf(Rects(picture[y], palette), start, Width, IndexRow(picture, palette, y))
           /\ \A x \in 0..Width - 1 :
                  Indexes(picture, palette, y, x, IndexRow(picture, palette, y)[x])
  <1>1. \A x \in 0..Width - 1 :
            /\ ColorIndex(palette, picture[y][x]) \in Nat
            /\ Indexes(picture, palette, y, x, ColorIndex(palette, picture[y][x]))
    BY IndexIs
  <1>2. \E start : RunsOf(Rects(picture[y], palette), start, Width,
                          [x \in 0..Width - 1 |-> ColorIndex(palette, picture[y][x])])
    BY <1>1, LineRuns
  <1> QED
    BY <1>1, <1>2 DEF IndexRow

\* An index is zero where nothing is drawn and only there.
LEMMA ZeroIndex ==
    ASSUME NEW picture, NEW palette, NEW y, NEW x, NEW i,
           Indexes(picture, palette, y, x, i), Len(palette) \in Nat
    PROVE  i = 0 <=> picture[y][x].clear
  BY DEF Indexes

\* A framed picture is encoded as an image that covers it, if its indexes fit into bytes.
LEMMA EncodeCovers ==
    ASSUME NEW picture \in Canvas, Framed(picture), LastLine = Height - 1,
           NEW palette, Indexing(palette, picture)
    PROVE  /\ encode(picture, palette) \in Image
           /\ Len(palette) <= Byte => Covers(encode(picture, palette), picture, palette)
  <1> DEFINE rows == [y \in 0..Height - 1 |-> Rects(picture[y], palette)]
             bounds == Bounds(rows)
             kept == bounds.top..bounds.bottom
             left == IF kept = {} THEN 0 ELSE MinOf({rows[y][1].length : y \in kept})
             right == IF kept = {} THEN 0
                      ELSE MaxOf({Width - rows[y][Len(rows[y])].length : y \in kept})
             line(i) == bounds.top + i - 1
             encoded == [i \in 1..Cardinality(kept) |-> EncodedRow(rows[line(i)], left, right)]
             image == encode(picture, palette)
             index(y) == IndexRow(picture, palette, y)
  <1>1. image = IF kept = {0} /\ isEmptyRow(rows[0])
                THEN [top |-> 0, right |-> 0, left |-> 0, rects |-> <<>>]
                ELSE [top |-> bounds.top, right |-> right, left |-> left,
                      rects |-> Bytes(FlattenSeq(encoded))]
    BY Zenon DEF encode
  <1>2. Height \in Nat /\ Height >= 1 /\ Width \in Nat /\ Width >= 1
    BY ImageAssumption
  <1>3. palette \in Seq(Keys) /\ Len(palette) \in Nat
    BY DEF Indexing
  <1>4. ASSUME NEW y \in 0..Height - 1
        PROVE  /\ \E start : RunsOf(rows[y], start, Width, index(y))
               /\ \A x \in 0..Width - 1 :
                      /\ Indexes(picture, palette, y, x, index(y)[x])
                      /\ index(y)[x] = 0 <=> picture[y][x].clear
    <2>1. rows[y] = Rects(picture[y], palette)
      OBVIOUS
    <2>2. /\ \E start : RunsOf(rows[y], start, Width, index(y))
          /\ \A x \in 0..Width - 1 : Indexes(picture, palette, y, x, index(y)[x])
      BY <2>1, PictureRuns
    <2> QED
      BY <1>3, <2>2, ZeroIndex
  <1> HIDE DEF rows, index, image
  <1>5. ASSUME NEW y \in 0..Height - 1
        PROVE  isEmptyRow(rows[y]) <=> \A x \in 0..Width - 1 : picture[y][x].clear
    <2>1. PICK start : RunsOf(rows[y], start, Width, index(y))
      BY <1>4
    <2>2. isEmptyRow(rows[y]) <=> \A x \in 0..Width - 1 : index(y)[x] = 0
      BY <2>1, EmptyRow
    <2> QED
      BY <1>4, <2>2
  <1>6. isEmptyRow(rows[0])
    BY <1>2, <1>5 DEF Framed
  <1>7. \/ bounds.top = 0 /\ bounds.bottom = 0 /\ \A z \in 0..Height - 1 : isEmptyRow(rows[z])
        \/ /\ bounds.top \in 1..Height - 1 /\ bounds.bottom \in bounds.top..Height - 1
           /\ ~isEmptyRow(rows[bounds.top])
           /\ \A z \in 0..Height - 1 : z < bounds.top \/ z > bounds.bottom => isEmptyRow(rows[z])
    BY <1>6, BoundsAre
  <1> HIDE DEF bounds
  <1>8. CASE bounds.top = 0 /\ bounds.bottom = 0 /\ \A z \in 0..Height - 1 : isEmptyRow(rows[z])
    <2>1. image = [top |-> 0, right |-> 0, left |-> 0, rects |-> <<>>]
      <3>1. kept = {0}
        BY <1>8
      <3> QED
        BY <1>1, <1>6, <3>1
    <2>2. image \in Image
      BY <2>1 DEF Image
    <2>3. ClearOutside(picture, 0, -1, 0, 0)
      BY <1>5, <1>8 DEF ClearOutside
    <2>4. [x |-> 0, y |-> 0] \in Place
      BY DEF Place
    <2>5. Leads(<<>>, 0, 0, picture, palette, [x |-> 0, y |-> 0], [x |-> 0, y |-> 0])
      BY <2>4, LeadsNowhere
    <2>6. Covers(image, picture, palette)
      <3>1. -1 \in Int /\ -1 + 1 = 0
        OBVIOUS
      <3>2. /\ image.left = 0 /\ image.right = 0 /\ image.top = 0 /\ image.rects = <<>>
            /\ Origin(image) = [x |-> 0, y |-> 0]
        BY <2>1 DEF Origin
      <3>3. 0 <= 0 /\ 0 <= Width
        BY <1>2
      <3> QED
        BY <2>3, <2>5, <3>1, <3>2, <3>3 DEF Covers
    <2> QED
      BY <2>2, <2>6 DEF image
  <1>9. CASE /\ bounds.top \in 1..Height - 1 /\ bounds.bottom \in bounds.top..Height - 1
             /\ ~isEmptyRow(rows[bounds.top])
             /\ \A z \in 0..Height - 1 : z < bounds.top \/ z > bounds.bottom => isEmptyRow(rows[z])
    <2> DEFINE top == bounds.top
               bottom == bounds.bottom
               m == bottom - top + 1
    <2>1. /\ top \in Nat /\ bottom \in Nat /\ top >= 1 /\ top <= bottom /\ bottom <= Height - 1
          /\ m \in Nat /\ top \in kept /\ kept \in SUBSET (0..Height - 1) /\ 0 \notin kept
      BY <1>2, <1>9
    <2>2. Cardinality(kept) = m
      <3>1. kept = top..bottom /\ top \in Int /\ bottom \in Int /\ ~(top > bottom)
        BY <2>1
      <3> SUFFICES Cardinality(top..bottom) = m
        BY <3>1
      <3> HIDE DEF kept, top, bottom
      <3> QED
        BY <3>1, FS_Interval
    <2>3. image = [top |-> top, right |-> right, left |-> left, rects |-> Bytes(FlattenSeq(encoded))]
      <3>1. kept # {0}
        BY <2>1
      <3> HIDE DEF kept
      <3> QED
        BY <1>1, <3>1
    <2> DEFINE lefts == {rows[y][1].length : y \in kept}
               rights == {Width - rows[y][Len(rows[y])].length : y \in kept}
    <2>4. left = MinOf(lefts) /\ right = MaxOf(rights)
      <3>1. kept # {}
        BY <2>1
      <3> HIDE DEF kept
      <3> QED
        BY <3>1
    <2> HIDE DEF kept, left, right, top, bottom, m
    <2>5. ASSUME NEW y \in kept
          PROVE  /\ y \in 0..Height - 1
                 /\ rows[y][1].length \in 1..Width /\ rows[y][Len(rows[y])].length \in 1..Width
                 /\ \A x \in 0..rows[y][1].length - 1 : index(y)[x] = index(y)[0]
                 /\ \A x \in Width - rows[y][Len(rows[y])].length..Width - 1 :
                        index(y)[x] = index(y)[Width - 1]
      <3>1. y \in 0..Height - 1
        BY <2>1
      <3>2. PICK start : RunsOf(rows[y], start, Width, index(y))
        BY <1>4, <3>1
      <3> QED
        BY <3>1, <3>2, Edges
    <2>6. lefts \in SUBSET Nat /\ lefts # {} /\ rights \in SUBSET (0..Width) /\ rights # {}
      <3>1. \A y \in kept : rows[y][1].length \in Nat
                        /\ Width - rows[y][Len(rows[y])].length \in 0..Width
        BY <1>2, <2>5
      <3> QED
        BY <2>1, <3>1
    <2>7. /\ left \in Nat /\ \A y \in kept : left <= rows[y][1].length
      <3>1. left \in lefts /\ \A l \in lefts : left <= l
        <4> HIDE DEF lefts
        <4> QED
          BY <2>4, <2>6, MinOfIs
      <3> QED
        BY <2>6, <3>1
    <2>8. /\ right \in Nat /\ right <= Width
          /\ \A y \in kept : Width - right <= rows[y][Len(rows[y])].length
      <3>1. right \in rights /\ \A r \in rights : r <= right
        <4> HIDE DEF rights
        <4> QED
          BY <1>2, <2>4, <2>6, MaxOfIs
      <3>2. right \in 0..Width
        BY <2>6, <3>1
      <3>3. ASSUME NEW y \in kept PROVE Width - right <= rows[y][Len(rows[y])].length
        <4>1. Width - rows[y][Len(rows[y])].length <= right
          BY <3>1
        <4> QED
          BY <1>2, <2>5, <3>2, <4>1
      <3> QED
        BY <1>2, <3>2, <3>3
    <2> HIDE DEF lefts, rights
    <2>9. ASSUME NEW y \in kept, NEW x \in 0..Width - 1, x < left \/ x >= right
          PROVE  picture[y][x].clear
      <3>1. y \in 0..Height - 1 /\ 0 \in 0..Width - 1 /\ Width - 1 \in 0..Width - 1
        BY <1>2, <2>5
      <3>2. index(y)[0] = 0 /\ index(y)[Width - 1] = 0
        BY <1>4, <3>1 DEF Framed
      <3>3. CASE x < left
        <4>1. x \in 0..rows[y][1].length - 1
          BY <2>5, <2>7, <3>3
        <4> QED
          BY <1>4, <2>5, <3>1, <3>2, <4>1
      <3>4. CASE x >= right
        <4>1. x \in Width - rows[y][Len(rows[y])].length..Width - 1
          BY <1>2, <2>5, <2>8, <3>4, SMTT(30)
        <4> QED
          BY <1>4, <2>5, <3>1, <3>2, <4>1
      <3> QED
        BY <2>9, <3>3, <3>4
    <2>10. left < right
      <3>1. top \in 0..Height - 1
        BY <2>1
      <3>2. PICK x \in 0..Width - 1 : ~picture[top][x].clear
        BY <1>5, <1>9, <3>1 DEF top
      <3>3. ~(x < left \/ x >= right)
        BY <2>1, <2>9, <3>2
      <3> QED
        BY <2>7, <2>8, <3>3
    <2>11. ClearOutside(picture, top, bottom, left, right)
      <3> SUFFICES ASSUME NEW y \in 0..Height - 1, NEW x \in 0..Width - 1,
                          y < top \/ y > bottom \/ x < left \/ x >= right
                   PROVE  picture[y][x].clear
        BY DEF ClearOutside
      <3>1. CASE y < top \/ y > bottom
        BY <1>5, <1>9, <3>1 DEF top, bottom
      <3>2. CASE ~(y < top \/ y > bottom)
        <4>1. y \in kept
          BY <2>1, <3>2 DEF kept, top, bottom
        <4> QED
          BY <2>9, <3>2, <4>1
      <3> QED
        BY <3>1, <3>2
    <2> DEFINE at == [k \in 0..m |-> [x |-> left, y |-> top + k]]
    <2>12. ASSUME NEW k \in 1..m
           PROVE  /\ encoded[k] \in Seq(Rect)
                  /\ Leads(encoded[k], left, right, picture, palette, at[k - 1], at[k])
      <3> DEFINE y == top + k - 1
      <3>1. y \in kept /\ k - 1 \in 0..m /\ k \in 0..m /\ y = top + (k - 1) /\ y + 1 = top + k
        BY <2>1 DEF kept, top, bottom, m
      <3>2. encoded[k] = EncodedRow(rows[y], left, right)
        BY <2>2 DEF top
      <3>3. at[k - 1] = [x |-> left, y |-> y] /\ at[k] = [x |-> left, y |-> y + 1]
        BY <3>1
      <3> HIDE DEF y, encoded, at
      <3>4. y \in 0..Height - 1
        BY <2>5, <3>1
      <3>5. PICK start : RunsOf(rows[y], start, Width, index(y))
        BY <1>4, <3>4
      <3>6. \A x \in 0..Width - 1 : Indexes(picture, palette, y, x, index(y)[x])
        BY <1>4, <3>4
      <3>7. left <= rows[y][1].length /\ Width - right <= rows[y][Len(rows[y])].length
        BY <2>7, <2>8, <3>1
      <3>8. /\ EncodedRow(rows[y], left, right) \in Seq(Rect)
            /\ Leads(EncodedRow(rows[y], left, right), left, right, picture, palette,
                     [x |-> left, y |-> y], [x |-> left, y |-> y + 1])
        BY <2>7, <2>8, <2>10, <3>4, <3>5, <3>6, <3>7, RowLeads
      <3> QED
        BY <3>2, <3>3, <3>8
    <2>13. /\ encoded \in Seq(Seq(Rect)) /\ Len(encoded) = m
      <3>1. encoded = [k \in 1..m |-> encoded[k]]
        BY <2>2
      <3> HIDE DEF encoded
      <3>2. \A k \in 1..m : encoded[k] \in Seq(Rect)
        BY <2>12
      <3> QED
        BY <2>1, <3>1, <3>2
    <2>14. at \in [0..m -> Place] /\ at[0] = [x |-> left, y |-> top] /\ at[m] = [x |-> left, y |-> bottom + 1]
      <3>1. top + m = bottom + 1 /\ top + 0 = top
        BY <2>1 DEF m
      <3>2. \A k \in 0..m : at[k] \in Place
        BY <2>1, <2>7 DEF Place
      <3> QED
        BY <2>1, <3>1, <3>2
    <2> HIDE DEF at, encoded
    <2>15. /\ FlattenSeq(encoded) \in Seq(Rect)
           /\ Leads(FlattenSeq(encoded), left, right, picture, palette, at[0], at[m])
      BY <2>1, <2>12, <2>13, <2>14, LeadsFlat
    <2>16. image \in Image
      <3>1. Bytes(FlattenSeq(encoded)) \in Seq(Rect)
        BY <2>15, BytesTyped
      <3> QED
        BY <2>1, <2>3, <2>7, <2>8, <3>1 DEF Image
    <2>17. ASSUME Len(palette) <= Byte PROVE Covers(image, picture, palette)
      <3>1. Bytes(FlattenSeq(encoded)) = FlattenSeq(encoded)
        BY <1>3, <2>7, <2>8, <2>15, <2>17, BytesKept
      <3>2. /\ image.left = left /\ image.right = right /\ image.top = top
            /\ image.rects = FlattenSeq(encoded)
            /\ Origin(image) = [x |-> left, y |-> top]
        BY <2>3, <3>1 DEF Origin
      <3>3. 0 <= left /\ right <= Width /\ bottom \in Int
        BY <2>1, <2>7, <2>8
      <3> QED
        BY <2>11, <2>14, <2>15, <3>2, <3>3 DEF Covers
    <2> QED
      BY <2>16, <2>17 DEF image
  <1> QED
    BY <1>7, <1>8, <1>9

\* A palette to which colors have been added.
Extends(after, before) ==
    /\ before \in Seq(Keys) /\ after \in Seq(Keys)
    /\ Len(before) <= Len(after)
    /\ \A i \in 1..Len(before) : after[i] = before[i]

\* Colors added to a palette change nothing about an image over it.
LEMMA CoversStays ==
    ASSUME NEW image \in Image, NEW picture, NEW before, NEW after, Extends(after, before),
           Covers(image, picture, before)
    PROVE  Covers(image, picture, after)
  <1> DEFINE left == image.left
             right == image.right
             rects == image.rects
  <1>1. PICK bottom \in Int :
            /\ ClearOutside(picture, image.top, bottom, left, right)
            /\ Leads(rects, left, right, picture, before, Origin(image),
                     [x |-> left, y |-> bottom + 1])
    BY DEF Covers
  <1> DEFINE last == [x |-> left, y |-> bottom + 1]
  <1>2. PICK pos \in [0..Len(rects) -> Place] :
            /\ pos[0] = Origin(image) /\ pos[Len(rects)] = last
            /\ \A k \in 1..Len(rects) :
                   Stroke(left, right, picture, before, pos[k - 1], rects[k], pos[k])
    BY <1>1 DEF Leads
  <1>3. /\ Len(before) \in Nat /\ Len(after) \in Nat /\ Len(before) <= Len(after)
        /\ \A i \in 1..Len(before) : after[i] = before[i]
    BY DEF Extends
  <1>4. ASSUME NEW y, NEW x, NEW i, Indexes(picture, before, y, x, i)
        PROVE  Indexes(picture, after, y, x, i)
    <2>1. CASE i = 0 /\ picture[y][x].clear
      BY <2>1 DEF Indexes
    <2>2. CASE i \in 1..Len(before) - 1 /\ ~picture[y][x].clear
               /\ before[i + 1] = picture[y][x].color
      <3>1. i \in 1..Len(after) - 1 /\ i + 1 \in 1..Len(before)
        BY <1>3, <2>2
      <3>2. after[i + 1] = before[i + 1]
        BY <1>3, <3>1
      <3> QED
        BY <2>2, <3>1, <3>2 DEF Indexes
    <2> QED
      BY <1>4, <2>1, <2>2 DEF Indexes
  <1>5. ASSUME NEW k \in 1..Len(rects)
        PROVE  Stroke(left, right, picture, after, pos[k - 1], rects[k], pos[k])
    <2>1. Stroke(left, right, picture, before, pos[k - 1], rects[k], pos[k])
      BY <1>2
    <2> HIDE DEF left, right, rects, last
    <2> QED
      BY <1>4, <2>1 DEF Stroke
  <1>6. Leads(rects, left, right, picture, after, Origin(image), last)
    <2> HIDE DEF left, right, rects, last
    <2> QED
      BY <1>2, <1>5 DEF Leads
  <1> QED
    BY <1>1, <1>6 DEF Covers

-----------------------------------------------------------------------------
(* PNGCollectionEncoder                                                    *)

Encoding == \E name \in Names, picture \in Pictures : encodeImage(name, picture)

\* One encoder after the other.
EncoderSpec == EncoderInit /\ [][Encoding \/ NewEncoder]_encoderVars

\* An image made of a framed picture can be drawn while its indexes fit into a byte.
Drawable(image, picture, palette) ==
    /\ picture \in Canvas
    /\ Framed(picture) => /\ image \in Image
                          /\ Len(palette) <= Byte => Covers(image, picture, palette)

PaletteInv == colors \in Seq(Keys) /\ Len(colors) >= 1 /\ colors[1] = NoColor

ImagesInv ==
    /\ DOMAIN images = DOMAIN painted
    /\ \A name \in DOMAIN painted : Drawable(images[name], painted[name], colors)

EncoderInv == PaletteInv /\ ImagesInv

\* An encoder without pictures.
LEMMA EncoderStarts ==
    ASSUME EncoderInit
    PROVE  EncoderInv
  BY DEF EncoderInit, EncoderInv, PaletteInv, ImagesInv, Keys

\* A picture more: its image can be drawn, and so can all before it, over the palette as it
\* is now.
LEMMA EncoderStays ==
    ASSUME EncoderInv, NEW name, NEW picture \in Pictures, encodeImage(name, picture)
    PROVE  /\ EncoderInv' /\ Extends(colors', colors)
           /\ \A n \in DOMAIN images : n # name => images'[n] = images[n]
           /\ DOMAIN images' = DOMAIN images \cup {name}
           /\ painted'[name] = picture
           /\ \A n \in DOMAIN painted : n # name => painted'[n] = painted[n]
  <1>1. picture \in Canvas
    BY PicturesAssumption DEF Canvas
  <1>2. colors \in Seq(Keys) /\ Len(colors) >= 1 /\ colors[1] = NoColor
    BY DEF EncoderInv, PaletteInv
  <1>3. /\ ColorsAfter(colors, picture) \in Seq(Keys)
        /\ Len(colors) <= Len(ColorsAfter(colors, picture))
        /\ \A i \in 1..Len(colors) : ColorsAfter(colors, picture)[i] = colors[i]
        /\ \A y \in 0..Height - 1, x \in 0..Width - 1 :
               \E i \in 1..Len(ColorsAfter(colors, picture)) :
                   ColorsAfter(colors, picture)[i] = picture[y][x].color
    BY <1>1, <1>2, ColorsGrow
  <1>4. /\ colors' = ColorsAfter(colors, picture)
        /\ images' = With(images, name, encode(picture, colors'))
        /\ painted' = With(painted, name, picture)
    BY DEF encodeImage
  <1>5. Extends(colors', colors)
    BY <1>2, <1>3, <1>4 DEF Extends
  <1>6. /\ colors' \in Seq(Keys) /\ Len(colors') >= 1 /\ colors'[1] = NoColor
        /\ Len(colors') \in Nat /\ Len(colors) \in Nat /\ Len(colors) <= Len(colors')
    <2>1. Len(colors) \in Nat /\ 1 \in 1..Len(colors)
      BY <1>2
    <2> QED
      BY <1>2, <1>3, <1>4, <2>1
  <1>7. Indexing(colors', picture)
    BY <1>3, <1>4, <1>6 DEF Indexing
  <1>8. Drawable(encode(picture, colors'), picture, colors')
    BY <1>1, <1>7, EncodeCovers, SizeAssumption DEF Drawable
  <1>9. /\ DOMAIN images' = DOMAIN images \cup {name}
        /\ DOMAIN painted' = DOMAIN painted \cup {name}
        /\ images'[name] = encode(picture, colors') /\ painted'[name] = picture
        /\ \A n \in DOMAIN images : n # name => images'[n] = images[n]
        /\ \A n \in DOMAIN painted : n # name => painted'[n] = painted[n]
    BY <1>4 DEF With
  <1>10. DOMAIN images = DOMAIN painted
    BY DEF EncoderInv, ImagesInv
  <1>11. ASSUME NEW n \in DOMAIN painted'
         PROVE  Drawable(images'[n], painted'[n], colors')
    <2>1. CASE n = name
      BY <1>8, <1>9, <2>1
    <2>2. CASE n # name
      <3>1. n \in DOMAIN painted /\ images'[n] = images[n] /\ painted'[n] = painted[n]
        BY <1>9, <1>10, <2>2
      <3>2. Drawable(images[n], painted[n], colors)
        BY <3>1 DEF EncoderInv, ImagesInv
      <3>3. painted[n] \in Canvas
        BY <3>2 DEF Drawable
      <3>4. ASSUME Framed(painted[n])
            PROVE  /\ images[n] \in Image
                   /\ Len(colors') <= Byte => Covers(images[n], painted[n], colors')
        <4>1. images[n] \in Image /\ (Len(colors) <= Byte => Covers(images[n], painted[n], colors))
          BY <3>2, <3>4 DEF Drawable
        <4>2. Len(colors') <= Byte => Len(colors) <= Byte
          BY <1>6, ImageAssumption
        <4> QED
          BY <1>5, <4>1, <4>2, CoversStays
      <3> QED
        BY <3>1, <3>3, <3>4 DEF Drawable
    <2> QED
      BY <2>1, <2>2
  <1>12. EncoderInv'
    BY <1>6, <1>9, <1>10, <1>11 DEF EncoderInv, PaletteInv, ImagesInv
  <1> QED
    BY <1>5, <1>9, <1>12

\* What can be drawn is drawn as it was painted.
LEMMA DrawableIsDrawn ==
    ASSUME NEW image, NEW picture, NEW palette \in Seq(Keys), Drawable(image, picture, palette)
    PROVE  AsPainted(picture, image, palette)
  <1> SUFFICES ASSUME Framed(picture), Len(palette) <= Byte
               PROVE  /\ Seen(buildSVG(image, palette)) = Expected(picture)
                      /\ ~GenerateRects(image, palette).panic
                      /\ Seen(GenerateRects(image, palette).part) = Expected(picture)
    BY DEF AsPainted, Expected, Shown
  <1>1. image \in Image /\ picture \in Canvas /\ Covers(image, picture, palette) /\ Height <= Width
    BY SizeAssumption DEF Drawable
  <1> QED
    BY <1>1, CoversDraws

\* image.ts, svg-builder.ts and MultiPartRLEToSVG: see DrawnAsPainted.  For all sizes,
\* pictures, colors and names.
THEOREM EncodedIsDrawn == EncoderSpec => DrawnAsPainted
  <1>1. EncoderInit => EncoderInv
    BY EncoderStarts
  <1>2. EncoderInv /\ [Encoding \/ NewEncoder]_encoderVars => EncoderInv'
    <2>1. ASSUME EncoderInv, UNCHANGED encoderVars
          PROVE  EncoderInv'
      BY <2>1 DEF encoderVars, EncoderInv, PaletteInv, ImagesInv
    <2>2. ASSUME NewEncoder
          PROVE  EncoderInv'
      BY <2>2 DEF NewEncoder, EncoderInv, PaletteInv, ImagesInv, Keys
    <2>3. ASSUME EncoderInv, Encoding
          PROVE  EncoderInv'
      BY <2>3, EncoderStays DEF Encoding
    <2> QED
      BY <2>1, <2>2, <2>3
  <1>3. EncoderInv' =>
            [encoderVars' # encoderVars =>
               \A name \in DOMAIN images' : AsPainted(painted'[name], images'[name], colors')]_encoderVars
    <2> SUFFICES ASSUME EncoderInv', NEW name \in DOMAIN images'
                 PROVE  AsPainted(painted'[name], images'[name], colors')
      OBVIOUS
    <2>1. colors' \in Seq(Keys) /\ Drawable(images'[name], painted'[name], colors')
      BY DEF EncoderInv, PaletteInv, ImagesInv
    <2> QED
      BY <2>1, DrawableIsDrawn
  <1> QED
    BY <1>1, <1>2, <1>3, PTL DEF EncoderSpec, DrawnAsPainted
=============================================================================
