------------------------------ MODULE HeaderProofs ------------------------------
(***************************************************************************)
(* What a header is read as.  A FITS header: that the three readings the   *)
(* code makes of its cards agree, for every width of u64, every block and  *)
(* every longest axis.  Its keyword records: that the fold over cards and  *)
(* the fold over XISF elements give the list the standard describes, for   *)
(* every record and every cap.  An XISF header: that its elements are      *)
(* known by the names their innermost declarations give them and stand in  *)
(* the tree as written, for every set of tags.                             *)
(***************************************************************************)
EXTENDS FitsSizing, KeywordFold, XmlDocument, FitsHduProofs, FiniteSetTheorems

-----------------------------------------------------------------------------
(* The sizes.  All are facts about one header (FitsHduProofs, and below);  *)
(* every header written card by card is of the type they are about.        *)

ArrayCards == [bitpix : Bitpixes, naxis : Naxes, axes : Seq(AxisValues)]

\* The cards of a header are those that were written.
CardsOK ==
    cards \in [xtension : Names, own : ArrayCards,
               tile : [bitpix : {8}, naxis : {2}, axes : Seq({1})],
               pcount : Counts, gcount : Counts, groups : BOOLEAN, zimage : BOOLEAN,
               inherit : {FALSE}, bscale : Scalings, bzero : {None}, blank : {None}]

\* What is written reads as a number or does not read.
LEMMA NumbersRead ==
    ASSUME CardsOK
    PROVE  /\ cards.own.bitpix \in Option(Int) /\ cards.own.naxis \in Option(Int)
           /\ cards.pcount \in Option(Int) /\ cards.gcount \in Option(Int)
           /\ cards.own.axes \in Seq(AxisValues) /\ AxisValues \subseteq Option(Int)
  BY NumbersAssumption DEF CardsOK, ArrayCards

\* Every header keeps its type while its NAXISn are written.
LEMMA HeadersAreTyped == SizingSpec => []CardsOK
  <1>1. SizingInit => CardsOK
    <2> SUFFICES ASSUME SizingInit PROVE CardsOK
      OBVIOUS
    <2>1. <<>> \in Seq(AxisValues) /\ <<1, 1>> \in Seq({1})
      OBVIOUS
    <2> QED
      BY <2>1 DEF SizingInit, CardsOK, ArrayCards
  <1>2. CardsOK /\ [SizingNext]_cards => CardsOK'
    <2> SUFFICES ASSUME CardsOK, WriteAxis PROVE CardsOK'
      BY DEF SizingNext, CardsOK
    <2>1. PICK n \in AxisValues : cards' = [cards EXCEPT !.own.axes = Append(@, n)]
      BY DEF WriteAxis
    <2>2. Append(cards.own.axes, n) \in Seq(AxisValues)
      BY <2>1 DEF CardsOK, ArrayCards
    <2> QED
      BY <2>1, <2>2 DEF CardsOK, ArrayCards
  <1> QED
    BY <1>1, <1>2, PTL DEF SizingSpec

\* A decode never reads past the end of its data unit (data_unit_size against read_geometry).
THEOREM DecodesStayInside == SizingSpec => []SamplesInsideUnit
  <1>1. CardsOK => SamplesInsideUnit
    <2> SUFFICES ASSUME CardsOK, BuildHeader(cards, cards).decline = None,
                        IsImagePosition(cards), Size # None, cards.gcount # 0
                 PROVE  LET h == BuildHeader(cards, cards)
                            g == h.geometry
                        IN  g.width * g.height * g.channels * h.bytes <= Size
      BY DEF SamplesInsideUnit
    <2>1. cards.own.naxis \in Option(Int)
      BY NumbersRead
    <2>2. BuildHeader(cards, cards).geometry # None
      BY <2>1, ImagesThatDecodeRead
    <2>3. Gcount(cards) # 0
      BY NoneAssumption DEF Gcount, Unsigned, Fit
    <2> QED
      BY <2>2, <2>3, SamplesFit DEF Size
  <1> QED
    BY <1>1, HeadersAreTyped, PTL

-----------------------------------------------------------------------------
(* The size of a data unit is exact.  The code multiplies and adds in u64  *)
(* and gives up as soon as one step leaves it; the size it is compared     *)
(* with is worked out over the integers, in one expression.                *)

\* A partly filled block counts whole, and no block more (next_multiple_of).
LEMMA PaddedIsLeast ==
    ASSUME NEW n \in Nat
    PROVE  /\ Padded(n) = None => n + BLOCK - 1 > MaxU
           /\ Padded(n) # None => /\ Padded(n) % BLOCK = 0
                                  /\ Padded(n) >= n /\ Padded(n) - n < BLOCK
  <1> DEFINE top == n + (BLOCK - 1)
             q   == top \div BLOCK
  <1>1. /\ top \in Nat /\ q \in Nat /\ q * BLOCK \in Nat /\ q * BLOCK <= top
        /\ q * BLOCK >= n /\ q * BLOCK - n < BLOCK
    <2>1. \A m \in Nat, b \in Nat \ {0} :
             LET k == (m + (b - 1)) \div b IN
             k \in Nat /\ k * b <= m + (b - 1) /\ k * b >= m /\ k * b - m < b
      OBVIOUS
    <2>2. \A i, j \in Nat : i * j \in Nat
      OBVIOUS
    <2> QED  BY <2>1, <2>2, BlockAssumption
  <1>2. (q * BLOCK) % BLOCK = 0
    <2>1. \A k \in Nat, b \in Nat \ {0} : (k * b) % b = 0
      OBVIOUS
    <2> QED  BY <1>1, <2>1, BlockAssumption
  <1>3. CASE top > MaxU
    <2>1. Padded(n) = None
      BY <1>1, <1>3, NoneAssumption, MaxUAssumption DEF Padded, CheckedAdd, Fit, U
    <2> QED  BY <1>3, <2>1, BlockAssumption
  <1>4. CASE top <= MaxU
    <2> HIDE DEF q
    <2>1. top \in U /\ n # None /\ BLOCK - 1 # None /\ top # None
      BY <1>1, <1>4, NoneAssumption, MaxUAssumption, BlockAssumption DEF U
    <2>2. CheckedAdd(n, BLOCK - 1) = top
      BY <2>1 DEF CheckedAdd, Fit
    <2>3. q * BLOCK \in U
      BY <1>1, <1>4, MaxUAssumption DEF U
    <2>4. Padded(n) = q * BLOCK
      BY <2>1, <2>2, <2>3 DEF Padded, Fit, q
    <2>5. q * BLOCK # None
      BY <2>3, NoneAssumption, MaxUAssumption DEF U
    <2> QED  BY <1>1, <1>2, <2>4, <2>5
  <1> QED  BY <1>1, <1>3, <1>4, MaxUAssumption

\* The arithmetic in u64 that gives a number gives the exact one.
LEMMA CheckedIsExact ==
    ASSUME NEW e \in Option(U), NEW p \in Option(U), NEW g \in Option(U), NEW w \in {1, 2, 4, 8},
           CheckedMul(CheckedMul(CheckedAdd(e, p), g), w) # None
    PROVE  /\ e \in U /\ p \in U /\ g \in U
           /\ CheckedMul(CheckedMul(CheckedAdd(e, p), g), w) = w * g * (p + e)
           /\ CheckedMul(CheckedMul(CheckedAdd(e, p), g), w) \in U
  <1> DEFINE s == CheckedAdd(e, p)
             m == CheckedMul(s, g)
  <1>1. m # None /\ CheckedMul(m, w) = m * w /\ CheckedMul(m, w) \in U
    BY DEF CheckedMul, Fit
  <1>2. s # None /\ g # None /\ m = s * g
    BY <1>1 DEF CheckedMul, Fit
  <1>3. e # None /\ p # None /\ s = e + p
    BY <1>2 DEF CheckedAdd, Fit
  <1>4. e \in U /\ p \in U /\ g \in U
    BY <1>2, <1>3 DEF Option
  <1>5. ((e + p) * g) * w = w * g * (p + e)
    <2>1. \A x, y, z \in Nat : (x * y) * z = (z * y) * x
      OBVIOUS
    <2>2. e + p \in Nat /\ g \in Nat /\ w \in Nat /\ e + p = p + e
      BY <1>4, MaxUAssumption DEF U
    <2> QED  BY <2>1, <2>2
  <1> QED  BY <1>1, <1>2, <1>3, <1>4, <1>5

\* A number u64 holds is reached by the arithmetic without leaving it, unless it is nothing.
LEMMA ExactIsChecked ==
    ASSUME NEW e \in Nat, NEW p \in Nat, NEW g \in Nat, NEW w \in {1, 2, 4, 8},
           w * g * (p + e) # 0, w * g * (p + e) <= MaxU
    PROVE  /\ e <= MaxU /\ p \in U /\ g \in U
           /\ CheckedMul(CheckedMul(CheckedAdd(e, p), g), w) = w * g * (p + e)
  <1> DEFINE s == p + e
  <1>1. s \in Nat \ {0} /\ g \in Nat \ {0}
    <2>1. \A x, y \in Nat : x = 0 \/ y = 0 => w * x * y = 0
      OBVIOUS
    <2> QED  BY <2>1
  <1>2. s * g \in Nat \ {0} /\ s <= s * g /\ g <= s * g
    BY <1>1, ProductsGrow
  <1>3. (s * g) * w = w * g * s /\ s * g <= (s * g) * w
    <2>1. \A x, y, z \in Nat : (x * y) * z = (z * y) * x
      OBVIOUS
    <2>2. w \in Nat \ {0} /\ w \in Nat
      OBVIOUS
    <2> QED  BY <1>1, <1>2, <2>1, <2>2, ProductsGrow
  <1> DEFINE m == s * g
             b == m * w
  <1> HIDE DEF m, b
  <1>4. m \in Nat /\ s <= m /\ g <= m /\ m <= b /\ b = w * g * s /\ b \in Nat
    <2>1. w * g * s \in Nat
      <3>1. \A x, y \in Nat : w * x * y \in Nat
        OBVIOUS
      <3> QED  BY <3>1
    <2> QED  BY <1>2, <1>3, <2>1 DEF m, b
  <1>5. s \in U /\ g \in U /\ m \in U /\ b \in U /\ e \in U /\ p \in U
    BY <1>4, MaxUAssumption DEF U
  <1>6. \A x \in U \cup {w} : x # None
    BY NoneAssumption, MaxUAssumption DEF U
  <1>7. e + p = s
    OBVIOUS
  <1>8. CheckedAdd(e, p) = s
    BY <1>5, <1>6, <1>7 DEF CheckedAdd, Fit
  <1> HIDE DEF s
  <1>9. CheckedMul(s, g) = m
    BY <1>5, <1>6 DEF CheckedMul, Fit, m
  <1>10. CheckedMul(m, w) = b
    BY <1>5, <1>6 DEF CheckedMul, Fit, b
  <1> QED  BY <1>4, <1>5, <1>8, <1>9, <1>10, MaxUAssumption DEF s, U

\* How many axes a size counts, and the axes themselves.
LastCounted == cards.own.naxis - (IF Groups THEN 1 ELSE 0)

AxesRead ==
    \A i \in Counted :
       /\ i \in DOMAIN cards.own.axes
       /\ \A j \in 1 .. i : cards.own.axes[j] # None
       /\ cards.own.axes[i] >= 0

Data == IF Groups /\ cards.own.naxis = 1 THEN 0 ELSE Product

\* The axes of a size that reads are the cards', from the first that is counted.
LEMMA SizedAxesRead ==
    ASSUME CardsOK, cards.own.naxis \in Nat \ {0}
    PROVE  /\ LastCounted \in Nat /\ DOMAIN SizedAxes(cards) = 1 .. LastCounted
           /\ (\A j \in 1 .. LastCounted : SizedAxes(cards)[j] \in U) => AxesRead
           /\ AxesRead => /\ SizedAxes(cards) = SubSeq(cards.own.axes, FirstCounted, cards.own.naxis)
                         /\ \A i \in 1 .. LastCounted :
                               /\ SizedAxes(cards)[i] \in Nat
                               /\ i + FirstCounted - 1 \in Counted
                               /\ SizedAxes(cards)[i] = cards.own.axes[i + FirstCounted - 1]
  <1> DEFINE a == SizedAxes(cards)
             o == FirstCounted - 1
  <1>1. /\ o \in {0, 1} /\ FirstCounted = o + 1 /\ LastCounted = cards.own.naxis - o
        /\ RandomGroups(cards) <=> Groups
        /\ o = IF Groups THEN 1 ELSE 0
    BY DEF FirstCounted, LastCounted, RandomGroups, IsPrimary, Groups
  <1>2. LastCounted \in Nat /\ a = [j \in 1 .. LastCounted |-> Axis(cards.own, j + o)]
    <2>1. a = [j \in 1 .. LastCounted |-> Axis(cards.own, IF Groups THEN j + 1 ELSE j)]
      BY <1>1, Zenon DEF SizedAxes, LastCounted
    <2>2. \A j \in 1 .. LastCounted : (IF Groups THEN j + 1 ELSE j) = j + o
      BY <1>1
    <2>3. LastCounted \in Nat
      BY <1>1
    <2> QED  BY <2>1, <2>2, <2>3
  <1> HIDE DEF a, o
  <1>3. \A i \in Counted : i - o \in 1 .. LastCounted
    BY <1>1 DEF Counted
  <1>4. \A j \in 1 .. LastCounted : j + o \in Counted
    BY <1>1, <1>2 DEF Counted
  <1>5. ASSUME \A j \in 1 .. LastCounted : a[j] \in U PROVE AxesRead
    <2> SUFFICES ASSUME NEW i \in Counted
                 PROVE  /\ i \in DOMAIN cards.own.axes
                        /\ \A j \in 1 .. i : cards.own.axes[j] # None
                        /\ cards.own.axes[i] >= 0
      BY DEF AxesRead
    <2>1. i \in Int /\ (i - o) + o = i
      BY <1>1 DEF Counted
    <2>2. Axis(cards.own, i) \in U
      BY <1>2, <1>3, <1>5, <2>1
    <2> QED  BY <2>2, NoneAssumption, MaxUAssumption DEF Axis, U
  <1>6. ASSUME AxesRead
        PROVE  \A j \in 1 .. LastCounted : a[j] = cards.own.axes[j + o] /\ a[j] \in Nat
    <2> SUFFICES ASSUME NEW j \in 1 .. LastCounted
                 PROVE  a[j] = cards.own.axes[j + o] /\ a[j] \in Nat
      OBVIOUS
    <2>1. /\ j + o \in DOMAIN cards.own.axes /\ \A k \in 1 .. j + o : cards.own.axes[k] # None
          /\ cards.own.axes[j + o] >= 0
      BY <1>4, <1>6 DEF AxesRead
    <2>2. a[j] = cards.own.axes[j + o]
      BY <1>2, <2>1 DEF Axis
    <2>3. cards.own.axes[j + o] \in AxisValues /\ j + o \in 1 .. j + o
      BY <1>1, <2>1 DEF CardsOK, ArrayCards
    <2>4. cards.own.axes[j + o] \in Int
      BY <2>1, <2>3, NumbersRead DEF Option
    <2> QED  BY <2>1, <2>2, <2>4
  <1>7. AxesRead => a = SubSeq(cards.own.axes, FirstCounted, cards.own.naxis)
    <2> SUFFICES ASSUME AxesRead
                 PROVE  a = SubSeq(cards.own.axes, FirstCounted, cards.own.naxis)
      OBVIOUS
    <2>1. SubSeq(cards.own.axes, FirstCounted, cards.own.naxis)
            = [j \in 1 .. LastCounted |-> cards.own.axes[j + o]]
      BY <1>1, <1>2
    <2>2. a = [j \in 1 .. LastCounted |-> a[j]]
      BY <1>2
    <2> QED  BY <1>6, <2>1, <2>2
  <1>8. DOMAIN a = 1 .. LastCounted
    BY <1>2
  <1>9. \A j \in 1 .. LastCounted : j + FirstCounted - 1 = j + o
    BY <1>1, <1>2
  <1> QED  BY <1>2, <1>4, <1>5, <1>6, <1>7, <1>8, <1>9 DEF a

\* What the code counts is the product of the axes, and it counts them unless that is too large.
LEMMA ElementsAreExact ==
    ASSUME CardsOK, cards.own.naxis \in Nat \ {0}
    PROVE  /\ Elements(cards) \in Option(U)
           /\ Elements(cards) # None => AxesRead /\ Elements(cards) = Data
           /\ AxesRead /\ (\A i \in Counted : cards.own.axes[i] # 0) =>
                 /\ Data \in Nat /\ (Elements(cards) = None => Data > MaxU)
                 /\ ~(Groups /\ cards.own.naxis = 1) => Data # 0
  <1> DEFINE a == SizedAxes(cards)
             n == LastCounted
  <1>1. n \in Nat /\ DOMAIN a = 1 .. n
    BY SizedAxesRead
  <1>2. RandomGroups(cards) <=> Groups
    BY DEF RandomGroups, IsPrimary, Groups
  <1>3. CASE Groups /\ cards.own.naxis = 1
    <2>0. RandomGroups(cards) /\ cards.own.naxis < 2
      BY <1>2, <1>3
    <2>1. Elements(cards) = Muls!Fold(a, 0, a)
      BY <2>0, Zenon DEF Elements, MulStep, FoldLeft, MapThenFoldSet, Max,
         Muls!Fold, Muls!Iterates, Muls!Largest
    <2>2. n = 0
      BY <1>3 DEF LastCounted
    <2>3. DOMAIN a = {}
      BY <1>1, <2>2
    <2>4. Elements(cards) = 0
      BY <2>1, <2>3, Muls!FoldOfNone
    <2>5. AxesRead /\ Data = 0 /\ 0 # None /\ 0 \in Option(U)
      BY <1>3, NoneAssumption, MaxUAssumption
         DEF AxesRead, Counted, FirstCounted, Data, Option, U
    <2> QED  BY <1>3, <2>4, <2>5
  <1>4. CASE ~(Groups /\ cards.own.naxis = 1)
    <2>1. Elements(cards) = Muls!Fold(a, 1, a)
      <3>1. ~(RandomGroups(cards) /\ cards.own.naxis < 2)
        BY <1>2, <1>4
      <3> QED  BY <3>1, ElementsFold
    <2>2. MulClaim(a, n, Elements(cards))
      BY <1>1, <2>1, MulsAreExact
    <2>3. AxesRead => Data = FirstOf(a, n)
      <3> SUFFICES ASSUME AxesRead PROVE Data = FirstOf(a, n)
        OBVIOUS
      <3>1. a = SubSeq(cards.own.axes, FirstCounted, cards.own.naxis)
        BY SizedAxesRead
      <3>2. Product = Exact!Fold(a, 1, SubSeq(cards.own.axes, FirstCounted, cards.own.naxis))
        BY Zenon DEF Product, TimesStep, FoldLeft, MapThenFoldSet, Max,
           Exact!Fold, Exact!Iterates, Exact!Largest
      <3>3. Exact!Prefix(a, n) = a
        <4>1. Exact!Prefix(a, n) = [i \in 1 .. n |-> a[i]]
          BY Zenon DEF Exact!Prefix
        <4>2. a = [i \in DOMAIN a |-> a[i]]
          BY DEF SizedAxes
        <4> HIDE DEF a, n
        <4> QED  BY <1>1, <4>1, <4>2
      <3> QED  BY <1>4, <3>1, <3>2, <3>3 DEF Data, FirstOf
    <2>4. ASSUME Elements(cards) # None PROVE AxesRead /\ Elements(cards) = Data
      <3>1. Elements(cards) = FirstOf(a, n) /\ \A i \in 1 .. n : a[i] \in U
        BY <2>2, <2>4, Zenon DEF MulClaim
      <3>2. AxesRead
        BY <3>1, SizedAxesRead
      <3> QED  BY <2>3, <3>1, <3>2
    <2>5. ASSUME AxesRead, \A i \in Counted : cards.own.axes[i] # 0
          PROVE  Data \in Nat \ {0} /\ (Elements(cards) = None => Data > MaxU)
      <3>1. \A j \in 1 .. n : a[j] \in Nat \ {0}
        BY <2>5, SizedAxesRead
      <3> HIDE DEF a, n
      <3> QED  BY <2>2, <2>3, <2>5, <3>1 DEF MulClaim
    <2>6. Elements(cards) \in Option(U)
      BY <2>2, Zenon DEF MulClaim, Option
    <2> QED  BY <2>4, <2>5, <2>6
  <1> QED  BY <1>3, <1>4

\* The bytes of a sample are the bits of its BITPIX (sample_format_of, SampleFormat::bytes).
LEMMA WidthIsBits ==
    ASSUME cards.own.bitpix \in StandardBitpix
    PROVE  /\ SampleBytes(cards.own.bitpix) \in {1, 2, 4, 8} /\ SampleBytes(cards.own.bitpix) # None
           /\ \A n \in Nat : (Bits * n) \div 8 = SampleBytes(cards.own.bitpix) * n
  <1> DEFINE b == cards.own.bitpix
             w == SampleBytes(b)
  <1>1. b # None
    BY NoneAssumption DEF StandardBitpix
  <1>2. w = Bits \div 8 /\ Bits \in {8, 16, 32, 64}
    BY <1>1 DEF SampleBytes, StandardBitpix, Bits
  <1> HIDE DEF w, b
  <1>3. w \in {1, 2, 4, 8} /\ Bits = 8 * w
    BY <1>2
  <1>4. \A n \in Nat : (Bits * n) \div 8 = w * n
    <2>1. \A n \in Nat : (8 * n) \div 8 = n /\ (16 * n) \div 8 = 2 * n
                         /\ (32 * n) \div 8 = 4 * n /\ (64 * n) \div 8 = 8 * n
      OBVIOUS
    <2>2. \/ w = 1 /\ Bits = 8
          \/ w = 2 /\ Bits = 16
          \/ w = 4 /\ Bits = 32
          \/ w = 8 /\ Bits = 64
      BY <1>3
    <2> QED  BY <2>1, <2>2
  <1> QED  BY <1>3, <1>4, NoneAssumption DEF w, b

LEMMA SizesAreExact ==
    ASSUME CardsOK
    PROVE  SizedExactly
  <1> DEFINE naxis == cards.own.naxis
             w == SampleBytes(cards.own.bitpix)
             p == IF Groups \/ cards.xtension # None THEN cards.pcount ELSE 0
             g == IF Groups \/ cards.xtension # None THEN cards.gcount ELSE 1
             b == CheckedMul(CheckedMul(CheckedAdd(Elements(cards), Pcount(cards)),
                                        Gcount(cards)), w)
  <1>1. naxis \in Option(Int) /\ cards.pcount \in Option(Int) /\ cards.gcount \in Option(Int)
    BY NumbersRead
  <1>2. naxis \in Nat \/ naxis = None \/ naxis < 0
    BY <1>1 DEF Option
  <1>3. CASE cards.own.bitpix \notin StandardBitpix \/ naxis \notin Nat
    <2>1. Size = None
      <3>1. cards.own.bitpix \notin StandardBitpix => SampleBytes(cards.own.bitpix) = None
        BY DEF SampleBytes
      <3> QED  BY <1>2, <1>3, <3>1 DEF Size, DataUnitSize
    <2>2. ~Readable
      BY <1>3 DEF Readable, StandardBitpix
    <2> QED  BY <2>1, <2>2 DEF SizedExactly
  <1>4. CASE cards.own.bitpix \in StandardBitpix /\ naxis = 0
    <2>1. SampleBytes(cards.own.bitpix) # None
      BY <1>4, WidthIsBits
    <2>2. Size = 0 /\ Bytes = 0 /\ 0 # None
      BY <1>4, <2>1, NoneAssumption DEF Size, DataUnitSize, Bytes
    <2>3. Readable
      BY <1>4 DEF Readable, Counted, FirstCounted, StandardBitpix
    <2>4. 0 % BLOCK = 0 /\ 0 < BLOCK
      BY BlockAssumption
    <2> QED  BY <2>2, <2>3, <2>4 DEF SizedExactly
  <1>5. CASE cards.own.bitpix \in StandardBitpix /\ naxis \in Nat \ {0}
    <2>1. w \in {1, 2, 4, 8} /\ w # None /\ \A n \in Nat : (Bits * n) \div 8 = w * n
      BY <1>5, WidthIsBits
    <2>2. Size = Padded(b) /\ Bytes = (Bits * (g * (p + Data))) \div 8
      <3>1. w # None /\ naxis # None /\ naxis >= 0
        BY <1>5, <2>1, NoneAssumption
      <3>2. Size = Padded(b)
        BY <1>5, <2>1, <3>1 DEF Size, DataUnitSize
      <3> QED  BY <1>5, <3>2 DEF Bytes, Data
    <2>12. ASSUME p \in Nat, g \in Nat, Data \in Nat PROVE Bytes = w * g * (p + Data)
      <3> HIDE DEF w, p, g, b
      <3>1. \A x, y \in Nat : x * y \in Nat
        OBVIOUS
      <3>2. p + Data \in Nat /\ g * (p + Data) \in Nat
        BY <2>12, <3>1
      <3>3. Bytes = w * (g * (p + Data))
        BY <2>1, <2>2, <3>2
      <3>4. \A x, y, z \in Nat : x * (y * z) = x * y * z
        OBVIOUS
      <3>5. w \in Nat
        BY <2>1
      <3> QED  BY <2>12, <3>2, <3>3, <3>4, <3>5
    <2>3. Pcount(cards) = Unsigned(p) /\ Gcount(cards) = Unsigned(g)
      <3>1. 0 \in U /\ 1 \in U /\ 0 # None /\ 1 # None
        BY NoneAssumption, MaxUAssumption DEF U
      <3>2. IsPrimary(cards) /\ ~cards.groups <=> ~(Groups \/ cards.xtension # None)
        BY DEF IsPrimary, Groups
      <3> QED  BY <3>1, <3>2 DEF Pcount, Gcount, Unsigned, Fit
    <2>4. p \in Option(Int) /\ g \in Option(Int)
      BY <1>1 DEF Option
    <2>5. Readable <=> AxesRead /\ p # None /\ g # None /\ p >= 0 /\ g >= 0
      <3>1. naxis # 0 /\ naxis \in Nat
        BY <1>5
      <3>2. 0 # None /\ 1 # None /\ 0 >= 0 /\ 1 >= 0
        BY NoneAssumption
      <3> QED  BY <1>5, <3>1, <3>2 DEF Readable, AxesRead, StandardBitpix
    <2>6. \A x : /\ Unsigned(x) \in Option(U) /\ (Unsigned(x) # None => Unsigned(x) = x /\ x \in U)
                 /\ x \in U => Unsigned(x) = x
      BY NoneAssumption, MaxUAssumption DEF Unsigned, Fit, Option, U
    <2>7. Elements(cards) \in Option(U)
      BY <1>5, ElementsAreExact
    <2> HIDE DEF b, w, p, g
    <2>8. ASSUME Size # None
          PROVE  Readable /\ Size % BLOCK = 0 /\ Size >= Bytes /\ Size - Bytes < BLOCK
      <3>1. b # None
        BY <2>2, <2>8 DEF Padded, CheckedAdd
      <3>2. /\ Elements(cards) \in U /\ Unsigned(p) \in U /\ Unsigned(g) \in U
            /\ b = w * Unsigned(g) * (Unsigned(p) + Elements(cards)) /\ b \in U
        BY <2>1, <2>3, <2>6, <2>7, <3>1, CheckedIsExact DEF b
      <3>3. Unsigned(p) = p /\ Unsigned(g) = g /\ p \in U /\ g \in U
        BY <2>6, <3>2, NoneAssumption, MaxUAssumption DEF U
      <3>4. Elements(cards) # None
        BY <3>2, NoneAssumption, MaxUAssumption DEF U
      <3>5. AxesRead /\ Elements(cards) = Data
        BY <1>5, <3>4, ElementsAreExact
      <3>6. b = Bytes /\ b \in Nat
        <4>1. p \in Nat /\ g \in Nat /\ Data \in Nat /\ b \in Nat
          BY <3>2, <3>3, <3>5, MaxUAssumption DEF U
        <4> QED  BY <2>12, <3>2, <3>3, <3>5, <4>1
      <3>7. Readable
        BY <2>5, <3>3, <3>5, NoneAssumption, MaxUAssumption DEF U
      <3> QED  BY <2>2, <2>8, <3>6, <3>7, PaddedIsLeast
    <2>9. ASSUME Readable, \A i \in Counted : cards.own.axes[i] # 0
          PROVE  /\ AxesRead /\ p \in Nat /\ g \in Nat
                 /\ Data \in Nat /\ (Elements(cards) = None => Data > MaxU)
                 /\ Bytes \in Nat
      <3>1. AxesRead /\ p \in Nat /\ g \in Nat
        BY <2>4, <2>5, <2>9 DEF Option
      <3>2. Data \in Nat /\ (Elements(cards) = None => Data > MaxU)
        BY <1>5, <2>9, <3>1, ElementsAreExact
      <3>3. Bytes \in Nat
        <4>1. \A x, y, z \in Nat : x * y * z \in Nat
          OBVIOUS
        <4>2. w \in Nat /\ p + Data \in Nat
          BY <2>1, <3>1, <3>2
        <4> QED  BY <2>12, <3>1, <3>2, <4>1, <4>2
      <3> QED  BY <3>1, <3>2, <3>3
    <2>10. ASSUME Readable, Bytes + BLOCK - 1 <= MaxU, Bytes # 0,
                  \A i \in Counted : cards.own.axes[i] # 0
           PROVE  Size # None
      <3>1. w * g * (p + Data) # 0 /\ w * g * (p + Data) <= MaxU
        BY <2>9, <2>10, <2>12, BlockAssumption, MaxUAssumption
      <3>2. /\ Data <= MaxU /\ p \in U /\ g \in U
            /\ CheckedMul(CheckedMul(CheckedAdd(Data, p), g), w) = w * g * (p + Data)
        BY <2>1, <2>9, <2>10, <3>1, ExactIsChecked
      <3>3. Elements(cards) = Data
        <4>1. Elements(cards) # None
          BY <2>9, <2>10, <3>2, MaxUAssumption
        <4> QED  BY <1>5, <4>1, ElementsAreExact
      <3>4. b = Bytes
        BY <2>3, <2>6, <2>9, <2>10, <2>12, <3>2, <3>3 DEF b
      <3> QED  BY <2>2, <2>9, <2>10, <3>4, PaddedIsLeast, BlockAssumption, MaxUAssumption
    <2>11. ASSUME Size = None, Readable
           PROVE  \/ Bytes + BLOCK - 1 > MaxU \/ Bytes = 0
                  \/ \E i \in Counted : cards.own.axes[i] = 0
      <3> SUFFICES ASSUME \A i \in Counted : cards.own.axes[i] # 0, Bytes # 0
                   PROVE  Bytes + BLOCK - 1 > MaxU
        OBVIOUS
      <3>1. Bytes \in Nat /\ ~(Bytes + BLOCK - 1 <= MaxU)
        BY <2>9, <2>10, <2>11
      <3> QED  BY <3>1, BlockAssumption, MaxUAssumption
    <2> QED  BY <2>8, <2>11 DEF SizedExactly
  <1> QED  BY <1>1, <1>2, <1>3, <1>4, <1>5

\* A size is exact: whatever the sizing cards say, it is the least whole number of blocks that
\* holds the data, it exists only when each of them reads, and it is missing then only when
\* the arithmetic would leave u64, as it may on its way to nothing (data_unit_size).
THEOREM EverySizeIsExact == SizingSpec => []SizedExactly
  <1>1. CardsOK => SizedExactly
    BY SizesAreExact
  <1> QED
    BY <1>1, HeadersAreTyped, PTL

\* Whatever the cards say, a position that is not declined has a geometry and a sample format,
\* each at least one wide, and a data unit of a size, unless that size passes u64 or a count of
\* its extension is not positive (first_fault, read_geometry, sample_format_of, data_unit_size).
THEOREM DecodableHeadersRead == SizingSpec => []DecodableIsReadable
  <1>1. CardsOK => DecodableIsReadable
    <2> DEFINE h == BuildHeader(cards, cards)
    <2> SUFFICES ASSUME CardsOK, h.decline = None, IsImagePosition(cards)
                 PROVE  /\ h.bytes # None
                        /\ h.geometry # None
                        /\ h.geometry.width > 0 /\ h.geometry.height > 0
                        /\ h.geometry.channels > 0
                        /\ Size = None =>
                              \/ cards.xtension # None /\ (cards.pcount < 0 \/ cards.gcount < 1)
                              \/ Bytes + BLOCK - 1 > MaxU
      BY DEF DecodableIsReadable
    <2>1. /\ cards.own.bitpix \in Option(Int) /\ cards.own.naxis \in Option(Int)
          /\ cards.pcount \in Option(Int) /\ cards.gcount \in Option(Int)
      BY NumbersRead
    <2>2. h.bytes # None /\ h.geometry # None
      BY <2>1, ImagesThatDecodeRead
    <2>3. h.geometry.width > 0 /\ h.geometry.height > 0 /\ h.geometry.channels > 0
      BY <2>2, DecodableAxes, MaxAxisAssumption
    <2>4. ASSUME cards.xtension = None \/ (cards.pcount >= 0 /\ cards.gcount >= 1), Size = None
          PROVE  Bytes + BLOCK - 1 > MaxU
      <3>1. ~StructuralFault(cards) /\ ~OutOfScope(cards)
        BY NoDeclineAssumption DEF BuildHeader, FirstFault
      <3>2. /\ cards.own.naxis \in {2, 3} /\ ~Groups /\ cards.own.bitpix \in StandardBitpix
            /\ cards.xtension # None =>
                  /\ cards.pcount \in Nat /\ cards.gcount \in Nat \ {0}
                  /\ cards.pcount # None /\ cards.gcount # None
        <4>1. cards.own.naxis \in {2, 3} /\ ~cards.groups
          BY <2>2, AxesOfAnImage
        <4>2. cards.own.bitpix \in StandardBitpix
          BY <3>1 DEF StructuralFault, SampleBytes
        <4>3. ASSUME cards.xtension # None
              PROVE  /\ cards.pcount \in Nat /\ cards.gcount \in Nat \ {0}
                     /\ cards.pcount # None /\ cards.gcount # None
          <5>1. cards.pcount # None /\ cards.gcount # None
            BY <3>1, <4>3 DEF StructuralFault, IsPrimary
          <5> QED  BY <2>1, <2>4, <4>3, <5>1 DEF Option
        <4> QED  BY <4>1, <4>2, <4>3 DEF Groups
      <3>3. \A i \in 1 .. cards.own.naxis : Axis(cards.own, i) \in 1 .. MaxAxis
        BY <3>1 DEF OutOfScope
      <3>4. Counted = 1 .. cards.own.naxis
        BY <3>2 DEF Counted, FirstCounted
      <3>5. \A i \in Counted :
               /\ i \in DOMAIN cards.own.axes /\ \A j \in 1 .. i : cards.own.axes[j] # None
               /\ cards.own.axes[i] >= 0 /\ cards.own.axes[i] # 0
        BY <3>3, <3>4, NoneAssumption, MaxAxisAssumption DEF Axis
      <3>6. Readable
        <4>1. cards.own.naxis \in Nat /\ cards.own.bitpix \in {-64, -32, 8, 16, 32, 64}
          BY <3>2 DEF StandardBitpix
        <4> QED  BY <3>2, <3>5, <4>1 DEF Readable
      <3>7. Bytes > 0
        <4> DEFINE p == IF cards.xtension # None THEN cards.pcount ELSE 0
                   g == IF cards.xtension # None THEN cards.gcount ELSE 1
        <4>1. p \in Nat /\ g \in Nat \ {0}
          BY <3>2
        <4>2. Product \in Nat \ {0}
          <5>1. AxesRead /\ cards.own.naxis \in Nat \ {0}
            BY <3>2, <3>5 DEF AxesRead
          <5> QED  BY <3>2, <3>5, <5>1, ElementsAreExact DEF Data
        <4>3. Bytes = (Bits * (g * (p + Product))) \div 8
          BY <3>2 DEF Bytes
        <4> HIDE DEF p, g
        <4>4. g * (p + Product) \in Nat \ {0}
          <5>1. p + Product \in Nat \ {0}
            BY <4>1, <4>2
          <5> QED  BY <4>1, <5>1, ProductsGrow
        <4>5. Bytes = SampleBytes(cards.own.bitpix) * (g * (p + Product))
          BY <3>2, <4>3, <4>4, WidthIsBits
        <4>6. SampleBytes(cards.own.bitpix) \in Nat \ {0}
          BY <3>2, WidthIsBits
        <4> QED  BY <4>4, <4>5, <4>6, ProductsGrow
      <3> QED  BY <2>4, <3>5, <3>6, <3>7, SizesAreExact DEF SizedExactly
    <2>5. Size = None => \/ cards.xtension # None /\ (cards.pcount < 0 \/ cards.gcount < 1)
                         \/ Bytes + BLOCK - 1 > MaxU
      <3> SUFFICES ASSUME Size = None, ~(Bytes + BLOCK - 1 > MaxU)
                   PROVE  cards.xtension # None /\ (cards.pcount < 0 \/ cards.gcount < 1)
        OBVIOUS
      <3>1. ~(cards.xtension = None \/ (cards.pcount >= 0 /\ cards.gcount >= 1))
        BY <2>4
      <3>2. cards.xtension # None /\ cards.pcount \in Int /\ cards.gcount \in Int
        <4>1. ~StructuralFault(cards)
          BY NoDeclineAssumption DEF BuildHeader, FirstFault
        <4>2. cards.xtension # None
          BY <3>1, Zenon
        <4>3. cards.pcount # None /\ cards.gcount # None
          BY <4>1, <4>2 DEF StructuralFault, IsPrimary
        <4> QED  BY <2>1, <4>2, <4>3 DEF Option
      <3> QED  BY <3>1, <3>2
    <2> QED
      BY <2>2, <2>3, <2>5
  <1> QED
    BY <1>1, HeadersAreTyped, PTL

\* The largest of some of the first numbers.
LEMMA MaxOf ==
    ASSUME NEW n \in Nat, NEW S \in SUBSET (1 .. n), S # {}
    PROVE  Max(S) \in S /\ \A x \in S : x <= Max(S)
  <1> DEFINE T == {n - x : x \in S}
  <1>1. T \in SUBSET Nat /\ T # {}
    OBVIOUS
  <1>2. PICK m \in T : \A k \in T : m <= k
    BY <1>1, Exact!LeastOf
  <1>3. \E x \in S : \A y \in S : x >= y
    <2>1. PICK x \in S : m = n - x
      BY <1>2
    <2>2. ASSUME NEW y \in S
          PROVE  x >= y
      <3>1. n - y \in T /\ x \in 1 .. n /\ y \in 1 .. n
        OBVIOUS
      <3>2. n - x <= n - y
        BY <1>2, <2>1, <3>1
      <3> QED  BY <3>1, <3>2
    <2> QED  BY <2>2
  <1>4. Max(S) \in S /\ \A y \in S : Max(S) >= y
    BY <1>3 DEF Max
  <1>5. \A x \in S : x \in Int
    OBVIOUS
  <1> QED  BY <1>4, <1>5

\* The beginning of a text.
LEMMA Begun ==
    ASSUME NEW S, NEW t \in Seq(S), NEW n \in 0 .. Len(t)
    PROVE  /\ SubSeq(t, 1, n) \in Seq(S) /\ Len(SubSeq(t, 1, n)) = n
           /\ DOMAIN SubSeq(t, 1, n) = 1 .. n /\ \A i \in 1 .. n : SubSeq(t, 1, n)[i] = t[i]
  OBVIOUS

\* Where a text ends, blanks aside.
Solid(t) == {i \in DOMAIN t : t[i] # Blank}
EndOf(t) == IF Solid(t) = {} THEN 0 ELSE Max(Solid(t))

LEMMA EndsInside ==
    ASSUME NEW S, NEW t \in Seq(S)
    PROVE  EndOf(t) \in 0 .. Len(t) /\ TrimEnd(t) = SubSeq(t, 1, EndOf(t))
  <1>1. TrimEnd(t) = SubSeq(t, 1, EndOf(t))
    BY DEF TrimEnd, EndOf, Solid
  <1>2. Solid(t) \in SUBSET (1 .. Len(t)) /\ Len(t) \in Nat
    BY DEF Solid
  <1>3. Solid(t) # {} => Max(Solid(t)) \in Solid(t)
    BY <1>2, MaxOf
  <1> QED  BY <1>1, <1>2, <1>3 DEF EndOf

Undoubled(t) == [i \in DOMAIN t |-> IF t[i] = Pair THEN "'" ELSE t[i]]

\* A text with its doubled quotes made one.
LEMMA UndoubledIs ==
    ASSUME NEW S, NEW t \in Seq(S), "'" \in S
    PROVE  /\ Undoubled(t) \in Seq(S) /\ Len(Undoubled(t)) = Len(t) /\ DOMAIN Undoubled(t) = 1 .. Len(t)
           /\ \A i \in 1 .. Len(t) : /\ Undoubled(t)[i] = IF t[i] = Pair THEN "'" ELSE t[i]
                                     /\ (Undoubled(t)[i] = Blank <=> t[i] = Blank)
                                     /\ (Undoubled(t)[i] = Amp <=> t[i] = Amp)
  <1>1. DOMAIN t = 1 .. Len(t) /\ Len(t) \in Nat /\ \A i \in 1 .. Len(t) : t[i] \in S
    OBVIOUS
  <1> DEFINE u == [i \in 1 .. Len(t) |-> IF t[i] = Pair THEN "'" ELSE t[i]]
  <1>2. Undoubled(t) = u
    BY <1>1 DEF Undoubled
  <1>3. \A i \in 1 .. Len(t) : u[i] = (IF t[i] = Pair THEN "'" ELSE t[i]) /\ u[i] \in S
    BY <1>1
  <1>4. u \in Seq(S) /\ Len(u) = Len(t) /\ DOMAIN u = 1 .. Len(t)
    BY <1>1, <1>3
  <1> HIDE DEF u
  <1>5. \A i \in 1 .. Len(t) : (u[i] = Blank <=> t[i] = Blank) /\ (u[i] = Amp <=> t[i] = Amp)
    BY <1>3 DEF Blank, Amp, Pair
  <1> QED  BY <1>2, <1>3, <1>4, <1>5

\* Both containers give a string one text: one undoubles the quotes and then takes the blanks off,
\* the other the reverse.
LEMMA OneText ==
    ASSUME NEW S, NEW t \in Seq(S), "'" \in S
    PROVE  /\ TrimEnd(Undoubled(t)) = Unquote(t) /\ Unquote(t) \in Seq(S)
           /\ Unquote(t) = Undoubled(TrimEnd(t)) /\ TrimEnd(t) \in Seq(S)
  <1>1. Unquote(t) = Undoubled(TrimEnd(t))
    BY DEF Unquote, Undoubled
  <1>2. EndOf(t) \in 0 .. Len(t) /\ TrimEnd(t) = SubSeq(t, 1, EndOf(t))
    BY EndsInside
  <1>3. TrimEnd(t) \in Seq(S)
    BY <1>2, Begun
  <1> DEFINE u == Undoubled(t)
  <1>4. u \in Seq(S) /\ Len(u) = Len(t) /\ DOMAIN u = 1 .. Len(t)
    BY UndoubledIs
  <1>5. Solid(u) = Solid(t)
    BY UndoubledIs DEF Solid
  <1>6. TrimEnd(u) = SubSeq(u, 1, EndOf(t))
    BY <1>4, <1>5, EndsInside DEF EndOf
  <1>7. /\ TrimEnd(u) \in Seq(S) /\ Len(TrimEnd(u)) = EndOf(t)
        /\ \A i \in 1 .. EndOf(t) : TrimEnd(u)[i] = u[i]
    BY <1>2, <1>4, <1>6, Begun
  <1> DEFINE v == Undoubled(TrimEnd(t))
  <1>8. /\ Len(TrimEnd(t)) = EndOf(t) /\ \A i \in 1 .. EndOf(t) : TrimEnd(t)[i] = t[i]
    BY <1>2, Begun
  <1>9. v \in Seq(S) /\ Len(v) = EndOf(t)
    BY <1>3, <1>8, UndoubledIs
  <1>10. ASSUME NEW i \in 1 .. EndOf(t)
         PROVE  v[i] = u[i]
    <2>1. i \in 1 .. Len(t) /\ i \in 1 .. Len(TrimEnd(t)) /\ TrimEnd(t)[i] = t[i]
      BY <1>2, <1>8
    <2>2. v[i] = IF TrimEnd(t)[i] = Pair THEN "'" ELSE TrimEnd(t)[i]
      BY <1>3, <2>1, UndoubledIs
    <2>3. u[i] = IF t[i] = Pair THEN "'" ELSE t[i]
      BY <2>1, UndoubledIs
    <2> QED  BY <2>1, <2>2, <2>3
  <1> HIDE DEF u, v
  <1>11. TrimEnd(u) = v
    BY <1>7, <1>9, <1>10
  <1> QED  BY <1>1, <1>3, <1>9, <1>11 DEF u, v

-----------------------------------------------------------------------------
(* The ampersands a text ends with.                                        *)

Others(t) == {i \in DOMAIN t : t[i] # Amp}

\* They are the last, and the one before them is none.
LEMMA AmpsAre ==
    ASSUME NEW S, NEW t \in Seq(S)
    PROVE  /\ TrailingAmps(t) \in 0 .. Len(t)
           /\ \A i \in Len(t) - TrailingAmps(t) + 1 .. Len(t) : t[i] = Amp
           /\ TrailingAmps(t) # Len(t) => t[Len(t) - TrailingAmps(t)] # Amp
  <1> DEFINE m == IF Others(t) = {} THEN 0 ELSE Max(Others(t))
  <1>1. Others(t) \in SUBSET (1 .. Len(t)) /\ Len(t) \in Nat /\ DOMAIN t = 1 .. Len(t)
    BY DEF Others
  <1>2. Others(t) # {} => Max(Others(t)) \in Others(t) /\ \A x \in Others(t) : x <= Max(Others(t))
    BY <1>1, MaxOf
  <1>3. m \in 0 .. Len(t) /\ (m # 0 => t[m] # Amp)
    BY <1>1, <1>2 DEF Others
  <1>4. \A x \in Others(t) : x <= m
    BY <1>2
  <1>5. ASSUME NEW i \in m + 1 .. Len(t)
        PROVE  t[i] = Amp
    <2>1. i \in DOMAIN t /\ ~ i <= m
      BY <1>1, <1>3
    <2> QED  BY <1>4, <2>1 DEF Others
  <1>6. TrailingAmps(t) = Len(t) - m
    BY DEF TrailingAmps, Others
  <1> HIDE DEF m
  <1>7. Len(t) - TrailingAmps(t) = m /\ TrailingAmps(t) \in 0 .. Len(t)
    BY <1>1, <1>3, <1>6
  <1>8. TrailingAmps(t) # Len(t) => m # 0
    BY <1>1, <1>6
  <1> QED  BY <1>3, <1>5, <1>7, <1>8

\* And there are as many as that.
LEMMA AmpsCount ==
    ASSUME NEW S, NEW t \in Seq(S), NEW n \in 0 .. Len(t),
           \A i \in Len(t) - n + 1 .. Len(t) : t[i] = Amp, n # Len(t) => t[Len(t) - n] # Amp
    PROVE  TrailingAmps(t) = n
  <1> DEFINE a == TrailingAmps(t)
  <1>1. /\ a \in 0 .. Len(t) /\ \A i \in Len(t) - a + 1 .. Len(t) : t[i] = Amp
        /\ a # Len(t) => t[Len(t) - a] # Amp
    BY AmpsAre
  <1> HIDE DEF a
  <1>2. Len(t) \in Nat
    OBVIOUS
  <1>3. ~ a < n
    <2> SUFFICES ASSUME a < n PROVE FALSE
      OBVIOUS
    <2>1. Len(t) - a \in Len(t) - n + 1 .. Len(t) /\ a # Len(t)
      BY <1>1, <1>2
    <2> QED  BY <1>1, <2>1
  <1>4. ~ n < a
    <2> SUFFICES ASSUME n < a PROVE FALSE
      OBVIOUS
    <2>1. Len(t) - n \in Len(t) - a + 1 .. Len(t) /\ n # Len(t)
      BY <1>1, <1>2
    <2> QED  BY <1>1, <2>1
  <1> QED  BY <1>1, <1>3, <1>4 DEF a

\* One sequence after another.
LEMMA Concatenated ==
    ASSUME NEW S, NEW one \in Seq(S), NEW two \in Seq(S)
    PROVE  /\ one \o two \in Seq(S) /\ Len(one \o two) = Len(one) + Len(two)
           /\ \A i \in 1 .. Len(one) : (one \o two)[i] = one[i]
           /\ \A i \in 1 .. Len(two) : (one \o two)[Len(one) + i] = two[i]
  OBVIOUS

\* A text joined to another, less its last symbol.
LEMMA JoinedIs ==
    ASSUME NEW S, NEW a \in Seq(S), a # <<>>, NEW t \in Seq(S)
    PROVE  /\ Front(a) \o t \in Seq(S) /\ Len(Front(a) \o t) = Len(a) - 1 + Len(t)
           /\ \A i \in 1 .. Len(a) - 1 : (Front(a) \o t)[i] = a[i]
           /\ \A i \in 1 .. Len(t) : (Front(a) \o t)[Len(a) - 1 + i] = t[i]
  <1>1. Len(a) \in Nat \ {0}
    OBVIOUS
  <1>2. /\ Front(a) \in Seq(S) /\ Len(Front(a)) = Len(a) - 1
        /\ \A i \in 1 .. Len(a) - 1 : Front(a)[i] = a[i]
    <2>1. Len(a) - 1 \in 0 .. Len(a) /\ Front(a) = SubSeq(a, 1, Len(a) - 1)
      BY <1>1 DEF Front
    <2>2. \A k \in 0 .. Len(a) :
             /\ SubSeq(a, 1, k) \in Seq(S) /\ Len(SubSeq(a, 1, k)) = k
             /\ \A i \in 1 .. k : SubSeq(a, 1, k)[i] = a[i]
      BY Begun
    <2> QED  BY ONLY <2>1, <2>2
  <1> DEFINE f == Front(a)
  <1>3. f \in Seq(S) /\ Len(f) = Len(a) - 1 /\ \A i \in 1 .. Len(a) - 1 : f[i] = a[i]
    BY <1>2
  <1> HIDE DEF f
  <1>4. /\ f \o t \in Seq(S) /\ Len(f \o t) = Len(f) + Len(t)
        /\ \A i \in 1 .. Len(f) : (f \o t)[i] = f[i]
        /\ \A i \in 1 .. Len(t) : (f \o t)[Len(f) + i] = t[i]
    <2>1. f \in Seq(S) /\ t \in Seq(S)
      BY <1>3
    <2> QED  BY ONLY <2>1, Concatenated
  <1>5. f \o t \in Seq(S) /\ Len(f \o t) = Len(a) - 1 + Len(t)
    BY <1>3, <1>4
  <1>6. \A i \in 1 .. Len(a) - 1 : (f \o t)[i] = a[i]
    BY <1>3, <1>4
  <1>7. \A i \in 1 .. Len(t) : (f \o t)[Len(a) - 1 + i] = t[i]
    BY <1>3, <1>4
  <1> QED  BY <1>5, <1>6, <1>7 DEF f

\* Measured without building it: where the text joined is nothing but ampersands, the run goes on
\* into what it is joined to.
LEMMA AmpsJoin ==
    ASSUME NEW S, NEW a \in Seq(S), TrailingAmps(a) > 0, NEW t \in Seq(S)
    PROVE  /\ a # <<>>
           /\ TrailingAmps(Front(a) \o t)
                = IF Len(t) = TrailingAmps(t) THEN TrailingAmps(a) - 1 + Len(t) ELSE TrailingAmps(t)
  <1> DEFINE j == Front(a) \o t
             n == TrailingAmps(a)
             k == TrailingAmps(t)
  <1>1. /\ n \in 0 .. Len(a) /\ Len(a) \in Nat /\ \A i \in Len(a) - n + 1 .. Len(a) : a[i] = Amp
        /\ n # Len(a) => a[Len(a) - n] # Amp
    BY AmpsAre
  <1>2. /\ k \in 0 .. Len(t) /\ Len(t) \in Nat /\ \A i \in Len(t) - k + 1 .. Len(t) : t[i] = Amp
        /\ k # Len(t) => t[Len(t) - k] # Amp
    BY AmpsAre
  <1>3. a # <<>>
    BY <1>1
  <1>4. /\ j \in Seq(S) /\ Len(j) = Len(a) - 1 + Len(t)
        /\ \A i \in 1 .. Len(a) - 1 : j[i] = a[i]
        /\ \A i \in 1 .. Len(t) : j[Len(a) - 1 + i] = t[i]
    BY <1>3, JoinedIs
  <1>5. n > 0
    OBVIOUS
  <1> HIDE DEF j, n, k
  <1>6. \A i \in Len(a) .. Len(j) : j[i] = t[i - (Len(a) - 1)]
    <2> SUFFICES ASSUME NEW i \in Len(a) .. Len(j) PROVE j[i] = t[i - (Len(a) - 1)]
      OBVIOUS
    <2>1. i - (Len(a) - 1) \in 1 .. Len(t) /\ i = Len(a) - 1 + (i - (Len(a) - 1))
      BY <1>1, <1>2, <1>4
    <2> QED  BY <1>4, <2>1
  <1>7. CASE k = Len(t)
    <2> DEFINE m == n - 1 + k
    <2>1. m \in 0 .. Len(j) /\ (m # Len(j) => Len(j) - m \in 1 .. Len(a) - 1 /\ n # Len(a))
      <3>1. n \in Nat /\ Len(a) \in Nat /\ Len(t) \in Nat /\ n <= Len(a) /\ n > 0
        BY <1>1, <1>2, <1>5
      <3>2. Len(j) = Len(a) - 1 + k /\ m = n - 1 + k /\ k = Len(t)
        BY <1>4, <1>7
      <3> HIDE DEF m
      <3>3. k \in Nat /\ Len(j) - m = Len(a) - n
        BY ONLY <3>1, <3>2
      <3>4. m \in 0 .. Len(j)
        BY ONLY <3>1, <3>2, <3>3
      <3>5. ASSUME m # Len(j)
            PROVE  Len(j) - m \in 1 .. Len(a) - 1 /\ n # Len(a)
        <4>1. n # Len(a)
          BY ONLY <3>1, <3>2, <3>5
        <4>2. Len(a) - n \in 1 .. Len(a) - 1
          BY ONLY <3>1, <4>1
        <4> QED  BY ONLY <3>3, <4>1, <4>2
      <3> QED  BY <3>4, <3>5
    <2>2. m # Len(j) => j[Len(j) - m] # Amp
      <3> SUFFICES ASSUME m # Len(j) PROVE j[Len(j) - m] # Amp
        OBVIOUS
      <3>1. Len(j) - m = Len(a) - n
        BY <1>1, <1>2, <1>4, <1>7
      <3> QED  BY <1>1, <1>4, <2>1, <3>1
    <2>3. ASSUME NEW i \in Len(j) - m + 1 .. Len(j)
          PROVE  j[i] = Amp
      <3>1. CASE i <= Len(a) - 1
        <4>1. i \in 1 .. Len(a) - 1 /\ i \in Len(a) - n + 1 .. Len(a)
          BY <1>1, <1>2, <1>4, <1>5, <1>7, <3>1
        <4> QED  BY <1>1, <1>4, <4>1
      <3>2. CASE i > Len(a) - 1
        <4>1. i \in Len(a) .. Len(j) /\ i - (Len(a) - 1) \in Len(t) - k + 1 .. Len(t)
          BY <1>1, <1>2, <1>4, <1>5, <1>7, <3>2
        <4> QED  BY <1>2, <1>6, <4>1
      <3>3. i \in Int
        BY <1>1, <1>2, <1>4
      <3> QED  BY <1>1, <3>1, <3>2, <3>3
    <2> HIDE DEF m
    <2>4. TrailingAmps(j) = m
      BY <1>4, <2>1, <2>2, <2>3, AmpsCount
    <2> QED  BY <1>3, <1>7, <2>4 DEF j, n, k, m
  <1>8. CASE k # Len(t)
    <2>1. k \in 0 .. Len(j) /\ Len(j) - k \in Len(a) .. Len(j) /\ k # Len(j)
      BY <1>1, <1>2, <1>4, <1>5, <1>8
    <2>2. j[Len(j) - k] # Amp
      <3>1. Len(j) - k - (Len(a) - 1) = Len(t) - k
        BY <1>1, <1>2, <1>4
      <3> QED  BY <1>2, <1>6, <1>8, <2>1, <3>1
    <2>3. ASSUME NEW i \in Len(j) - k + 1 .. Len(j)
          PROVE  j[i] = Amp
      <3>1. i \in Len(a) .. Len(j) /\ i - (Len(a) - 1) \in Len(t) - k + 1 .. Len(t)
        BY <1>1, <1>2, <1>4, <1>5, <1>8
      <3> QED  BY <1>2, <1>6, <3>1
    <2>4. TrailingAmps(j) = k
      BY <1>4, <2>1, <2>2, <2>3, AmpsCount
    <2> QED  BY <1>3, <1>8, <2>4 DEF j, n, k
  <1> QED  BY <1>7, <1>8

\* What unquoting would give is measured right on the text as it is spelled.
LEMMA ShapeIs ==
    ASSUME NEW S, NEW t \in Seq(S), "'" \in S
    PROVE  UnquotedShape(t) = [len |-> Len(Unquote(t)), amps |-> TrailingAmps(Unquote(t))]
  <1> DEFINE text  == TrimEnd(t)
             pairs == Cardinality({i \in DOMAIN text : text[i] = Pair})
             u     == Unquote(t)
  <1>1. text \in Seq(S) /\ u = Undoubled(text)
    BY OneText
  <1> HIDE DEF text, u
  <1>2. /\ u \in Seq(S) /\ Len(u) = Len(text) /\ Len(text) \in Nat
        /\ \A i \in 1 .. Len(text) : u[i] = Amp <=> text[i] = Amp
    BY <1>1, UndoubledIs
  <1>3. pairs \in Nat
    <2>1. {i \in DOMAIN text : text[i] = Pair} \in SUBSET (1 .. Len(text)) /\ Len(text) \in Int
      BY <1>1
    <2>2. IsFiniteSet(1 .. Len(text))
      BY <2>1, FS_Interval
    <2>3. IsFiniteSet({i \in DOMAIN text : text[i] = Pair})
      BY <2>1, <2>2, FS_Subset
    <2> QED  BY <2>3, FS_CardinalityType
  <1>4. (Len(text) + pairs) - pairs = Len(u)
    BY <1>2, <1>3
  <1>5. TrailingAmps(text) = TrailingAmps(u)
    <2> DEFINE n == TrailingAmps(text)
    <2>1. /\ n \in 0 .. Len(text) /\ \A i \in Len(text) - n + 1 .. Len(text) : text[i] = Amp
          /\ n # Len(text) => text[Len(text) - n] # Amp
      BY <1>1, AmpsAre
    <2> HIDE DEF n
    <2>2. n \in 0 .. Len(u)
      BY <1>2, <2>1
    <2>3. \A i \in Len(u) - n + 1 .. Len(u) : u[i] = Amp
      BY <1>2, <2>1
    <2>4. n # Len(u) => u[Len(u) - n] # Amp
      BY <1>2, <2>1
    <2>5. TrailingAmps(u) = n
      BY <1>2, <2>2, <2>3, <2>4, AmpsCount
    <2> QED  BY <2>5 DEF n
  <1>6. UnquotedShape(t) = [len |-> (Len(text) + pairs) - pairs, amps |-> TrailingAmps(text)]
    BY DEF UnquotedShape, text
  <1> HIDE DEF pairs
  <1> QED  BY <1>4, <1>5, <1>6 DEF u

-----------------------------------------------------------------------------
(* What a record is read as in either container.                           *)

\* The text of a record, and what both readings of it are.
LEMMA TextIs ==
    ASSUME NEW r \in LogicalRecords
    PROVE  /\ Text(r) \in Texts /\ Text(r) # None /\ Text(r) = Unquote(r.content)
           /\ Text(r) = TrimEnd(Undoubled(r.content))
           /\ UnquotedShape(r.content) = [len |-> Len(Text(r)), amps |-> TrailingAmps(Text(r))]
  <1>1. r.content \in Seq(Symbols) /\ "'" \in Symbols
    <2>1. r.content \in Seq(ToSet(r.content))
      BY RecordsAssumption
    <2>2. ToSet(r.content) \subseteq Symbols
      <3>1. ASSUME NEW x \in ToSet(r.content)
            PROVE  x \in UNION {ToSet(y.content) : y \in LogicalRecords}
        OBVIOUS
      <3> QED  BY <3>1 DEF Symbols
    <2>3. "'" \in Symbols
      BY DEF Symbols
    <2> HIDE DEF Symbols
    <2> QED  BY <2>1, <2>2, <2>3
  <1>2. Text(r) = TrimEnd(Undoubled(r.content))
    BY DEF Text, Undoubled
  <1>3. Text(r) = Unquote(r.content) /\ Unquote(r.content) \in Seq(Symbols)
    BY <1>1, <1>2, OneText
  <1>4. Text(r) \in Texts /\ Text(r) # None
    BY <1>3, NoTextAssumption DEF Texts
  <1>5. UnquotedShape(r.content)
          = [len |-> Len(Unquote(r.content)), amps |-> TrailingAmps(Unquote(r.content))]
    BY <1>1, ShapeIs
  <1> QED  BY <1>2, <1>3, <1>4, <1>5

\* A text left open is not empty, and what is joined to it is a text.
LEMMA JoinedText ==
    ASSUME NEW a \in Texts, EndsOpen(a), NEW t \in Texts
    PROVE  /\ a # <<>> /\ Front(a) \o t \in Texts /\ Front(a) \o t # None
           /\ Len(Front(a) \o t) = Len(a) - 1 + Len(t)
           /\ TrailingAmps(Front(a) \o t)
                = IF Len(t) = TrailingAmps(t) THEN TrailingAmps(a) - 1 + Len(t) ELSE TrailingAmps(t)
  <1>1. TrailingAmps(a) > 0 /\ a \in Seq(Symbols) /\ t \in Seq(Symbols)
    BY DEF EndsOpen, Texts
  <1>2. /\ a # <<>>
        /\ TrailingAmps(Front(a) \o t)
             = IF Len(t) = TrailingAmps(t) THEN TrailingAmps(a) - 1 + Len(t) ELSE TrailingAmps(t)
    BY <1>1, AmpsJoin
  <1>3. Front(a) \o t \in Seq(Symbols) /\ Len(Front(a) \o t) = Len(a) - 1 + Len(t)
    BY <1>1, <1>2, JoinedIs
  <1> QED  BY <1>2, <1>3, NoTextAssumption DEF Texts

\* A text's length and its run of ampersands are numbers.
LEMMA TextCounts ==
    ASSUME NEW a \in Texts
    PROVE  Len(a) \in Nat /\ TrailingAmps(a) \in Nat
  <1>1. a \in Seq(Symbols)
    BY DEF Texts
  <1>2. TrailingAmps(a) \in 0 .. Len(a) /\ Len(a) \in Nat
    BY <1>1, AmpsAre
  <1> QED  BY <1>2

-----------------------------------------------------------------------------
(* The text assembled so far.                                              *)

JoinStep(c, text, r) == Joined(text, r)
JoinClaim(c, k, text) == text \in Option(Texts)
Joins == INSTANCE Folding WITH Step <- JoinStep, Claim <- JoinClaim


\* Nothing is assembled of no records, and each record joins its text to that of the ones before.
LEMMA AssembledNext ==
    ASSUME NEW recs \in Seq(LogicalRecords)
    PROVE  /\ Assembled(recs, 0) = None
           /\ \A i \in 1 .. Len(recs) :
                 Assembled(recs, i) = Joined(Assembled(recs, i - 1), recs[i])
  <1>1. \A i \in 0 .. Len(recs) : Assembled(recs, i) = Joins!Fold(0, None, Joins!Prefix(recs, i))
    <2> SUFFICES ASSUME NEW i \in 0 .. Len(recs)
                 PROVE  Assembled(recs, i) = Joins!Fold(0, None, Joins!Prefix(recs, i))
      OBVIOUS
    <2>1. SubSeq(recs, 1, i) = Joins!Prefix(recs, i)
      BY DEF Joins!Prefix
    <2>2. FoldLeft(Joined, None, SubSeq(recs, 1, i)) = Joins!Fold(0, None, SubSeq(recs, 1, i))
      BY Zenon DEF JoinStep, FoldLeft, MapThenFoldSet, Max, Joins!Fold, Joins!Iterates, Joins!Largest
    <2> QED  BY <2>1, <2>2 DEF Assembled
  <1>2. Assembled(recs, 0) = None
    BY <1>1, Joins!FoldOfNoneFirst
  <1>3. ASSUME NEW i \in 1 .. Len(recs)
        PROVE  Assembled(recs, i) = Joined(Assembled(recs, i - 1), recs[i])
    <2>1. i \in Nat \ {0} /\ i \in 0 .. Len(recs) /\ i - 1 \in 0 .. Len(recs)
      OBVIOUS
    <2>2. Joins!Fold(0, None, Joins!Prefix(recs, i))
            = JoinStep(0, Joins!Fold(0, None, Joins!Prefix(recs, i - 1)), recs[i])
      BY <2>1, Joins!FoldOfFirst
    <2> QED  BY <1>1, <2>1, <2>2 DEF JoinStep
  <1> QED  BY <1>2, <1>3

\* It is a text or none.
LEMMA JoinedIsText ==
    ASSUME NEW a \in Option(Texts), NEW r \in LogicalRecords
    PROVE  /\ Joined(a, r) \in Option(Texts)
           /\ Joined(a, r) # None => r.form = "quoted"
           /\ r.word = "CONTINUE" /\ Joined(a, r) # None
                 => a # None /\ EndsOpen(a) /\ Joined(a, r) = Front(a) \o Text(r)
           /\ r.word = "CONTINUE" /\ r.form = "quoted" /\ a # None /\ EndsOpen(a)
                 => Joined(a, r) # None /\ Joined(a, r) = Front(a) \o Text(r)
           /\ r.word # "CONTINUE" /\ r.form = "quoted" => Joined(a, r) = Text(r)
  <1>1. Text(r) \in Texts
    BY TextIs
  <1>2. a # None => a \in Texts
    BY DEF Option
  <1>3. a # None /\ EndsOpen(a) => Front(a) \o Text(r) \in Texts /\ Front(a) \o Text(r) # None
    BY <1>1, <1>2, JoinedText
  <1> QED  BY <1>1, <1>3 DEF Joined, Option

LEMMA AssembledText ==
    ASSUME NEW recs \in Seq(LogicalRecords), NEW i \in 0 .. Len(recs)
    PROVE  Assembled(recs, i) \in Option(Texts)
  <1>1. ASSUME NEW k \in Nat, k < Len(recs), Assembled(recs, k) \in Option(Texts)
        PROVE  Assembled(recs, k + 1) \in Option(Texts)
    <2>1. k + 1 \in 1 .. Len(recs) /\ (k + 1) - 1 = k /\ recs[k + 1] \in LogicalRecords
      BY <1>1
    <2> QED  BY <1>1, <2>1, AssembledNext, JoinedIsText
  <1>2. Assembled(recs, 0) \in Option(Texts)
    BY AssembledNext DEF Option
  <1> DEFINE Wrong == {k \in 0 .. Len(recs) : Assembled(recs, k) \notin Option(Texts)}
  <1>3. Wrong = {}
    <2> SUFFICES ASSUME Wrong # {} PROVE FALSE
      OBVIOUS
    <2>1. Wrong \in SUBSET Nat
      OBVIOUS
    <2>2. PICK m \in Wrong : \A k \in Wrong : m <= k
      BY <2>1, Joins!LeastOf
    <2>3. m # 0
      BY <1>2
    <2>4. m - 1 \in Nat /\ m - 1 < Len(recs) /\ (m - 1) + 1 = m /\ m - 1 \in 0 .. Len(recs)
      BY <2>3
    <2>5. Assembled(recs, m - 1) \in Option(Texts)
      <3>1. ~ m <= m - 1
        BY <2>1
      <3> QED  BY <2>2, <2>4, <3>1
    <2> QED  BY <1>1, <2>4, <2>5
  <1> QED  BY <1>3

\* The records, and one more.
Follows(more, recs, r) == more = Append(recs, r)

\* A record more leaves what was assembled before it.
LEMMA AssembledStays ==
    ASSUME NEW recs \in Seq(LogicalRecords), NEW r \in LogicalRecords, NEW more,
           Follows(more, recs, r)
    PROVE  /\ more \in Seq(LogicalRecords) /\ Len(more) = Len(recs) + 1 /\ Len(recs) \in Nat
           /\ Assembled(recs, Len(recs)) \in Option(Texts)
           /\ more[Len(recs) + 1] = r /\ \A i \in 1 .. Len(recs) : more[i] = recs[i]
           /\ \A i \in 0 .. Len(recs) : Assembled(more, i) = Assembled(recs, i)
           /\ \A i \in 1 .. Len(recs) : Folded(more, i) = Folded(recs, i)
           /\ Assembled(more, Len(more)) = Joined(Assembled(recs, Len(recs)), r)
  <1>1. /\ more \in Seq(LogicalRecords) /\ Len(more) = Len(recs) + 1 /\ Len(recs) \in Nat
        /\ more[Len(recs) + 1] = r /\ \A i \in 1 .. Len(recs) : more[i] = recs[i]
    BY DEF Follows
  <1>2. \A i \in 0 .. Len(recs) : Assembled(more, i) = Assembled(recs, i)
    <2> SUFFICES ASSUME NEW i \in 0 .. Len(recs) PROVE Assembled(more, i) = Assembled(recs, i)
      OBVIOUS
    <2>1. SubSeq(more, 1, i) = SubSeq(recs, 1, i)
      BY DEF Follows
    <2> QED  BY <2>1, Zenon DEF Assembled
  <1>3. \A i \in 1 .. Len(recs) : Folded(more, i) = Folded(recs, i)
    <2> SUFFICES ASSUME NEW i \in 1 .. Len(recs) PROVE Folded(more, i) = Folded(recs, i)
      OBVIOUS
    <2>1. i \in 0 .. Len(recs)
      BY <1>1
    <2> QED  BY <1>1, <1>2, <2>1 DEF Folded
  <1>4. Assembled(more, Len(more)) = Joined(Assembled(recs, Len(recs)), r)
    <2>1. Len(more) \in 1 .. Len(more) /\ Len(more) - 1 = Len(recs) /\ Len(recs) \in 0 .. Len(recs)
      BY <1>1
    <2> QED  BY <1>1, <1>2, <2>1, AssembledNext
  <1>5. Assembled(recs, Len(recs)) \in Option(Texts)
    <2>1. Len(recs) \in 0 .. Len(recs)
      BY <1>1
    <2> QED  BY <2>1, AssembledText
  <1> QED  BY <1>1, <1>2, <1>3, <1>4, <1>5

-----------------------------------------------------------------------------
(* The keywords of the standard.                                           *)

HeadStep(recs, heads, i) == IF Folded(recs, i) THEN heads ELSE Append(heads, i)
HeadClaim(recs, k, heads) ==
    /\ heads \in Seq(1 .. k)
    /\ \A j \in DOMAIN heads : ~ Folded(recs, heads[j])
    /\ \A j \in DOMAIN heads : j < Len(heads) => heads[j] < heads[Len(heads)]
    /\ k > 0 => heads # <<>> /\ \A i \in heads[Len(heads)] + 1 .. k : Folded(recs, i)
Headings == INSTANCE Folding WITH Step <- HeadStep, Claim <- HeadClaim

Numbered(n) == [i \in 1 .. n |-> i]

LEMMA HeadsAre ==
    ASSUME NEW recs \in Seq(LogicalRecords)
    PROVE  Heads(recs) = Headings!Fold(recs, <<>>, Numbered(Len(recs)))
  <1>1. DOMAIN recs = 1 .. Len(recs)
    OBVIOUS
  <1>2. Heads(recs) = Headings!Fold(recs, <<>>, [i \in DOMAIN recs |-> i])
    BY Zenon DEF Heads, HeadStep, FoldLeft, MapThenFoldSet, Max, Headings!Fold, Headings!Iterates,
       Headings!Largest
  <1> QED  BY <1>1, <1>2 DEF Numbered

\* The first record is a head.
LEMMA FirstIsHead ==
    ASSUME NEW recs \in Seq(LogicalRecords), Len(recs) > 0
    PROVE  ~ Folded(recs, 1)
  <1>1. 1 \in 1 .. Len(recs) /\ recs[1] \in LogicalRecords /\ 1 - 1 = 0
    OBVIOUS
  <1>2. Assembled(recs, 1) = Joined(None, recs[1])
    BY <1>1, AssembledNext
  <1> QED  BY <1>1, <1>2 DEF Folded, Joined

\* A number appended to numbers below it.
LEMMA NumberAppended ==
    ASSUME NEW k \in Nat, NEW h \in Seq(1 .. k)
    PROVE  /\ Append(h, k + 1) \in Seq(1 .. k + 1) /\ Len(Append(h, k + 1)) = Len(h) + 1
           /\ h \in Seq(1 .. k + 1) /\ Len(h) \in Nat /\ DOMAIN h = 1 .. Len(h)
           /\ DOMAIN Append(h, k + 1) = 1 .. Len(h) + 1
           /\ Append(h, k + 1)[Len(h) + 1] = k + 1
           /\ \A j \in 1 .. Len(h) : Append(h, k + 1)[j] = h[j] /\ h[j] \in 1 .. k
  OBVIOUS

\* Every record is a head or folded into the head before it.
LEMMA HeadsKeep ==
    ASSUME NEW recs \in Seq(LogicalRecords)
    PROVE  HeadClaim(recs, Len(recs), Heads(recs))
  <1>1. DOMAIN Numbered(Len(recs)) = 1 .. Len(recs) /\ Len(recs) \in Nat
    BY DEF Numbered
  <1>2. HeadClaim(recs, 0, <<>>)
    BY DEF HeadClaim
  <1>3. ASSUME NEW i \in 1 .. Len(recs), NEW h, HeadClaim(recs, i - 1, h)
        PROVE  HeadClaim(recs, i, HeadStep(recs, h, i))
    <2> DEFINE k == i - 1
    <2>1. k \in Nat /\ i = k + 1
      OBVIOUS
    <2>2. h \in Seq(1 .. k)
      BY <1>3 DEF HeadClaim
    <2> HIDE DEF k
    <2>3. /\ Append(h, i) \in Seq(1 .. i) /\ Len(Append(h, i)) = Len(h) + 1
          /\ h \in Seq(1 .. i) /\ Len(h) \in Nat /\ DOMAIN h = 1 .. Len(h)
          /\ DOMAIN Append(h, i) = 1 .. Len(h) + 1 /\ Append(h, i)[Len(h) + 1] = i
          /\ \A j \in 1 .. Len(h) : Append(h, i)[j] = h[j] /\ h[j] \in 1 .. k
      BY <2>1, <2>2, NumberAppended
    <2>4. CASE Folded(recs, i)
      <3>1. k > 0
        <4>1. i # 1
          BY <1>1, <2>4, FirstIsHead
        <4> QED  BY <2>1, <4>1
      <3>2. h # <<>> /\ \A x \in h[Len(h)] + 1 .. k : Folded(recs, x)
        BY <1>3, <2>1, <3>1 DEF HeadClaim
      <3>3. ASSUME NEW x \in h[Len(h)] + 1 .. i
            PROVE  Folded(recs, x)
        <4>1. h[Len(h)] \in 1 .. k
          BY <2>3, <3>2
        <4>2. x = i \/ x \in h[Len(h)] + 1 .. k
          BY <2>1, <4>1
        <4> QED  BY <2>4, <3>2, <4>2
      <3>4. HeadStep(recs, h, i) = h
        BY <2>4 DEF HeadStep
      <3> QED  BY <1>3, <2>3, <3>2, <3>3, <3>4 DEF HeadClaim
    <2>5. CASE ~ Folded(recs, i)
      <3> DEFINE g == Append(h, i)
      <3>1. g \in Seq(1 .. i) /\ Len(g) = Len(h) + 1 /\ DOMAIN g = 1 .. Len(h) + 1
            /\ g[Len(g)] = i /\ \A j \in 1 .. Len(h) : g[j] = h[j] /\ g[j] \in 1 .. k
        BY <2>3
      <3>2. HeadStep(recs, h, i) = g
        BY <2>5 DEF HeadStep
      <3> HIDE DEF g
      <3>3. \A j \in DOMAIN g : ~ Folded(recs, g[j])
        <4> SUFFICES ASSUME NEW j \in DOMAIN g PROVE ~ Folded(recs, g[j])
          OBVIOUS
        <4>1. j = Len(g) \/ j \in 1 .. Len(h)
          BY <2>3, <3>1
        <4>2. \A x \in DOMAIN h : ~ Folded(recs, h[x])
          BY <1>3 DEF HeadClaim
        <4> QED  BY <2>3, <2>5, <3>1, <4>1, <4>2
      <3>4. ASSUME NEW j \in DOMAIN g, j < Len(g)
            PROVE  g[j] < g[Len(g)]
        <4>1. j \in 1 .. Len(h)
          BY <2>3, <3>1, <3>4
        <4> QED  BY <2>1, <3>1, <4>1
      <3>5. g # <<>> /\ \A x \in g[Len(g)] + 1 .. i : Folded(recs, x)
        BY <2>3, <3>1
      <3> QED  BY <3>1, <3>2, <3>3, <3>4, <3>5 DEF HeadClaim
    <2> QED  BY <2>4, <2>5
  <1>4. \A i \in 1 .. Len(recs) : Numbered(Len(recs))[i] = i
    BY DEF Numbered
  <1>5. HeadClaim(recs, Len(recs), Headings!Fold(recs, <<>>, Numbered(Len(recs))))
    BY <1>1, <1>2, <1>3, <1>4, Headings!FoldKeeps
  <1> QED  BY <1>5, HeadsAre

\* The last record of a head: from it on every record is folded, up to the next head.
LEMMA LastIs ==
    ASSUME NEW recs \in Seq(LogicalRecords), NEW i \in 1 .. Len(recs), NEW l \in i .. Len(recs),
           \A k \in i + 1 .. l : Folded(recs, k), l = Len(recs) \/ ~ Folded(recs, l + 1)
    PROVE  LastOf(recs, i) = l
  <1> DEFINE S == {j \in i .. Len(recs) : \A k \in i + 1 .. j : Folded(recs, k)}
  <1>1. l \in S
    OBVIOUS
  <1>2. S \in SUBSET (1 .. Len(recs)) /\ Len(recs) \in Nat
    OBVIOUS
  <1>3. \A x \in S : x <= l
    <2> SUFFICES ASSUME NEW x \in S, ~ x <= l PROVE FALSE
      OBVIOUS
    <2>1. l # Len(recs) /\ l + 1 \in i + 1 .. x
      OBVIOUS
    <2> QED  BY <2>1
  <1>4. Max(S) \in S /\ \A x \in S : x <= Max(S)
    BY <1>1, <1>2, MaxOf
  <1> DEFINE m == Max(S)
  <1>5. m <= l /\ l <= m /\ m \in Int /\ l \in Int
    BY <1>1, <1>2, <1>3, <1>4
  <1> HIDE DEF m
  <1>6. m = l
    BY ONLY <1>5
  <1> QED  BY <1>6 DEF LastOf, m

\* There is one.
LEMMA LastExists ==
    ASSUME NEW recs \in Seq(LogicalRecords), NEW i \in 1 .. Len(recs)
    PROVE  LET l == LastOf(recs, i) IN
           /\ l \in i .. Len(recs) /\ \A k \in i + 1 .. l : Folded(recs, k)
           /\ l = Len(recs) \/ ~ Folded(recs, l + 1)
  <1> DEFINE S == {j \in i .. Len(recs) : \A k \in i + 1 .. j : Folded(recs, k)}
             l == Max(S)
  <1>1. i \in S
    OBVIOUS
  <1>2. S \in SUBSET (1 .. Len(recs)) /\ Len(recs) \in Nat
    OBVIOUS
  <1>3. l \in S /\ \A x \in S : x <= l
    BY <1>1, <1>2, MaxOf
  <1>4. l \in i .. Len(recs) /\ \A k \in i + 1 .. l : Folded(recs, k)
    BY <1>3
  <1>5. l + 1 \notin S
    BY <1>2, <1>3
  <1> HIDE DEF l
  <1>6. ASSUME l # Len(recs)
        PROVE  ~ Folded(recs, l + 1)
    <2> SUFFICES ASSUME Folded(recs, l + 1) PROVE FALSE
      OBVIOUS
    <2>1. l + 1 \in i .. Len(recs)
      BY <1>2, <1>4, <1>6
    <2>2. \A k \in i + 1 .. l + 1 : k = l + 1 \/ k \in i + 1 .. l
      BY <1>4
    <2>3. \A k \in i + 1 .. l + 1 : Folded(recs, k)
      BY <1>4, <2>2
    <2> QED  BY <1>5, <2>1, <2>3
  <1>7. LastOf(recs, i) = l
    BY DEF LastOf, l
  <1> QED  BY <1>4, <1>6, <1>7

-----------------------------------------------------------------------------
(* The standard, one record further.                                       *)

\* A record more is a head more, or none.
LEMMA HeadsNext ==
    ASSUME NEW recs \in Seq(LogicalRecords), NEW r \in LogicalRecords, NEW more,
           Follows(more, recs, r)
    PROVE  Heads(more) = HeadStep(more, Heads(recs), Len(more))
  <1> DEFINE n == Len(recs)
  <1>1. /\ more \in Seq(LogicalRecords) /\ Len(more) = n + 1 /\ n \in Nat
        /\ \A i \in 1 .. n : Folded(more, i) = Folded(recs, i)
    BY AssembledStays
  <1> HIDE DEF n
  <1>2. /\ Headings!Prefix(Numbered(n + 1), n) = Numbered(n)
        /\ DOMAIN Numbered(n + 1) = 1 .. n + 1 /\ DOMAIN Numbered(n) = 1 .. n
        /\ Numbered(n + 1)[n + 1] = n + 1 /\ \A i \in 1 .. n : Numbered(n)[i] = i
    BY <1>1 DEF Numbered, Headings!Prefix
  <1>3. Headings!Fold(more, <<>>, Numbered(n + 1))
          = HeadStep(more, Headings!Fold(more, <<>>, Numbered(n)), n + 1)
    BY <1>1, <1>2, Headings!FoldOfOneMore
  <1>4. \A i \in 1 .. n : \A s : HeadStep(more, s, Numbered(n)[i]) = HeadStep(recs, s, Numbered(n)[i])
    BY <1>1, <1>2 DEF HeadStep
  <1>5. Headings!Fold(more, <<>>, Numbered(n)) = Headings!Fold(recs, <<>>, Numbered(n))
    BY <1>1, <1>2, <1>4, Headings!FoldsAlike
  <1>6. Heads(more) = Headings!Fold(more, <<>>, Numbered(n + 1))
    BY <1>1, HeadsAre
  <1>7. Heads(recs) = Headings!Fold(recs, <<>>, Numbered(n))
    BY HeadsAre DEF n
  <1> QED  BY <1>1, <1>3, <1>5, <1>6, <1>7

\* What a keyword already says stays, unless its chain goes on.
LEMMA HeadingStays ==
    ASSUME NEW recs \in Seq(LogicalRecords), NEW r \in LogicalRecords, NEW more,
           Follows(more, recs, r), NEW i \in 1 .. Len(recs),
           LastOf(recs, i) # Len(recs) \/ ~ Folded(more, Len(more))
    PROVE  Heading(more, i) = Heading(recs, i)
  <1> DEFINE l == LastOf(recs, i)
             n == Len(recs)
  <1>1. /\ more \in Seq(LogicalRecords) /\ Len(more) = n + 1 /\ n \in Nat
        /\ \A k \in 1 .. n : Folded(more, k) = Folded(recs, k)
        /\ \A k \in 1 .. n : more[k] = recs[k]
        /\ \A k \in 0 .. n : Assembled(more, k) = Assembled(recs, k)
    BY AssembledStays
  <1>2. /\ l \in i .. n /\ \A k \in i + 1 .. l : Folded(recs, k)
        /\ l = n \/ ~ Folded(recs, l + 1)
    BY LastExists
  <1>3. l # n \/ ~ Folded(more, n + 1)
    BY <1>1
  <1> HIDE DEF l, n
  <1>4. i \in 1 .. n
    BY DEF n
  <1>5. \A k \in i + 1 .. l : Folded(more, k)
    <2> SUFFICES ASSUME NEW k \in i + 1 .. l PROVE Folded(more, k)
      OBVIOUS
    <2>1. k \in 1 .. n
      BY <1>1, <1>2, <1>4
    <2> QED  BY <1>1, <1>2, <2>1
  <1>6. ~ Folded(more, l + 1)
    <2>1. CASE l = n
      BY <1>3, <2>1
    <2>2. CASE l # n
      <3>1. l + 1 \in 1 .. n
        BY <1>1, <1>2, <1>4, <2>2
      <3> QED  BY <1>1, <1>2, <2>2, <3>1
    <2> QED  BY <2>1, <2>2
  <1>7. i \in 1 .. Len(more) /\ l \in i .. Len(more) /\ l \in 0 .. n
    BY <1>1, <1>2, <1>4
  <1>8. LastOf(more, i) = l
    BY <1>1, <1>5, <1>6, <1>7, LastIs
  <1>9. Assembled(more, l) = Assembled(recs, l) /\ more[i] = recs[i]
    BY <1>1, <1>4, <1>7
  <1> QED  BY <1>8, <1>9, Zenon DEF Heading, l

\* The standard's keywords, numbered.
LEMMA StandardIs ==
    ASSUME NEW recs \in Seq(LogicalRecords)
    PROVE  /\ Len(Heads(recs)) \in Nat /\ Len(recs) \in Nat
           /\ DOMAIN Standard(recs) = 1 .. Len(Heads(recs))
           /\ \A k \in 1 .. Len(Heads(recs)) : /\ Heads(recs)[k] \in 1 .. Len(recs)
                                               /\ Standard(recs)[k] = Heading(recs, Heads(recs)[k])
  <1> DEFINE h == Heads(recs)
  <1>1. h \in Seq(1 .. Len(recs))
    BY HeadsKeep DEF HeadClaim
  <1> HIDE DEF h
  <1>2. DOMAIN h = 1 .. Len(h) /\ Len(h) \in Nat /\ \A k \in 1 .. Len(h) : h[k] \in 1 .. Len(recs)
    BY <1>1
  <1>3. Standard(recs) = [k \in DOMAIN h |-> Heading(recs, h[k])]
    BY DEF Standard, h
  <1> QED  BY <1>2, <1>3 DEF h

\* The last record of a head before the last head is not the last one.
LEMMA ClosedBefore ==
    ASSUME NEW recs \in Seq(LogicalRecords), NEW k \in 1 .. Len(Heads(recs)),
           k # Len(Heads(recs))
    PROVE  LastOf(recs, Heads(recs)[k]) # Len(recs)
  <1> DEFINE h == Heads(recs)
             m == Len(h)
             l == LastOf(recs, h[k])
  <1>1. /\ h \in Seq(1 .. Len(recs)) /\ \A j \in DOMAIN h : ~ Folded(recs, h[j])
        /\ \A j \in DOMAIN h : j < Len(h) => h[j] < h[Len(h)]
    BY HeadsKeep DEF HeadClaim
  <1>2. m \in Nat /\ DOMAIN h = 1 .. m /\ \A j \in 1 .. m : h[j] \in 1 .. Len(recs)
    BY <1>1
  <1>3. k \in 1 .. m /\ k < m /\ m \in 1 .. m
    <2>1. k \in 1 .. m /\ k # m
      OBVIOUS
    <2> HIDE DEF m
    <2> QED  BY <1>2, <2>1
  <1>4. h[k] < h[m] /\ ~ Folded(recs, h[m]) /\ h[k] \in 1 .. Len(recs) /\ h[m] \in 1 .. Len(recs)
    BY <1>1, <1>2, <1>3
  <1>5. l \in h[k] .. Len(recs) /\ \A x \in h[k] + 1 .. l : Folded(recs, x)
    BY <1>4, LastExists
  <1> HIDE DEF h, m, l
  <1>6. h[m] \notin h[k] + 1 .. l
    BY <1>4, <1>5
  <1>7. l # Len(recs)
    BY <1>4, <1>6
  <1> QED  BY <1>7 DEF h, l

\* The last head's is.
LEMMA OpenLast ==
    ASSUME NEW recs \in Seq(LogicalRecords), Len(recs) > 0
    PROVE  LET h == Heads(recs) IN
           /\ Len(h) \in 1 .. Len(h) /\ h[Len(h)] \in 1 .. Len(recs)
           /\ LastOf(recs, h[Len(h)]) = Len(recs) /\ ~ Folded(recs, h[Len(h)])
           /\ \A j \in h[Len(h)] + 1 .. Len(recs) : Folded(recs, j)
  <1> DEFINE h == Heads(recs)
  <1>1. /\ h \in Seq(1 .. Len(recs)) /\ \A j \in DOMAIN h : ~ Folded(recs, h[j])
        /\ h # <<>> /\ \A i \in h[Len(h)] + 1 .. Len(recs) : Folded(recs, i)
    BY HeadsKeep DEF HeadClaim
  <1> HIDE DEF h
  <1>2. Len(h) \in 1 .. Len(h) /\ h[Len(h)] \in 1 .. Len(recs) /\ ~ Folded(recs, h[Len(h)])
    BY <1>1
  <1> DEFINE i == h[Len(h)]
  <1>3. i \in 1 .. Len(recs) /\ \A j \in i + 1 .. Len(recs) : Folded(recs, j)
    BY <1>1, <1>2
  <1> HIDE DEF i
  <1>4. Len(recs) \in i .. Len(recs)
    BY <1>3
  <1>5. LastOf(recs, i) = Len(recs)
    BY <1>3, <1>4, LastIs
  <1> QED  BY <1>1, <1>2, <1>5 DEF h, i

\* Where a text is assembled, the last head is a string that is no continuation.
LEMMA HeadIsString ==
    ASSUME NEW recs \in Seq(LogicalRecords), Assembled(recs, Len(recs)) # None
    PROVE  LET h == Heads(recs)
               r == recs[h[Len(h)]]
           IN  Len(recs) > 0 /\ r.form = "quoted" /\ r.word # "CONTINUE"
  <1> DEFINE h == Heads(recs)
             i == h[Len(h)]
  <1>1. Len(recs) > 0 /\ Len(recs) \in Nat
    BY AssembledNext
  <1>2. /\ i \in 1 .. Len(recs) /\ ~ Folded(recs, i)
        /\ \A j \in i + 1 .. Len(recs) : Folded(recs, j)
    BY <1>1, OpenLast
  <1> HIDE DEF h, i
  <1>3. Assembled(recs, i) # None
    <2>1. CASE i = Len(recs)
      BY <2>1
    <2>2. CASE i # Len(recs)
      <3>1. i + 1 \in i + 1 .. Len(recs) /\ i + 1 \in 1 .. Len(recs) /\ (i + 1) - 1 = i
        BY <1>1, <1>2, <2>2
      <3>2. Folded(recs, i + 1)
        BY <1>2, <3>1
      <3>3. Assembled(recs, i + 1) = Joined(Assembled(recs, i), recs[i + 1])
        BY <3>1, AssembledNext
      <3> QED  BY <3>2, <3>3 DEF Folded, Joined
    <2> QED  BY <2>1, <2>2
  <1>4. recs[i].word # "CONTINUE"
    BY <1>2, <1>3 DEF Folded
  <1>5. Assembled(recs, i) = Joined(Assembled(recs, i - 1), recs[i])
    BY <1>2, AssembledNext
  <1>6. recs[i].form = "quoted"
    BY <1>3, <1>5 DEF Joined
  <1> QED  BY <1>1, <1>4, <1>6 DEF h, i

\* A record folded in: the last keyword takes what is assembled, the others stay.
LEMMA StandardFolds ==
    ASSUME NEW recs \in Seq(LogicalRecords), NEW r \in LogicalRecords, NEW more,
           Follows(more, recs, r), Folded(more, Len(more))
    PROVE  LET m == Len(Heads(recs)) IN
           /\ m \in 1 .. m /\ DOMAIN Standard(recs) = 1 .. m /\ DOMAIN Standard(more) = 1 .. m
           /\ \A k \in 1 .. m : k # m => Standard(more)[k] = Standard(recs)[k]
           /\ Standard(more)[m].name = Standard(recs)[m].name
           /\ Standard(more)[m].kind = Standard(recs)[m].kind
           /\ Standard(more)[m].value = Assembled(more, Len(more))
           /\ Standard(recs)[m].value = Assembled(recs, Len(recs))
           /\ Standard(recs)[m].kind = "CharacterString"
  <1> DEFINE h == Heads(recs)
             m == Len(h)
             i == h[m]
             n == Len(recs)
  <1>1. /\ more \in Seq(LogicalRecords) /\ Len(more) = n + 1 /\ n \in Nat /\ more[n + 1] = r
        /\ \A k \in 1 .. n : Folded(more, k) = Folded(recs, k)
        /\ \A k \in 1 .. n : more[k] = recs[k]
        /\ Assembled(more, Len(more)) = Joined(Assembled(recs, n), r)
        /\ Assembled(recs, n) \in Option(Texts)
    BY AssembledStays
  <1>2. Assembled(recs, n) # None
    BY <1>1, JoinedIsText DEF Folded
  <1>3. n > 0 /\ recs[i].form = "quoted" /\ recs[i].word # "CONTINUE"
    BY <1>2, HeadIsString
  <1>4. /\ m \in 1 .. m /\ i \in 1 .. n /\ LastOf(recs, i) = n
        /\ \A j \in i + 1 .. n : Folded(recs, j)
    BY <1>3, OpenLast
  <1>5. Heads(more) = h
    BY HeadsNext DEF HeadStep
  <1>6. /\ DOMAIN Standard(recs) = 1 .. m
        /\ \A k \in 1 .. m : h[k] \in 1 .. n /\ Standard(recs)[k] = Heading(recs, h[k])
    BY StandardIs
  <1>7. /\ DOMAIN Standard(more) = 1 .. m
        /\ \A k \in 1 .. m : Standard(more)[k] = Heading(more, h[k])
    BY <1>1, <1>5, StandardIs
  <1>8. ASSUME NEW k \in 1 .. m, k # m
        PROVE  Standard(more)[k] = Standard(recs)[k]
    <2>1. LastOf(recs, h[k]) # Len(recs)
      BY <1>8, ClosedBefore
    <2>2. h[k] \in 1 .. Len(recs)
      BY <1>6
    <2>3. Heading(more, h[k]) = Heading(recs, h[k])
      BY <2>1, <2>2, HeadingStays
    <2> QED  BY <1>6, <1>7, <2>3
  <1> HIDE DEF h, m, i, n
  <1>9. LastOf(more, i) = Len(more)
    <2>1. \A j \in i + 1 .. Len(more) : Folded(more, j)
      <3> SUFFICES ASSUME NEW j \in i + 1 .. Len(more) PROVE Folded(more, j)
        OBVIOUS
      <3>1. j = Len(more) \/ (j \in i + 1 .. n /\ j \in 1 .. n)
        BY <1>1, <1>4
      <3> QED  BY <1>1, <1>4, <3>1
    <2>2. i \in 1 .. Len(more) /\ Len(more) \in i .. Len(more)
      BY <1>1, <1>4
    <2> QED  BY <1>1, <2>1, <2>2, LastIs
  <1>10. m \in 1 .. m /\ i = h[m] /\ more[i] = recs[i]
    BY <1>1, <1>4 DEF i
  <1>11. Standard(more)[m] = Heading(more, i) /\ Standard(recs)[m] = Heading(recs, i)
    BY <1>6, <1>7, <1>10
  <1>12. /\ Heading(more, i).name = Heading(recs, i).name
         /\ Heading(more, i).kind = Heading(recs, i).kind
         /\ Heading(more, i).value = Assembled(more, Len(more))
         /\ Heading(recs, i).value = Assembled(recs, n)
         /\ Heading(recs, i).kind = "CharacterString"
    BY <1>3, <1>4, <1>9, <1>10 DEF Heading
  <1> QED  BY <1>6, <1>7, <1>8, <1>10, <1>11, <1>12 DEF h, m, n

\* A record not folded in: a keyword more.
LEMMA StandardGrows ==
    ASSUME NEW recs \in Seq(LogicalRecords), NEW r \in LogicalRecords, NEW more,
           Follows(more, recs, r), ~ Folded(more, Len(more))
    PROVE  LET m == Len(Heads(recs)) IN
           /\ m \in Nat /\ DOMAIN Standard(recs) = 1 .. m /\ DOMAIN Standard(more) = 1 .. m + 1
           /\ \A k \in 1 .. m : Standard(more)[k] = Standard(recs)[k]
           /\ Standard(more)[m + 1].name = NameOfRecord(r)
           /\ Standard(more)[m + 1].kind =
                 (IF r.word = "CONTINUE" THEN "Commentary"
                  ELSE IF r.form = "quoted" THEN "CharacterString" ELSE "Other")
           /\ Standard(more)[m + 1].value =
                 (IF r.word = "CONTINUE" THEN <<>>
                  ELSE IF r.form = "quoted" THEN Text(r) ELSE r.content)
  <1> DEFINE h == Heads(recs)
             g == Heads(more)
             m == Len(h)
             n == Len(recs)
  <1>1. /\ more \in Seq(LogicalRecords) /\ Len(more) = n + 1 /\ n \in Nat /\ more[n + 1] = r
        /\ Assembled(more, Len(more)) = Joined(Assembled(recs, n), r)
        /\ Assembled(recs, n) \in Option(Texts)
    BY AssembledStays
  <1>2. g = Append(h, n + 1)
    BY <1>1, HeadsNext DEF HeadStep
  <1>3. h \in Seq(1 .. n)
    BY HeadsKeep DEF HeadClaim
  <1>4. /\ Len(g) = m + 1 /\ m \in Nat /\ g[m + 1] = n + 1 /\ \A j \in 1 .. m : g[j] = h[j]
    BY <1>1, <1>2, <1>3, NumberAppended
  <1>5. /\ DOMAIN Standard(recs) = 1 .. m
        /\ \A k \in 1 .. m : h[k] \in 1 .. n /\ Standard(recs)[k] = Heading(recs, h[k])
    BY StandardIs
  <1>6. /\ DOMAIN Standard(more) = 1 .. m + 1
        /\ \A k \in 1 .. m + 1 : Standard(more)[k] = Heading(more, g[k])
    BY <1>1, <1>4, StandardIs
  <1>7. ASSUME NEW k \in 1 .. m
        PROVE  Standard(more)[k] = Standard(recs)[k]
    <2>1. h[k] \in 1 .. Len(recs)
      BY <1>5
    <2>2. Heading(more, h[k]) = Heading(recs, h[k])
      BY <2>1, HeadingStays
    <2>3. k \in 1 .. m + 1
      BY <1>4
    <2> QED  BY <1>4, <1>5, <1>6, <2>2, <2>3
  <1>8. LastOf(more, n + 1) = n + 1
    <2>1. n + 1 \in 1 .. Len(more) /\ n + 1 \in n + 1 .. Len(more)
      BY <1>1
    <2>2. \A k \in n + 1 + 1 .. n + 1 : Folded(more, k)
      BY <1>1
    <2> QED  BY <1>1, <2>1, <2>2, LastIs
  <1>9. Standard(more)[m + 1] = Heading(more, n + 1)
    BY <1>4, <1>6
  <1> HIDE DEF h, g, m, n
  <1>10. r.word # "CONTINUE" /\ r.form = "quoted" => Assembled(more, n + 1) = Text(r)
    BY <1>1, JoinedIsText
  <1>11. /\ Heading(more, n + 1).name = NameOfRecord(r)
         /\ Heading(more, n + 1).kind =
               (IF r.word = "CONTINUE" THEN "Commentary"
                ELSE IF r.form = "quoted" THEN "CharacterString" ELSE "Other")
         /\ Heading(more, n + 1).value =
               (IF r.word = "CONTINUE" THEN <<>>
                ELSE IF r.form = "quoted" THEN Text(r) ELSE r.content)
    BY <1>1, <1>8, <1>10 DEF Heading
  <1> QED  BY <1>4, <1>5, <1>6, <1>7, <1>9, <1>11 DEF h, m

-----------------------------------------------------------------------------
(* Lists of keywords.                                                      *)

IsList(out) == out \in Seq(ToSet(out))

\* A list and one keyword more.
LEMMA ListAppended ==
    ASSUME NEW out, IsList(out), NEW x
    PROVE  /\ IsList(Append(out, x)) /\ Len(out) \in Nat /\ DOMAIN out = 1 .. Len(out)
           /\ Len(Append(out, x)) = Len(out) + 1 /\ DOMAIN Append(out, x) = 1 .. Len(out) + 1
           /\ Append(out, x)[Len(out) + 1] = x
           /\ \A k \in 1 .. Len(out) : Append(out, x)[k] = out[k]
  <1> DEFINE S == ToSet(out) \cup {x}
             T == ToSet(out)
  <1>1. out \in Seq(T) /\ T \subseteq S /\ x \in S
    BY DEF IsList
  <1> HIDE DEF S, T
  <1>2. out \in Seq(S)
    BY <1>1
  <1> DEFINE more == Append(out, x)
  <1>3. /\ more \in Seq(S) /\ Len(out) \in Nat /\ DOMAIN out = 1 .. Len(out)
        /\ Len(more) = Len(out) + 1 /\ DOMAIN more = 1 .. Len(out) + 1
        /\ more[Len(out) + 1] = x /\ \A k \in 1 .. Len(out) : more[k] = out[k]
    BY <1>1, <1>2
  <1> HIDE DEF more
  <1>4. \A k \in 1 .. Len(more) : more[k] \in ToSet(more)
    BY <1>3 DEF ToSet
  <1>5. more \in Seq(ToSet(more))
    BY <1>3, <1>4
  <1> QED  BY <1>3, <1>5 DEF IsList, more

\* A list and a keyword in place of another.
Put(out, i, x) == [out EXCEPT ![i] = x]

LEMMA ListReplaced ==
    ASSUME NEW out, IsList(out), NEW i \in 1 .. Len(out), NEW x, NEW new, new = Put(out, i, x)
    PROVE  /\ IsList(new) /\ Len(new) = Len(out) /\ DOMAIN new = 1 .. Len(out) /\ new[i] = x
           /\ \A k \in 1 .. Len(out) : k # i => new[k] = out[k]
  <1>1. Len(out) \in Nat /\ DOMAIN out = 1 .. Len(out) /\ out = [k \in 1 .. Len(out) |-> out[k]]
    BY DEF IsList
  <1> DEFINE f == [k \in 1 .. Len(out) |-> IF k = i THEN x ELSE out[k]]
  <1>2. new = f
    BY <1>1 DEF Put
  <1>3. /\ DOMAIN f = 1 .. Len(out) /\ f[i] = x
        /\ \A k \in 1 .. Len(out) : k # i => f[k] = out[k]
    OBVIOUS
  <1>4. \A k \in 1 .. Len(out) : f[k] \in ToSet(f)
    BY <1>3 DEF ToSet
  <1>5. f = [k \in 1 .. Len(out) |-> f[k]]
    OBVIOUS
  <1> HIDE DEF f
  <1>6. f \in Seq(ToSet(f)) /\ Len(f) = Len(out)
    BY <1>1, <1>4, <1>5
  <1> QED  BY <1>2, <1>3, <1>6 DEF IsList

\* A list of keywords is the standard's, but for the value of the last while its chain is open.
Agrees(out, recs, unfinished) ==
    /\ IsList(out) /\ Len(out) = Len(Heads(recs))
    /\ \A k \in 1 .. Len(out) :
          /\ out[k].name = Standard(recs)[k].name /\ out[k].kind = Standard(recs)[k].kind
          /\ (unfinished /\ k = Len(out)) \/ out[k].value = Standard(recs)[k].value

LEMMA AgreesInFull ==
    ASSUME NEW recs \in Seq(LogicalRecords), NEW out, Agrees(out, recs, FALSE)
    PROVE  Outlined(out) = Standard(recs)
  <1> DEFINE std == Standard(recs)
             m == Len(Heads(recs))
  <1>1. DOMAIN std = 1 .. m /\ DOMAIN out = 1 .. m
    BY StandardIs DEF Agrees, IsList
  <1>2. \A k \in 1 .. m : out[k].name = std[k].name /\ out[k].kind = std[k].kind
                          /\ out[k].value = std[k].value
    BY DEF Agrees
  <1>3. \A k \in 1 .. m : std[k] = [name |-> std[k].name, value |-> std[k].value, kind |-> std[k].kind]
    <2>1. ASSUME NEW k \in 1 .. m
          PROVE  std[k] = [name |-> std[k].name, value |-> std[k].value, kind |-> std[k].kind]
      <3>1. std[k] = Heading(recs, Heads(recs)[k])
        BY StandardIs
      <3> QED  BY <3>1 DEF Heading
    <2> QED  BY <2>1
  <1>4. std = [k \in 1 .. m |-> std[k]]
    BY <1>1 DEF Standard
  <1> HIDE DEF std, m
  <1>5. Outlined(out) = [k \in 1 .. m |-> [name |-> out[k].name, value |-> out[k].value,
                                          kind |-> out[k].kind]]
    BY <1>1 DEF Outlined
  <1>6. \A k \in 1 .. m : [name |-> out[k].name, value |-> out[k].value, kind |-> out[k].kind] = std[k]
    BY <1>2, <1>3
  <1> QED  BY <1>4, <1>5, <1>6 DEF std

\* A keyword more, where the record is not folded in.
LEMMA AgreesGrown ==
    ASSUME NEW recs \in Seq(LogicalRecords), NEW r \in LogicalRecords, NEW more,
           Follows(more, recs, r), ~ Folded(more, Len(more)), NEW out, Agrees(out, recs, FALSE),
           NEW x, NEW unfinished \in BOOLEAN, x.name = NameOfRecord(r),
           x.kind = (IF r.word = "CONTINUE" THEN "Commentary"
                     ELSE IF r.form = "quoted" THEN "CharacterString" ELSE "Other"),
           x.value = (IF r.word = "CONTINUE" THEN <<>>
                      ELSE IF r.form = "quoted" THEN Text(r) ELSE r.content)
    PROVE  Agrees(Append(out, x), more, unfinished)
  <1> DEFINE m == Len(Heads(recs))
             std == Standard(recs)
             new == Standard(more)
             g == Append(out, x)
  <1>1. /\ m \in Nat /\ DOMAIN new = 1 .. m + 1 /\ \A k \in 1 .. m : new[k] = std[k]
        /\ new[m + 1].name = x.name /\ new[m + 1].kind = x.kind /\ new[m + 1].value = x.value
    BY StandardGrows
  <1>2. Len(Heads(more)) = m + 1
    <2>1. more \in Seq(LogicalRecords)
      BY AssembledStays
    <2>2. DOMAIN new = 1 .. Len(Heads(more)) /\ Len(Heads(more)) \in Nat
      BY <2>1, StandardIs
    <2> HIDE DEF m, new
    <2> QED  BY <1>1, <2>2
  <1>3. /\ IsList(out) /\ Len(out) = m
        /\ \A k \in 1 .. m : /\ out[k].name = std[k].name /\ out[k].kind = std[k].kind
                             /\ out[k].value = std[k].value
    BY DEF Agrees
  <1>4. /\ IsList(g) /\ Len(g) = m + 1 /\ g[m + 1] = x /\ \A k \in 1 .. m : g[k] = out[k]
    BY <1>3, ListAppended
  <1> HIDE DEF m, std, new, g
  <1>5. ASSUME NEW k \in 1 .. m + 1
        PROVE  g[k].name = new[k].name /\ g[k].kind = new[k].kind /\ g[k].value = new[k].value
    <2>1. k = m + 1 \/ k \in 1 .. m
      BY <1>1
    <2> QED  BY <1>1, <1>3, <1>4, <2>1
  <1> QED  BY <1>2, <1>4, <1>5 DEF Agrees, g, new

\* A record folded in, and the keyword's text with it, unless it is still open.
LEMMA AgreesFolded ==
    ASSUME NEW recs \in Seq(LogicalRecords), NEW r \in LogicalRecords, NEW more,
           Follows(more, recs, r), Folded(more, Len(more)), NEW out, Agrees(out, recs, TRUE),
           NEW g, NEW unfinished \in BOOLEAN, IsList(g), Len(g) = Len(out),
           \A k \in 1 .. Len(out) : k # Len(out) => g[k] = out[k],
           g[Len(out)].name = out[Len(out)].name, g[Len(out)].kind = out[Len(out)].kind,
           unfinished \/ g[Len(out)].value = Assembled(more, Len(more))
    PROVE  Agrees(g, more, unfinished)
  <1> DEFINE m == Len(Heads(recs))
             std == Standard(recs)
             new == Standard(more)
  <1>1. /\ m \in 1 .. m /\ DOMAIN new = 1 .. m
        /\ \A k \in 1 .. m : k # m => new[k] = std[k]
        /\ new[m].name = std[m].name /\ new[m].kind = std[m].kind
        /\ new[m].value = Assembled(more, Len(more))
    BY StandardFolds
  <1>2. Len(Heads(more)) = m
    <2>1. more \in Seq(LogicalRecords)
      BY AssembledStays
    <2>2. DOMAIN new = 1 .. Len(Heads(more)) /\ Len(Heads(more)) \in Nat
      BY <2>1, StandardIs
    <2>3. m \in Nat
      BY StandardIs
    <2> HIDE DEF m, new
    <2> QED  BY <1>1, <2>2, <2>3
  <1>3. /\ Len(out) = m
        /\ \A k \in 1 .. m : /\ out[k].name = std[k].name /\ out[k].kind = std[k].kind
                             /\ k # m => out[k].value = std[k].value
    BY DEF Agrees
  <1> HIDE DEF m, std, new
  <1>4. ASSUME NEW k \in 1 .. m
        PROVE  /\ g[k].name = new[k].name /\ g[k].kind = new[k].kind
               /\ (unfinished /\ k = m) \/ g[k].value = new[k].value
    BY <1>1, <1>3
  <1> QED  BY <1>2, <1>3, <1>4 DEF Agrees, new

\* A chain closed: its keyword takes the text assembled.
LEMMA AgreesClosed ==
    ASSUME NEW recs \in Seq(LogicalRecords), Assembled(recs, Len(recs)) # None,
           NEW out, Agrees(out, recs, TRUE), NEW g, IsList(g), Len(g) = Len(out),
           \A k \in 1 .. Len(out) : k # Len(out) => g[k] = out[k],
           g[Len(out)].name = out[Len(out)].name, g[Len(out)].kind = out[Len(out)].kind,
           g[Len(out)].value = Assembled(recs, Len(recs))
    PROVE  Agrees(g, recs, FALSE) /\ Len(out) \in 1 .. Len(out)
  <1> DEFINE h == Heads(recs)
             m == Len(h)
             std == Standard(recs)
  <1>1. Len(recs) > 0 /\ recs[h[m]].form = "quoted" /\ recs[h[m]].word # "CONTINUE"
    BY HeadIsString
  <1>2. m \in 1 .. m /\ LastOf(recs, h[m]) = Len(recs)
    BY <1>1, OpenLast
  <1>3. std[m] = Heading(recs, h[m])
    BY <1>2, StandardIs
  <1>4. std[m].value = Assembled(recs, Len(recs))
    BY <1>1, <1>2, <1>3 DEF Heading
  <1>5. /\ Len(out) = m
        /\ \A k \in 1 .. m : /\ out[k].name = std[k].name /\ out[k].kind = std[k].kind
                             /\ k # m => out[k].value = std[k].value
    BY DEF Agrees
  <1> HIDE DEF h, m, std
  <1>6. ASSUME NEW k \in 1 .. m
        PROVE  g[k].name = std[k].name /\ g[k].kind = std[k].kind /\ g[k].value = std[k].value
    BY <1>2, <1>4, <1>5
  <1> QED  BY <1>2, <1>5, <1>6 DEF Agrees, std, m, h

-----------------------------------------------------------------------------
(* What both folds are told by.                                            *)

\* A chain is open, and a record that cannot be folded in for its length.
Opens(recs) == Assembled(recs, Len(recs)) # None /\ EndsOpen(Assembled(recs, Len(recs)))
Long(recs) == \E i \in 1 .. Len(recs) : Folded(recs, i) /\ Len(Assembled(recs, i)) > ValueBytes

\* A record folds in where a chain is open.
LEMMA FoldsWhere ==
    ASSUME NEW recs \in Seq(LogicalRecords), NEW r \in LogicalRecords, NEW more,
           Follows(more, recs, r)
    PROVE  LET a == Assembled(recs, Len(recs))
               b == Assembled(more, Len(more)) IN
           /\ Folded(more, Len(more)) <=> r.word = "CONTINUE" /\ r.form = "quoted" /\ Opens(recs)
           /\ Folded(more, Len(more)) => /\ a \in Texts /\ EndsOpen(a) /\ b = Front(a) \o Text(r)
                                         /\ b \in Texts /\ b # None
           /\ ~ Folded(more, Len(more)) /\ r.word = "CONTINUE" => b = None
           /\ r.word # "CONTINUE" => b = IF r.form = "quoted" THEN Text(r) ELSE None
           /\ Long(more) <=> Long(recs) \/ (Folded(more, Len(more)) /\ Len(b) > ValueBytes)
  <1> DEFINE n == Len(recs)
             a == Assembled(recs, n)
             b == Assembled(more, Len(more))
  <1>1. /\ more \in Seq(LogicalRecords) /\ Len(more) = n + 1 /\ n \in Nat /\ more[Len(more)] = r
        /\ b = Joined(a, r) /\ a \in Option(Texts)
        /\ \A i \in 0 .. n : Assembled(more, i) = Assembled(recs, i)
        /\ \A i \in 1 .. n : Folded(more, i) = Folded(recs, i)
    BY AssembledStays
  <1> HIDE DEF n, a, b
  <1>2. Folded(more, Len(more)) <=> r.word = "CONTINUE" /\ b # None
    BY <1>1 DEF Folded, b
  <1>3. /\ b \in Option(Texts) /\ (b # None => r.form = "quoted")
        /\ r.word = "CONTINUE" /\ b # None => a # None /\ EndsOpen(a) /\ b = Front(a) \o Text(r)
        /\ r.word = "CONTINUE" /\ r.form = "quoted" /\ a # None /\ EndsOpen(a) => b # None
    BY <1>1, JoinedIsText
  <1>4. Opens(recs) <=> a # None /\ EndsOpen(a)
    BY DEF Opens, a, n
  <1>5. a # None => a \in Texts
    BY <1>1 DEF Option
  <1>6. r.word # "CONTINUE" => b = IF r.form = "quoted" THEN Text(r) ELSE None
    BY <1>1 DEF Joined
  <1>7. b # None => b \in Texts
    BY <1>3 DEF Option
  <1>8. ASSUME Long(more)
        PROVE  Long(recs) \/ (Folded(more, Len(more)) /\ Len(b) > ValueBytes)
    <2>1. PICK i \in 1 .. Len(more) : Folded(more, i) /\ Len(Assembled(more, i)) > ValueBytes
      BY <1>8 DEF Long
    <2>2. CASE i = Len(more)
      BY <2>1, <2>2 DEF b
    <2>3. CASE i # Len(more)
      <3>1. i \in 1 .. n /\ i \in 0 .. n
        BY <1>1, <2>3
      <3>2. Folded(recs, i) /\ Len(Assembled(recs, i)) > ValueBytes
        BY <1>1, <2>1, <3>1
      <3> QED  BY <3>1, <3>2 DEF Long, n
    <2> QED  BY <2>2, <2>3
  <1>9. ASSUME Long(recs)
        PROVE  Long(more)
    <2>1. PICK i \in 1 .. n : Folded(recs, i) /\ Len(Assembled(recs, i)) > ValueBytes
      BY <1>9 DEF Long, n
    <2>2. i \in 0 .. n /\ i \in 1 .. Len(more)
      BY <1>1
    <2>3. Folded(more, i) /\ Len(Assembled(more, i)) > ValueBytes
      BY <1>1, <2>1, <2>2
    <2> QED  BY <2>2, <2>3 DEF Long
  <1>10. ASSUME Folded(more, Len(more)), Len(b) > ValueBytes
         PROVE  Long(more)
    <2>1. Len(more) \in 1 .. Len(more)
      BY <1>1
    <2> QED  BY <1>10, <2>1 DEF Long, b
  <1> QED  BY <1>2, <1>3, <1>4, <1>5, <1>6, <1>7, <1>8, <1>9, <1>10 DEF a, b, n

-----------------------------------------------------------------------------
(* The fold over cards.                                                    *)

IsKeyword(x) == {"name", "value", "comment", "kind"} \subseteq DOMAIN x
AreKeywords(out) == \A k \in 1 .. Len(out) : IsKeyword(out[k])

\* The chain of the fold: the text so far, the opener's own until a record is folded in.
FitsChain(recs, out, c) ==
    /\ c # None <=> Opens(recs)
    /\ c # None =>
          /\ c \in [index : Nat, first_comment : Option(Comments), value : Option(Texts),
                    comment : Option(Comments)]
          /\ c.index = Len(out)
          /\ c.value # None => c.value = Assembled(recs, Len(recs))
          /\ c.value = None => out[Len(out)].value = Assembled(recs, Len(recs))

IsFits(s) == DOMAIN s = {"res", "out", "chain", "seen", "ended"}

\* Where the fold stands when these records have been read.
FitsHolds(recs, s) ==
    /\ IsFits(s) /\ s.res \in {"ok", "LimitExceeded"} /\ (s.res = "ok" <=> ~ Long(recs))
    /\ s.res = "ok" =>
          /\ s.seen = Len(recs) /\ s.ended = FALSE /\ AreKeywords(s.out)
          /\ Agrees(s.out, recs, s.chain # None) /\ FitsChain(recs, s.out, s.chain)

\* The list once a chain is closed.
ClosedOut(out, c) ==
    IF c = None \/ c.value = None THEN out
    ELSE [out EXCEPT ![c.index].value = c.value,
                     ![c.index].comment = IF c.comment = None THEN c.first_comment ELSE c.comment]

LEMMA CloseIs ==
    ASSUME NEW s, IsFits(s)
    PROVE  LET t == CloseChainOf(s) IN
           /\ IsFits(t) /\ t.res = s.res /\ t.seen = s.seen /\ t.ended = s.ended
           /\ t.out = ClosedOut(s.out, s.chain) /\ t.chain = None
  BY DEF IsFits, CloseChainOf, ClosedOut

\* A keyword restated.
Restated(x, value, comment) == [[x EXCEPT !.value = value] EXCEPT !.comment = comment]

LEMMA RestatedIs ==
    ASSUME NEW x, IsKeyword(x), NEW value, NEW comment
    PROVE  LET y == Restated(x, value, comment) IN
           /\ IsKeyword(y) /\ y.value = value /\ y.name = x.name /\ y.kind = x.kind
           /\ y.comment = comment
  BY DEF Restated, IsKeyword

\* Two steps of it in a list are one.
LEMMA PutTwice ==
    ASSUME NEW out, NEW i \in DOMAIN out, NEW w, NEW said
    PROVE  [[out EXCEPT ![i].value = w] EXCEPT ![i].comment = said]
             = Put(out, i, Restated(out[i], w, said))
  BY DEF Put, Restated

\* What closing a chain with a text does to the list.
LEMMA ClosedOutIs ==
    ASSUME NEW out, IsList(out), AreKeywords(out), NEW c, c # None, c.value # None,
           c.index \in 1 .. Len(out)
    PROVE  LET g == ClosedOut(out, c) IN
           /\ IsList(g) /\ Len(g) = Len(out) /\ AreKeywords(g) /\ g[c.index].value = c.value
           /\ g[c.index] = Restated(out[c.index], c.value,
                                    IF c.comment = None THEN c.first_comment ELSE c.comment)
           /\ g[c.index].name = out[c.index].name /\ g[c.index].kind = out[c.index].kind
           /\ \A k \in 1 .. Len(out) : k # c.index => g[k] = out[k]
  <1> DEFINE said == IF c.comment = None THEN c.first_comment ELSE c.comment
             x == Restated(out[c.index], c.value, said)
             g == ClosedOut(out, c)
  <1>1. DOMAIN out = 1 .. Len(out)
    BY DEF IsList
  <1>2. /\ IsKeyword(x) /\ x.value = c.value /\ x.name = out[c.index].name
        /\ x.kind = out[c.index].kind /\ x.comment = said
    <2>1. IsKeyword(out[c.index])
      BY DEF AreKeywords
    <2> QED  BY <2>1, RestatedIs
  <1> HIDE DEF said
  <1>3. g = Put(out, c.index, x)
    <2>1. g = [[out EXCEPT ![c.index].value = c.value] EXCEPT ![c.index].comment = said]
      BY DEF ClosedOut, said
    <2> QED  BY <1>1, <2>1, PutTwice
  <1> HIDE DEF x, g
  <1>4. /\ IsList(g) /\ Len(g) = Len(out) /\ g[c.index] = x
        /\ \A k \in 1 .. Len(out) : k # c.index => g[k] = out[k]
    BY <1>3, ListReplaced
  <1>5. AreKeywords(g)
    BY <1>2, <1>4 DEF AreKeywords
  <1> QED  BY <1>2, <1>4, <1>5 DEF x, g, said

\* The list is the standard's once its chain is closed.
LEMMA FitsCloses ==
    ASSUME NEW recs \in Seq(LogicalRecords), NEW out, NEW c, AreKeywords(out),
           Agrees(out, recs, c # None), FitsChain(recs, out, c)
    PROVE  /\ Agrees(ClosedOut(out, c), recs, FALSE) /\ AreKeywords(ClosedOut(out, c))
           /\ Len(ClosedOut(out, c)) = Len(out)
  <1>1. CASE c = None
    <2>1. ClosedOut(out, c) = out
      BY <1>1 DEF ClosedOut
    <2>2. Agrees(out, recs, FALSE)
      BY <1>1 DEF Agrees
    <2> QED  BY <2>1, <2>2
  <1>2. CASE c # None
    <2> DEFINE a == Assembled(recs, Len(recs))
               g == ClosedOut(out, c)
    <2>1. a # None /\ c.index = Len(out)
      BY <1>2 DEF FitsChain, Opens
    <2>2. Agrees(out, recs, TRUE) /\ IsList(out)
      BY <1>2 DEF Agrees
    <2>3. Len(out) \in 1 .. Len(out)
      <3>1. Len(out) = Len(Heads(recs)) /\ Len(recs) > 0
        BY <2>1, HeadIsString DEF Agrees
      <3> QED  BY <3>1, OpenLast
    <2>4. CASE c.value = None
      <3>1. g = out
        BY <2>4 DEF ClosedOut
      <3>2. out[Len(out)].value = a
        BY <1>2, <2>4 DEF FitsChain
      <3>3. Agrees(out, recs, FALSE)
        BY <2>1, <2>2, <3>2, AgreesClosed
      <3> QED  BY <3>1, <3>3
    <2>5. CASE c.value # None
      <3>1. /\ IsList(g) /\ Len(g) = Len(out) /\ AreKeywords(g) /\ g[Len(out)].value = c.value
            /\ g[Len(out)].name = out[Len(out)].name /\ g[Len(out)].kind = out[Len(out)].kind
            /\ \A k \in 1 .. Len(out) : k # Len(out) => g[k] = out[k]
        BY <1>2, <2>1, <2>2, <2>3, <2>5, ClosedOutIs
      <3>2. c.value = a
        BY <1>2, <2>5 DEF FitsChain
      <3> HIDE DEF g
      <3>3. Agrees(g, recs, FALSE)
        BY <2>1, <2>2, <3>1, <3>2, AgreesClosed
      <3> QED  BY <3>1, <3>3 DEF g
    <2> QED  BY <2>4, <2>5
  <1> QED  BY <1>1, <1>2

\* A keyword appended is not in the way of the one before it.
LEMMA ClosedAppended ==
    ASSUME NEW out, IsList(out), AreKeywords(out), NEW c, c # None => c.index \in 1 .. Len(out),
           NEW x, IsKeyword(x)
    PROVE  /\ ClosedOut(Append(out, x), c) = Append(ClosedOut(out, c), x)
           /\ AreKeywords(Append(out, x))
  <1> DEFINE more == Append(out, x)
             g == ClosedOut(out, c)
             h == ClosedOut(more, c)
  <1>1. /\ IsList(more) /\ Len(out) \in Nat /\ Len(more) = Len(out) + 1
        /\ more[Len(out) + 1] = x /\ \A k \in 1 .. Len(out) : more[k] = out[k]
    BY ListAppended
  <1> HIDE DEF more
  <1>2. AreKeywords(more)
    <2> SUFFICES ASSUME NEW k \in 1 .. Len(more) PROVE IsKeyword(more[k])
      BY DEF AreKeywords
    <2>1. k = Len(out) + 1 \/ k \in 1 .. Len(out)
      BY <1>1
    <2> QED  BY <1>1, <2>1 DEF AreKeywords
  <1>3. CASE c = None \/ c.value = None
    BY <1>2, <1>3 DEF ClosedOut, more
  <1>4. CASE c # None /\ c.value # None
    <2>1. c.index \in 1 .. Len(out) /\ c.index \in 1 .. Len(more) /\ more[c.index] = out[c.index]
      BY <1>1, <1>4
    <2> DEFINE y == Restated(out[c.index], c.value,
                             IF c.comment = None THEN c.first_comment ELSE c.comment)
    <2>4. /\ IsList(g) /\ Len(g) = Len(out) /\ g[c.index] = y
          /\ \A k \in 1 .. Len(out) : k # c.index => g[k] = out[k]
      BY <1>4, <2>1, ClosedOutIs
    <2>5. /\ IsList(h) /\ Len(h) = Len(out) + 1 /\ h[c.index] = y
          /\ \A k \in 1 .. Len(out) + 1 : k # c.index => h[k] = more[k]
      BY <1>1, <1>2, <1>4, <2>1, ClosedOutIs
    <2>6. g[c.index] = h[c.index]
      BY <2>4, <2>5
    <2> HIDE DEF g, h, y
    <2> DEFINE f == Append(g, x)
    <2>7. /\ IsList(f) /\ Len(f) = Len(out) + 1 /\ f[Len(out) + 1] = x
          /\ \A k \in 1 .. Len(out) : f[k] = g[k]
      BY <2>4, ListAppended
    <2> HIDE DEF f
    <2>8. ASSUME NEW k \in 1 .. Len(out) + 1
          PROVE  f[k] = h[k]
      <3>1. k = Len(out) + 1 \/ k \in 1 .. Len(out)
        BY <1>1
      <3> QED  BY <1>1, <2>1, <2>4, <2>5, <2>6, <2>7, <3>1
    <2>9. f = h
      BY <2>5, <2>7, <2>8 DEF IsList
    <2> QED  BY <1>2, <2>9 DEF f, g, h, more
  <1> QED  BY <1>3, <1>4

\* What is read of the card of a record.
ValueOf(r) == IF r.form = "quoted" THEN Text(r) ELSE r.content
KindOf(r) == IF r.form = "quoted" THEN "CharacterString" ELSE "Other"

LEMMA CardIs ==
    ASSUME NEW r \in LogicalRecords
    PROVE  LET c == CardOf(r) IN
           /\ c.word = r.word /\ c.word # "END" /\ c.ascii /\ c.value.ascii
           /\ c.indicator = (r.word # "CONTINUE") /\ c.comment \in Option(Comments)
           /\ ParseQuoted(c.value) = IF r.form = "quoted" THEN Text(r) ELSE None
           /\ ParseValue(c) = [res |-> "ok", value |-> ValueOf(r), kind |-> KindOf(r)]
           /\ HierarchWords(c) = IF r.word = "HIERARCH" /\ r.words # None THEN r.words ELSE None
           /\ HierarchWords(c) # "Malformed"
  <1> DEFINE c == CardOf(r)
  <1>1. /\ c.word = r.word /\ c.ascii = TRUE /\ c.words = r.words /\ c.ascii_words = TRUE
        /\ c.indicator = (r.word # "CONTINUE") /\ c.value.form = r.form
        /\ c.value.content = r.content /\ c.value.ascii = TRUE
        /\ c.comment = IF r.comment = "" THEN None ELSE r.comment
    BY DEF CardOf
  <1>2. r.word # "END" /\ r.words \notin {NoText, "Malformed"} /\ r.form \in {"quoted", "bare"}
    BY RecordsAssumption
  <1>3. r.comment \in Comments
    BY DEF Comments
  <1> HIDE DEF c
  <1>4. ParseQuoted(c.value) = IF r.form = "quoted" THEN Text(r) ELSE None
    BY <1>1 DEF ParseQuoted, Text
  <1>5. ParseValue(c) = [res |-> "ok", value |-> ValueOf(r), kind |-> KindOf(r)]
    <2>1. CASE r.form = "quoted"
      BY <1>1, <1>4, <2>1 DEF ParseValue, ValueOf, KindOf
    <2>2. CASE r.form = "bare"
      BY <1>1, <2>2 DEF ParseValue, ValueOf, KindOf
    <2> QED  BY <1>2, <2>1, <2>2
  <1>6. /\ HierarchWords(c) = IF r.word = "HIERARCH" /\ r.words # None THEN r.words ELSE None
        /\ HierarchWords(c) # "Malformed"
    BY <1>1, <1>2, NoTextAssumption DEF HierarchWords
  <1>7. c.comment \in Option(Comments)
    BY <1>1, <1>3 DEF Option
  <1> QED  BY <1>1, <1>2, <1>4, <1>5, <1>6, <1>7 DEF c

\* The fold counts every card.
Tallied(s) == [s EXCEPT !.seen = @ + 1]

LEMMA TalliedIs ==
    ASSUME NEW s, IsFits(s), s.seen \in Nat
    PROVE  LET t == Tallied(s) IN
           /\ IsFits(t) /\ t.res = s.res /\ t.seen = s.seen + 1 /\ t.ended = s.ended
           /\ t.out = s.out /\ t.chain = s.chain
  BY DEF IsFits, Tallied

Opened(out, comment) ==
    [index |-> Len(out) + 1, first_comment |-> comment, value |-> None, comment |-> None]

LEMMA PushIs ==
    ASSUME NEW s, IsFits(s), NEW name, NEW parsed, NEW comment, NEW t,
           t = PushKeyword(s, name, parsed, comment)
    PROVE  /\ IsFits(t) /\ t.res = s.res /\ t.seen = s.seen /\ t.ended = s.ended
           /\ t.out = Append(s.out, Keyword(name, parsed.value, comment, parsed.kind))
           /\ t.chain = IF parsed.kind = "CharacterString" /\ EndsOpen(parsed.value)
                        THEN Opened(s.out, comment) ELSE s.chain
  BY DEF IsFits, PushKeyword, Opened

\* A card no chain takes closes it.
LEMMA FitsOther ==
    ASSUME NEW recs \in Seq(LogicalRecords), NEW r \in LogicalRecords, NEW more,
           Follows(more, recs, r), NEW s, IsFits(s), s.res = "ok", s.ended = FALSE,
           s.seen = Len(more), ~ Long(recs), AreKeywords(s.out),
           Agrees(s.out, recs, s.chain # None), FitsChain(recs, s.out, s.chain),
           r.word # "CONTINUE"
    PROVE  FitsHolds(more, FoldOther(s, CardOf(r)))
  <1> DEFINE c == CardOf(r)
             b == CloseChainOf(s)
             p == [res |-> "ok", value |-> ValueOf(r), kind |-> KindOf(r)]
             t == PushKeyword(b, NameOfRecord(r), p, c.comment)
             x == Keyword(NameOfRecord(r), ValueOf(r), c.comment, KindOf(r))
             o == ClosedOut(s.out, s.chain)
             a == Assembled(more, Len(more))
  <1>1. FoldOther(s, c) = t
    <2>1. HierarchWords(c) # "Malformed" /\ ParseValue(c) = p /\ c.ascii /\ c.indicator = TRUE
          /\ c.word = r.word
          /\ HierarchWords(c) = IF r.word = "HIERARCH" /\ r.words # None THEN r.words ELSE None
      BY CardIs
    <2> HIDE DEF c
    <2>2. p.res = "ok"
      OBVIOUS
    <2> HIDE DEF p
    <2>3. NameOfRecord(r) = IF HierarchWords(c) # None THEN HierarchWords(c) ELSE c.word
      BY <2>1 DEF NameOfRecord
    <2> QED  BY <2>1, <2>2, <2>3, Zenon DEF FoldOther
  <1>2. /\ IsFits(b) /\ b.res = "ok" /\ b.seen = Len(more) /\ b.ended = FALSE /\ b.out = o
        /\ b.chain = None
    BY CloseIs
  <1> HIDE DEF b
  <1>3. /\ IsFits(t) /\ t.res = "ok" /\ t.seen = Len(more) /\ t.ended = FALSE
        /\ t.out = Append(o, x)
        /\ t.chain = IF KindOf(r) = "CharacterString" /\ EndsOpen(ValueOf(r))
                     THEN Opened(o, c.comment) ELSE None
    <2>1. p.value = ValueOf(r) /\ p.kind = KindOf(r)
      OBVIOUS
    <2> HIDE DEF p, o, x, a, c
    <2>2. /\ IsFits(t) /\ t.res = b.res /\ t.seen = b.seen /\ t.ended = b.ended
          /\ t.out = Append(b.out, Keyword(NameOfRecord(r), p.value, c.comment, p.kind))
          /\ t.chain = IF p.kind = "CharacterString" /\ EndsOpen(p.value)
                       THEN Opened(b.out, c.comment) ELSE b.chain
      BY <1>2, PushIs
    <2> HIDE DEF t
    <2> QED  BY <1>2, <2>1, <2>2 DEF x
  <1>4. Agrees(o, recs, FALSE) /\ AreKeywords(o)
    BY FitsCloses
  <1>5. /\ ~ Folded(more, Len(more)) /\ a = (IF r.form = "quoted" THEN Text(r) ELSE None)
        /\ ~ Long(more) /\ Text(r) # None
    BY FoldsWhere, TextIs
  <1>6. /\ x.name = NameOfRecord(r) /\ x.value = ValueOf(r) /\ x.kind = KindOf(r) /\ IsKeyword(x)
    BY DEF Keyword, IsKeyword
  <1>7. c.comment \in Option(Comments)
    BY CardIs
  <1>8. IsList(o)
    BY <1>4 DEF Agrees
  <1> HIDE DEF t, x, o, c, p
  <1>9. Agrees(Append(o, x), more, TRUE) /\ Agrees(Append(o, x), more, FALSE)
    BY <1>4, <1>5, <1>6, AgreesGrown DEF ValueOf, KindOf
  <1>10. AreKeywords(Append(o, x))
    <2>1. /\ Len(o) \in Nat /\ Len(Append(o, x)) = Len(o) + 1
          /\ Append(o, x)[Len(o) + 1] = x /\ \A k \in 1 .. Len(o) : Append(o, x)[k] = o[k]
      BY <1>8, ListAppended
    <2> SUFFICES ASSUME NEW k \in 1 .. Len(o) + 1 PROVE IsKeyword(Append(o, x)[k])
      BY <2>1 DEF AreKeywords
    <2>2. k = Len(o) + 1 \/ k \in 1 .. Len(o)
      BY <2>1
    <2> QED  BY <1>4, <1>6, <2>1, <2>2 DEF AreKeywords
  <1>11. FitsChain(more, t.out, t.chain)
    <2>1. CASE r.form = "quoted" /\ EndsOpen(Text(r))
      <3>1. t.chain = [index |-> Len(o) + 1, first_comment |-> c.comment, value |-> None, comment |-> None]
        BY <1>3, <2>1 DEF KindOf, ValueOf, Opened
      <3>2. /\ IsList(Append(o, x)) /\ Len(o) \in Nat /\ Len(Append(o, x)) = Len(o) + 1
            /\ Append(o, x)[Len(o) + 1] = x
        BY <1>8, ListAppended
      <3>3. t.chain \in [index : Nat, first_comment : Option(Comments), value : Option(Texts),
                         comment : Option(Comments)]
        BY <1>7, <3>1, <3>2 DEF Option
      <3>4. t.chain # None
        BY <3>3, NoChainAssumption
      <3>5. Opens(more)
        BY <1>5, <2>1 DEF Opens, a
      <3>6. t.chain.index = Len(Append(o, x)) /\ t.chain.value = None
        BY <3>1, <3>2
      <3>7. Append(o, x)[Len(Append(o, x))].value = a
        BY <1>5, <1>6, <2>1, <3>2 DEF ValueOf
      <3> HIDE DEF a
      <3>8. t.out = Append(o, x)
        BY <1>3
      <3> QED  BY <3>3, <3>4, <3>5, <3>6, <3>7, <3>8 DEF FitsChain, a
    <2>2. CASE ~ (r.form = "quoted" /\ EndsOpen(Text(r)))
      <3>1. t.chain = None
        BY <1>3, <2>2 DEF KindOf, ValueOf
      <3>2. ~ Opens(more)
        BY <1>5, <2>2 DEF Opens, a
      <3> QED  BY <3>1, <3>2 DEF FitsChain
    <2> QED  BY <2>1, <2>2
  <1>12. Agrees(t.out, more, t.chain # None)
    BY <1>3, <1>9
  <1> QED  BY <1>1, <1>3, <1>5, <1>10, <1>11, <1>12 DEF FitsHolds, c

\* A CONTINUE no chain takes is commentary.
LEMMA FitsOrphan ==
    ASSUME NEW recs \in Seq(LogicalRecords), NEW r \in LogicalRecords, NEW more,
           Follows(more, recs, r), NEW s, IsFits(s), s.res = "ok", s.ended = FALSE,
           s.seen = Len(more), ~ Long(recs), AreKeywords(s.out),
           Agrees(s.out, recs, s.chain # None), FitsChain(recs, s.out, s.chain),
           r.word = "CONTINUE", ~ Folded(more, Len(more)), NEW text,
           NEW t, t = CloseChainOf([s EXCEPT !.out =
                                      Append(@, Keyword("CONTINUE", <<>>, text, "Commentary"))])
    PROVE  FitsHolds(more, t)
  <1> DEFINE x == Keyword("CONTINUE", <<>>, text, "Commentary")
             u == [s EXCEPT !.out = Append(@, x)]
             o == ClosedOut(s.out, s.chain)
  <1>1. /\ IsFits(u) /\ u.res = "ok" /\ u.seen = Len(more) /\ u.ended = FALSE
        /\ u.out = Append(s.out, x) /\ u.chain = s.chain
    BY DEF IsFits
  <1>2. /\ x.name = "CONTINUE" /\ x.value = <<>> /\ x.kind = "Commentary" /\ IsKeyword(x)
    BY DEF Keyword, IsKeyword
  <1>3. t = CloseChainOf(u)
    OBVIOUS
  <1> HIDE DEF u, x
  <1>4. /\ IsFits(t) /\ t.res = "ok" /\ t.seen = Len(more) /\ t.ended = FALSE
        /\ t.out = ClosedOut(u.out, u.chain) /\ t.chain = None
    BY <1>1, <1>3, CloseIs
  <1>5. Agrees(o, recs, FALSE) /\ AreKeywords(o)
    BY FitsCloses
  <1>6. IsList(s.out) /\ IsList(o)
    BY <1>5 DEF Agrees
  <1>7. s.chain # None => s.chain.index \in 1 .. Len(s.out)
    <2> SUFFICES ASSUME s.chain # None PROVE s.chain.index \in 1 .. Len(s.out)
      OBVIOUS
    <2>1. s.chain.index = Len(s.out) /\ Assembled(recs, Len(recs)) # None
      BY DEF FitsChain, Opens
    <2>2. Len(s.out) = Len(Heads(recs)) /\ Len(recs) > 0
      BY <2>1, HeadIsString DEF Agrees
    <2> QED  BY <2>1, <2>2, OpenLast
  <1>8. t.out = Append(o, x)
    <2>1. ClosedOut(Append(s.out, x), s.chain) = Append(ClosedOut(s.out, s.chain), x)
      BY <1>2, <1>6, <1>7, ClosedAppended
    <2> QED  BY <1>1, <1>4, <2>1
  <1>9. ~ Long(more) /\ ~ Opens(more)
    BY FoldsWhere DEF Opens
  <1>10. NameOfRecord(r) = "CONTINUE"
    BY DEF NameOfRecord
  <1> HIDE DEF o
  <1>11. Agrees(Append(o, x), more, FALSE)
    BY <1>2, <1>5, <1>10, AgreesGrown
  <1>12. AreKeywords(Append(o, x))
    <2>1. /\ Len(o) \in Nat /\ Len(Append(o, x)) = Len(o) + 1
          /\ Append(o, x)[Len(o) + 1] = x /\ \A k \in 1 .. Len(o) : Append(o, x)[k] = o[k]
      BY <1>6, ListAppended
    <2> SUFFICES ASSUME NEW k \in 1 .. Len(o) + 1 PROVE IsKeyword(Append(o, x)[k])
      BY <2>1 DEF AreKeywords
    <2>2. k = Len(o) + 1 \/ k \in 1 .. Len(o)
      BY <2>1
    <2> QED  BY <1>2, <1>5, <2>1, <2>2 DEF AreKeywords
  <1>13. FitsChain(more, t.out, t.chain) /\ Agrees(t.out, more, t.chain # None)
    BY <1>4, <1>8, <1>9, <1>11 DEF FitsChain
  <1> QED  BY <1>4, <1>8, <1>9, <1>12, <1>13 DEF FitsHolds

\* A chain with a continuation folded in.
FitsChains == [index : Nat, first_comment : Option(Comments), value : Option(Texts),
               comment : Option(Comments)]
Continued(c, value, comment) == [[c EXCEPT !.value = value] EXCEPT !.comment = comment]
Longer(s, value, comment) == [s EXCEPT !.chain.value = value, !.chain.comment = comment]

LEMMA ContinuedIs ==
    ASSUME NEW c \in FitsChains, NEW value \in Texts, NEW comment \in Option(Comments)
    PROVE  LET d == Continued(c, value, comment) IN
           d \in FitsChains /\ d.index = c.index /\ d.value = value
  <1>1. value \in Option(Texts)
    BY DEF Option
  <1>2. [c EXCEPT !.value = value] \in FitsChains
    BY <1>1 DEF FitsChains
  <1> QED  BY <1>2 DEF Continued, FitsChains

LEMMA LongerIs ==
    ASSUME NEW s, IsFits(s), s.chain \in FitsChains, NEW value, NEW comment, NEW t,
           t = Longer(s, value, comment)
    PROVE  /\ IsFits(t) /\ t.res = s.res /\ t.seen = s.seen /\ t.ended = s.ended
           /\ t.out = s.out /\ t.chain = Continued(s.chain, value, comment)
  BY DEF IsFits, Longer, Continued

\* A continuation, taken.
LEMMA FitsFolded ==
    ASSUME NEW recs \in Seq(LogicalRecords), NEW r \in LogicalRecords, NEW more,
           Follows(more, recs, r), NEW s, IsFits(s), s.res = "ok", s.ended = FALSE,
           s.seen = Len(more), ~ Long(recs), AreKeywords(s.out),
           Agrees(s.out, recs, s.chain # None), FitsChain(recs, s.out, s.chain),
           Folded(more, Len(more))
    PROVE  FitsHolds(more, FoldContinue(ValueBytes, s, CardOf(r)))
  <1> DEFINE c == CardOf(r)
             a == Assembled(recs, Len(recs))
             b == Assembled(more, Len(more))
             sofar == IF s.chain.value = None THEN s.out[s.chain.index].value ELSE s.chain.value
             value == Front(sofar) \o Text(r)
             t == Longer(s, value, c.comment)
             u == CloseChainOf(t)
             f == FoldContinue(ValueBytes, s, c)
  <1>1. /\ r.word = "CONTINUE" /\ r.form = "quoted" /\ Opens(recs) /\ EndsOpen(a)
        /\ b = Front(a) \o Text(r) /\ b \in Texts /\ b # None
        /\ Long(more) <=> Len(b) > ValueBytes
    BY FoldsWhere
  <1>2. /\ s.chain # None /\ s.chain \in FitsChains /\ s.chain.index = Len(s.out) /\ sofar = a
    BY <1>1 DEF FitsChain, FitsChains
  <1>3. /\ ParseQuoted(c.value) = Text(r) /\ Text(r) # None /\ c.value.ascii
        /\ c.comment \in Option(Comments)
    BY <1>1, CardIs, TextIs
  <1>4. Continuable(s.chain)
    <2>1. s.chain.value # None => s.chain.value = a
      BY <1>2 DEF FitsChain
    <2> HIDE DEF a
    <2> QED  BY <1>1, <1>2, <2>1 DEF Continuable
  <1>5. value = b
    BY <1>1, <1>2
  <1>6. f = IF Len(value) > ValueBytes THEN Stops(s, "LimitExceeded")
            ELSE IF EndsOpen(value) THEN t ELSE u
    <2>1. f = IF ParseQuoted(c.value) = None \/ ~ Continuable(s.chain)
              THEN CloseChainOf([s EXCEPT !.out =
                               Append(@, Keyword("CONTINUE", <<>>, c.text, "Commentary"))])
              ELSE IF ~ c.value.ascii THEN Stops(s, "Malformed")
              ELSE IF Len(Front(sofar) \o ParseQuoted(c.value)) > ValueBytes
              THEN Stops(s, "LimitExceeded")
              ELSE IF EndsOpen(Front(sofar) \o ParseQuoted(c.value))
              THEN Longer(s, Front(sofar) \o ParseQuoted(c.value), c.comment)
              ELSE CloseChainOf(Longer(s, Front(sofar) \o ParseQuoted(c.value), c.comment))
      BY Zenon DEF FoldContinue, Longer
    <2> HIDE DEF f, c, sofar
    <2> QED  BY <1>3, <1>4, <2>1, Zenon
  <1> HIDE DEF f, sofar, value
  <1>7. CASE Len(b) > ValueBytes
    <2>1. f = Stops(s, "LimitExceeded") /\ Long(more)
      BY <1>1, <1>5, <1>6, <1>7
    <2>2. IsFits(f) /\ f.res = "LimitExceeded"
      BY <2>1 DEF Stops, IsFits
    <2> QED  BY <2>1, <2>2 DEF FitsHolds, f, c
  <1>8. CASE ~ Len(b) > ValueBytes
    <2>1. f = (IF EndsOpen(b) THEN t ELSE u) /\ ~ Long(more)
      BY <1>1, <1>5, <1>6, <1>8
    <2>2. /\ IsFits(t) /\ t.res = "ok" /\ t.seen = Len(more) /\ t.ended = FALSE
          /\ t.out = s.out /\ t.chain = Continued(s.chain, value, c.comment)
      BY <1>2, LongerIs
    <2>3. t.chain \in FitsChains /\ t.chain.index = Len(s.out) /\ t.chain.value = b
      BY <1>1, <1>2, <1>3, <1>5, <2>2, ContinuedIs
    <2>4. t.chain # None
      BY <2>3, NoChainAssumption DEF FitsChains
    <2> HIDE DEF c, a, b, t
    <2>5. Agrees(s.out, recs, TRUE) /\ IsList(s.out)
      BY <1>2 DEF Agrees
    <2>6. CASE EndsOpen(b)
      <3>1. f = t /\ Opens(more)
        BY <1>1, <2>1, <2>6 DEF Opens, b
      <3>2. Agrees(s.out, more, TRUE)
        BY <2>5, AgreesFolded
      <3>3. FitsChain(more, s.out, t.chain)
        BY <1>1, <2>3, <2>4, <3>1 DEF FitsChain, FitsChains, b
      <3> QED  BY <2>1, <2>2, <2>4, <3>1, <3>2, <3>3 DEF FitsHolds, f, c
    <2>7. CASE ~ EndsOpen(b)
      <3>1. f = u /\ ~ Opens(more)
        BY <2>1, <2>7 DEF Opens, b
      <3>2. /\ IsFits(u) /\ u.res = "ok" /\ u.seen = Len(more) /\ u.ended = FALSE
            /\ u.out = ClosedOut(s.out, t.chain) /\ u.chain = None
        BY <2>2, CloseIs
      <3>3. t.chain.index \in 1 .. Len(s.out)
        <4>1. Len(s.out) = Len(Heads(recs)) /\ Len(recs) > 0
          BY <1>1, HeadIsString DEF Agrees, Opens
        <4> QED  BY <2>3, <4>1, OpenLast
      <3> DEFINE g == ClosedOut(s.out, t.chain)
                 d == t.chain
      <3>4. d # None /\ d.value # None /\ d.index \in 1 .. Len(s.out) /\ d.index = Len(s.out) /\ d.value = b
        BY <1>1, <2>3, <2>4, <3>3
      <3> HIDE DEF d
      <3>5. /\ IsList(g) /\ Len(g) = Len(s.out) /\ AreKeywords(g) /\ g[Len(s.out)].value = b
            /\ g[Len(s.out)].name = s.out[Len(s.out)].name /\ g[Len(s.out)].kind = s.out[Len(s.out)].kind
            /\ \A k \in 1 .. Len(s.out) : k # Len(s.out) => g[k] = s.out[k]
        BY <2>5, <3>4, ClosedOutIs DEF d
      <3> HIDE DEF g, u
      <3>6. Agrees(g, more, FALSE)
        BY <2>5, <3>5, AgreesFolded DEF b
      <3>7. u.out = g /\ (u.chain # None) = FALSE
        BY <3>2 DEF g
      <3>8. FitsChain(more, u.out, u.chain)
        BY <3>1, <3>2 DEF FitsChain
      <3> QED  BY <2>1, <3>1, <3>2, <3>5, <3>6, <3>7, <3>8 DEF FitsHolds, f, c
    <2> QED  BY <2>6, <2>7
  <1> QED  BY <1>7, <1>8

\* A card read.
LEMMA FitsReads ==
    ASSUME NEW recs \in Seq(LogicalRecords), NEW r \in LogicalRecords, NEW more,
           Follows(more, recs, r), Len(recs) < MaxRecords, NEW s, FitsHolds(recs, s)
    PROVE  FitsHolds(more, FoldCard(CardCap, ValueBytes, s, CardOf(r)))
  <1> DEFINE c == CardOf(r)
             n == Tallied(s)
             f == FoldCard(CardCap, ValueBytes, s, c)
  <1>1. IsFits(s) /\ s.res \in {"ok", "LimitExceeded"} /\ (s.res = "ok" <=> ~ Long(recs))
    BY DEF FitsHolds
  <1>2. f = IF s.res # "ok" \/ s.ended THEN s
            ELSE IF n.seen > CardCap THEN Stops(s, "LimitExceeded")
            ELSE IF c.word = "END" THEN [n EXCEPT !.ended = TRUE]
            ELSE IF c.word = "CONTINUE" THEN FoldContinue(ValueBytes, n, c)
            ELSE FoldOther(n, c)
    BY Zenon DEF FoldCard, Tallied
  <1>3. c.word = r.word /\ c.word # "END" /\ c.comment \in Option(Comments)
        /\ ParseQuoted(c.value) = IF r.form = "quoted" THEN Text(r) ELSE None
    BY CardIs
  <1> HIDE DEF f, c
  <1>4. CASE s.res # "ok"
    <2>1. f = s
      BY <1>2, <1>4
    <2>2. Long(more) /\ s.res = "LimitExceeded"
      BY <1>1, <1>4, FoldsWhere
    <2> QED  BY <1>1, <2>1, <2>2 DEF FitsHolds, f, c
  <1>5. CASE s.res = "ok"
    <2>1. /\ s.seen = Len(recs) /\ s.ended = FALSE /\ AreKeywords(s.out) /\ ~ Long(recs)
          /\ Agrees(s.out, recs, s.chain # None) /\ FitsChain(recs, s.out, s.chain)
      BY <1>1, <1>5 DEF FitsHolds
    <2>2. Len(more) = Len(recs) + 1 /\ Len(recs) \in Nat
      BY AssembledStays
    <2>3. /\ IsFits(n) /\ n.res = "ok" /\ n.seen = Len(more) /\ n.ended = FALSE
          /\ n.out = s.out /\ n.chain = s.chain
      BY <1>1, <1>5, <2>1, <2>2, TalliedIs
    <2> HIDE DEF n
    <2>4. ~ n.seen > CardCap
      BY <2>2, <2>3, MaxRecordsAssumption DEF CardCap
    <2>5. f = IF r.word = "CONTINUE" THEN FoldContinue(ValueBytes, n, c) ELSE FoldOther(n, c)
      BY <1>2, <1>3, <1>5, <2>1, <2>4
    <2>6. /\ AreKeywords(n.out) /\ Agrees(n.out, recs, n.chain # None)
          /\ FitsChain(recs, n.out, n.chain)
      BY <2>1, <2>3
    <2>7. CASE r.word # "CONTINUE"
      BY <2>1, <2>3, <2>5, <2>6, <2>7, FitsOther DEF f, c
    <2>8. CASE r.word = "CONTINUE" /\ Folded(more, Len(more))
      BY <2>1, <2>3, <2>5, <2>6, <2>8, FitsFolded DEF f, c
    <2>9. CASE r.word = "CONTINUE" /\ ~ Folded(more, Len(more))
      <3>1. ParseQuoted(c.value) = None \/ ~ Continuable(n.chain)
        <4>1. ~ (r.form = "quoted" /\ Opens(recs))
          BY <2>9, FoldsWhere
        <4>2. ~ Opens(recs) => n.chain = None
          BY <2>6 DEF FitsChain
        <4> QED  BY <1>3, <4>1, <4>2 DEF Continuable
      <3> DEFINE t == CloseChainOf([n EXCEPT !.out =
                                 Append(@, Keyword("CONTINUE", <<>>, c.text, "Commentary"))])
      <3>2. FoldContinue(ValueBytes, n, c) = t
        BY <3>1, Zenon DEF FoldContinue
      <3>3. f = t
        BY <2>5, <2>9, <3>2
      <3>4. FitsHolds(more, t)
        BY <2>1, <2>3, <2>6, <2>9, FitsOrphan
      <3> QED  BY <3>3, <3>4 DEF f, c
    <2> QED  BY <2>7, <2>8, <2>9
  <1> QED  BY <1>4, <1>5

\* The END card: the list is the standard's.
LEMMA FitsEnds ==
    ASSUME NEW recs \in Seq(LogicalRecords), Len(recs) <= MaxRecords, NEW s, FitsHolds(recs, s),
           NEW f, f = FoldCardsEnd(FoldCard(CardCap, ValueBytes, s, EndCard))
    PROVE  /\ f.res = s.res /\ (f.res = "ok" => Outlined(f.out) = Standard(recs))
  <1> DEFINE n == Tallied(s)
             e == [n EXCEPT !.ended = TRUE]
             t == FoldCard(CardCap, ValueBytes, s, EndCard)
  <1>1. IsFits(s) /\ s.res \in {"ok", "LimitExceeded"} /\ (s.res = "ok" <=> ~ Long(recs))
    BY DEF FitsHolds
  <1>2. t = IF s.res # "ok" \/ s.ended THEN s
            ELSE IF n.seen > CardCap THEN Stops(s, "LimitExceeded") ELSE e
    <2>1. EndCard.word = "END"
      BY DEF EndCard
    <2> QED  BY <2>1, Zenon DEF FoldCard, Tallied
  <1>3. f = IF t.res # "ok" THEN t ELSE IF ~ t.ended THEN Stops(CloseChainOf(t), "Malformed")
            ELSE CloseChainOf(t)
    BY Zenon DEF FoldCardsEnd
  <1> HIDE DEF t
  <1>4. CASE s.res # "ok"
    BY <1>2, <1>3, <1>4
  <1>5. CASE s.res = "ok"
    <2>1. /\ s.seen = Len(recs) /\ s.ended = FALSE /\ AreKeywords(s.out)
          /\ Agrees(s.out, recs, s.chain # None) /\ FitsChain(recs, s.out, s.chain)
      BY <1>1, <1>5 DEF FitsHolds
    <2>2. Len(recs) \in Nat
      OBVIOUS
    <2>3. /\ IsFits(n) /\ n.res = "ok" /\ n.seen = Len(recs) + 1 /\ n.out = s.out /\ n.chain = s.chain
      BY <1>1, <1>5, <2>1, <2>2, TalliedIs
    <2> HIDE DEF n
    <2>4. IsFits(e) /\ e.res = "ok" /\ e.ended = TRUE /\ e.out = s.out /\ e.chain = s.chain
      BY <2>3 DEF IsFits
    <2>5. t = e
      BY <1>2, <1>5, <2>1, <2>2, <2>3, MaxRecordsAssumption DEF CardCap
    <2> HIDE DEF e
    <2>6. f = CloseChainOf(e)
      BY <1>3, <2>4, <2>5
    <2>7. f.res = "ok" /\ f.out = ClosedOut(s.out, s.chain)
      BY <2>4, <2>6, CloseIs
    <2>8. Agrees(ClosedOut(s.out, s.chain), recs, FALSE)
      BY <2>1, FitsCloses
    <2> QED  BY <1>5, <2>7, <2>8, AgreesInFull
  <1> QED  BY <1>4, <1>5

-----------------------------------------------------------------------------
(* The fold over records.                                                  *)

\* The elements a writer makes of the records, others after them or not.
Spells(raw, recs) == \A i \in 1 .. Len(recs) : raw[i] = ElementOf(recs[i], i)

LEMMA ElementIs ==
    ASSUME NEW r \in LogicalRecords, NEW i
    PROVE  LET e == ElementOf(r, i)
               x == ReadRecord(e)
               o == Orphan(e) IN
           /\ e.name.word = r.word /\ e.value.form = r.form /\ e.value.content = r.content
           /\ e.comment = r.comment /\ r.comment \in Comments /\ ~ Referenced(e)
           /\ x.name = NameOfRecord(r) /\ x.kind = KindOf(r) /\ x.value = ValueOf(r) /\ IsKeyword(x)
           /\ o.name = "CONTINUE" /\ o.kind = "Commentary" /\ o.value = <<>> /\ IsKeyword(o)
  <1> DEFINE e == ElementOf(r, i)
  <1>1. /\ e.name.word = r.word /\ e.name.rest = None /\ e.value.form = r.form
        /\ e.value.content = r.content /\ e.value.named = r.words /\ e.comment = r.comment
        /\ e.origin = "Direct"
    BY DEF ElementOf
  <1> HIDE DEF e
  <1>2. ReadRecord(e).name = Hierarch(e) /\ Hierarch(e) = NameOfRecord(r)
    BY <1>1 DEF ReadRecord, Hierarch, NameOfRecord
  <1>3. r.form = "quoted" => Unquote(r.content) = Text(r)
    BY TextIs
  <1>4. ReadRecord(e).kind = KindOf(r) /\ ReadRecord(e).value = ValueOf(r)
    BY <1>1, <1>3 DEF ReadRecord, KindOf, ValueOf
  <1>5. IsKeyword(ReadRecord(e)) /\ IsKeyword(Orphan(e))
    BY DEF IsKeyword, ReadRecord, Orphan
  <1>6. Orphan(e).name = "CONTINUE" /\ Orphan(e).kind = "Commentary" /\ Orphan(e).value = <<>>
    BY DEF Orphan
  <1>7. ~ Referenced(e) /\ r.comment \in Comments
    BY <1>1 DEF Referenced, Comments
  <1> QED  BY <1>1, <1>2, <1>4, <1>5, <1>6, <1>7 DEF e

\* What closing a chain builds is the text its records assemble.
TakeStep(raw, text, i) == Front(text) \o Unquote(raw[i].value.content)
TakeClaim(e, k, text) == text = Assembled(e.recs, e.opener + k)
Takes == INSTANCE Folding WITH Step <- TakeStep, Claim <- TakeClaim

Taken(raw, base, i, l) ==
    FoldLeft(LAMBDA text, k : Front(text) \o Unquote(raw[k].value.content), base,
             [k \in 1 .. l - i |-> i + k])

LEMMA TakesAll ==
    ASSUME NEW recs \in Seq(LogicalRecords), NEW raw, Spells(raw, recs), NEW i \in 1 .. Len(recs),
           NEW l \in i .. Len(recs), \A k \in i + 1 .. l : Folded(recs, k)
    PROVE  Taken(raw, Assembled(recs, i), i, l) = Assembled(recs, l)
  <1> DEFINE n == l - i
             seq == [k \in 1 .. n |-> i + k]
             e == [recs |-> recs, opener |-> i]
             base == Assembled(recs, i)
  <1>1. n \in Nat /\ DOMAIN seq = 1 .. n /\ i + n = l /\ i + 0 = i /\ Len(recs) \in Nat
    OBVIOUS
  <1>2. e.recs = recs /\ e.opener = i
    OBVIOUS
  <1> HIDE DEF e
  <1>3. TakeClaim(e, 0, base)
    BY <1>1, <1>2 DEF TakeClaim
  <1>4. ASSUME NEW k \in 1 .. n, NEW text, TakeClaim(e, k - 1, text)
        PROVE  TakeClaim(e, k, TakeStep(raw, text, seq[k]))
    <2> DEFINE j == i + k
    <2>1. seq[k] = j /\ j \in i + 1 .. l /\ j \in 1 .. Len(recs) /\ j - 1 = i + (k - 1)
          /\ j - 1 \in 0 .. Len(recs) /\ j \in 0 .. Len(recs)
      BY <1>1
    <2>2. Folded(recs, j) /\ raw[j] = ElementOf(recs[j], j) /\ recs[j] \in LogicalRecords
      BY <2>1 DEF Spells
    <2>3. Assembled(recs, j) = Joined(Assembled(recs, j - 1), recs[j])
      BY <2>1, AssembledNext
    <2>4. Assembled(recs, j - 1) \in Option(Texts)
      BY <2>1, AssembledText
    <2>5. Assembled(recs, j) = Front(Assembled(recs, j - 1)) \o Text(recs[j])
      BY <2>2, <2>3, <2>4, JoinedIsText DEF Folded
    <2>6. raw[j].value.content = recs[j].content
      BY <2>2, ElementIs
    <2>7. Unquote(raw[j].value.content) = Text(recs[j])
      BY <2>2, <2>6, TextIs
    <2>8. text = Assembled(recs, j - 1)
      BY <1>2, <1>4, <2>1 DEF TakeClaim
    <2> QED  BY <1>2, <2>1, <2>5, <2>7, <2>8 DEF TakeClaim, TakeStep
  <1> HIDE DEF seq, n
  <1>5. TakeClaim(e, n, Takes!Fold(raw, base, seq))
    BY <1>1, <1>3, <1>4, Takes!FoldMaintains
  <1>6. Taken(raw, base, i, l) = Takes!Fold(raw, base, seq)
    BY Zenon DEF seq, n, Taken, TakeStep, FoldLeft, MapThenFoldSet, Max, Takes!Fold, Takes!Iterates, Takes!Largest
  <1> QED  BY <1>1, <1>2, <1>5, <1>6 DEF TakeClaim, seq, n

\* The chain of the fold, its text measured.
XisfChains == [index : Nat, opener : Nat, last : Nat, comment : Option(Comments), len : Int,
               amps : Int]

XisfChain(recs, out, c) ==
    /\ c # None <=> Opens(recs)
    /\ c # None =>
          /\ c \in XisfChains /\ c.index = Len(out) /\ c.last = Len(recs)
          /\ c.opener \in 1 .. Len(recs)
          /\ \A k \in c.opener + 1 .. Len(recs) : Folded(recs, k)
          /\ out[Len(out)].value = Assembled(recs, c.opener)
          /\ c.len = Len(Assembled(recs, Len(recs)))
          /\ c.amps = TrailingAmps(Assembled(recs, Len(recs)))

IsXisf(s) == DOMAIN s = {"res", "out", "chain", "cache"}

\* Where the fold stands when these records have been read.
XisfHolds(recs, s) ==
    /\ IsXisf(s) /\ s.res \in {"ok", "LimitExceeded"} /\ (s.res = "ok" <=> ~ Long(recs))
    /\ s.res = "ok" =>
          /\ AreKeywords(s.out) /\ Agrees(s.out, recs, s.chain # None)
          /\ XisfChain(recs, s.out, s.chain)

\* The list once a chain is closed.
Built(raw, out, c) ==
    IF c = None \/ c.last = c.opener THEN out
    ELSE Put(out, c.index, Assemble(raw, out[c.index], c))

LEMMA CloseBuilds ==
    ASSUME NEW s, IsXisf(s), NEW raw,
           s.chain # None => ~ Referenced(raw[s.chain.opener]) /\ s.chain.index \in DOMAIN s.out
    PROVE  LET t == CloseChain(raw, s) IN
           /\ IsXisf(t) /\ t.res = s.res /\ t.chain = None /\ t.out = Built(raw, s.out, s.chain)
  <1> DEFINE c == s.chain
             memo == Memoized(s.cache.chains, ChainKey(raw, c), Referenced(raw[c.opener]),
                              Assemble(raw, s.out[c.index], c))
             t == CloseChain(raw, s)
  <1>1. t = IF c = None \/ c.last = c.opener THEN [s EXCEPT !.chain = None]
            ELSE [s EXCEPT !.chain = None, !.out[c.index] = memo.value, !.cache.chains = memo.map]
    BY Zenon DEF CloseChain
  <1>2. c # None => memo.value = Assemble(raw, s.out[c.index], c)
    BY DEF Memoized
  <1> HIDE DEF memo, t
  <1>3. CASE c = None \/ c.last = c.opener
    BY <1>1, <1>3 DEF IsXisf, Built, t
  <1>4. CASE ~ (c = None \/ c.last = c.opener)
    <2>1. t = [s EXCEPT !.chain = None, !.out[c.index] = memo.value, !.cache.chains = memo.map]
      BY <1>1, <1>4
    <2>2. IsXisf(t) /\ t.res = s.res /\ t.chain = None /\ t.out = [s.out EXCEPT ![c.index] = memo.value]
      BY <2>1 DEF IsXisf
    <2> QED  BY <1>2, <1>4, <2>2 DEF Built, Put, t
  <1> QED  BY <1>3, <1>4

\* The list is the standard's once its chain is closed.
LEMMA XisfCloses ==
    ASSUME NEW recs \in Seq(LogicalRecords), NEW raw, Spells(raw, recs), NEW out, NEW c,
           AreKeywords(out), Agrees(out, recs, c # None), XisfChain(recs, out, c)
    PROVE  /\ Agrees(Built(raw, out, c), recs, FALSE) /\ AreKeywords(Built(raw, out, c))
           /\ Len(Built(raw, out, c)) = Len(out) /\ IsList(out)
           /\ c # None => c.index \in DOMAIN out /\ ~ Referenced(raw[c.opener])
  <1>1. CASE c = None
    <2>1. Built(raw, out, c) = out
      BY <1>1 DEF Built
    <2>2. Agrees(out, recs, FALSE) /\ IsList(out)
      BY <1>1 DEF Agrees
    <2> QED  BY <1>1, <2>1, <2>2
  <1>2. CASE c # None
    <2> DEFINE a == Assembled(recs, Len(recs))
               g == Built(raw, out, c)
               m == Len(out)
    <2>1. /\ a # None /\ c.index = m /\ c.last = Len(recs) /\ c.opener \in 1 .. Len(recs)
          /\ \A k \in c.opener + 1 .. Len(recs) : Folded(recs, k)
          /\ out[m].value = Assembled(recs, c.opener)
      BY <1>2 DEF XisfChain, Opens
    <2>2. Agrees(out, recs, TRUE) /\ IsList(out) /\ DOMAIN out = 1 .. m
      BY <1>2 DEF Agrees, IsList
    <2>3. m \in 1 .. m
      <3>1. m = Len(Heads(recs)) /\ Len(recs) > 0
        BY <2>1, HeadIsString DEF Agrees
      <3> QED  BY <3>1, OpenLast
    <2>4. ~ Referenced(raw[c.opener])
      <3>1. raw[c.opener] = ElementOf(recs[c.opener], c.opener) /\ recs[c.opener] \in LogicalRecords
        BY <2>1 DEF Spells
      <3> QED  BY <3>1, ElementIs
    <2>5. CASE c.last = c.opener
      <3>1. g = out
        BY <2>5 DEF Built
      <3>2. out[m].value = a
        BY <2>1, <2>5
      <3> HIDE DEF a
      <3>3. Agrees(out, recs, FALSE)
        BY <2>1, <2>2, <3>2, AgreesClosed DEF a
      <3> QED  BY <2>1, <2>2, <2>3, <2>4, <3>1, <3>3
    <2>6. CASE c.last # c.opener
      <3> DEFINE said == IF c.comment = None THEN raw[c.opener].comment ELSE c.comment
                 x == Assemble(raw, out[m], c)
                 y == Restated(out[m], a, said)
      <3>1. x = y
        <4>1. x = [out[m] EXCEPT !.value = Taken(raw, out[m].value, c.opener, c.last),
                                 !.comment = said]
          BY Zenon DEF Assemble, Taken
        <4>2. Taken(raw, out[m].value, c.opener, c.last) = a
          <5>1. Len(recs) \in c.opener .. Len(recs)
            BY <2>1
          <5>2. Taken(raw, Assembled(recs, c.opener), c.opener, Len(recs)) = a
            BY <2>1, <5>1, TakesAll
          <5> QED  BY <2>1, <5>2, Zenon
        <4> HIDE DEF said, a
        <4>3. x = [out[m] EXCEPT !.value = a, !.comment = said]
          BY <4>1, <4>2, Zenon
        <4> QED  BY <4>3, Zenon DEF Restated
      <3>2. IsKeyword(out[m])
        BY <2>3 DEF AreKeywords
      <3> HIDE DEF said, a
      <3>3. IsKeyword(y) /\ y.value = a /\ y.name = out[m].name /\ y.kind = out[m].kind
        BY <3>2, RestatedIs
      <3> HIDE DEF x, y
      <3>4. g = Put(out, m, y)
        BY <1>2, <2>1, <2>6, <3>1 DEF Built, x
      <3> HIDE DEF g
      <3>5. /\ IsList(g) /\ Len(g) = m /\ g[m] = y
            /\ \A k \in 1 .. m : k # m => g[k] = out[k]
        <4>1. IsList(out) /\ m \in 1 .. Len(out) /\ g = Put(out, m, y) /\ m = Len(out)
          BY <2>2, <2>3, <3>4
        <4> HIDE DEF m
        <4>2. /\ IsList(g) /\ Len(g) = Len(out) /\ g[m] = y
              /\ \A k \in 1 .. Len(out) : k # m => g[k] = out[k]
          BY <4>1, ListReplaced
        <4> QED  BY <4>1, <4>2
      <3>6. AreKeywords(g)
        BY <3>3, <3>5 DEF AreKeywords
      <3>7. Agrees(g, recs, FALSE)
        BY <2>1, <2>2, <3>3, <3>5, AgreesClosed DEF a
      <3> QED  BY <2>1, <2>2, <2>3, <2>4, <3>5, <3>6, <3>7 DEF g
    <2> QED  BY <2>5, <2>6
  <1> QED  BY <1>1, <1>2

\* A chain with a record folded in.
LEMMA GrownIs ==
    ASSUME NEW c \in XisfChains, NEW r \in LogicalRecords, NEW i \in Nat, NEW a \in Texts,
           EndsOpen(a), c.len = Len(a), c.amps = TrailingAmps(a)
    PROVE  LET d == Grow(c, ElementOf(r, i), i)
               b == Front(a) \o Text(r)
           IN  /\ d \in XisfChains /\ d.index = c.index /\ d.opener = c.opener /\ d.last = i
               /\ d.len = Len(b) /\ d.amps = TrailingAmps(b)
  <1> DEFINE e == ElementOf(r, i)
             b == Front(a) \o Text(r)
             t == Text(r)
             shape == UnquotedShape(e.value.content)
             len == c.len - 1 + shape.len
             amps == IF shape.len = shape.amps THEN c.amps - 1 + shape.len ELSE shape.amps
             said == IF e.comment = "" THEN c.comment ELSE e.comment
             d == Grow(c, e, i)
  <1>1. e.value.content = r.content /\ e.comment = r.comment /\ r.comment \in Comments
    BY ElementIs
  <1> HIDE DEF e
  <1>2. shape.len = Len(t) /\ shape.amps = TrailingAmps(t) /\ t \in Texts
    <2>1. shape = UnquotedShape(r.content)
      BY <1>1, Zenon
    <2>2. UnquotedShape(r.content) = [len |-> Len(t), amps |-> TrailingAmps(t)] /\ t \in Texts
      BY TextIs
    <2> HIDE DEF shape, t
    <2> QED  BY <2>1, <2>2
  <1> HIDE DEF shape, t
  <1>3. Len(b) = c.len - 1 + Len(t) /\ b \in Texts
        /\ TrailingAmps(b) = IF Len(t) = TrailingAmps(t) THEN c.amps - 1 + Len(t) ELSE TrailingAmps(t)
    BY <1>2, JoinedText DEF t
  <1> HIDE DEF b
  <1>4. len = Len(b) /\ amps = TrailingAmps(b) /\ len \in Int /\ amps \in Int
    BY <1>2, <1>3, TextCounts
  <1>5. said \in Option(Comments)
    BY <1>1 DEF XisfChains, Option
  <1>6. d = [c EXCEPT !.len = len, !.amps = amps, !.last = i, !.comment = said]
    BY Zenon DEF Grow, shape
  <1> HIDE DEF len, amps, said, d
  <1>7. /\ d \in XisfChains /\ d.index = c.index /\ d.opener = c.opener /\ d.last = i
        /\ d.len = len /\ d.amps = amps
    BY <1>4, <1>5, <1>6 DEF XisfChains
  <1> QED  BY <1>4, <1>7 DEF d, e, b, t

\* A record more, in the fold's state.
Pushed(s, x, keywords, chain) ==
    [s EXCEPT !.out = Append(@, x), !.cache.keywords = keywords, !.chain = chain]
Began(out, i, text) ==
    [index |-> Len(out) + 1, opener |-> i, last |-> i, comment |-> None, len |-> Len(text),
     amps |-> TrailingAmps(text)]

LEMMA AreMoreKeywords ==
    ASSUME NEW out, IsList(out), AreKeywords(out), NEW x, IsKeyword(x)
    PROVE  AreKeywords(Append(out, x))
  <1>1. /\ Len(out) \in Nat /\ Len(Append(out, x)) = Len(out) + 1
        /\ Append(out, x)[Len(out) + 1] = x /\ \A k \in 1 .. Len(out) : Append(out, x)[k] = out[k]
    BY ListAppended
  <1> SUFFICES ASSUME NEW k \in 1 .. Len(out) + 1 PROVE IsKeyword(Append(out, x)[k])
    BY <1>1 DEF AreKeywords
  <1>2. k = Len(out) + 1 \/ k \in 1 .. Len(out)
    BY <1>1
  <1> QED  BY <1>1, <1>2 DEF AreKeywords

\* A record no chain takes closes it.
LEMMA XisfOther ==
    ASSUME NEW recs \in Seq(LogicalRecords), NEW r \in LogicalRecords, NEW more,
           Follows(more, recs, r), NEW raw, Spells(raw, recs), NEW i, i = Len(more),
           raw[i] = ElementOf(r, i), NEW s, XisfHolds(recs, s), s.res = "ok",
           r.word # "CONTINUE"
    PROVE  XisfHolds(more, FoldRecord(raw, ValueBytes, s, i))
  <1> DEFINE e == raw[i]
             f == FoldRecord(raw, ValueBytes, s, i)
             x == ReadRecord(e)
             b == CloseChain(raw, s)
             o == Built(raw, s.out, s.chain)
             opens == x.kind = "CharacterString" /\ TrailingAmps(x.value) > 0
             chain == IF ~ opens THEN None ELSE Began(s.out, i, x.value)
             plain == Memoized(s.cache.keywords, e.node, Referenced(e), x)
             u == Pushed(b, x, plain.map, chain)
             a == Assembled(more, Len(more))
  <1>1. /\ AreKeywords(s.out) /\ Agrees(s.out, recs, s.chain # None) /\ ~ Long(recs)
        /\ XisfChain(recs, s.out, s.chain) /\ IsXisf(s)
    BY DEF XisfHolds
  <1>2. /\ e.name.word = r.word /\ ~ Referenced(e) /\ x.name = NameOfRecord(r) /\ x.kind = KindOf(r)
        /\ x.value = ValueOf(r) /\ IsKeyword(x)
    BY ElementIs
  <1>3. plain.value = x
    BY <1>2 DEF Memoized
  <1>4. f = u
    <2>1. ~ Continues(s, e) /\ e.name.word # "CONTINUE"
      BY <1>2 DEF Continues
    <2>2. f = IF s.res # "ok" THEN s
              ELSE IF Continues(s, e)
              THEN IF Grow(s.chain, e, i).len > ValueBytes THEN [s EXCEPT !.res = "LimitExceeded"]
                   ELSE IF Grow(s.chain, e, i).amps = 0
                   THEN CloseChain(raw, [s EXCEPT !.chain = Grow(s.chain, e, i)])
                   ELSE [s EXCEPT !.chain = Grow(s.chain, e, i)]
              ELSE IF e.name.word = "CONTINUE"
              THEN [b EXCEPT
                 !.out = Append(@, Memoized(s.cache.keywords, e.node, Referenced(e), Orphan(e)).value),
                 !.cache.keywords = Memoized(s.cache.keywords, e.node, Referenced(e), Orphan(e)).map]
              ELSE Pushed(b, plain.value, plain.map,
                          IF ~ (plain.value.kind = "CharacterString" /\ TrailingAmps(plain.value.value) > 0)
                          THEN None ELSE Began(s.out, i, plain.value.value))
      BY Zenon DEF FoldRecord, Pushed, Began
    <2> HIDE DEF f, b, x, plain, e
    <2> QED  BY <1>3, <2>1, <2>2, Zenon
  <1>5. /\ IsXisf(b) /\ b.res = "ok" /\ b.chain = None /\ b.out = o /\ IsList(s.out)
        /\ Agrees(o, recs, FALSE) /\ AreKeywords(o) /\ Len(o) = Len(s.out)
    <2>1. /\ Agrees(o, recs, FALSE) /\ AreKeywords(o) /\ Len(o) = Len(s.out) /\ IsList(s.out)
          /\ s.chain # None => s.chain.index \in DOMAIN s.out /\ ~ Referenced(raw[s.chain.opener])
      <3>1. recs \in Seq(LogicalRecords) /\ Spells(raw, recs)
        OBVIOUS
      <3> DEFINE c == s.chain
                 y == s.out
      <3>2. AreKeywords(y) /\ Agrees(y, recs, c # None) /\ XisfChain(recs, y, c)
        BY <1>1
      <3> HIDE DEF c, y
      <3>3. /\ Agrees(Built(raw, y, c), recs, FALSE) /\ AreKeywords(Built(raw, y, c))
            /\ Len(Built(raw, y, c)) = Len(y) /\ IsList(y)
            /\ c # None => c.index \in DOMAIN y /\ ~ Referenced(raw[c.opener])
        BY ONLY <3>1, <3>2, XisfCloses
      <3> QED  BY <3>3 DEF c, y
    <2> HIDE DEF o
    <2> QED  BY <1>1, <2>1, CloseBuilds DEF o
  <1> HIDE DEF x, o, b, plain, f
  <1>6. IsXisf(u) /\ u.res = "ok" /\ u.out = Append(o, x) /\ u.chain = chain
    BY <1>5 DEF Pushed, IsXisf
  <1>7. /\ ~ Folded(more, Len(more)) /\ a = (IF r.form = "quoted" THEN Text(r) ELSE None)
        /\ ~ Long(more) /\ Text(r) # None /\ Text(r) \in Texts
    BY <1>1, FoldsWhere, TextIs
  <1>8. Len(more) = Len(recs) + 1 /\ Len(recs) \in Nat
    BY AssembledStays
  <1> HIDE DEF u, e, a
  <1>9. Agrees(Append(o, x), more, TRUE) /\ Agrees(Append(o, x), more, FALSE)
    BY <1>2, <1>5, <1>7, AgreesGrown DEF ValueOf, KindOf
  <1>10. AreKeywords(Append(o, x))
    BY <1>2, <1>5, AreMoreKeywords DEF Agrees
  <1>11. XisfChain(more, u.out, u.chain)
    <2>1. CASE r.form = "quoted" /\ EndsOpen(Text(r))
      <3>1. chain = Began(s.out, i, Text(r))
        BY <1>2, <2>1 DEF KindOf, ValueOf, EndsOpen
      <3>2. /\ IsList(Append(o, x)) /\ Len(o) \in Nat /\ Len(Append(o, x)) = Len(o) + 1
            /\ Append(o, x)[Len(o) + 1] = x
        BY <1>5, ListAppended DEF Agrees
      <3>3. Len(Text(r)) \in Nat /\ TrailingAmps(Text(r)) \in Nat
        BY <1>7, TextCounts
      <3> DEFINE c == Began(s.out, i, Text(r))
      <3>4. /\ c \in XisfChains /\ c.index = Len(o) + 1 /\ c.opener = i /\ c.last = i
            /\ c.len = Len(Text(r)) /\ c.amps = TrailingAmps(Text(r))
        BY <1>5, <1>8, <3>2, <3>3 DEF Began, XisfChains, Option
      <3> HIDE DEF c
      <3>5. c # None
        BY <3>4, NoChainAssumption DEF XisfChains
      <3>6. a = Text(r) /\ Opens(more)
        BY <1>7, <2>1 DEF Opens, a
      <3>7. x.value = a
        BY <1>2, <2>1, <3>6 DEF ValueOf
      <3>8. u.chain = c /\ u.out = Append(o, x)
        BY <1>6, <3>1 DEF c
      <3>9. /\ c.opener \in 1 .. Len(more)
            /\ \A k \in c.opener + 1 .. Len(more) : Folded(more, k)
        BY <1>8, <3>4
      <3>10. u.out[Len(u.out)].value = Assembled(more, c.opener)
        BY <3>2, <3>4, <3>7, <3>8 DEF a
      <3> QED  BY <3>2, <3>4, <3>5, <3>6, <3>8, <3>9, <3>10 DEF XisfChain, a
    <2>2. CASE ~ (r.form = "quoted" /\ EndsOpen(Text(r)))
      <3>1. chain = None
        BY <1>2, <2>2 DEF KindOf, ValueOf, EndsOpen
      <3>2. ~ Opens(more)
        BY <1>7, <2>2 DEF Opens, a
      <3> QED  BY <1>6, <3>1, <3>2 DEF XisfChain
    <2> QED  BY <2>1, <2>2
  <1>12. Agrees(u.out, more, u.chain # None)
    BY <1>6, <1>9
  <1> QED  BY <1>4, <1>6, <1>7, <1>10, <1>11, <1>12 DEF XisfHolds, f

\* A CONTINUE no chain takes is commentary.
LEMMA XisfOrphan ==
    ASSUME NEW recs \in Seq(LogicalRecords), NEW r \in LogicalRecords, NEW more,
           Follows(more, recs, r), NEW raw, Spells(raw, recs), NEW i, i = Len(more),
           raw[i] = ElementOf(r, i), NEW s, XisfHolds(recs, s), s.res = "ok",
           r.word = "CONTINUE", ~ Folded(more, Len(more))
    PROVE  XisfHolds(more, FoldRecord(raw, ValueBytes, s, i))
  <1> DEFINE e == raw[i]
             f == FoldRecord(raw, ValueBytes, s, i)
             x == Orphan(e)
             b == CloseChain(raw, s)
             o == Built(raw, s.out, s.chain)
             orphan == Memoized(s.cache.keywords, e.node, Referenced(e), x)
             u == [b EXCEPT !.out = Append(@, x), !.cache.keywords = orphan.map]
  <1>1. /\ AreKeywords(s.out) /\ Agrees(s.out, recs, s.chain # None) /\ ~ Long(recs)
        /\ XisfChain(recs, s.out, s.chain) /\ IsXisf(s)
    BY DEF XisfHolds
  <1>2. /\ e.name.word = r.word /\ e.value.form = r.form /\ ~ Referenced(e)
        /\ x.name = "CONTINUE" /\ x.kind = "Commentary" /\ x.value = <<>> /\ IsKeyword(x)
    BY ElementIs
  <1>3. orphan.value = x
    BY <1>2 DEF Memoized
  <1>4. f = u
    <2>1. ~ Continues(s, e) /\ e.name.word = "CONTINUE"
      <3>1. ~ (r.form = "quoted" /\ Opens(recs))
        BY FoldsWhere
      <3> QED  BY <1>1, <1>2, <3>1 DEF Continues, XisfChain
    <2>2. s.res = "ok" /\ ~ Continues(s, e) /\ e.name.word = "CONTINUE"
            => f = [b EXCEPT !.out = Append(@, orphan.value), !.cache.keywords = orphan.map]
      BY Zenon DEF FoldRecord
    <2> HIDE DEF f, b, x, orphan, e
    <2> QED  BY <1>3, <2>1, <2>2, Zenon
  <1>5. /\ IsXisf(b) /\ b.res = "ok" /\ b.chain = None /\ b.out = o
        /\ Agrees(o, recs, FALSE) /\ AreKeywords(o)
    <2>1. /\ Agrees(o, recs, FALSE) /\ AreKeywords(o)
          /\ s.chain # None => s.chain.index \in DOMAIN s.out /\ ~ Referenced(raw[s.chain.opener])
      BY <1>1, XisfCloses
    <2> HIDE DEF o
    <2> QED  BY <1>1, <2>1, CloseBuilds DEF o
  <1> HIDE DEF x, o, b, orphan, f
  <1>6. IsXisf(u) /\ u.res = "ok" /\ u.out = Append(o, x) /\ u.chain = None
    BY <1>5 DEF IsXisf
  <1>7. ~ Long(more) /\ ~ Opens(more)
    BY <1>1, FoldsWhere DEF Opens
  <1>8. NameOfRecord(r) = "CONTINUE"
    BY DEF NameOfRecord
  <1> HIDE DEF u, e
  <1>9. Agrees(Append(o, x), more, FALSE)
    BY <1>2, <1>5, <1>8, AgreesGrown
  <1>10. AreKeywords(Append(o, x))
    BY <1>2, <1>5, AreMoreKeywords DEF Agrees
  <1>11. XisfChain(more, u.out, u.chain) /\ Agrees(u.out, more, u.chain # None)
    BY <1>6, <1>7, <1>9 DEF XisfChain
  <1> QED  BY <1>4, <1>6, <1>7, <1>10, <1>11 DEF XisfHolds, f

\* A continuation, taken.
LEMMA XisfFolded ==
    ASSUME NEW recs \in Seq(LogicalRecords), NEW r \in LogicalRecords, NEW more,
           Follows(more, recs, r), NEW raw, Spells(raw, recs), Spells(raw, more), NEW i, i = Len(more),
           raw[i] = ElementOf(r, i), NEW s, XisfHolds(recs, s), s.res = "ok",
           Folded(more, Len(more))
    PROVE  XisfHolds(more, FoldRecord(raw, ValueBytes, s, i))
  <1> DEFINE e == raw[i]
             f == FoldRecord(raw, ValueBytes, s, i)
             d == Grow(s.chain, e, i)
             t == [s EXCEPT !.chain = d]
             u == CloseChain(raw, t)
             a == Assembled(recs, Len(recs))
             b == Assembled(more, Len(more))
  <1>1. /\ AreKeywords(s.out) /\ Agrees(s.out, recs, s.chain # None) /\ ~ Long(recs)
        /\ XisfChain(recs, s.out, s.chain) /\ IsXisf(s)
    BY DEF XisfHolds
  <1>2. /\ r.word = "CONTINUE" /\ r.form = "quoted" /\ Opens(recs) /\ EndsOpen(a) /\ a \in Texts
        /\ b = Front(a) \o Text(r) /\ b \in Texts /\ b # None
        /\ Long(more) <=> Len(b) > ValueBytes
    BY <1>1, FoldsWhere
  <1>3. /\ more \in Seq(LogicalRecords) /\ Len(more) = Len(recs) + 1 /\ Len(recs) \in Nat
        /\ \A k \in 0 .. Len(recs) : Assembled(more, k) = Assembled(recs, k)
        /\ \A k \in 1 .. Len(recs) : Folded(more, k) = Folded(recs, k)
    BY AssembledStays
  <1>4. /\ s.chain # None /\ s.chain \in XisfChains /\ s.chain.index = Len(s.out)
        /\ s.chain.last = Len(recs) /\ s.chain.opener \in 1 .. Len(recs)
        /\ \A k \in s.chain.opener + 1 .. Len(recs) : Folded(recs, k)
        /\ s.out[Len(s.out)].value = Assembled(recs, s.chain.opener)
        /\ s.chain.len = Len(a) /\ s.chain.amps = TrailingAmps(a)
    BY <1>1, <1>2 DEF XisfChain
  <1>5. /\ d \in XisfChains /\ d.index = Len(s.out) /\ d.opener = s.chain.opener /\ d.last = i
        /\ d.len = Len(b) /\ d.amps = TrailingAmps(b)
    <2>1. i \in Nat
      BY <1>3
    <2> DEFINE c == s.chain
    <2>2. c \in XisfChains /\ c.len = Len(a) /\ c.amps = TrailingAmps(a) /\ c.index = Len(s.out)
      BY <1>4
    <2>3. d = Grow(c, ElementOf(r, i), i)
      OBVIOUS
    <2> HIDE DEF c, d, a
    <2>4. LET y == Grow(c, ElementOf(r, i), i)
              z == Front(a) \o Text(r)
          IN  /\ y \in XisfChains /\ y.index = c.index /\ y.opener = c.opener /\ y.last = i
              /\ y.len = Len(z) /\ y.amps = TrailingAmps(z)
      BY <1>2, <2>1, <2>2, GrownIs
    <2> HIDE DEF b
    <2> QED  BY <1>2, <2>2, <2>3, <2>4 DEF c
  <1>6. e.name.word = r.word /\ e.value.form = r.form
    BY ElementIs
  <1>7. Continues(s, e)
    <2>1. TrailingAmps(a) > 0
      BY <1>2 DEF EndsOpen
    <2> HIDE DEF a, e
    <2> QED  BY <1>2, <1>4, <1>6, <2>1 DEF Continues
  <1>8. f = IF d.len > ValueBytes THEN [s EXCEPT !.res = "LimitExceeded"]
            ELSE IF d.amps = 0 THEN u ELSE t
    <2>1. s.res = "ok" /\ Continues(s, e)
            => f = IF d.len > ValueBytes THEN [s EXCEPT !.res = "LimitExceeded"]
                   ELSE IF d.amps = 0 THEN u ELSE t
      BY Zenon DEF FoldRecord
    <2> HIDE DEF f, d, e, t, u
    <2> QED  BY <1>7, <2>1, Zenon
  <1>9. TrailingAmps(b) \in Nat
    BY <1>2, TextCounts
  <1> HIDE DEF f, d, e, a, b, u
  <1>10. CASE Len(b) > ValueBytes
    <2>1. f = [s EXCEPT !.res = "LimitExceeded"] /\ Long(more)
      BY <1>2, <1>5, <1>8, <1>10
    <2>2. IsXisf(f) /\ f.res = "LimitExceeded"
      BY <1>1, <2>1 DEF IsXisf
    <2> QED  BY <2>1, <2>2 DEF XisfHolds, f
  <1>11. CASE ~ Len(b) > ValueBytes
    <2>1. f = (IF EndsOpen(b) THEN t ELSE u) /\ ~ Long(more)
      BY <1>2, <1>5, <1>8, <1>9, <1>11 DEF EndsOpen
    <2>2. IsXisf(t) /\ t.res = "ok" /\ t.out = s.out /\ t.chain = d
      BY <1>1 DEF IsXisf
    <2>3. d # None
      BY <1>5, NoChainAssumption DEF XisfChains
    <2> HIDE DEF t
    <2>4. Agrees(s.out, recs, TRUE) /\ IsList(s.out) /\ DOMAIN s.out = 1 .. Len(s.out)
      BY <1>1, <1>4 DEF Agrees, IsList
    <2>5. Agrees(s.out, more, TRUE)
      BY <2>4, AgreesFolded
    <2>6. /\ d.opener \in 1 .. Len(more) /\ d.opener \in 1 .. Len(recs) /\ d.last = Len(more)
          /\ \A k \in d.opener + 1 .. Len(more) : Folded(more, k)
          /\ s.out[Len(s.out)].value = Assembled(more, d.opener)
      <3>1. d.opener \in 1 .. Len(recs)
        BY <1>4, <1>5
      <3>2. d.opener \in 0 .. Len(recs) /\ d.opener \in 1 .. Len(more)
        BY <1>3, <3>1
      <3>3. ASSUME NEW k \in d.opener + 1 .. Len(more) PROVE Folded(more, k)
        <4>1. k = Len(more) \/ (k \in d.opener + 1 .. Len(recs) /\ k \in 1 .. Len(recs))
          BY <1>3, <3>1
        <4> QED  BY <1>3, <1>4, <1>5, <4>1
      <3>4. s.out[Len(s.out)].value = Assembled(recs, d.opener)
        BY <1>4, <1>5
      <3> QED  BY <1>3, <1>5, <3>1, <3>2, <3>3, <3>4
    <2>7. CASE EndsOpen(b)
      <3>1. f = t /\ Opens(more)
        BY <1>2, <2>1, <2>7 DEF Opens, b
      <3>2. XisfChain(more, s.out, d)
        BY <1>5, <2>3, <2>6, <3>1 DEF XisfChain, b
      <3> QED  BY <1>1, <2>1, <2>2, <2>3, <2>5, <3>1, <3>2 DEF XisfHolds, f
    <2>8. CASE ~ EndsOpen(b)
      <3> DEFINE o == s.out
                 g == Built(raw, o, d)
                 m == Len(o)
      <3>1. f = u /\ ~ Opens(more)
        BY <2>1, <2>8 DEF Opens, b
      <3>2. m \in 1 .. m
        <4>1. m = Len(Heads(recs)) /\ Len(recs) > 0
          BY <1>2, <2>4, HeadIsString DEF Agrees, Opens
        <4> QED  BY <4>1, OpenLast
      <3>3. ~ Referenced(raw[d.opener])
        <4>1. raw[d.opener] = ElementOf(recs[d.opener], d.opener) /\ recs[d.opener] \in LogicalRecords
          BY <2>6 DEF Spells
        <4> QED  BY <4>1, ElementIs
      <3>4. /\ IsXisf(u) /\ u.res = "ok" /\ u.chain = None /\ u.out = g
        <4>1. d.index \in DOMAIN t.out
          BY <1>5, <2>2, <2>4, <3>2
        <4> HIDE DEF g, o
        <4>2. t.chain # None => ~ Referenced(raw[t.chain.opener]) /\ t.chain.index \in DOMAIN t.out
          BY <2>2, <3>3, <4>1
        <4>3. /\ IsXisf(u) /\ u.res = t.res /\ u.chain = None /\ u.out = Built(raw, t.out, t.chain)
          BY <2>2, <4>2, CloseBuilds DEF u
        <4> QED  BY <2>2, <4>3 DEF g, o
      <3>5. /\ IsList(g) /\ Len(g) = m /\ AreKeywords(g) /\ g[m].value = b
            /\ g[m].name = o[m].name /\ g[m].kind = o[m].kind
            /\ \A k \in 1 .. m : k # m => g[k] = o[k]
        <4> DEFINE said == IF d.comment = None THEN raw[d.opener].comment ELSE d.comment
                   x == Assemble(raw, o[m], d)
                   y == Restated(o[m], b, said)
        <4>1. d.last # d.opener
          BY <1>3, <2>6
        <4>2. g = Put(o, m, x)
          BY <1>5, <2>3, <4>1 DEF Built
        <4>3. x = [o[m] EXCEPT !.value = Taken(raw, o[m].value, d.opener, d.last), !.comment = said]
          BY Zenon DEF Assemble, Taken
        <4>4. Taken(raw, o[m].value, d.opener, d.last) = b
          <5>1. Len(more) \in d.opener .. Len(more)
            BY <2>6
          <5>2. Taken(raw, Assembled(more, d.opener), d.opener, Len(more)) = b
            BY <1>3, <2>6, <5>1, TakesAll DEF b
          <5> QED  BY <2>6, <5>2, Zenon
        <4> HIDE DEF said, x, g
        <4>5. x = [o[m] EXCEPT !.value = b, !.comment = said]
          BY <4>3, <4>4, Zenon
        <4>6. x = y
          BY <4>5, Zenon DEF Restated
        <4>7. IsKeyword(o[m])
          BY <1>1, <3>2 DEF AreKeywords
        <4>8. IsKeyword(y) /\ y.value = b /\ y.name = o[m].name /\ y.kind = o[m].kind
          BY <4>7, RestatedIs
        <4> HIDE DEF y
        <4>9. IsList(o) /\ m \in 1 .. Len(o) /\ g = Put(o, m, y) /\ m = Len(o) /\ AreKeywords(o)
          BY <1>1, <2>4, <3>2, <4>2, <4>6
        <4> HIDE DEF m, o
        <4>10. /\ IsList(g) /\ Len(g) = Len(o) /\ g[m] = y
               /\ \A k \in 1 .. Len(o) : k # m => g[k] = o[k]
          BY <4>9, ListReplaced
        <4>11. AreKeywords(g)
          BY <4>8, <4>9, <4>10 DEF AreKeywords
        <4> QED  BY <4>8, <4>9, <4>10, <4>11
      <3> HIDE DEF g
      <3>6. Agrees(g, more, FALSE)
        BY <2>4, <3>5, AgreesFolded DEF b
      <3>7. XisfChain(more, u.out, u.chain) /\ (u.chain # None) = FALSE /\ u.out = g
        BY <3>1, <3>4 DEF XisfChain
      <3> QED  BY <2>1, <3>1, <3>4, <3>5, <3>6, <3>7 DEF XisfHolds, f
    <2> QED  BY <2>7, <2>8
  <1> QED  BY <1>10, <1>11

\* A record read.
LEMMA XisfReads ==
    ASSUME NEW recs \in Seq(LogicalRecords), NEW r \in LogicalRecords, NEW more,
           Follows(more, recs, r), NEW raw, Spells(raw, more), NEW s, XisfHolds(recs, s)
    PROVE  XisfHolds(more, FoldRecord(raw, ValueBytes, s, Len(more)))
  <1> DEFINE i == Len(more)
             f == FoldRecord(raw, ValueBytes, s, i)
  <1>1. /\ i = Len(recs) + 1 /\ Len(recs) \in Nat /\ more[Len(recs) + 1] = r
        /\ \A k \in 1 .. Len(recs) : more[k] = recs[k]
    BY AssembledStays
  <1>2. Spells(raw, recs) /\ raw[i] = ElementOf(r, i)
    BY <1>1 DEF Spells
  <1>3. CASE s.res # "ok"
    <2>1. f = s
      BY <1>3, Zenon DEF FoldRecord
    <2>2. Long(recs) /\ s.res = "LimitExceeded" /\ IsXisf(s)
      BY <1>3 DEF XisfHolds
    <2>3. Long(more)
      BY <2>2, FoldsWhere
    <2> HIDE DEF f
    <2> QED  BY <2>1, <2>2, <2>3 DEF XisfHolds, f
  <1>4. CASE s.res = "ok" /\ r.word # "CONTINUE"
    BY <1>2, <1>4, XisfOther
  <1>5. CASE s.res = "ok" /\ Folded(more, Len(more))
    BY <1>2, <1>5, XisfFolded
  <1>6. CASE s.res = "ok" /\ r.word = "CONTINUE" /\ ~ Folded(more, Len(more))
    BY <1>2, <1>6, XisfOrphan
  <1> QED  BY <1>3, <1>4, <1>5, <1>6

\* The records have run out: the list is the standard's.
LEMMA XisfEnds ==
    ASSUME NEW recs \in Seq(LogicalRecords), NEW raw, Spells(raw, recs), NEW s, XisfHolds(recs, s),
           NEW f, f = FoldEnd(raw, s)
    PROVE  /\ f.res = s.res /\ (f.res = "ok" => Outlined(f.out) = Standard(recs))
  <1>1. f = IF s.res = "ok" /\ s.chain # None THEN CloseChain(raw, s) ELSE s
    BY Zenon DEF FoldEnd
  <1>2. CASE s.res # "ok"
    BY <1>1, <1>2
  <1>3. CASE s.res = "ok"
    <2>1. /\ AreKeywords(s.out) /\ Agrees(s.out, recs, s.chain # None)
          /\ XisfChain(recs, s.out, s.chain) /\ IsXisf(s)
      BY <1>3 DEF XisfHolds
    <2>2. CASE s.chain = None
      <3>1. Agrees(s.out, recs, FALSE) /\ f = s
        BY <1>1, <2>1, <2>2
      <3> QED  BY <3>1, AgreesInFull
    <2>3. CASE s.chain # None
      <3> DEFINE o == Built(raw, s.out, s.chain)
      <3>1. /\ Agrees(o, recs, FALSE)
            /\ s.chain.index \in DOMAIN s.out /\ ~ Referenced(raw[s.chain.opener])
        BY <2>1, <2>3, XisfCloses
      <3> HIDE DEF o
      <3>2. f = CloseChain(raw, s)
        BY <1>1, <1>3, <2>3
      <3>3. f.res = "ok" /\ f.out = o
        BY <1>3, <2>1, <3>1, <3>2, CloseBuilds DEF o
      <3> QED  BY <1>3, <3>1, <3>3, AgreesInFull
    <2> QED  BY <2>2, <2>3
  <1> QED  BY <1>2, <1>3

-----------------------------------------------------------------------------
(* The invariant: both folds stand where the records read so far put them. *)

BothFold ==
    /\ records \in Seq(LogicalRecords) /\ Len(records) <= MaxRecords /\ ended \in BOOLEAN
    /\ ~ ended => FitsHolds(records, fits) /\ XisfHolds(records, xisf)
    /\ ended =>
          /\ fits.res \in {"ok", "LimitExceeded"} /\ (fits.res = "ok" <=> ~ Long(records))
          /\ xisf.res = fits.res
          /\ fits.res = "ok" => Outlined(fits.out) = Standard(records)
          /\ xisf.res = "ok" => Outlined(xisf.out) = Standard(records)

LEMMA RawSpells ==
    ASSUME NEW recs \in Seq(LogicalRecords)
    PROVE  Spells([i \in DOMAIN recs |-> ElementOf(recs[i], i)], recs)
  BY DEF Spells

LEMMA BothStart ==
    ASSUME Init
    PROVE  BothFold
  <1>1. records = <<>> /\ ended = FALSE /\ records \in Seq(LogicalRecords) /\ Len(records) = 0
    BY DEF Init
  <1>2. ~ Opens(records) /\ ~ Long(records)
    <2>1. Assembled(records, 0) = None
      BY <1>1, AssembledNext
    <2> QED  BY <1>1, <2>1 DEF Opens, Long
  <1>3. Len(Heads(records)) = 0
    <2>1. /\ Len(Heads(records)) \in Nat
          /\ \A k \in 1 .. Len(Heads(records)) : Heads(records)[k] \in 1 .. Len(records)
      BY <1>1, StandardIs
    <2> QED  BY <1>1, <2>1
  <1>4. Agrees(<<>>, records, FALSE) /\ AreKeywords(<<>>)
    BY <1>3 DEF Agrees, AreKeywords, IsList
  <1>5. FitsHolds(records, fits)
    <2>1. /\ IsFits(fits) /\ fits.res = "ok" /\ fits.out = <<>> /\ fits.chain = None /\ fits.seen = 0
          /\ fits.ended = FALSE
      BY DEF Init, FoldCardsStart, IsFits
    <2> QED  BY <1>1, <1>2, <1>4, <2>1 DEF FitsHolds, FitsChain
  <1>6. XisfHolds(records, xisf)
    <2>1. IsXisf(xisf) /\ xisf.res = "ok" /\ xisf.out = <<>> /\ xisf.chain = None
      BY DEF Init, FoldStart, IsXisf
    <2> QED  BY <1>2, <1>4, <2>1 DEF XisfHolds, XisfChain
  <1>7. Len(records) <= MaxRecords
    BY <1>1, MaxRecordsAssumption
  <1> QED  BY <1>1, <1>5, <1>6, <1>7 DEF BothFold

LEMMA BothStep ==
    ASSUME BothFold, [Next]_vars
    PROVE  BothFold'
  <1>1. ASSUME NEW r \in LogicalRecords, Read(r)
        PROVE  BothFold'
    <2>1. /\ ~ ended /\ ended' = ended /\ Len(records) < MaxRecords /\ Follows(records', records, r)
          /\ fits' = FoldCard(CardCap, ValueBytes, fits, CardOf(r))
          /\ xisf' = FoldRecord(Raw', ValueBytes, xisf, Len(records'))
      BY <1>1 DEF Read, Follows
    <2>2. /\ records \in Seq(LogicalRecords) /\ ended \in BOOLEAN /\ FitsHolds(records, fits)
          /\ XisfHolds(records, xisf)
      BY <2>1 DEF BothFold
    <2>3. records' \in Seq(LogicalRecords) /\ Len(records') = Len(records) + 1 /\ Len(records) \in Nat
      BY <2>1, <2>2, AssembledStays
    <2>4. FitsHolds(records', fits')
      BY <2>1, <2>2, FitsReads
    <2>5. Spells(Raw', records')
      BY <2>3, RawSpells DEF Raw
    <2>6. XisfHolds(records', xisf')
      BY <2>1, <2>2, <2>5, XisfReads
    <2>7. Len(records') <= MaxRecords
      BY <2>1, <2>3, MaxRecordsAssumption
    <2> QED  BY <2>1, <2>2, <2>3, <2>4, <2>6, <2>7 DEF BothFold
  <1>2. CASE End
    <2>1. /\ ~ ended /\ ended' = TRUE /\ records' = records
          /\ fits' = FoldCardsEnd(FoldCard(CardCap, ValueBytes, fits, EndCard))
          /\ xisf' = FoldEnd(Raw, xisf)
      BY <1>2 DEF End
    <2>2. /\ records \in Seq(LogicalRecords) /\ FitsHolds(records, fits) /\ XisfHolds(records, xisf)
          /\ Len(records) <= MaxRecords
      BY <2>1 DEF BothFold
    <2>3. Spells(Raw, records)
      BY <2>2, RawSpells DEF Raw
    <2>4. fits'.res = fits.res /\ (fits'.res = "ok" => Outlined(fits'.out) = Standard(records))
      BY <2>1, <2>2, FitsEnds
    <2>5. xisf'.res = xisf.res /\ (xisf'.res = "ok" => Outlined(xisf'.out) = Standard(records))
      BY <2>1, <2>2, <2>3, XisfEnds
    <2>6. /\ fits.res \in {"ok", "LimitExceeded"} /\ (fits.res = "ok" <=> ~ Long(records))
          /\ xisf.res \in {"ok", "LimitExceeded"} /\ (xisf.res = "ok" <=> ~ Long(records))
      BY <2>2 DEF FitsHolds, XisfHolds
    <2> QED  BY <2>1, <2>2, <2>4, <2>5, <2>6 DEF BothFold
  <1>3. CASE Done \/ UNCHANGED vars
    BY <1>3 DEF Done, vars, BothFold
  <1> QED  BY <1>1, <1>2, <1>3 DEF Next

LEMMA BothFoldAlways == Spec => []BothFold
  <1> QED  BY BothStart, BothStep, PTL DEF Spec

\* The fold over the cards and the fold over the elements both give the keyword list the standard
\* describes, whatever the records and however many (fold_cards of cards.rs, fold_records of
\* keywords.rs).
THEOREM FoldsAlways == Spec => []FoldsLikeTheStandard
  <1>1. BothFold => FoldsLikeTheStandard
    BY DEF BothFold, FoldsLikeTheStandard
  <1> QED  BY <1>1, BothFoldAlways, PTL

\* The cap on an assembled value refuses the same headers on both surfaces, and only those with a
\* chain grown past it.
THEOREM CapAlways == Spec => []CapAppliesToBoth
  <1>1. BothFold => CapAppliesToBoth
    <2> SUFFICES ASSUME BothFold PROVE CapAppliesToBoth
      OBVIOUS
    <2>1. /\ fits.res \in {"ok", "LimitExceeded"} /\ (fits.res = "ok" <=> ~ Long(records))
          /\ xisf.res = fits.res
      BY DEF BothFold, FitsHolds, XisfHolds
    <2>2. DOMAIN records = 1 .. Len(records)
      BY DEF BothFold
    <2> QED  BY <2>1, <2>2 DEF CapAppliesToBoth, Long
  <1> QED  BY <1>1, BothFoldAlways, PTL

-----------------------------------------------------------------------------
(* The tags the parse takes.                                               *)

LEMMA MinOf ==
    ASSUME NEW S \in SUBSET Nat, S # {}
    PROVE  Min(S) \in S
  <1>1. \E n \in S : \A m \in S : n <= m
    BY Exact!LeastOf
  <1> QED  BY <1>1 DEF Min

\* No attribute of a tag that is taken is malformed, past the cap or written twice.
LEMMA TakenTag ==
    ASSUME NEW tag \in Tags, NEW ns, ReadAttributes(ns, tag).res = "ok"
    PROVE  /\ DOMAIN Yields(tag) = DOMAIN tag.attrs /\ DOMAIN tag.attrs = 1 .. Len(tag.attrs)
           /\ Len(tag.attrs) \in Nat
           /\ \A i \in DOMAIN tag.attrs :
                 /\ Yields(tag)[i] = tag.attrs[i] /\ tag.attrs[i] \in ToSet(tag.attrs)
                 /\ tag.attrs[i].defect # "malformed" /\ i <= XmlLimits.attributes_per_element
                 /\ Named(tag.attrs[i].key)
                 /\ \A j \in DOMAIN tag.attrs : tag.attrs[j].key = tag.attrs[i].key => j = i
           /\ ReadAttributes(ns, tag).attrs
                = [i \in DOMAIN tag.attrs |-> <<AttributeKey(ns, tag.attrs[i].key), tag.attrs[i].value>>]
  <1> DEFINE items == Yields(tag)
             refused == {i \in DOMAIN items : AttributeRefusal(ns, items, i) # "ok"}
             read == ReadAttributes(ns, tag)
             kept == [i \in DOMAIN items |-> <<AttributeKey(ns, items[i].key), items[i].value>>]
             D == DOMAIN tag.attrs
  <1>1. DOMAIN items = D /\ D = 1 .. Len(tag.attrs) /\ Len(tag.attrs) \in Nat
    BY TagsAssumption DEF Yields
  <1>2. read = IF refused # {} THEN [res |-> AttributeRefusal(ns, items, Min(refused)), attrs |-> <<>>]
               ELSE [res |-> "ok", attrs |-> kept]
    BY Zenon DEF ReadAttributes
  <1>3. ASSUME NEW i \in D
        PROVE  /\ tag.attrs[i] \in ToSet(tag.attrs) /\ Named(tag.attrs[i].key)
               /\ items[i] = IF \E j \in 1 .. i - 1 : tag.attrs[j].key = tag.attrs[i].key
                             THEN [tag.attrs[i] EXCEPT !.defect = "malformed"] ELSE tag.attrs[i]
               /\ "defect" \in DOMAIN tag.attrs[i]
    <2>1. tag.attrs[i] \in ToSet(tag.attrs)
      BY DEF ToSet
    <2> QED  BY <2>1, TagsAssumption DEF Yields
  <1> HIDE DEF items, kept, D
  <1>4. refused = {}
    <2> SUFFICES ASSUME refused # {} PROVE FALSE
      OBVIOUS
    <2>1. refused \in SUBSET Nat
      BY <1>1
    <2>2. Min(refused) \in refused
      BY <2>1, MinOf
    <2>3. AttributeRefusal(ns, items, Min(refused)) # "ok"
      BY <2>2
    <2> QED  BY <1>2, <2>3
  <1>5. read.attrs = kept
    BY <1>2, <1>4
  <1>6. ASSUME NEW i \in D
        PROVE  /\ items[i] = tag.attrs[i] /\ tag.attrs[i].defect # "malformed"
               /\ i <= XmlLimits.attributes_per_element
               /\ \A j \in 1 .. i - 1 : tag.attrs[j].key # tag.attrs[i].key
    <2>1. AttributeRefusal(ns, items, i) = "ok"
      BY <1>1, <1>4
    <2>2. items[i].defect # "malformed"
      BY <2>1 DEF AttributeRefusal
    <2>3. ~ i > XmlLimits.attributes_per_element
      BY <2>1 DEF AttributeRefusal
    <2>4. ~ \E j \in 1 .. i - 1 : tag.attrs[j].key = tag.attrs[i].key
      BY <1>3, <2>2
    <2>5. XmlLimits.attributes_per_element \in Nat /\ i \in Nat
      BY <1>1, XmlLimitsAssumption
    <2>6. items[i] = tag.attrs[i]
      BY <1>3, <2>4
    <2>7. tag.attrs[i].defect # "malformed"
      BY <2>2, <2>6
    <2>8. i <= XmlLimits.attributes_per_element
      BY <2>3, <2>5
    <2> QED  BY <2>4, <2>6, <2>7, <2>8
  <1>7. ASSUME NEW i \in D, NEW j \in D, tag.attrs[j].key = tag.attrs[i].key
        PROVE  j = i
    <2>1. i \in Nat /\ j \in Nat /\ (j < i => j \in 1 .. i - 1) /\ (i < j => i \in 1 .. j - 1)
      BY <1>1
    <2> QED  BY <1>6, <1>7, <2>1
  <1>8. kept = [i \in D |-> <<AttributeKey(ns, tag.attrs[i].key), tag.attrs[i].value>>]
    BY <1>1, <1>6 DEF kept
  <1> QED  BY <1>1, <1>3, <1>5, <1>6, <1>7, <1>8 DEF D, items

-----------------------------------------------------------------------------
(* The namespaces in scope.                                                *)

\* i is the last of the first n bindings of a prefix, or None.
IsInner(b, n, prefix, i) ==
    \/ i = None /\ \A j \in 1 .. n : b[j].prefix # prefix
    \/ i \in 1 .. n /\ b[i].prefix = prefix /\ \A j \in i + 1 .. n : b[j].prefix # prefix

\* What was shadowed is what was innermost then, and the map holds what is innermost now.
Shadows(b) == \A j \in 1 .. Len(b) : IsInner(b, j - 1, b[j].prefix, b[j].shadowed)
Found(innermost, prefix) == IF prefix \in DOMAIN innermost THEN innermost[prefix] ELSE None
FindsInner(b, n, innermost) ==
    /\ \A p \in DOMAIN innermost : innermost[p] \in 1 .. n
    /\ \A p : IsInner(b, n, p, Found(innermost, p))

IsScope(ns) == DOMAIN ns = {"bindings", "innermost", "marks"}
WellBound(ns) ==
    /\ IsScope(ns) /\ IsList(ns.bindings) /\ Shadows(ns.bindings)
    /\ FindsInner(ns.bindings, Len(ns.bindings), ns.innermost)

Binding(prefix, uri, shadowed) == [prefix |-> prefix, uri |-> uri, shadowed |-> shadowed]

\* A binding more.
Binds(innermost, prefix, index) ==
    [p \in DOMAIN innermost \cup {prefix} |-> IF p = prefix THEN index ELSE innermost[p]]

LEMMA InnerGrows ==
    ASSUME NEW b, IsList(b), Shadows(b), NEW innermost, FindsInner(b, Len(b), innermost),
           NEW prefix, NEW uri, NEW more,
           more = Append(b, Binding(prefix, uri, Found(innermost, prefix)))
    PROVE  /\ IsList(more) /\ Shadows(more) /\ Len(more) = Len(b) + 1 /\ Len(b) \in Nat
           /\ \A j \in 1 .. Len(b) : more[j] = b[j]
           /\ more[Len(b) + 1].prefix = prefix /\ more[Len(b) + 1].uri = uri
           /\ FindsInner(more, Len(more), Binds(innermost, prefix, Len(b) + 1))
  <1> DEFINE x == Binding(prefix, uri, Found(innermost, prefix))
             n == Len(b)
             inner == Binds(innermost, prefix, n + 1)
  <1>1. /\ IsList(more) /\ n \in Nat /\ Len(more) = n + 1 /\ more[n + 1] = x
        /\ \A k \in 1 .. n : more[k] = b[k]
    BY ListAppended
  <1>2. x.prefix = prefix /\ x.uri = uri /\ x.shadowed = Found(innermost, prefix)
    BY DEF Binding
  <1>3. /\ DOMAIN inner = DOMAIN innermost \cup {prefix} /\ inner[prefix] = n + 1
        /\ \A p \in DOMAIN innermost : p # prefix => inner[p] = innermost[p]
    BY DEF Binds
  <1> HIDE DEF x, inner, n
  <1>4. ASSUME NEW m \in 0 .. n, NEW p, NEW i, IsInner(b, m, p, i)
        PROVE  IsInner(more, m, p, i)
    <2>1. \A j \in 1 .. m : j \in 1 .. n /\ more[j] = b[j]
      BY <1>1
    <2>2. i \in 1 .. m => \A j \in i + 1 .. m : j \in 1 .. m
      OBVIOUS
    <2> QED  BY <1>4, <2>1, <2>2 DEF IsInner
  <1>5. Shadows(more)
    <2> SUFFICES ASSUME NEW j \in 1 .. n + 1
                 PROVE  IsInner(more, j - 1, more[j].prefix, more[j].shadowed)
      BY <1>1 DEF Shadows
    <2>1. CASE j = n + 1
      <3>1. IsInner(b, n, prefix, x.shadowed) /\ j - 1 = n /\ n \in 0 .. n
        BY <1>1, <1>2, <2>1 DEF FindsInner, n
      <3> QED  BY <1>1, <1>2, <1>4, <2>1, <3>1
    <2>2. CASE j # n + 1
      <3>1. j \in 1 .. n /\ j - 1 \in 0 .. n
        BY <1>1, <2>2
      <3>2. IsInner(b, j - 1, b[j].prefix, b[j].shadowed)
        BY <3>1 DEF Shadows, n
      <3> QED  BY <1>1, <1>4, <3>1, <3>2
    <2> QED  BY <2>1, <2>2
  <1>6. \A p \in DOMAIN inner : inner[p] \in 1 .. n + 1
    <2>1. \A p \in DOMAIN innermost : innermost[p] \in 1 .. n
      BY DEF FindsInner, n
    <2> QED  BY <1>1, <1>3, <2>1
  <1>7. ASSUME NEW p
        PROVE  IsInner(more, n + 1, p, Found(inner, p))
    <2>1. CASE p = prefix
      <3>1. Found(inner, p) = n + 1
        BY <1>3, <2>1 DEF Found
      <3>2. n + 1 \in 1 .. n + 1 /\ \A j \in (n + 1) + 1 .. n + 1 : FALSE
        BY <1>1
      <3> QED  BY <1>1, <1>2, <2>1, <3>1, <3>2 DEF IsInner
    <2>2. CASE p # prefix
      <3>1. Found(inner, p) = Found(innermost, p)
        BY <1>3, <2>2 DEF Found
      <3>2. IsInner(b, n, p, Found(innermost, p)) /\ n \in 0 .. n
        BY <1>1 DEF FindsInner, n
      <3>3. IsInner(more, n, p, Found(inner, p))
        BY <1>4, <3>1, <3>2
      <3> DEFINE i == Found(inner, p)
      <3> HIDE DEF i
      <3>4. more[n + 1].prefix # p
        BY <1>1, <1>2, <2>2
      <3>5. IsInner(more, n, p, i)
        BY <3>3 DEF i
      <3>6. \A j \in 1 .. n + 1 : j = n + 1 \/ j \in 1 .. n
        BY <1>1
      <3>7. IsInner(more, n + 1, p, i)
        <4>1. CASE i = None /\ \A j \in 1 .. n : more[j].prefix # p
          BY <3>4, <3>6, <4>1 DEF IsInner
        <4>2. CASE i \in 1 .. n /\ more[i].prefix = p /\ \A j \in i + 1 .. n : more[j].prefix # p
          <5>1. i \in 1 .. n + 1 /\ \A j \in i + 1 .. n + 1 : j = n + 1 \/ j \in i + 1 .. n
            BY <1>1, <4>2
          <5> QED  BY <3>4, <4>2, <5>1 DEF IsInner
        <4> QED  BY <3>5, <4>1, <4>2 DEF IsInner
      <3> QED  BY <3>7 DEF i
    <2> QED  BY <2>1, <2>2
  <1> QED  BY <1>1, <1>2, <1>5, <1>6, <1>7 DEF FindsInner, inner, n

DeclaredPrefix(key) == Tail(key)
\* A binding of what an attribute declares.
BindingOf(x, attr) == x.prefix = DeclaredPrefix(attr.key) /\ x.uri = attr.value

LEMMA BindIs ==
    ASSUME NEW ns, WellBound(ns), NEW attr, NEW t, t = Bind(ns, attr)
    PROVE  /\ WellBound(t) /\ t.marks = ns.marks /\ Len(t.bindings) = Len(ns.bindings) + 1
           /\ \A j \in 1 .. Len(ns.bindings) : t.bindings[j] = ns.bindings[j]
           /\ BindingOf(t.bindings[Len(ns.bindings) + 1], attr)
  <1> DEFINE prefix == DeclaredPrefix(attr.key)
             b == ns.bindings
             inn == ns.innermost
             more == Append(b, Binding(prefix, attr.value, Found(inn, prefix)))
             n == Len(b)
  <1>1. /\ IsScope(t) /\ t.marks = ns.marks /\ t.bindings = more
        /\ t.innermost = Binds(inn, prefix, n + 1)
    BY DEF DeclaredPrefix, Bind, Binds, WellBound, IsScope, InnermostOf, Found, Binding
  <1>2. IsList(b) /\ Shadows(b) /\ FindsInner(b, n, inn)
    BY DEF WellBound
  <1> HIDE DEF b, inn, prefix
  <1>3. /\ IsList(more) /\ Shadows(more) /\ Len(more) = n + 1 /\ n \in Nat
        /\ \A j \in 1 .. n : more[j] = b[j]
        /\ more[n + 1].prefix = prefix /\ more[n + 1].uri = attr.value
        /\ FindsInner(more, Len(more), Binds(inn, prefix, n + 1))
    BY <1>2, InnerGrows
  <1> HIDE DEF more, n
  <1>4. BindingOf(more[n + 1], attr)
    BY <1>3 DEF BindingOf, prefix
  <1> QED  BY <1>1, <1>3, <1>4 DEF WellBound, b, n

\* The last binding of some undone.
LEMMA UnbindIs ==
    ASSUME NEW b, Shadows(b), NEW m \in 1 .. Len(b), Len(b) \in Nat, NEW innermost,
           FindsInner(b, m, innermost)
    PROVE  FindsInner(b, m - 1, Unbind(innermost, b[m]))
  <1> DEFINE q == b[m].prefix
             inner == Unbind(innermost, b[m])
             below == b[m].shadowed
  <1>1. IsInner(b, m - 1, q, below)
    BY DEF Shadows
  <1>2. below \in 1 .. m - 1 \/ below = None
    BY <1>1 DEF IsInner
  <1>3. \A p \in DOMAIN innermost : innermost[p] \in 1 .. m
    BY DEF FindsInner
  <1>4. q \in DOMAIN innermost
    <2>1. IsInner(b, m, q, Found(innermost, q)) /\ m \in 1 .. m
      BY DEF FindsInner
    <2>2. Found(innermost, q) \in 1 .. m
      BY <2>1 DEF IsInner
    <2>3. Found(innermost, q) # None
      BY <2>2, NoneAssumption
    <2> QED  BY <2>3 DEF Found
  <1>5. /\ Found(inner, q) = below /\ \A p : p # q => Found(inner, p) = Found(innermost, p)
        /\ \A p \in DOMAIN inner : inner[p] = IF p = q THEN below ELSE innermost[p]
        /\ DOMAIN inner \subseteq DOMAIN innermost /\ (q \in DOMAIN inner => below # None)
    <2>1. CASE below = None
      <3>1. inner = [p \in DOMAIN innermost \ {q} |-> innermost[p]]
        BY <2>1 DEF Unbind
      <3> HIDE DEF inner, below
      <3> QED  BY <2>1, <3>1 DEF Found
    <2>2. CASE below # None
      <3>1. inner = [innermost EXCEPT ![q] = below]
        BY <2>2 DEF Unbind
      <3> HIDE DEF inner, below
      <3> QED  BY <1>4, <2>2, <3>1 DEF Found
    <2> QED  BY <2>1, <2>2
  <1> HIDE DEF inner, below
  <1>6. ASSUME NEW p
        PROVE  IsInner(b, m - 1, p, Found(inner, p))
    <2>1. CASE p = q
      BY <1>1, <1>5, <2>1
    <2>2. CASE p # q
      <3> DEFINE i == Found(innermost, p)
      <3>1. IsInner(b, m, p, i)
        BY DEF FindsInner
      <3>2. Found(inner, p) = i
        BY <1>5, <2>2
      <3> HIDE DEF i
      <3>3. CASE i = None /\ \A j \in 1 .. m : b[j].prefix # p
        <4>1. \A j \in 1 .. m - 1 : j \in 1 .. m
          OBVIOUS
        <4> QED  BY <3>2, <3>3, <4>1 DEF IsInner
      <3>4. CASE i \in 1 .. m /\ b[i].prefix = p /\ \A j \in i + 1 .. m : b[j].prefix # p
        <4>1. i # m
          BY <2>2, <3>4
        <4>2. i \in 1 .. m - 1 /\ \A j \in i + 1 .. m - 1 : j \in i + 1 .. m
          BY <3>4, <4>1
        <4> QED  BY <3>2, <3>4, <4>2 DEF IsInner
      <3> QED  BY <3>1, <3>3, <3>4 DEF IsInner
    <2> QED  BY <2>1, <2>2
  <1>7. ASSUME NEW p \in DOMAIN inner
        PROVE  inner[p] \in 1 .. m - 1
    <2>1. CASE p = q
      BY <1>2, <1>5, <2>1
    <2>2. CASE p # q
      <3>1. p \in DOMAIN innermost /\ inner[p] = innermost[p] /\ Found(innermost, p) = innermost[p]
        BY <1>5, <2>2 DEF Found
      <3>2. IsInner(b, m, p, innermost[p]) /\ innermost[p] \in 1 .. m
        BY <1>3, <3>1 DEF FindsInner
      <3>3. innermost[p] # m
        BY <2>2, <3>2, NoneAssumption DEF IsInner
      <3> QED  BY <3>1, <3>2, <3>3
    <2> QED  BY <2>1, <2>2
  <1> QED  BY <1>6, <1>7 DEF FindsInner, inner

-----------------------------------------------------------------------------
(* What a tag binds.                                                       *)

\* The attributes of a tag, each key once.
AreAttributes(attrs) ==
    /\ Len(attrs) \in Nat /\ DOMAIN attrs = 1 .. Len(attrs)
    /\ \A i \in 1 .. Len(attrs) :
          /\ Named(attrs[i].key)
          /\ \A j \in 1 .. Len(attrs) : attrs[j].key = attrs[i].key => j = i

BindsTo(a, prefix, uri) == Declares(a.key) /\ DeclaredPrefix(a.key) = prefix /\ a.value = uri

\* Some bindings that follow one another are those the first k attributes declare.
Declared(attrs, k, b, from, to) ==
    /\ \A j \in from + 1 .. to : \E i \in 1 .. k : BindsTo(attrs[i], b[j].prefix, b[j].uri)
    /\ \A i \in 1 .. k : Declares(attrs[i].key) =>
          \E j \in from + 1 .. to : BindsTo(attrs[i], b[j].prefix, b[j].uri)

\* Only those bindings matter.
LEMMA DeclaredAlike ==
    ASSUME NEW attrs, NEW k, NEW b, NEW from \in Nat, NEW to \in Nat, NEW c,
           \A j \in from + 1 .. to : c[j] = b[j], Declared(attrs, k, b, from, to)
    PROVE  Declared(attrs, k, c, from, to)
  BY DEF Declared

\* One attribute further.
LEMMA DeclaredNext ==
    ASSUME NEW attrs, NEW k \in Nat, NEW b, NEW n \in Nat, NEW to \in Nat, n <= to,
           Declared(attrs, k, b, n, to), NEW c, NEW last \in {to, to + 1},
           \A j \in n + 1 .. to : c[j] = b[j],
           Declares(attrs[k + 1].key) <=> last = to + 1,
           last = to + 1 => BindsTo(attrs[k + 1], c[last].prefix, c[last].uri)
    PROVE  Declared(attrs, k + 1, c, n, last)
  <1>1. ASSUME NEW j \in n + 1 .. last
        PROVE  \E i \in 1 .. k + 1 : BindsTo(attrs[i], c[j].prefix, c[j].uri)
    <2>1. CASE j \in n + 1 .. to
      <3>1. PICK i \in 1 .. k : BindsTo(attrs[i], b[j].prefix, b[j].uri)
        BY <2>1 DEF Declared
      <3>2. i \in 1 .. k + 1 /\ c[j] = b[j]
        BY <2>1
      <3> QED  BY <3>1, <3>2
    <2>2. CASE j \notin n + 1 .. to
      <3>1. j = last /\ last = to + 1 /\ k + 1 \in 1 .. k + 1
        BY <2>2
      <3> QED  BY <3>1
    <2> QED  BY <2>1, <2>2
  <1>2. ASSUME NEW i \in 1 .. k + 1, Declares(attrs[i].key)
        PROVE  \E j \in n + 1 .. last : BindsTo(attrs[i], c[j].prefix, c[j].uri)
    <2>1. CASE i \in 1 .. k
      <3>1. PICK j \in n + 1 .. to : BindsTo(attrs[i], b[j].prefix, b[j].uri)
        BY <1>2, <2>1 DEF Declared
      <3>2. j \in n + 1 .. last /\ c[j] = b[j]
        OBVIOUS
      <3> QED  BY <3>1, <3>2
    <2>2. CASE i \notin 1 .. k
      <3>1. i = k + 1
        BY <2>2
      <3>2. last = to + 1 /\ last \in n + 1 .. last
        BY <1>2, <3>1
      <3> QED  BY <3>1, <3>2
    <2> QED  BY <2>1, <2>2
  <1> QED  BY <1>1, <1>2 DEF Declared

DeclareStep(items, scope, i) ==
    IF /\ i <= XmlLimits.attributes_per_element
       /\ items[i].defect # "malformed" /\ Declares(items[i].key)
    THEN Bind(scope, items[i]) ELSE scope
OpenClaim(e, k, scope) ==
    /\ WellBound(scope) /\ scope.marks = e.marks /\ Len(scope.bindings) >= e.n
    /\ \A j \in 1 .. e.n : scope.bindings[j] = e.b[j]
    /\ Declared(e.attrs, k, scope.bindings, e.n, Len(scope.bindings))
Declaring == INSTANCE Folding WITH Step <- DeclareStep, Claim <- OpenClaim

\* A tag the parse takes binds what its attributes declare.
LEMMA ScopeOpens ==
    ASSUME NEW ns, WellBound(ns), NEW tag \in Tags, NEW any, ReadAttributes(any, tag).res = "ok",
           NEW t, t = OpenScope(ns, tag)
    PROVE  LET n == Len(ns.bindings) IN
           /\ WellBound(t) /\ t.marks = Append(ns.marks, n)
           /\ n \in Nat /\ Len(t.bindings) \in Nat /\ Len(t.bindings) >= n
           /\ \A j \in 1 .. n : t.bindings[j] = ns.bindings[j]
           /\ Declared(tag.attrs, Len(tag.attrs), t.bindings, n, Len(t.bindings))
           /\ AreAttributes(tag.attrs)
  <1> DEFINE items == Yields(tag)
             attrs == tag.attrs
             l == Len(attrs)
             n == Len(ns.bindings)
             e == [marks |-> Append(ns.marks, n), n |-> n, b |-> ns.bindings, attrs |-> attrs]
             base == [ns EXCEPT !.marks = Append(@, n)]
  <1>1. /\ DOMAIN items = 1 .. l /\ DOMAIN attrs = 1 .. l /\ l \in Nat
        /\ \A i \in 1 .. l :
              /\ items[i] = attrs[i] /\ attrs[i].defect # "malformed"
              /\ i <= XmlLimits.attributes_per_element /\ Named(attrs[i].key)
              /\ \A j \in 1 .. l : attrs[j].key = attrs[i].key => j = i
    BY TakenTag
  <1>2. e.marks = Append(ns.marks, n) /\ e.n = n /\ e.b = ns.bindings /\ e.attrs = attrs
    OBVIOUS
  <1>3. t = Declaring!Fold(items, base, [i \in DOMAIN items |-> i])
    BY Zenon DEF OpenScope, DeclareStep, FoldLeft, MapThenFoldSet, Max, Declaring!Fold,
       Declaring!Iterates, Declaring!Largest
  <1>4. t = Declaring!Fold(items, base, Numbered(l))
    BY <1>1, <1>3 DEF Numbered
  <1>5. WellBound(base) /\ base.marks = Append(ns.marks, n) /\ base.bindings = ns.bindings
    BY DEF WellBound, IsScope
  <1>6. n \in Nat
    BY DEF WellBound, IsList
  <1> HIDE DEF items, attrs, l, n, e, base
  <1>7. OpenClaim(e, 0, base)
    <2>1. Declared(attrs, 0, base.bindings, n, n)
      BY <1>6 DEF Declared
    <2> QED  BY <1>2, <1>5, <1>6, <2>1 DEF OpenClaim, n
  <1>8. ASSUME NEW i \in 1 .. l, NEW s, OpenClaim(e, i - 1, s)
        PROVE  OpenClaim(e, i, DeclareStep(items, s, i))
    <2> DEFINE k == i - 1
               to == Len(s.bindings)
               r == DeclareStep(items, s, i)
    <2>1. k \in Nat /\ i = k + 1
      BY <1>1
    <2>2. /\ WellBound(s) /\ s.marks = e.marks /\ to >= n
          /\ \A j \in 1 .. n : s.bindings[j] = e.b[j]
          /\ Declared(attrs, k, s.bindings, n, to)
      BY <1>2, <1>8 DEF OpenClaim
    <2>3. to \in Nat
      BY <2>2 DEF WellBound, IsList
    <2>4. r = IF Declares(attrs[i].key) THEN Bind(s, attrs[i]) ELSE s
      BY <1>1 DEF DeclareStep
    <2> HIDE DEF k, to, r
    <2>5. CASE Declares(attrs[i].key)
      <3>1. r = Bind(s, attrs[i])
        BY <2>4, <2>5
      <3>2. /\ WellBound(r) /\ r.marks = s.marks /\ Len(r.bindings) = to + 1
            /\ \A j \in 1 .. to : r.bindings[j] = s.bindings[j]
            /\ BindingOf(r.bindings[to + 1], attrs[i])
        <4> DEFINE a == attrs[i]
        <4>2. WellBound(s) /\ r = Bind(s, a)
          BY <2>2, <3>1
        <4> HIDE DEF a
        <4>1. /\ WellBound(r) /\ r.marks = s.marks /\ Len(r.bindings) = Len(s.bindings) + 1
              /\ \A j \in 1 .. Len(s.bindings) : r.bindings[j] = s.bindings[j]
              /\ BindingOf(r.bindings[Len(s.bindings) + 1], a)
          BY ONLY <4>2, BindIs
        <4> QED  BY <2>2, <4>1 DEF to, a
      <3>3. BindsTo(attrs[k + 1], r.bindings[to + 1].prefix, r.bindings[to + 1].uri)
        BY <2>1, <2>5, <3>2 DEF BindsTo, BindingOf
      <3>4. \A j \in n + 1 .. to : r.bindings[j] = s.bindings[j]
        BY <1>6, <2>3, <3>2
      <3>5. Declared(attrs, k + 1, r.bindings, n, to + 1)
        BY <1>6, <2>1, <2>2, <2>3, <2>5, <3>3, <3>4, DeclaredNext
      <3>6. \A j \in 1 .. n : r.bindings[j] = e.b[j]
        BY <1>6, <2>2, <2>3, <3>2
      <3>7. Len(r.bindings) >= n
        BY <1>6, <2>2, <2>3, <3>2
      <3> QED  BY <1>2, <2>1, <2>2, <3>2, <3>5, <3>6, <3>7 DEF OpenClaim, r
    <2>6. CASE ~ Declares(attrs[i].key)
      <3>1. r = s
        BY <2>4, <2>6
      <3>2. Declared(attrs, k + 1, s.bindings, n, to)
        <4>1. /\ ~ Declares(attrs[k + 1].key) /\ to \in {to, to + 1} /\ to # to + 1 /\ n <= to
              /\ \A j \in n + 1 .. to : s.bindings[j] = s.bindings[j]
          BY <1>6, <2>1, <2>2, <2>3, <2>6
        <4> QED  BY <1>6, <2>1, <2>2, <2>3, <4>1, DeclaredNext
      <3> QED  BY <1>2, <2>1, <2>2, <3>1, <3>2 DEF OpenClaim, r, to
    <2> QED  BY <2>5, <2>6
  <1>9. DOMAIN Numbered(l) = 1 .. l /\ \A i \in 1 .. l : Numbered(l)[i] = i
    BY <1>1 DEF Numbered
  <1>10. OpenClaim(e, l, t)
    BY <1>1, <1>4, <1>7, <1>8, <1>9, Declaring!FoldMaintains
  <1>11. Len(t.bindings) \in Nat
    BY <1>10 DEF OpenClaim, WellBound, IsList
  <1>12. AreAttributes(attrs)
    BY <1>1 DEF AreAttributes, l
  <1> QED  BY <1>2, <1>6, <1>10, <1>11, <1>12 DEF OpenClaim, n, attrs, l

-----------------------------------------------------------------------------
(* What is undone.                                                         *)

\* Lists that begin alike have the same innermost bindings there.
LEMMA InnerAlike ==
    ASSUME NEW b, NEW c, NEW m \in Nat, \A j \in 1 .. m : c[j] = b[j],
           NEW k \in 0 .. m, NEW p, NEW i, IsInner(b, k, p, i)
    PROVE  IsInner(c, k, p, i)
  <1>1. \A j \in 1 .. k : j \in 1 .. m /\ c[j] = b[j]
    OBVIOUS
  <1>2. i \in 1 .. k => \A j \in i + 1 .. k : j \in 1 .. k
    OBVIOUS
  <1> QED  BY <1>1, <1>2 DEF IsInner

Undone(innermost, gone) == FoldLeft(Unbind, innermost, gone)

UnbindStep(c, innermost, binding) == Unbind(innermost, binding)
UnbindClaim(b, k, innermost) == FindsInner(b, Len(b) - k, innermost)
Unbinding == INSTANCE Folding WITH Step <- UnbindStep, Claim <- UnbindClaim

LEMMA ScopeCloses ==
    ASSUME NEW ns, WellBound(ns), NEW mark \in 0 .. Len(ns.bindings), Last(ns.marks) = mark,
           NEW t, t = CloseScope(ns)
    PROVE  /\ WellBound(t) /\ t.marks = Front(ns.marks) /\ Len(t.bindings) = mark
           /\ \A j \in 1 .. mark : t.bindings[j] = ns.bindings[j]
  <1> DEFINE b == ns.bindings
             n == Len(b)
             gone == SubSeq(b, mark + 1, n)
             back == Reverse(gone)
             inn == Undone(ns.innermost, back)
             left == SubSeq(b, 1, mark)
  <1>1. t.bindings = left /\ t.innermost = inn /\ t.marks = Front(ns.marks) /\ IsScope(t)
    <2>1. t = [bindings |-> left, innermost |-> inn, marks |-> Front(ns.marks)]
      BY Zenon DEF CloseScope, Undone
    <2> HIDE DEF left, inn
    <2> QED  BY <2>1 DEF IsScope
  <1>2. IsList(b) /\ n \in Nat /\ Shadows(b) /\ FindsInner(b, n, ns.innermost)
    BY DEF WellBound, IsList
  <1>3. /\ IsList(left) /\ Len(left) = mark /\ DOMAIN left = 1 .. mark
        /\ \A j \in 1 .. mark : left[j] = b[j]
    <2>1. \A j \in 1 .. mark : left[j] = b[j]
      BY <1>2 DEF IsList
    <2>2. left \in Seq(ToSet(b)) /\ Len(left) = mark /\ DOMAIN left = 1 .. mark
      BY <1>2 DEF IsList
    <2>3. \A j \in 1 .. Len(left) : left[j] \in ToSet(left)
      BY <2>2 DEF ToSet
    <2> HIDE DEF left
    <2>4. left \in Seq(ToSet(left))
      BY <2>2, <2>3
    <2> QED  BY <2>1, <2>2, <2>4 DEF IsList
  <1>4. /\ DOMAIN back = 1 .. n - mark /\ n - mark \in Nat
        /\ \A k \in 1 .. n - mark : back[k] = b[n - k + 1]
    <2>1. Len(gone) = n - mark /\ \A k \in 1 .. n - mark : gone[k] = b[mark + k]
      BY <1>2 DEF IsList
    <2> HIDE DEF gone
    <2>2. back = [k \in 1 .. Len(gone) |-> gone[(Len(gone) - k) + 1]]
      BY DEF Reverse
    <2>3. \A k \in 1 .. n - mark : (n - mark - k) + 1 \in 1 .. n - mark /\ mark + ((n - mark - k) + 1) = n - k + 1
      BY <1>2
    <2> HIDE DEF back
    <2>4. DOMAIN back = 1 .. n - mark /\ n - mark \in Nat
      BY <1>2, <2>1, <2>2
    <2>5. ASSUME NEW k \in 1 .. n - mark
          PROVE  back[k] = b[n - k + 1]
      <3> DEFINE i == (n - mark - k) + 1
      <3>1. back[k] = gone[i]
        BY <2>1, <2>2
      <3>2. i \in 1 .. n - mark /\ mark + i = n - k + 1
        BY <2>3
      <3> HIDE DEF i
      <3> QED  BY <2>1, <3>1, <3>2
    <2> QED  BY <2>4, <2>5
  <1>5. inn = Unbinding!Fold(b, ns.innermost, back)
    BY Zenon DEF Undone, UnbindStep, FoldLeft, MapThenFoldSet, Max, Unbinding!Fold,
       Unbinding!Iterates, Unbinding!Largest
  <1> HIDE DEF back, gone, inn, left, n, b
  <1>6. UnbindClaim(b, 0, ns.innermost)
    BY <1>2 DEF UnbindClaim, n
  <1>7. ASSUME NEW k \in 1 .. n - mark, NEW i, UnbindClaim(b, k - 1, i)
        PROVE  UnbindClaim(b, k, UnbindStep(b, i, back[k]))
    <2> DEFINE m == n - k + 1
    <2>1. m \in 1 .. n /\ n - (k - 1) = m /\ m - 1 = n - k /\ back[k] = b[m]
      BY <1>2, <1>4
    <2> HIDE DEF m
    <2>2. FindsInner(b, m, i)
      BY <1>7, <2>1 DEF UnbindClaim, n
    <2>3. FindsInner(b, m - 1, Unbind(i, b[m]))
      BY <1>2, <2>1, <2>2, UnbindIs DEF n
    <2> QED  BY <2>1, <2>3 DEF UnbindClaim, UnbindStep, n
  <1>8. UnbindClaim(b, n - mark, inn)
    BY <1>4, <1>5, <1>6, <1>7, Unbinding!FoldKeeps
  <1>9. FindsInner(b, mark, inn)
    <2>1. n - (n - mark) = mark
      BY <1>2
    <2> QED  BY <1>8, <2>1 DEF UnbindClaim, n
  <1>10. FindsInner(left, mark, inn)
    <2>1. mark \in 0 .. mark /\ mark \in Nat
      BY <1>2
    <2>2. \A p : IsInner(left, mark, p, Found(inn, p))
      BY <1>3, <1>9, <2>1, InnerAlike DEF FindsInner
    <2> QED  BY <1>9, <2>2 DEF FindsInner
  <1>11. Shadows(left)
    <2> SUFFICES ASSUME NEW j \in 1 .. mark
                 PROVE  IsInner(left, j - 1, left[j].prefix, left[j].shadowed)
      BY <1>3 DEF Shadows
    <2>1. j \in 1 .. n /\ left[j] = b[j] /\ j - 1 \in 0 .. mark /\ mark \in Nat
      <3>1. mark \in 0 .. n
        BY DEF n, b
      <3> QED  BY <1>2, <1>3, <3>1
    <2>2. IsInner(b, j - 1, b[j].prefix, b[j].shadowed)
      BY <1>2, <2>1 DEF Shadows, n
    <2> QED  BY <1>3, <2>1, <2>2, InnerAlike
  <1>12. WellBound(t)
    BY <1>1, <1>3, <1>10, <1>11 DEF WellBound
  <1>13. \A j \in 1 .. mark : t.bindings[j] = ns.bindings[j]
    BY <1>1, <1>3 DEF b
  <1>14. Len(t.bindings) = mark /\ t.marks = Front(ns.marks)
    BY <1>1, <1>3
  <1> QED  BY <1>12, <1>13, <1>14

-----------------------------------------------------------------------------
(* What a prefix resolves to.                                              *)

\* Where the bindings of the k-th open element end.
UpTo(m, n, k) == IF k < Len(m) THEN m[k + 1] ELSE n

\* The bindings are those of the open elements, one after another, each element's from its mark on.
Segments(at, b, m) ==
    /\ Len(b) \in Nat /\ m \in Seq(0 .. Len(b)) /\ Len(m) = Len(at)
    /\ (Len(m) = 0 => Len(b) = 0) /\ (Len(m) > 0 => m[1] = 0)
    /\ \A k \in 1 .. Len(m) : \A l \in 1 .. Len(m) : k < l => m[k] <= m[l]
    /\ \A k \in 1 .. Len(m) :
          AreAttributes(at[k]) /\ Declared(at[k], Len(at[k]), b, m[k], UpTo(m, Len(b), k))
Scoped(at, ns) == WellBound(ns) /\ Segments(at, ns.bindings, ns.marks)

LEMMA ElementOfBinding ==
    ASSUME NEW at, NEW b, NEW m, Segments(at, b, m), NEW i \in 1 .. Len(b)
    PROVE  \E k \in 1 .. Len(m) :
              /\ i \in m[k] + 1 .. UpTo(m, Len(b), k)
              /\ \A l \in 1 .. Len(m) : k < l => i <= m[l]
  <1> DEFINE S == {k \in 1 .. Len(m) : m[k] < i}
  <1>1. /\ Len(b) \in Nat /\ Len(m) \in Nat /\ \A k \in 1 .. Len(m) : m[k] \in 0 .. Len(b)
        /\ (Len(m) = 0 => Len(b) = 0) /\ (Len(m) > 0 => m[1] = 0)
    BY DEF Segments
  <1>2. 1 \in S
    BY <1>1
  <1>3. Max(S) \in S /\ \A x \in S : x <= Max(S)
    <2>1. S \in SUBSET (1 .. Len(m)) /\ S # {}
      BY <1>2
    <2> HIDE DEF S
    <2> QED  BY <1>1, <2>1, MaxOf
  <1>4. PICK k \in S : \A x \in S : x <= k
    BY <1>3
  <1>5. k \in 1 .. Len(m) /\ m[k] < i /\ m[k] \in Nat /\ k \in Nat
    BY <1>1, <1>4
  <1>6. \A l \in 1 .. Len(m) : k < l => i <= m[l]
    <2> SUFFICES ASSUME NEW l \in 1 .. Len(m), k < l, ~ i <= m[l] PROVE FALSE
      OBVIOUS
    <2>1. l \in S
      BY <1>1
    <2> QED  BY <1>4, <1>5, <2>1
  <1>7. i <= UpTo(m, Len(b), k)
    <2>1. CASE k < Len(m)
      <3>1. k + 1 \in 1 .. Len(m) /\ k < k + 1
        BY <1>1, <1>5, <2>1
      <3> QED  BY <1>6, <2>1, <3>1 DEF UpTo
    <2>2. CASE ~ k < Len(m)
      BY <2>2 DEF UpTo
    <2> QED  BY <2>1, <2>2
  <1>8. UpTo(m, Len(b), k) \in Nat
    <2>1. k < Len(m) => k + 1 \in 1 .. Len(m)
      BY <1>1, <1>5
    <2> QED  BY <1>1, <2>1 DEF UpTo
  <1>9. i \in m[k] + 1 .. UpTo(m, Len(b), k)
    BY <1>5, <1>7, <1>8
  <1> QED  BY <1>5, <1>6, <1>9

\* Two declarations of a prefix have one key.
LEMMA SameKey ==
    ASSUME NEW one, NEW two, Named(one), Named(two), Declares(one), Declares(two),
           DeclaredPrefix(one) = DeclaredPrefix(two)
    PROVE  one = two
  <1>1. /\ one \in Seq(ToSet(one)) /\ two \in Seq(ToSet(two)) /\ one # <<>> /\ two # <<>>
        /\ one[1] = "xmlns" /\ two[1] = "xmlns"
    BY DEF Named, Declares
  <1>2. /\ Len(one) \in Nat \ {0} /\ Len(DeclaredPrefix(one)) = Len(one) - 1
        /\ \A i \in 1 .. Len(one) - 1 : DeclaredPrefix(one)[i] = one[i + 1]
    BY <1>1 DEF DeclaredPrefix
  <1>3. /\ Len(two) \in Nat \ {0} /\ Len(DeclaredPrefix(two)) = Len(two) - 1
        /\ \A i \in 1 .. Len(two) - 1 : DeclaredPrefix(two)[i] = two[i + 1]
    BY <1>1 DEF DeclaredPrefix
  <1>4. Len(one) = Len(two)
    BY <1>2, <1>3
  <1>5. ASSUME NEW i \in 1 .. Len(one)
        PROVE  one[i] = two[i]
    <2>1. CASE i = 1
      BY <1>1, <2>1
    <2>2. CASE i # 1
      <3>1. i - 1 \in 1 .. Len(one) - 1 /\ (i - 1) + 1 = i
        BY <1>2, <2>2
      <3> QED  BY <1>2, <1>3, <1>4, <3>1
    <2> QED  BY <2>1, <2>2
  <1>6. /\ one = [i \in 1 .. Len(one) |-> one[i]] /\ two = [i \in 1 .. Len(two) |-> two[i]]
    BY <1>1
  <1> QED  BY <1>4, <1>5, <1>6

\* The declarations of a prefix in a tag, and the namespace it is in by all the open tags.
SaysOf(attrs, prefix) == {a \in ToSet(attrs) : Declares(a.key) /\ Tail(a.key) = prefix}
SayersOf(at, prefix) == {k \in 1 .. Len(at) : SaysOf(at[k], prefix) # {}}
AnyOf(S) == CHOOSE a \in S : TRUE
LexicalAt(at, prefix) ==
    LET uri == AnyOf(SaysOf(at[Max(SayersOf(at, prefix))], prefix)).value
    IN  IF SayersOf(at, prefix) = {} \/ uri = "" THEN None ELSE uri

LEMMA OneDeclaration ==
    ASSUME NEW attrs, AreAttributes(attrs), NEW prefix
    PROVE  /\ \A i \in 1 .. Len(attrs) : Declares(attrs[i].key) /\ DeclaredPrefix(attrs[i].key) = prefix
                 => attrs[i] \in SaysOf(attrs, prefix)
           /\ \A a \in SaysOf(attrs, prefix) : \E i \in 1 .. Len(attrs) :
                 a = attrs[i] /\ Declares(a.key) /\ DeclaredPrefix(a.key) = prefix
           /\ \A a, c \in SaysOf(attrs, prefix) : a = c
  <1>1. DOMAIN attrs = 1 .. Len(attrs)
    BY DEF AreAttributes
  <1>2. \A i \in 1 .. Len(attrs) : Declares(attrs[i].key) /\ DeclaredPrefix(attrs[i].key) = prefix
                 => attrs[i] \in SaysOf(attrs, prefix)
    BY <1>1 DEF SaysOf, ToSet, DeclaredPrefix
  <1>3. ASSUME NEW a \in SaysOf(attrs, prefix)
        PROVE  \E i \in 1 .. Len(attrs) :
                 a = attrs[i] /\ Declares(a.key) /\ DeclaredPrefix(a.key) = prefix
    BY <1>1 DEF SaysOf, ToSet, DeclaredPrefix
  <1>4. ASSUME NEW a \in SaysOf(attrs, prefix), NEW c \in SaysOf(attrs, prefix)
        PROVE  a = c
    <2>1. PICK i \in 1 .. Len(attrs) :
             a = attrs[i] /\ Declares(a.key) /\ DeclaredPrefix(a.key) = prefix
      BY <1>3
    <2>2. PICK j \in 1 .. Len(attrs) :
             c = attrs[j] /\ Declares(c.key) /\ DeclaredPrefix(c.key) = prefix
      BY <1>3
    <2>3. Named(a.key) /\ Named(c.key)
      BY <2>1, <2>2 DEF AreAttributes
    <2>4. DeclaredPrefix(a.key) = DeclaredPrefix(c.key)
      BY <2>1, <2>2
    <2>5. a.key = c.key
      BY <2>1, <2>2, <2>3, <2>4, SameKey
    <2>6. i = j
      BY <2>1, <2>2, <2>5 DEF AreAttributes
    <2> QED  BY <2>1, <2>2, <2>6
  <1> QED  BY <1>2, <1>3, <1>4

\* The code's answer is the one the open tags give.
LEMMA Resolves ==
    ASSUME NEW at, NEW ns, Scoped(at, ns), NEW prefix
    PROVE  ResolvePrefix(ns, prefix) = LexicalAt(at, prefix)
  <1> DEFINE b == ns.bindings
             m == ns.marks
             n == Len(b)
             i == Found(ns.innermost, prefix)
             sayers == SayersOf(at, prefix)
  <1>1. Segments(at, b, m) /\ IsInner(b, n, prefix, i)
    BY DEF Scoped, WellBound, FindsInner
  <1>2. /\ n \in Nat /\ Len(m) \in Nat /\ Len(at) = Len(m)
        /\ \A k \in 1 .. Len(m) : m[k] \in 0 .. n
        /\ \A k \in 1 .. Len(m) : \A l \in 1 .. Len(m) : k < l => m[k] <= m[l]
        /\ \A k \in 1 .. Len(m) :
              AreAttributes(at[k]) /\ Declared(at[k], Len(at[k]), b, m[k], UpTo(m, n, k))
    BY <1>1 DEF Segments
  <1>3. ResolvePrefix(ns, prefix) = IF i = None \/ b[i].uri = "" THEN None ELSE b[i].uri
    BY Zenon DEF ResolvePrefix, InnermostOf, Found
  <1> HIDE DEF b, m, n, i, sayers
  <1>4. \A k \in 1 .. Len(m) : UpTo(m, n, k) \in 0 .. n
    <2>1. \A k \in 1 .. Len(m) : k < Len(m) => k + 1 \in 1 .. Len(m)
      BY <1>2
    <2> QED  BY <1>2, <2>1 DEF UpTo
  \* A sayer has a binding of the prefix.
  <1>5. ASSUME NEW k \in sayers
        PROVE  /\ k \in 1 .. Len(m)
               /\ \E j \in m[k] + 1 .. UpTo(m, n, k) : j \in 1 .. n /\ b[j].prefix = prefix
    <2>1. k \in 1 .. Len(m) /\ SaysOf(at[k], prefix) # {}
      BY <1>2 DEF sayers, SayersOf
    <2>2. PICK a : a \in SaysOf(at[k], prefix)
      BY <2>1
    <2>3. PICK x \in 1 .. Len(at[k]) :
             a = at[k][x] /\ Declares(a.key) /\ DeclaredPrefix(a.key) = prefix
      BY <1>2, <2>1, <2>2, OneDeclaration
    <2>4. PICK j \in m[k] + 1 .. UpTo(m, n, k) : BindsTo(at[k][x], b[j].prefix, b[j].uri)
      BY <1>2, <2>1, <2>3 DEF Declared
    <2>5. b[j].prefix = prefix
      BY <2>3, <2>4 DEF BindsTo
    <2>6. j \in 1 .. n
      BY <1>2, <1>4, <2>1
    <2> QED  BY <2>1, <2>5, <2>6
  <1>6. CASE i = None
    <2>1. i \notin 1 .. n
      BY <1>6, NoneAssumption
    <2>2. \A j \in 1 .. n : b[j].prefix # prefix
      BY <1>1, <2>1 DEF IsInner
    <2>3. sayers = {}
      BY <1>5, <2>2
    <2>4. LexicalAt(at, prefix) = None
      BY <2>3 DEF LexicalAt, sayers
    <2> QED  BY <1>3, <1>6, <2>4
  <1>7. CASE i # None
    <2>1. i \in 1 .. n /\ b[i].prefix = prefix /\ \A j \in i + 1 .. n : b[j].prefix # prefix
      BY <1>1, <1>7 DEF IsInner
    <2>2. PICK k \in 1 .. Len(m) :
              /\ i \in m[k] + 1 .. UpTo(m, n, k)
              /\ \A l \in 1 .. Len(m) : k < l => i <= m[l]
      BY <1>1, <2>1, ElementOfBinding DEF n
    <2>3. PICK x \in 1 .. Len(at[k]) : BindsTo(at[k][x], b[i].prefix, b[i].uri)
      BY <1>2, <2>2 DEF Declared
    <2> DEFINE a == at[k][x]
    <2>4. Declares(a.key) /\ DeclaredPrefix(a.key) = prefix /\ a.value = b[i].uri
      BY <2>1, <2>3 DEF BindsTo
    <2>5. a \in SaysOf(at[k], prefix)
      BY <1>2, <2>2, <2>4, OneDeclaration
    <2> HIDE DEF a
    <2>6. k \in sayers
      BY <1>2, <2>2, <2>5 DEF sayers, SayersOf
    <2>7. \A l \in sayers : l <= k
      <3> SUFFICES ASSUME NEW l \in sayers, ~ l <= k PROVE FALSE
        OBVIOUS
      <3>1. l \in 1 .. Len(m) /\ k < l
        BY <1>2, <1>5, <2>2
      <3>2. PICK j \in m[l] + 1 .. UpTo(m, n, l) : j \in 1 .. n /\ b[j].prefix = prefix
        BY <1>5
      <3>3. i <= m[l] /\ m[l] \in Nat
        BY <1>2, <2>2, <3>1
      <3>4. j \in i + 1 .. n
        BY <2>1, <3>2, <3>3
      <3> QED  BY <2>1, <3>2, <3>4
    <2>8. Max(sayers) = k
      <3>1. \A y \in sayers : (\A z \in sayers : y >= z) <=> y = k
        BY <1>2, <1>5, <2>2, <2>6, <2>7
      <3> QED  BY <2>6, <3>1 DEF Max
    <2>9. AnyOf(SaysOf(at[k], prefix)) = a
      <3>1. AreAttributes(at[k])
        BY <1>2, <2>2
      <3> QED  BY <2>5, <3>1, OneDeclaration DEF AnyOf
    <2>10. sayers # {}
      BY <2>6
    <2>11. LexicalAt(at, prefix) = IF a.value = "" THEN None ELSE a.value
      BY <2>8, <2>9, <2>10 DEF LexicalAt, sayers
    <2> QED  BY <1>3, <1>7, <2>4, <2>11
  <1> QED  BY <1>6, <1>7

-----------------------------------------------------------------------------
(* Elements opened and closed.                                             *)

\* A tag more, opened.
LEMMA ScopeGrows ==
    ASSUME NEW at, IsList(at), NEW ns, Scoped(at, ns), NEW tag \in Tags, NEW any,
           ReadAttributes(any, tag).res = "ok", NEW t, t = OpenScope(ns, tag)
    PROVE  Scoped(Append(at, tag.attrs), t)
  <1> DEFINE b == ns.bindings
             m == ns.marks
             n == Len(b)
             c == t.bindings
             r == t.marks
             more == Append(at, tag.attrs)
             l == Len(at)
  <1>1. WellBound(ns) /\ Segments(at, b, m)
    BY DEF Scoped
  <1>2. /\ WellBound(t) /\ r = Append(m, n) /\ n \in Nat /\ Len(c) \in Nat /\ Len(c) >= n
        /\ \A j \in 1 .. n : c[j] = b[j]
        /\ Declared(tag.attrs, Len(tag.attrs), c, n, Len(c)) /\ AreAttributes(tag.attrs)
    BY <1>1, ScopeOpens
  <1>3. /\ l \in Nat /\ Len(more) = l + 1 /\ more[l + 1] = tag.attrs
        /\ \A k \in 1 .. l : more[k] = at[k]
    BY ListAppended
  <1>4. m \in Seq(0 .. n) /\ Len(m) = l
    BY <1>1 DEF Segments
  <1>5. /\ r \in Seq(0 .. Len(c)) /\ Len(r) = l + 1 /\ r[l + 1] = n
        /\ \A k \in 1 .. l : r[k] = m[k] /\ r[k] \in 0 .. n
    <2>1. 0 .. n \subseteq 0 .. Len(c) /\ n \in 0 .. Len(c)
      BY <1>2
    <2>2. m \in Seq(0 .. Len(c))
      BY <1>2, <1>4, <2>1
    <2> HIDE DEF b, m, n, c, r
    <2> QED  BY <1>2, <1>3, <1>4, <2>1, <2>2
  <1> HIDE DEF b, m, n, c, r, more, l
  <1>6. /\ (l = 0 => n = 0) /\ (l > 0 => m[1] = 0)
        /\ \A k \in 1 .. l : \A x \in 1 .. l : k < x => m[k] <= m[x]
        /\ \A k \in 1 .. l : AreAttributes(at[k]) /\ Declared(at[k], Len(at[k]), b, m[k], UpTo(m, n, k))
    BY <1>1, <1>4 DEF Segments, n
  <1>7. r[1] = 0
    <2>1. CASE l = 0
      BY <1>5, <1>6, <2>1
    <2>2. CASE l # 0
      BY <1>3, <1>5, <1>6, <2>2
    <2> QED  BY <2>1, <2>2
  <1>8. ASSUME NEW k \in 1 .. l + 1, NEW x \in 1 .. l + 1, k < x
        PROVE  r[k] <= r[x]
    <2>1. k \in 1 .. l
      BY <1>3, <1>8
    <2>2. CASE x = l + 1
      BY <1>2, <1>5, <2>1, <2>2
    <2>3. CASE x # l + 1
      <3>1. x \in 1 .. l
        BY <1>3, <2>3
      <3> QED  BY <1>5, <1>6, <1>8, <2>1, <3>1
    <2> QED  BY <2>2, <2>3
  <1>9. ASSUME NEW k \in 1 .. l + 1
        PROVE  /\ AreAttributes(more[k])
               /\ Declared(more[k], Len(more[k]), c, r[k], UpTo(r, Len(c), k))
    <2>1. CASE k = l + 1
      <3>1. UpTo(r, Len(c), k) = Len(c)
        BY <1>3, <1>5, <2>1 DEF UpTo
      <3> QED  BY <1>2, <1>3, <1>5, <2>1, <3>1
    <2>2. CASE k # l + 1
      <3>1. k \in 1 .. l /\ more[k] = at[k] /\ r[k] = m[k] /\ r[k] \in Nat
        BY <1>3, <1>5, <2>2
      <3>2. UpTo(r, Len(c), k) = UpTo(m, n, k) /\ UpTo(m, n, k) \in 0 .. n
        <4>1. CASE k = l
          <5>1. UpTo(m, n, k) = n /\ UpTo(r, Len(c), k) = r[k + 1]
            BY <1>3, <1>4, <1>5, <4>1 DEF UpTo
          <5> QED  BY <1>2, <1>5, <4>1, <5>1
        <4>2. CASE k # l
          <5>1. k < l /\ k < l + 1 /\ k + 1 \in 1 .. l
            BY <1>3, <3>1, <4>2
          <5>2. UpTo(m, n, k) = m[k + 1] /\ UpTo(r, Len(c), k) = r[k + 1]
            BY <1>4, <1>5, <5>1 DEF UpTo
          <5> QED  BY <1>5, <5>1, <5>2
        <4> QED  BY <4>1, <4>2
      <3>3. Declared(at[k], Len(at[k]), b, m[k], UpTo(m, n, k)) /\ AreAttributes(at[k])
        BY <1>6, <3>1
      <3>4. \A j \in m[k] + 1 .. UpTo(m, n, k) : c[j] = b[j]
        BY <1>2, <3>1, <3>2
      <3>5. UpTo(m, n, k) \in Nat /\ m[k] \in Nat
        BY <3>1, <3>2
      <3>6. Declared(at[k], Len(at[k]), c, m[k], UpTo(m, n, k))
        BY <3>3, <3>4, <3>5, DeclaredAlike
      <3> QED  BY <3>1, <3>2, <3>3, <3>6
    <2> QED  BY <2>1, <2>2
  <1>10. Segments(more, c, r)
    BY <1>2, <1>3, <1>5, <1>7, <1>8, <1>9 DEF Segments
  <1> QED  BY <1>2, <1>10 DEF Scoped, c, r, more

\* The innermost element closed.
LEMMA ScopeShrinks ==
    ASSUME NEW at, NEW ns, Scoped(at, ns), Len(at) > 0, NEW less, Len(less) = Len(at) - 1,
           \A k \in 1 .. Len(at) - 1 : less[k] = at[k], NEW t, t = CloseScope(ns)
    PROVE  Scoped(less, t)
  <1> DEFINE b == ns.bindings
             m == ns.marks
             n == Len(b)
             c == t.bindings
             r == t.marks
             l == Len(at)
             mark == Last(m)
  <1>1. WellBound(ns) /\ Segments(at, b, m)
    BY DEF Scoped
  <1>2. n \in Nat /\ m \in Seq(0 .. n) /\ Len(m) = l /\ l \in Nat
    BY <1>1 DEF Segments
  <1>3. mark = m[l] /\ mark \in 0 .. n
    BY <1>2 DEF Last
  <1>4. /\ WellBound(t) /\ r = Front(m) /\ Len(c) = mark /\ \A j \in 1 .. mark : c[j] = b[j]
    BY <1>1, <1>3, ScopeCloses
  <1>5. /\ r = SubSeq(m, 1, l - 1) /\ Len(r) = l - 1 /\ DOMAIN r = 1 .. l - 1
        /\ \A k \in 1 .. l - 1 : r[k] = m[k]
    <2>1. r = SubSeq(m, 1, l - 1)
      BY <1>2, <1>4 DEF Front
    <2>2. l > 0
      OBVIOUS
    <2> HIDE DEF b, m, n, c, r, l, mark
    <2> QED  BY <1>2, <2>1, <2>2
  <1> HIDE DEF b, m, n, c, r, l, mark
  <1>6. /\ (l > 0 => m[1] = 0)
        /\ \A k \in 1 .. l : \A x \in 1 .. l : k < x => m[k] <= m[x]
        /\ \A k \in 1 .. l : AreAttributes(at[k]) /\ Declared(at[k], Len(at[k]), b, m[k], UpTo(m, n, k))
    BY <1>1, <1>2 DEF Segments, n
  <1>7. l > 0 /\ Len(less) = l - 1 /\ \A k \in 1 .. l - 1 : less[k] = at[k]
    BY DEF l
  <1>8. ASSUME NEW k \in 1 .. l - 1
        PROVE  m[k] \in 0 .. mark
    <2>1. k \in 1 .. l /\ l \in 1 .. l /\ k < l
      BY <1>2
    <2>3. \A i \in 1 .. l : \A x \in 1 .. l : i < x => m[i] <= m[x]
      BY <1>6
    <2>4. m[k] <= m[l]
      BY ONLY <2>1, <2>3
    <2>5. m[k] \in 0 .. n
      BY <1>2, <2>1
    <2>2. m[k] <= m[l] /\ m[k] \in 0 .. n
      BY ONLY <2>4, <2>5
    <2> QED  BY <1>3, <2>2
  <1>9. r \in Seq(0 .. Len(c))
    <2>1. \A k \in 1 .. l - 1 : r[k] \in 0 .. Len(c)
      BY <1>4, <1>5, <1>8
    <2>2. r = [k \in 1 .. l - 1 |-> r[k]] /\ l - 1 \in Nat
      BY <1>2, <1>5, <1>7
    <2> QED  BY <2>1, <2>2
  <1>10. l - 1 = 0 => mark = 0
    BY <1>2, <1>3, <1>6, <1>7
  <1>11. ASSUME NEW k \in 1 .. l - 1
         PROVE  /\ AreAttributes(less[k])
                /\ Declared(less[k], Len(less[k]), c, r[k], UpTo(r, Len(c), k))
    <2>1. k \in 1 .. l /\ k < l /\ k + 1 \in 1 .. l /\ less[k] = at[k] /\ r[k] = m[k] /\ m[k] \in Nat
      BY <1>2, <1>5, <1>7, <1>8
    <2>2. UpTo(m, n, k) = m[k + 1]
      BY <1>2, <2>1 DEF UpTo
    <2>3. UpTo(r, Len(c), k) = m[k + 1] /\ m[k + 1] \in 0 .. mark
      <3>1. CASE k = l - 1
        <4>1. UpTo(r, Len(c), k) = Len(c) /\ k + 1 = l
          BY <1>2, <1>5, <3>1 DEF UpTo
        <4> QED  BY <1>3, <1>4, <4>1
      <3>2. CASE k # l - 1
        <4>1. k < l - 1 /\ k + 1 \in 1 .. l - 1
          BY <1>2, <3>2
        <4>2. UpTo(r, Len(c), k) = r[k + 1]
          BY <1>5, <4>1 DEF UpTo
        <4> QED  BY <1>5, <1>8, <4>1, <4>2
      <3> QED  BY <3>1, <3>2
    <2>4. \A j \in m[k] + 1 .. m[k + 1] : c[j] = b[j]
      BY <1>3, <1>4, <2>1, <2>3
    <2>5. Declared(at[k], Len(at[k]), b, m[k], m[k + 1]) /\ AreAttributes(at[k])
      BY <1>6, <2>1, <2>2
    <2>6. m[k] \in Nat /\ m[k + 1] \in Nat
      BY <2>1, <2>3
    <2>7. Declared(at[k], Len(at[k]), c, m[k], m[k + 1])
      BY <2>4, <2>5, <2>6, DeclaredAlike
    <2> QED  BY <2>1, <2>3, <2>5, <2>7
  <1>12. Len(r) > 0 => r[1] = 0
    <2>1. Len(r) > 0 => 1 \in 1 .. l - 1 /\ r[1] = m[1]
      BY <1>2, <1>5
    <2> QED  BY <1>6, <1>7, <2>1
  <1>13. \A k \in 1 .. l - 1 : \A x \in 1 .. l - 1 : k < x => r[k] <= r[x]
    <2> SUFFICES ASSUME NEW k \in 1 .. l - 1, NEW x \in 1 .. l - 1, k < x PROVE r[k] <= r[x]
      OBVIOUS
    <2>1. k \in 1 .. l /\ x \in 1 .. l
      BY <1>2
    <2> QED  BY <1>5, <1>6, <2>1
  <1>14. Segments(less, c, r)
    <2>1. Len(c) \in Nat /\ Len(r) = Len(less) /\ (Len(r) = 0 => Len(c) = 0)
      BY <1>2, <1>3, <1>4, <1>5, <1>7, <1>10
    <2> QED  BY <1>5, <1>9, <1>11, <1>12, <1>13, <2>1 DEF Segments
  <1> QED  BY <1>4, <1>14 DEF Scoped, c, r

-----------------------------------------------------------------------------
(* Names.                                                                  *)

\* The attributes of the elements of a path.
AttrsOf(doc, path) == [k \in 1 .. Len(path) |-> doc[path[k]].tag.attrs]

LEMMA LexicalIs ==
    ASSUME NEW doc, NEW path, Len(path) \in Nat, DOMAIN path = 1 .. Len(path), NEW prefix
    PROVE  Lexical(doc, path, prefix) = LexicalAt(AttrsOf(doc, path), prefix)
  <1> DEFINE at == AttrsOf(doc, path)
             says(k) == {a \in ToSet(doc[path[k]].tag.attrs) : Declares(a.key) /\ Tail(a.key) = prefix}
             sayers == {k \in DOMAIN path : says(k) # {}}
             uri == AnyOf(says(Max(sayers))).value
  <1>1. Lexical(doc, path, prefix) = IF sayers = {} \/ uri = "" THEN None ELSE uri
    BY Zenon DEF Lexical, AnyOf
  <1>2. Len(at) = Len(path) /\ \A k \in 1 .. Len(path) : at[k] = doc[path[k]].tag.attrs
    BY DEF AttrsOf
  <1>3. \A k \in 1 .. Len(path) : says(k) = SaysOf(at[k], prefix)
    BY <1>2, Zenon DEF SaysOf
  <1> HIDE DEF at, says
  <1>4. sayers = SayersOf(at, prefix)
    BY <1>2, <1>3 DEF SayersOf
  <1>5. ASSUME sayers # {}
        PROVE  Max(sayers) \in 1 .. Len(path)
    <2>1. sayers \in SUBSET (1 .. Len(path))
      OBVIOUS
    <2> HIDE DEF sayers
    <2> QED  BY <1>5, <2>1, MaxOf
  <1>6. sayers # {} => uri = AnyOf(SaysOf(at[Max(SayersOf(at, prefix))], prefix)).value
    BY <1>3, <1>4, <1>5
  <1> HIDE DEF uri, sayers
  <1> QED  BY <1>1, <1>4, <1>6 DEF LexicalAt, at

\* The name and the attributes of a node say which are core.
NamedRight(name, qname, at) ==
    Len(name) = 1 <=> \/ LexicalAt(at, Front(qname)) = Xisf
                      \/ Len(qname) = 1 /\ LexicalAt(at, Front(qname)) = None
KeyedRight(kept, key, at) ==
    Len(kept) = 1 <=> Len(key) = 1 \/ (key[1] # "xmlns" /\ LexicalAt(at, Front(key)) = Xisf)
BareRight(node, tag, at) ==
    /\ NamedRight(node.name, tag.name, at)
    /\ \A k \in DOMAIN tag.attrs : KeyedRight(node.attrs[k][1], tag.attrs[k].key, at)

LEMMA FrontOfName ==
    ASSUME NEW qname, Named(qname)
    PROVE  /\ Len(qname) \in Nat \ {0} /\ Len(Front(qname)) = Len(qname) - 1
           /\ Front(qname) \in Seq(ToSet(qname)) /\ (Front(qname) = <<>> <=> Len(qname) = 1)
  <1>1. qname \in Seq(ToSet(qname)) /\ qname # <<>> /\ Len(qname) \in Nat \ {0}
    BY DEF Named
  <1> DEFINE S == ToSet(qname)
             f == Front(qname)
  <1>2. qname \in Seq(S)
    BY <1>1
  <1> HIDE DEF S
  <1> DEFINE n == Len(qname) - 1
  <1>3. f = SubSeq(qname, 1, n) /\ n \in Nat /\ n <= Len(qname)
    BY <1>1 DEF Front
  <1> HIDE DEF n, f
  <1>4. f \in Seq(S) /\ Len(f) = n
    BY <1>2, <1>3
  <1>5. f = <<>> <=> n = 0
    BY <1>4
  <1> QED  BY <1>1, <1>4, <1>5 DEF f, n, S

LEMMA NamesRight ==
    ASSUME NEW at, NEW ns, Scoped(at, ns), NEW qname, Named(qname)
    PROVE  NamedRight(ElementName(ns, qname), qname, at)
  <1> DEFINE prefix == Front(qname)
             space == LexicalAt(at, prefix)
             last == Last(qname)
             name == ElementName(ns, qname)
  <1>1. /\ Len(qname) \in Nat \ {0} /\ prefix \in Seq(ToSet(qname))
        /\ (prefix = <<>> <=> Len(qname) = 1) /\ Len(prefix) = Len(qname) - 1
    BY FrontOfName
  <1>2. ResolvePrefix(ns, prefix) = space
    BY Resolves
  <1>3. name = IF InXisfOrNoNamespace(prefix, space) THEN <<last>>
               ELSE IF space # None THEN <<"{", space, "}", last>>
               ELSE <<"{">> \o prefix \o <<":}", last>>
    BY <1>2 DEF ElementName
  <1> HIDE DEF prefix, space, last, name
  <1>4. Len(name) = 1 <=> space = Xisf \/ (Len(qname) = 1 /\ space = None)
    <2>1. CASE InXisfOrNoNamespace(prefix, space)
      <3>1. Len(name) = 1
        BY <1>3, <2>1
      <3> QED  BY <1>1, <2>1, <3>1 DEF InXisfOrNoNamespace
    <2>2. CASE ~ InXisfOrNoNamespace(prefix, space) /\ space # None
      <3>1. Len(name) = 4
        BY <1>3, <2>2
      <3> QED  BY <2>2, <3>1 DEF InXisfOrNoNamespace
    <2>3. CASE ~ InXisfOrNoNamespace(prefix, space) /\ space = None
      <3>1. prefix # <<>>
        BY <2>3 DEF InXisfOrNoNamespace
      <3>2. name = <<"{">> \o prefix \o <<":}", last>>
        BY <1>3, <2>3
      <3>3. Len(name) = 1 + Len(prefix) + 2
        <4> DEFINE S == ToSet(qname) \cup {"{", ":}", last}
                   one == <<"{">>
                   two == <<":}", last>>
        <4>6. one \in Seq(S)
          OBVIOUS
        <4>1. Len(one) = 1 /\ two \in Seq(S) /\ Len(two) = 2
          OBVIOUS
        <4>2. prefix \in Seq(S)
          <5>1. ToSet(qname) \subseteq S
            OBVIOUS
          <5> HIDE DEF S
          <5> QED  BY <1>1, <5>1
        <4>3. name = one \o prefix \o two
          BY <3>2
        <4> HIDE DEF S, one, two
        <4>4. one \o prefix \in Seq(S) /\ Len(one \o prefix) = Len(one) + Len(prefix)
          BY ONLY <4>6, <4>2, Concatenated
        <4>5. Len((one \o prefix) \o two) = Len(one \o prefix) + Len(two)
          BY <4>1, <4>4, Concatenated
        <4> QED  BY <4>1, <4>3, <4>4, <4>5
      <3> QED  BY <1>1, <2>3, <3>1, <3>3, XisfAssumption
    <2> QED  BY <2>1, <2>2, <2>3
  <1> QED  BY <1>4 DEF NamedRight, name, space, prefix

LEMMA KeysRight ==
    ASSUME NEW at, NEW ns, Scoped(at, ns), NEW key, Named(key)
    PROVE  KeyedRight(AttributeKey(ns, key), key, at)
  <1> DEFINE space == LexicalAt(at, Front(key))
             kept == AttributeKey(ns, key)
  <1>1. Len(key) \in Nat \ {0} /\ (Front(key) = <<>> <=> Len(key) = 1)
    BY FrontOfName
  <1>2. ResolvePrefix(ns, Front(key)) = space
    BY Resolves
  <1>3. kept = IF key[1] # "xmlns" /\ Front(key) # <<>> /\ space = Xisf THEN <<Last(key)>> ELSE key
    BY <1>2 DEF AttributeKey
  <1> HIDE DEF space, kept
  <1>4. Len(<<Last(key)>>) = 1
    OBVIOUS
  <1>5. Len(kept) = 1 <=> Len(key) = 1 \/ (key[1] # "xmlns" /\ space = Xisf)
    BY <1>1, <1>3, <1>4
  <1> QED  BY <1>5 DEF KeyedRight, kept, space

\* A tag the parse takes gives its node the names its scope says.
LEMMA TakenRight ==
    ASSUME NEW at, NEW ns, Scoped(at, ns), NEW tag \in Tags, ReadAttributes(ns, tag).res = "ok",
           NEW node, node.name = ElementName(ns, tag.name), node.attrs = ReadAttributes(ns, tag).attrs
    PROVE  BareRight(node, tag, at)
  <1>1. Named(tag.name)
    BY TagsAssumption
  <1>2. NamedRight(node.name, tag.name, at)
    BY <1>1, NamesRight
  <1>3. /\ node.attrs = [i \in DOMAIN tag.attrs |-> <<AttributeKey(ns, tag.attrs[i].key), tag.attrs[i].value>>]
        /\ \A i \in DOMAIN tag.attrs : Named(tag.attrs[i].key)
    BY TakenTag
  <1>4. ASSUME NEW k \in DOMAIN tag.attrs
        PROVE  KeyedRight(node.attrs[k][1], tag.attrs[k].key, at)
    <2>1. node.attrs[k][1] = AttributeKey(ns, tag.attrs[k].key)
      BY <1>3
    <2> QED  BY <1>3, <2>1, KeysRight
  <1> QED  BY <1>2, <1>4 DEF BareRight

-----------------------------------------------------------------------------
(* The tree.                                                               *)

IsNode(x) == DOMAIN x = {"name", "text", "children", "attrs"} /\ IsList(x.text) /\ IsList(x.children)
IsElement(w) == DOMAIN w = {"tag", "path", "text"} /\ IsList(w.text)
IsPath(p, i) == p \in Seq(1 .. i) /\ p # <<>> /\ p[Len(p)] = i

\* The children of element i.
ChildrenAre(ch, doc, i) ==
    /\ \A k, l \in 1 .. Len(ch) : k < l => ch[k] < ch[l]
    /\ \A k \in 1 .. Len(ch) : ch[k] \in 1 .. Len(doc) /\ doc[ch[k]].path = Append(doc[i].path, ch[k])
    /\ \A j \in 1 .. Len(doc) : doc[j].path = Append(doc[i].path, j) => \E k \in 1 .. Len(ch) : ch[k] = j

\* The nodes are the elements written.
BuiltAt(nds, doc, i) ==
    /\ IsNode(nds[i]) /\ IsElement(doc[i]) /\ IsPath(doc[i].path, i)
    /\ nds[i].text = doc[i].text /\ ChildrenAre(nds[i].children, doc, i)
    /\ BareRight(nds[i], doc[i].tag, AttrsOf(doc, doc[i].path))
TreeOf(nds, doc) ==
    /\ IsList(nds) /\ IsList(doc) /\ Len(nds) = Len(doc)
    /\ \A i \in 1 .. Len(doc) : BuiltAt(nds, doc, i)

\* The open elements are a path from the root on.
Standing(doc, stk) ==
    /\ stk \in Seq(1 .. Len(doc)) /\ (stk # <<>> => stk[1] = 1)
    /\ \A k, l \in 1 .. Len(stk) : k < l => stk[k] < stk[l]
    /\ \A k \in 1 .. Len(stk) : doc[stk[k]].path = SubSeq(stk, 1, k)

\* A document whose first elements are those of another.
Begins(doc, new) ==
    /\ Len(doc) \in Nat /\ Len(new) \in Nat /\ Len(doc) <= Len(new)
    /\ \A i \in 1 .. Len(doc) : new[i].tag = doc[i].tag /\ new[i].path = doc[i].path

LEMMA AttrsStay ==
    ASSUME NEW doc, NEW new, Begins(doc, new), NEW p \in Seq(1 .. Len(doc))
    PROVE  AttrsOf(new, p) = AttrsOf(doc, p)
  <1>1. \A k \in 1 .. Len(p) : p[k] \in 1 .. Len(doc)
    OBVIOUS
  <1>2. \A k \in 1 .. Len(p) : new[p[k]].tag.attrs = doc[p[k]].tag.attrs
    BY <1>1 DEF Begins
  <1> QED  BY <1>2, Zenon DEF AttrsOf

LEMMA ChildrenStay ==
    ASSUME NEW ch, NEW doc, NEW new, NEW i \in 1 .. Len(doc), ChildrenAre(ch, doc, i),
           Len(new) = Len(doc), \A k \in 1 .. Len(doc) : new[k].path = doc[k].path
    PROVE  ChildrenAre(ch, new, i)
  <1>1. ASSUME NEW k \in 1 .. Len(ch)
        PROVE  ch[k] \in 1 .. Len(new) /\ new[ch[k]].path = Append(new[i].path, ch[k])
    <2>1. ch[k] \in 1 .. Len(doc) /\ doc[ch[k]].path = Append(doc[i].path, ch[k])
      BY DEF ChildrenAre
    <2>2. new[ch[k]].path = doc[ch[k]].path /\ new[i].path = doc[i].path
      BY <2>1
    <2> QED  BY <2>1, <2>2
  <1>2. ASSUME NEW j \in 1 .. Len(new), new[j].path = Append(new[i].path, j)
        PROVE  \E k \in 1 .. Len(ch) : ch[k] = j
    <2>1. j \in 1 .. Len(doc) /\ new[j].path = doc[j].path /\ new[i].path = doc[i].path
      OBVIOUS
    <2>2. doc[j].path = Append(doc[i].path, j)
      BY <1>2, <2>1
    <2> QED  BY <2>1, <2>2 DEF ChildrenAre
  <1>3. \A k, l \in 1 .. Len(ch) : k < l => ch[k] < ch[l]
    BY DEF ChildrenAre
  <1> QED  BY <1>1, <1>2, <1>3 DEF ChildrenAre

LEMMA StandingStays ==
    ASSUME NEW doc, NEW new, Begins(doc, new), NEW stk, Standing(doc, stk)
    PROVE  Standing(new, stk) /\ AttrsOf(new, stk) = AttrsOf(doc, stk)
  <1>1. stk \in Seq(1 .. Len(doc)) /\ \A k \in 1 .. Len(stk) : stk[k] \in 1 .. Len(doc)
    BY DEF Standing
  <1>2. 1 .. Len(doc) \subseteq 1 .. Len(new)
    BY DEF Begins
  <1>3. stk \in Seq(1 .. Len(new))
    BY <1>1, <1>2
  <1>4. \A k \in 1 .. Len(stk) : new[stk[k]].path = doc[stk[k]].path
    BY <1>1 DEF Begins
  <1>5. Standing(new, stk)
    BY <1>3, <1>4 DEF Standing
  <1>6. AttrsOf(new, stk) = AttrsOf(doc, stk)
    BY <1>1, AttrsStay
  <1> QED  BY <1>5, <1>6

-----------------------------------------------------------------------------
(* Character data.                                                         *)

Told(x, piece) == [x EXCEPT !.text = Append(@, piece)]

LEMMA ToldIs ==
    ASSUME NEW x, "text" \in DOMAIN x, NEW piece, NEW y, y = Told(x, piece)
    PROVE  /\ DOMAIN y = DOMAIN x /\ y.text = Append(x.text, piece)
           /\ \A f \in DOMAIN x : f # "text" => y[f] = x[f]
  BY DEF Told

\* A piece of character data goes to element i, in the nodes and in the document.
Hears(nds, doc, i, piece, new, told) ==
    /\ TreeOf(nds, doc) /\ i \in 1 .. Len(doc)
    /\ new = Put(nds, i, Told(nds[i], piece)) /\ told = Put(doc, i, Told(doc[i], piece))

LEMMA BuiltTold ==
    ASSUME NEW nds, NEW doc, NEW i, NEW piece, NEW new, NEW told, Hears(nds, doc, i, piece, new, told)
    PROVE  TreeOf(new, told) /\ Begins(doc, told) /\ Len(told) = Len(doc)
           /\ \A j \in 1 .. Len(doc) : new[j].name = nds[j].name
  <1> USE DEF Hears
  <1> DEFINE n == Len(doc)
             x == Told(nds[i], piece)
             w == Told(doc[i], piece)
  <1>1. IsList(nds) /\ IsList(doc) /\ Len(nds) = n /\ n \in Nat /\ \A j \in 1 .. n : BuiltAt(nds, doc, j)
    BY DEF TreeOf, IsList
  <1>2. /\ IsNode(nds[i]) /\ IsElement(doc[i]) /\ nds[i].text = doc[i].text
    BY <1>1 DEF BuiltAt
  <1>3. /\ DOMAIN x = DOMAIN nds[i] /\ x.text = Append(nds[i].text, piece)
        /\ x.name = nds[i].name /\ x.children = nds[i].children /\ x.attrs = nds[i].attrs
    <2>1. "text" \in DOMAIN nds[i] /\ {"name", "children", "attrs"} \subseteq DOMAIN nds[i]
      BY <1>2 DEF IsNode
    <2>2. /\ DOMAIN x = DOMAIN nds[i] /\ x.text = Append(nds[i].text, piece)
          /\ \A f \in DOMAIN nds[i] : f # "text" => x[f] = nds[i][f]
      BY <2>1, ToldIs
    <2> HIDE DEF x
    <2> QED  BY <2>1, <2>2
  <1>4. /\ DOMAIN w = DOMAIN doc[i] /\ w.text = Append(doc[i].text, piece)
        /\ w.tag = doc[i].tag /\ w.path = doc[i].path
    <2>1. "text" \in DOMAIN doc[i] /\ {"tag", "path"} \subseteq DOMAIN doc[i]
      BY <1>2 DEF IsElement
    <2>2. /\ DOMAIN w = DOMAIN doc[i] /\ w.text = Append(doc[i].text, piece)
          /\ \A f \in DOMAIN doc[i] : f # "text" => w[f] = doc[i][f]
      BY <2>1, ToldIs
    <2> HIDE DEF w
    <2> QED  BY <2>1, <2>2
  <1>5. /\ IsList(new) /\ Len(new) = n /\ new[i] = x /\ \A j \in 1 .. n : j # i => new[j] = nds[j]
    BY <1>1, ListReplaced
  <1>6. /\ IsList(told) /\ Len(told) = n /\ told[i] = w /\ \A j \in 1 .. n : j # i => told[j] = doc[j]
    BY <1>1, ListReplaced
  <1> HIDE DEF n, x, w
  <1>7. IsNode(x) /\ IsElement(w) /\ x.text = w.text
    <2>1. IsList(Append(nds[i].text, piece)) /\ IsList(Append(doc[i].text, piece))
      BY <1>2, ListAppended DEF IsNode, IsElement
    <2> QED  BY <1>2, <1>3, <1>4, <2>1 DEF IsNode, IsElement
  <1>8. \A j \in 1 .. n : told[j].tag = doc[j].tag /\ told[j].path = doc[j].path
    BY <1>4, <1>6
  <1>9. \A j \in 1 .. n : /\ new[j].name = nds[j].name /\ new[j].children = nds[j].children
                          /\ new[j].attrs = nds[j].attrs
    BY <1>3, <1>5
  <1>10. Begins(doc, told)
    BY <1>1, <1>6, <1>8 DEF Begins, n
  <1>11. ASSUME NEW j \in 1 .. n
         PROVE  BuiltAt(new, told, j)
    <2>1. BuiltAt(nds, doc, j)
      BY <1>1
    <2>2. IsNode(new[j]) /\ IsElement(told[j]) /\ new[j].text = told[j].text
      <3>1. CASE j = i
        BY <1>5, <1>6, <1>7, <3>1
      <3>2. CASE j # i
        BY <1>5, <1>6, <2>1, <3>2 DEF BuiltAt
      <3> QED  BY <3>1, <3>2
    <2>3. IsPath(told[j].path, j)
      BY <1>8, <2>1 DEF BuiltAt
    <2>4. ChildrenAre(new[j].children, told, j)
      <3>1. ChildrenAre(nds[j].children, doc, j)
        BY <2>1 DEF BuiltAt
      <3>2. Len(told) = Len(doc) /\ \A k \in 1 .. Len(doc) : told[k].path = doc[k].path
        BY <1>6, <1>8 DEF n
      <3>3. j \in 1 .. Len(doc) /\ new[j].children = nds[j].children
        BY <1>9 DEF n
      <3> QED  BY <3>1, <3>2, <3>3, ChildrenStay
    <2>5. AttrsOf(told, told[j].path) = AttrsOf(doc, doc[j].path)
      <3>1. doc[j].path \in Seq(1 .. j) /\ 1 .. j \subseteq 1 .. Len(doc)
        BY <1>1, <2>1 DEF BuiltAt, IsPath, n
      <3>2. doc[j].path \in Seq(1 .. Len(doc))
        BY <3>1
      <3> QED  BY <1>8, <1>10, <3>2, AttrsStay
    <2>6. BareRight(new[j], told[j].tag, AttrsOf(told, told[j].path))
      <3>1. BareRight(nds[j], doc[j].tag, AttrsOf(doc, doc[j].path))
        BY <2>1 DEF BuiltAt
      <3> QED  BY <1>8, <1>9, <2>5, <3>1 DEF BareRight
    <2> QED  BY <2>2, <2>3, <2>4, <2>6 DEF BuiltAt
  <1>12. TreeOf(new, told)
    BY <1>5, <1>6, <1>11 DEF TreeOf
  <1> QED  BY <1>6, <1>9, <1>10, <1>12 DEF n

-----------------------------------------------------------------------------
(* An element more.                                                        *)

Parented(x, j) == [x EXCEPT !.children = Append(@, j)]

LEMMA ParentedIs ==
    ASSUME NEW x, "children" \in DOMAIN x, NEW j, NEW y, y = Parented(x, j)
    PROVE  /\ DOMAIN y = DOMAIN x /\ y.children = Append(x.children, j)
           /\ \A f \in DOMAIN x : f # "children" => y[f] = x[f]
  BY DEF Parented

\* Two paths, one element longer.
LEMMA PathGrown ==
    ASSUME NEW n \in Nat, NEW p \in Seq(1 .. n), NEW j \in Nat
    PROVE  /\ Append(p, j) # <<>> /\ Len(Append(p, j)) = Len(p) + 1 /\ Len(p) \in Nat
           /\ Append(p, j)[Len(p) + 1] = j
           /\ \A k \in 1 .. Len(p) : Append(p, j)[k] = p[k]
  OBVIOUS

LEMMA PathsSame ==
    ASSUME NEW n \in Nat, NEW p \in Seq(1 .. n), NEW q \in Seq(1 .. n), NEW j \in Nat, NEW k \in Nat,
           Append(p, j) = Append(q, k)
    PROVE  p = q
  <1>1. Len(p) = Len(q) /\ Len(p) \in Nat
    BY PathGrown
  <1>2. ASSUME NEW i \in 1 .. Len(p)
        PROVE  p[i] = q[i]
    <2>1. Append(p, j)[i] = p[i]
      BY PathGrown
    <2>2. i \in 1 .. Len(q)
      BY <1>1
    <2>3. Append(q, k)[i] = q[i]
      BY <2>2, PathGrown
    <2> QED  BY <2>1, <2>3
  <1>3. p = [i \in 1 .. Len(p) |-> p[i]] /\ q = [i \in 1 .. Len(q) |-> q[i]]
    OBVIOUS
  <1> QED  BY <1>1, <1>2, <1>3

\* What is known of a path that stands open.
LEMMA StandsOn ==
    ASSUME NEW nds, NEW doc, TreeOf(nds, doc), NEW stk, Standing(doc, stk), stk # <<>>
    PROVE  /\ Len(stk) \in Nat \ {0} /\ Last(stk) = stk[Len(stk)] /\ Last(stk) \in 1 .. Len(doc)
           /\ doc[Last(stk)].path = stk
  <1>1. Len(doc) \in Nat /\ stk \in Seq(1 .. Len(doc)) /\ Len(stk) \in Nat \ {0}
    BY DEF TreeOf, IsList, Standing
  <1>2. Last(stk) = stk[Len(stk)] /\ stk[Len(stk)] \in 1 .. Len(doc)
    BY <1>1 DEF Last
  <1>3. doc[stk[Len(stk)]].path = SubSeq(stk, 1, Len(stk))
    BY <1>1 DEF Standing
  <1>4. SubSeq(stk, 1, Len(stk)) = stk
    BY <1>1
  <1> QED  BY <1>1, <1>2, <1>3, <1>4

\* An element more on the path.
WrittenMore(doc, stk, w, new) ==
    /\ IsList(doc) /\ Standing(doc, stk) /\ (stk = <<>> => Len(doc) = 0)
    /\ w.path = Append(stk, Len(doc) + 1) /\ new = Append(doc, w)

LEMMA StandingGrown ==
    ASSUME NEW doc, NEW stk, NEW w, NEW new, WrittenMore(doc, stk, w, new)
    PROVE  /\ Begins(doc, new) /\ Standing(new, w.path)
           /\ AttrsOf(new, w.path) = Append(AttrsOf(doc, stk), w.tag.attrs)
           /\ IsList(AttrsOf(doc, stk))
  <1> USE DEF WrittenMore
  <1> DEFINE n == Len(doc)
             l == Len(stk)
             more == Append(stk, n + 1)
  <1>1. /\ n \in Nat /\ IsList(new) /\ Len(new) = n + 1 /\ new[n + 1] = w
        /\ \A i \in 1 .. n : new[i] = doc[i]
    BY ListAppended
  <1>2. /\ stk \in Seq(1 .. n) /\ l \in Nat /\ \A k \in 1 .. l : stk[k] \in 1 .. n
    BY DEF Standing
  <1>3. Begins(doc, new)
    BY <1>1 DEF Begins
  <1>4. Standing(new, stk) /\ AttrsOf(new, stk) = AttrsOf(doc, stk)
    BY <1>3, StandingStays
  <1> HIDE DEF n
  <1>5. /\ more \in Seq(1 .. n + 1) /\ Len(more) = l + 1 /\ more[l + 1] = n + 1
        /\ \A k \in 1 .. l : more[k] = stk[k]
        /\ \A k \in 1 .. l : SubSeq(more, 1, k) = SubSeq(stk, 1, k)
        /\ SubSeq(more, 1, l + 1) = more
    <2>1. 1 .. n \subseteq 1 .. n + 1 /\ n + 1 \in 1 .. n + 1
      BY <1>1
    <2>2. stk \in Seq(1 .. n + 1)
      BY <1>2, <2>1
    <2> HIDE DEF l
    <2>3. more \in Seq(1 .. n + 1) /\ Len(more) = Len(stk) + 1 /\ more[Len(stk) + 1] = n + 1
          /\ \A k \in 1 .. Len(stk) : more[k] = stk[k]
      BY <2>1, <2>2
    <2> HIDE DEF more
    <2>4. SubSeq(more, 1, Len(stk) + 1) = more
      BY <2>3
    <2>5. \A k \in 1 .. Len(stk) : SubSeq(more, 1, k) = SubSeq(stk, 1, k)
      <3> SUFFICES ASSUME NEW k \in 1 .. Len(stk)
                   PROVE  SubSeq(more, 1, k) = SubSeq(stk, 1, k)
        OBVIOUS
      <3>1. SubSeq(more, 1, k) = [i \in 1 .. k |-> more[i]]
        BY <2>3
      <3>2. SubSeq(stk, 1, k) = [i \in 1 .. k |-> stk[i]]
        BY <2>2
      <3>3. \A i \in 1 .. k : more[i] = stk[i]
        BY <2>2, <2>3
      <3> QED  BY <3>1, <3>2, <3>3
    <2> QED  BY <2>3, <2>4, <2>5 DEF l
  <1> HIDE DEF more, l
  <1>6. more[1] = 1
    <2>1. CASE l = 0
      <3>1. stk = <<>>
        BY <1>2, <2>1 DEF l
      <3>2. n = 0
        BY <3>1 DEF n
      <3> QED  BY <1>5, <2>1, <3>2
    <2>2. CASE l # 0
      <3>1. stk # <<>> /\ 1 \in 1 .. l
        BY <1>2, <2>2 DEF l
      <3>2. stk[1] = 1
        BY <3>1 DEF Standing
      <3> QED  BY <1>5, <3>1, <3>2
    <2> QED  BY <2>1, <2>2
  <1>7. ASSUME NEW k \in 1 .. l + 1, NEW x \in 1 .. l + 1, k < x
        PROVE  more[k] < more[x]
    <2>1. k \in 1 .. l
      BY <1>2, <1>7
    <2>2. CASE x = l + 1
      <3>1. more[k] = stk[k] /\ stk[k] \in 1 .. n
        BY <1>2, <1>5, <2>1
      <3>2. more[x] = n + 1
        BY <1>5, <2>2
      <3>3. \A s \in 1 .. n : s < n + 1
        BY <1>1
      <3> QED  BY <3>1, <3>2, <3>3
    <2>3. CASE x # l + 1
      <3>1. x \in 1 .. l
        BY <1>2, <2>3
      <3>2. stk[k] < stk[x]
        BY <1>7, <2>1, <3>1 DEF Standing, l
      <3> QED  BY <1>5, <2>1, <3>1, <3>2
    <2> QED  BY <2>2, <2>3
  <1>8. ASSUME NEW k \in 1 .. l + 1
        PROVE  new[more[k]].path = SubSeq(more, 1, k)
    <2>1. CASE k = l + 1
      <3>1. new[more[k]].path = more
        BY <1>1, <1>5, <2>1 DEF n, more
      <3> QED  BY <1>5, <2>1, <3>1
    <2>2. CASE k # l + 1
      <3>1. k \in 1 .. l
        BY <1>2, <2>2
      <3>2. new[stk[k]].path = SubSeq(stk, 1, k)
        BY <1>4, <3>1 DEF Standing, l
      <3> QED  BY <1>5, <3>1, <3>2
    <2> QED  BY <2>1, <2>2
  <1>9. Standing(new, more)
    <2>1. more \in Seq(1 .. Len(new)) /\ Len(more) = l + 1
      BY <1>1, <1>5
    <2>2. \A k, x \in 1 .. Len(more) : k < x => more[k] < more[x]
      BY <1>7, <2>1
    <2>3. \A k \in 1 .. Len(more) : new[more[k]].path = SubSeq(more, 1, k)
      BY <1>8, <2>1
    <2> QED  BY <1>6, <2>1, <2>2, <2>3 DEF Standing
  <1>10. IsList(AttrsOf(doc, stk)) /\ Len(AttrsOf(doc, stk)) = l
    <2> DEFINE at == AttrsOf(doc, stk)
    <2>1. at = [k \in 1 .. l |-> doc[stk[k]].tag.attrs]
      BY DEF AttrsOf, l
    <2> HIDE DEF at
    <2>2. DOMAIN at = 1 .. l /\ Len(at) = l /\ at = [k \in 1 .. l |-> at[k]]
      BY <1>2, <2>1
    <2>3. \A k \in 1 .. l : at[k] \in ToSet(at)
      BY <2>2 DEF ToSet
    <2>4. at \in Seq(ToSet(at))
      BY <1>2, <2>2, <2>3
    <2> QED  BY <2>2, <2>4 DEF IsList, at
  <1>11. AttrsOf(new, more) = Append(AttrsOf(doc, stk), w.tag.attrs)
    <2> DEFINE at == AttrsOf(doc, stk)
               al == Append(at, w.tag.attrs)
    <2>1. /\ IsList(al) /\ Len(al) = l + 1 /\ al[l + 1] = w.tag.attrs
          /\ \A k \in 1 .. l : al[k] = at[k]
      BY <1>10, ListAppended
    <2>2. \A k \in 1 .. l : at[k] = doc[stk[k]].tag.attrs
      BY DEF AttrsOf, l
    <2>3. AttrsOf(new, more) = [k \in 1 .. l + 1 |-> new[more[k]].tag.attrs]
      BY <1>5 DEF AttrsOf
    <2> HIDE DEF at, al
    <2>4. ASSUME NEW k \in 1 .. l + 1
          PROVE  new[more[k]].tag.attrs = al[k]
      <3>1. CASE k = l + 1
        BY <1>1, <1>5, <2>1, <3>1
      <3>2. CASE k # l + 1
        <4>1. k \in 1 .. l
          BY <1>2, <3>2
        <4> QED  BY <1>1, <1>2, <1>5, <2>1, <2>2, <4>1
      <3> QED  BY <3>1, <3>2
    <2>5. al = [k \in 1 .. l + 1 |-> al[k]]
      BY <2>1 DEF IsList
    <2> QED  BY <2>3, <2>4, <2>5 DEF al, at
  <1> QED  BY <1>3, <1>9, <1>10, <1>11 DEF more, n

LEMMA PathWidens ==
    ASSUME NEW S, NEW T, S \subseteq T, NEW p \in Seq(S)
    PROVE  p \in Seq(T) /\ Len(p) \in Nat /\ \A k \in 1 .. Len(p) : p[k] \in S
  OBVIOUS

\* Whose child the new element is.
LEMMA ChildOf ==
    ASSUME NEW nds, NEW doc, TreeOf(nds, doc), NEW stk, Standing(doc, stk), NEW i \in 1 .. Len(doc)
    PROVE  /\ Append(stk, Len(doc) + 1) = Append(doc[i].path, Len(doc) + 1)
                 <=> stk # <<>> /\ i = Last(stk)
           /\ Append(Append(stk, Len(doc) + 1), Len(doc) + 1) # Append(stk, Len(doc) + 1)
           /\ Append(Append(stk, Len(doc) + 1), i) # doc[i].path
  <1> DEFINE n == Len(doc)
             p == doc[i].path
             more == Append(stk, n + 1)
  <1>1. n \in Nat /\ stk \in Seq(1 .. n) /\ p \in Seq(1 .. i) /\ p # <<>> /\ p[Len(p)] = i
    BY DEF TreeOf, IsList, BuiltAt, IsPath, Standing
  <1>2. p \in Seq(1 .. n) /\ i \in 1 .. n
    <2>1. 1 .. i \subseteq 1 .. n
      BY <1>1
    <2> QED  BY <1>1, <2>1
  <1>3. /\ Len(more) = Len(stk) + 1 /\ Len(stk) \in Nat /\ more[Len(stk) + 1] = n + 1
        /\ more \in Seq(1 .. n + 1)
    <2>1. stk \in Seq(1 .. n + 1)
      <3>1. 1 .. n \subseteq 1 .. n + 1
        BY <1>1
      <3> QED  BY <1>1, <3>1
    <2>2. n + 1 \in 1 .. n + 1
      BY <1>1
    <2> HIDE DEF n
    <2> QED  BY <2>1, <2>2
  <1>4. ASSUME more = Append(p, n + 1)
        PROVE  stk # <<>> /\ i = Last(stk)
    <2>1. stk = p
      <3>1. n + 1 \in Nat
        BY <1>1
      <3> HIDE DEF n, p
      <3> QED  BY ONLY <1>1, <1>2, <1>4, <3>1, PathsSame DEF more
    <2> QED  BY <1>1, <2>1 DEF Last
  <1>5. ASSUME stk # <<>>, i = Last(stk)
        PROVE  more = Append(p, n + 1)
    <2>1. p = stk
      BY <1>5, StandsOn
    <2> QED  BY <2>1
  <1>6. n + 1 \in Nat /\ i \in Nat
    BY <1>1, <1>2
  <1> HIDE DEF n, p, more
  <1>7. Len(Append(more, n + 1)) = Len(more) + 1 /\ Len(more) \in Nat
    BY <1>3, <1>6, PathGrown
  <1>8. Append(more, n + 1) # more
    BY <1>7
  <1>9. Append(more, i) # p
    <2>1. /\ Len(Append(more, i)) = Len(more) + 1
          /\ \A k \in 1 .. Len(more) : Append(more, i)[k] = more[k]
      BY <1>3, <1>6, PathGrown
    <2>2. Len(stk) + 1 \in 1 .. Len(more)
      BY <1>3
    <2>3. Append(more, i)[Len(stk) + 1] = n + 1
      BY <1>3, <2>1, <2>2
    <2>4. SUFFICES ASSUME Append(more, i) = p PROVE FALSE
      OBVIOUS
    <2>5. Len(stk) + 1 \in 1 .. Len(p)
      BY <1>7, <2>1, <2>2, <2>4
    <2>6. p[Len(stk) + 1] \in 1 .. n
      BY <1>2, <2>5, PathWidens
    <2>7. p[Len(stk) + 1] = n + 1
      BY <2>3, <2>4
    <2>8. \A s \in 1 .. n : s # n + 1
      BY <1>1
    <2> QED  BY <2>6, <2>7, <2>8
  <1> QED  BY <1>4, <1>5, <1>8, <1>9 DEF more, n, p

\* The children of an element, one more or none.
LEMMA ChildrenKept ==
    ASSUME NEW ch, NEW doc, IsList(doc), NEW i \in 1 .. Len(doc), ChildrenAre(ch, doc, i),
           NEW w, NEW new, new = Append(doc, w), w.path # Append(doc[i].path, Len(doc) + 1)
    PROVE  ChildrenAre(ch, new, i)
  <1> DEFINE n == Len(doc)
  <1>1. n \in Nat /\ Len(new) = n + 1 /\ new[n + 1] = w /\ \A j \in 1 .. n : new[j] = doc[j]
    BY ListAppended
  <1>2. ASSUME NEW k \in 1 .. Len(ch)
        PROVE  ch[k] \in 1 .. Len(new) /\ new[ch[k]].path = Append(new[i].path, ch[k])
    <2>1. ch[k] \in 1 .. n /\ doc[ch[k]].path = Append(doc[i].path, ch[k])
      BY DEF ChildrenAre
    <2>2. new[ch[k]] = doc[ch[k]] /\ new[i] = doc[i]
      BY <1>1, <2>1
    <2>3. ch[k] \in 1 .. n + 1
      BY <1>1, <2>1
    <2> QED  BY <1>1, <2>1, <2>2, <2>3
  <1>3. ASSUME NEW j \in 1 .. Len(new), new[j].path = Append(new[i].path, j)
        PROVE  \E k \in 1 .. Len(ch) : ch[k] = j
    <2>1. new[i] = doc[i]
      BY <1>1
    <2>2. CASE j = n + 1
      <3>1. w.path = Append(doc[i].path, n + 1)
        BY <1>1, <1>3, <2>1, <2>2
      <3> QED  BY <3>1
    <2>3. CASE j # n + 1
      <3>1. j \in 1 .. n
        BY <1>1, <2>3
      <3>2. doc[j].path = Append(doc[i].path, j)
        BY <1>1, <1>3, <2>1, <3>1
      <3> QED  BY <3>1, <3>2 DEF ChildrenAre
    <2> QED  BY <2>2, <2>3
  <1>4. \A k, l \in 1 .. Len(ch) : k < l => ch[k] < ch[l]
    BY DEF ChildrenAre
  <1> QED  BY <1>2, <1>3, <1>4 DEF ChildrenAre

LEMMA ChildrenGrown ==
    ASSUME NEW ch, IsList(ch), NEW doc, IsList(doc), NEW i \in 1 .. Len(doc), ChildrenAre(ch, doc, i),
           NEW w, NEW new, new = Append(doc, w), w.path = Append(doc[i].path, Len(doc) + 1)
    PROVE  ChildrenAre(Append(ch, Len(doc) + 1), new, i)
  <1> DEFINE n == Len(doc)
             c == Len(ch)
             more == Append(ch, n + 1)
  <1>1. n \in Nat /\ Len(new) = n + 1 /\ new[n + 1] = w /\ \A j \in 1 .. n : new[j] = doc[j]
    BY ListAppended
  <1>2. c \in Nat /\ Len(more) = c + 1 /\ more[c + 1] = n + 1 /\ \A k \in 1 .. c : more[k] = ch[k]
    BY ListAppended
  <1>3. /\ \A k, l \in 1 .. c : k < l => ch[k] < ch[l]
        /\ \A k \in 1 .. c : ch[k] \in 1 .. n /\ doc[ch[k]].path = Append(doc[i].path, ch[k])
        /\ \A j \in 1 .. n : doc[j].path = Append(doc[i].path, j) => \E k \in 1 .. c : ch[k] = j
    BY DEF ChildrenAre
  <1>4. i \in 1 .. n /\ new[i] = doc[i] /\ w.path = Append(doc[i].path, n + 1)
    BY <1>1
  <1> HIDE DEF n, c, more
  <1>5. ASSUME NEW k \in 1 .. c + 1
        PROVE  more[k] \in 1 .. n + 1 /\ new[more[k]].path = Append(new[i].path, more[k])
    <2>1. CASE k = c + 1
      <3>1. more[k] = n + 1 /\ new[more[k]] = w
        BY <1>1, <1>2, <2>1
      <3>2. n + 1 \in 1 .. n + 1
        BY <1>1
      <3> QED  BY <1>4, <3>1, <3>2
    <2>2. CASE k # c + 1
      <3>1. k \in 1 .. c
        BY <1>2, <2>2
      <3>2. more[k] = ch[k] /\ ch[k] \in 1 .. n /\ doc[ch[k]].path = Append(doc[i].path, ch[k])
        BY <1>2, <1>3, <3>1
      <3>3. new[ch[k]] = doc[ch[k]] /\ ch[k] \in 1 .. n + 1
        BY <1>1, <3>2
      <3> QED  BY <1>4, <3>2, <3>3
    <2> QED  BY <2>1, <2>2
  <1>6. ASSUME NEW j \in 1 .. n + 1, new[j].path = Append(new[i].path, j)
        PROVE  \E k \in 1 .. c + 1 : more[k] = j
    <2>1. CASE j = n + 1
      <3>1. c + 1 \in 1 .. c + 1
        BY <1>2
      <3> QED  BY <1>2, <2>1, <3>1
    <2>2. CASE j # n + 1
      <3>1. j \in 1 .. n
        BY <1>1, <2>2
      <3>2. new[j] = doc[j]
        BY <1>1, <3>1
      <3>3. PICK k \in 1 .. c : ch[k] = j
        BY <1>3, <1>4, <1>6, <3>1, <3>2
      <3>4. k \in 1 .. c + 1 /\ more[k] = j
        BY <1>2, <3>3
      <3> QED  BY <3>4
    <2> QED  BY <2>1, <2>2
  <1>7. ASSUME NEW k \in 1 .. c + 1, NEW l \in 1 .. c + 1, k < l
        PROVE  more[k] < more[l]
    <2>1. k \in 1 .. c
      BY <1>2, <1>7
    <2>2. more[k] = ch[k] /\ ch[k] \in 1 .. n
      BY <1>2, <1>3, <2>1
    <2>3. CASE l = c + 1
      <3>1. more[l] = n + 1
        BY <1>2, <2>3
      <3>2. \A s \in 1 .. n : s < n + 1
        BY <1>1
      <3> QED  BY <2>2, <3>1, <3>2
    <2>4. CASE l # c + 1
      <3>1. l \in 1 .. c
        BY <1>2, <2>4
      <3>2. more[l] = ch[l] /\ ch[k] < ch[l]
        BY <1>2, <1>3, <1>7, <2>1, <3>1
      <3> QED  BY <2>2, <3>2
    <2> QED  BY <2>3, <2>4
  <1> QED  BY <1>1, <1>2, <1>5, <1>6, <1>7 DEF ChildrenAre, n, c, more

\* A tag that is taken, in the nodes and in the document.
Grows(nds, doc, stk, node, w, new, longer) ==
    /\ TreeOf(nds, doc) /\ WrittenMore(doc, stk, w, longer)
    /\ IsNode(node) /\ node.text = <<>> /\ node.children = <<>> /\ IsElement(w) /\ w.text = <<>>
    /\ BareRight(node, w.tag, Append(AttrsOf(doc, stk), w.tag.attrs))
    /\ new = Append(IF stk = <<>> THEN nds
                    ELSE Put(nds, Last(stk), Parented(nds[Last(stk)], Len(nds) + 1)), node)

LEMMA BuiltGrown ==
    ASSUME NEW nds, NEW doc, NEW stk, NEW node, NEW w, NEW new, NEW longer,
           Grows(nds, doc, stk, node, w, new, longer)
    PROVE  TreeOf(new, longer) /\ Begins(doc, longer) /\ Len(longer) = Len(doc) + 1
           /\ Standing(longer, w.path) /\ AttrsOf(longer, w.path) = Append(AttrsOf(doc, stk), w.tag.attrs)
           /\ \A j \in 1 .. Len(doc) : new[j].name = nds[j].name
  <1>3. /\ Begins(doc, longer) /\ Standing(longer, w.path)
        /\ AttrsOf(longer, w.path) = Append(AttrsOf(doc, stk), w.tag.attrs)
    BY StandingGrown DEF Grows
  <1> USE DEF Grows, WrittenMore
  <1> DEFINE n == Len(doc)
             on == Last(stk)
             old == IF stk = <<>> THEN nds ELSE Put(nds, on, Parented(nds[on], Len(nds) + 1))
             x == Parented(nds[on], n + 1)
  <1>1. IsList(nds) /\ IsList(doc) /\ Len(nds) = n /\ n \in Nat /\ \A j \in 1 .. n : BuiltAt(nds, doc, j)
    BY DEF TreeOf, IsList
  <1>2. /\ IsList(longer) /\ Len(longer) = n + 1 /\ longer[n + 1] = w
        /\ \A j \in 1 .. n : longer[j] = doc[j]
    BY <1>1, ListAppended
  <1>4. stk # <<>> => on \in 1 .. n
    BY StandsOn
  <1>5. stk # <<>> => /\ DOMAIN x = DOMAIN nds[on] /\ x.children = Append(nds[on].children, n + 1)
                      /\ x.name = nds[on].name /\ x.text = nds[on].text /\ x.attrs = nds[on].attrs
    <2> SUFFICES ASSUME stk # <<>>
                 PROVE  /\ DOMAIN x = DOMAIN nds[on] /\ x.children = Append(nds[on].children, n + 1)
                        /\ x.name = nds[on].name /\ x.text = nds[on].text /\ x.attrs = nds[on].attrs
      OBVIOUS
    <2>1. "children" \in DOMAIN nds[on] /\ {"name", "text", "attrs"} \subseteq DOMAIN nds[on]
      BY <1>1, <1>4 DEF BuiltAt, IsNode
    <2>2. /\ DOMAIN x = DOMAIN nds[on] /\ x.children = Append(nds[on].children, n + 1)
          /\ \A f \in DOMAIN nds[on] : f # "children" => x[f] = nds[on][f]
      BY <2>1, ParentedIs
    <2> HIDE DEF x
    <2> QED  BY <2>1, <2>2
  <1>6. /\ IsList(old) /\ Len(old) = n
        /\ \A j \in 1 .. n : old[j] = IF stk # <<>> /\ j = on THEN x ELSE nds[j]
    <2>1. CASE stk = <<>>
      BY <1>1, <2>1
    <2>2. CASE stk # <<>>
      <3>1. old = Put(nds, on, x)
        BY <1>1, <2>2
      <3>2. on \in 1 .. Len(nds)
        BY <1>1, <1>4, <2>2
      <3> HIDE DEF x, on
      <3>3. /\ IsList(old) /\ Len(old) = Len(nds) /\ old[on] = x
            /\ \A j \in 1 .. Len(nds) : j # on => old[j] = nds[j]
        BY ONLY <1>1, <3>1, <3>2, ListReplaced
      <3> QED  BY <1>1, <2>2, <3>3
    <2> QED  BY <2>1, <2>2
  <1>7. IsList(new) /\ Len(new) = n + 1 /\ new[n + 1] = node /\ \A j \in 1 .. n : new[j] = old[j]
    <2>1. new = Append(old, node)
      OBVIOUS
    <2> HIDE DEF n, x, old
    <2> QED  BY ONLY <1>6, <2>1, ListAppended
  <1> HIDE DEF n, x, old
  <1>8. \A j \in 1 .. n : /\ new[j].name = nds[j].name /\ new[j].text = nds[j].text
                          /\ new[j].attrs = nds[j].attrs
                          /\ new[j].children = IF stk # <<>> /\ j = on THEN Append(nds[j].children, n + 1)
                                               ELSE nds[j].children
                          /\ DOMAIN new[j] = DOMAIN nds[j]
    BY <1>5, <1>6, <1>7
  <1> HIDE DEF on
  <1>9. ASSUME NEW j \in 1 .. n
        PROVE  BuiltAt(new, longer, j)
    <2>1. BuiltAt(nds, doc, j) /\ longer[j] = doc[j]
      BY <1>1, <1>2
    <2>2. IsList(nds[j].children) /\ ChildrenAre(nds[j].children, doc, j) /\ IsList(nds[j].text)
          /\ DOMAIN nds[j] = {"name", "text", "children", "attrs"}
      BY <2>1 DEF BuiltAt, IsNode
    <2>3. Append(stk, n + 1) = Append(doc[j].path, n + 1) <=> stk # <<>> /\ j = on
      BY ChildOf DEF n, on
    <2>4. IsList(new[j].children) /\ ChildrenAre(new[j].children, longer, j)
      <3>1. CASE stk # <<>> /\ j = on
        <4>1. new[j].children = Append(nds[j].children, n + 1)
          BY <1>8, <3>1
        <4>2. w.path = Append(doc[j].path, n + 1)
          BY <2>3, <3>1 DEF n
        <4>3. ChildrenAre(Append(nds[j].children, n + 1), longer, j)
          BY <1>1, <2>2, <4>2, ChildrenGrown DEF n
        <4>4. IsList(Append(nds[j].children, n + 1))
          BY <2>2, ListAppended
        <4> QED  BY <4>1, <4>3, <4>4
      <3>2. CASE ~ (stk # <<>> /\ j = on)
        <4>1. new[j].children = nds[j].children
          BY <1>8, <3>2
        <4>2. w.path # Append(doc[j].path, n + 1)
          BY <2>3, <3>2 DEF n
        <4>3. ChildrenAre(nds[j].children, longer, j)
          BY <1>1, <2>2, <4>2, ChildrenKept DEF n
        <4> QED  BY <2>2, <4>1, <4>3
      <3> QED  BY <3>1, <3>2
    <2>5. IsNode(new[j])
      <3>1. DOMAIN new[j] = {"name", "text", "children", "attrs"} /\ new[j].text = nds[j].text
        BY <1>8, <2>2
      <3> QED  BY <2>2, <2>4, <3>1 DEF IsNode
    <2>6. IsElement(longer[j]) /\ IsPath(longer[j].path, j) /\ new[j].text = longer[j].text
      BY <1>8, <2>1 DEF BuiltAt
    <2>7. AttrsOf(longer, longer[j].path) = AttrsOf(doc, doc[j].path)
      <3>1. doc[j].path \in Seq(1 .. j) /\ 1 .. j \subseteq 1 .. Len(doc)
        BY <1>1, <2>1 DEF BuiltAt, IsPath, n
      <3>2. doc[j].path \in Seq(1 .. Len(doc))
        BY <3>1
      <3> QED  BY <1>3, <2>1, <3>2, AttrsStay
    <2>8. BareRight(new[j], longer[j].tag, AttrsOf(longer, longer[j].path))
      <3>1. BareRight(nds[j], doc[j].tag, AttrsOf(doc, doc[j].path))
        BY <2>1 DEF BuiltAt
      <3> QED  BY <1>8, <2>1, <2>7, <3>1 DEF BareRight
    <2> QED  BY <2>4, <2>5, <2>6, <2>8 DEF BuiltAt
  <1>10. BuiltAt(new, longer, n + 1)
    <2>1. IsPath(w.path, n + 1)
      <3>1. stk \in Seq(1 .. n) /\ 1 .. n \subseteq 1 .. n + 1 /\ n + 1 \in 1 .. n + 1 /\ n + 1 \in Nat
        BY <1>1 DEF Standing, n
      <3>2. stk \in Seq(1 .. n + 1)
        BY ONLY <3>1, PathWidens
      <3>3. w.path = Append(stk, n + 1)
        BY DEF n
      <3>4. w.path \in Seq(1 .. n + 1)
        BY <3>1, <3>2, <3>3
      <3>5. /\ Append(stk, n + 1) # <<>> /\ Len(Append(stk, n + 1)) = Len(stk) + 1
            /\ Append(stk, n + 1)[Len(stk) + 1] = n + 1
        BY <1>1, <3>1, PathGrown
      <3> QED  BY <3>3, <3>4, <3>5 DEF IsPath
    <2>2. ChildrenAre(<<>>, longer, n + 1)
      <3>1. ASSUME NEW j \in 1 .. n + 1, longer[j].path = Append(longer[n + 1].path, j)
            PROVE  FALSE
        <4>1. longer[n + 1].path = Append(stk, n + 1)
          BY <1>2 DEF n
        <4>2. CASE j = n + 1
          <5>1. Append(stk, n + 1) = Append(Append(stk, n + 1), n + 1)
            BY <3>1, <4>1, <4>2
          <5>2. stk \in Seq(1 .. n)
            BY DEF Standing, n
          <5>3. Append(stk, n + 1) \in Seq(1 .. n + 1)
            BY <2>1, <4>1, <1>2 DEF IsPath
          <5>4. n + 1 \in Nat
            BY <1>1
          <5>5. /\ Len(Append(Append(stk, n + 1), n + 1)) = Len(Append(stk, n + 1)) + 1
                /\ Len(Append(stk, n + 1)) \in Nat
            BY <5>3, <5>4, PathGrown
          <5> QED  BY <5>1, <5>5
        <4>3. CASE j # n + 1
          <5>1. j \in 1 .. n
            BY <1>1, <4>3
          <5>2. doc[j].path = Append(Append(stk, n + 1), j)
            BY <1>2, <3>1, <4>1, <5>1
          <5> QED  BY <5>1, <5>2, ChildOf DEF n
        <4> QED  BY <4>2, <4>3
      <3>2. Len(<<>>) = 0 /\ 1 .. 0 = {}
        OBVIOUS
      <3>3. Len(longer) = n + 1
        BY <1>2
      <3> QED  BY <3>1, <3>2, <3>3 DEF ChildrenAre
    <2>3. BareRight(node, w.tag, AttrsOf(longer, w.path))
      BY <1>3
    <2> QED  BY <1>2, <1>7, <2>1, <2>2, <2>3 DEF BuiltAt
  <1>11. TreeOf(new, longer)
    <2>1. ASSUME NEW j \in 1 .. n + 1
          PROVE  BuiltAt(new, longer, j)
      <3>1. CASE j = n + 1
        BY <1>10, <3>1
      <3>2. CASE j # n + 1
        <4>1. j \in 1 .. n
          BY <1>1, <3>2
        <4> QED  BY <1>9, <4>1
      <3> QED  BY <3>1, <3>2
    <2> QED  BY <1>2, <1>7, <2>1 DEF TreeOf
  <1> QED  BY <1>2, <1>3, <1>8, <1>11 DEF n

-----------------------------------------------------------------------------
(* The parse.                                                              *)

\* The nodes are the elements written, the stack is the path to the innermost open one, the bindings
\* are those the elements on it declare, and the parse goes on as long as the root is open.
DocumentInv ==
    /\ TreeOf(nodes, written) /\ Standing(written, stack) /\ open = stack
    /\ Scoped(AttrsOf(written, stack), namespaces)
    /\ root = IF Len(nodes) = 0 THEN None ELSE 1
    /\ (outcome = "parsing" /\ stack = <<>> => Len(nodes) = 0)
    /\ AcceptedIsWhole

LEMMA RefusalIs ==
    ASSUME NEW tag, NEW ns
    PROVE  /\ TagRefusal(tag, ns) \in {"ok", "Malformed", "LimitExceeded"}
           /\ TagRefusal(tag, ns) = "ok" => ReadAttributes(ns, tag).res = "ok"
  <1>1. \A items, i : AttributeRefusal(ns, items, i) \in {"ok", "Malformed", "LimitExceeded"}
    BY Zenon DEF AttributeRefusal
  <1>2. ReadAttributes(ns, tag).res \in {"ok", "Malformed", "LimitExceeded"}
    <2> DEFINE items == Yields(tag)
               refused == {i \in DOMAIN items : AttributeRefusal(ns, items, i) # "ok"}
               first == AttributeRefusal(ns, items, Min(refused))
               kept == [i \in DOMAIN items |-> <<AttributeKey(ns, items[i].key), items[i].value>>]
    <2>1. ReadAttributes(ns, tag) = IF refused # {} THEN [res |-> first, attrs |-> <<>>]
                                    ELSE [res |-> "ok", attrs |-> kept]
      BY Zenon DEF ReadAttributes
    <2>2. first \in {"ok", "Malformed", "LimitExceeded"}
      BY <1>1
    <2> HIDE DEF items, refused, first, kept
    <2> QED  BY <2>1, <2>2
  <1> HIDE DEF ReadAttributes
  <1> QED  BY <1>2, Zenon DEF TagRefusal

\* A path one element shorter.
LEMMA StandingShrinks ==
    ASSUME NEW doc, NEW stk, Standing(doc, stk), stk # <<>>, NEW less, less = Front(stk)
    PROVE  /\ Standing(doc, less) /\ Len(stk) \in Nat \ {0} /\ Len(less) = Len(stk) - 1
           /\ Len(AttrsOf(doc, stk)) = Len(stk) /\ Len(AttrsOf(doc, less)) = Len(stk) - 1
           /\ \A k \in 1 .. Len(stk) - 1 : AttrsOf(doc, less)[k] = AttrsOf(doc, stk)[k]
  <1> DEFINE S == 1 .. Len(doc)
             l == Len(stk)
  <1>1. stk \in Seq(S) /\ l \in Nat \ {0}
    BY DEF Standing
  <1> HIDE DEF S
  <1>2. less = SubSeq(stk, 1, l - 1)
    BY DEF Front
  <1>3. less \in Seq(S) /\ Len(less) = l - 1 /\ \A k \in 1 .. l - 1 : less[k] = stk[k]
    <2> DEFINE m == l - 1
    <2>1. m \in Nat /\ m <= Len(stk) /\ less = SubSeq(stk, 1, m)
      BY <1>1, <1>2
    <2> HIDE DEF m, l
    <2>2. less \in Seq(S) /\ Len(less) = m /\ \A k \in 1 .. m : less[k] = stk[k]
      BY <1>1, <2>1
    <2> QED  BY <2>2 DEF m
  <1>4. \A k \in 1 .. l - 1 : k \in 1 .. l
    BY <1>1
  <1>5. less # <<>> => less[1] = 1
    <2> SUFFICES ASSUME less # <<>> PROVE less[1] = 1
      OBVIOUS
    <2>1. 1 \in 1 .. l - 1
      BY <1>1, <1>3
    <2>2. stk[1] = 1
      BY DEF Standing
    <2> QED  BY <1>3, <2>1, <2>2
  <1>6. \A k, x \in 1 .. l - 1 : k < x => less[k] < less[x]
    BY <1>3, <1>4 DEF Standing
  <1>7. ASSUME NEW k \in 1 .. l - 1
        PROVE  doc[less[k]].path = SubSeq(less, 1, k)
    <2>1. doc[stk[k]].path = SubSeq(stk, 1, k) /\ less[k] = stk[k]
      BY <1>3, <1>4 DEF Standing
    <2>2. SubSeq(less, 1, k) = [i \in 1 .. k |-> less[i]]
      BY <1>3
    <2>3. SubSeq(stk, 1, k) = [i \in 1 .. k |-> stk[i]]
      BY <1>1
    <2>4. \A i \in 1 .. k : less[i] = stk[i]
      BY <1>1, <1>3
    <2> QED  BY <2>1, <2>2, <2>3, <2>4
  <1>8. Standing(doc, less)
    BY <1>3, <1>5, <1>6, <1>7 DEF Standing, S
  <1> HIDE DEF l
  <1>9. /\ AttrsOf(doc, stk) = [k \in 1 .. l |-> doc[stk[k]].tag.attrs]
        /\ AttrsOf(doc, less) = [k \in 1 .. l - 1 |-> doc[less[k]].tag.attrs]
    BY <1>3 DEF AttrsOf, l
  <1>10. Len(AttrsOf(doc, stk)) = l /\ Len(AttrsOf(doc, less)) = l - 1
    BY <1>1, <1>9
  <1>11. \A k \in 1 .. l - 1 : AttrsOf(doc, less)[k] = AttrsOf(doc, stk)[k]
    BY <1>3, <1>4, <1>9
  <1> QED  BY <1>1, <1>3, <1>8, <1>10, <1>11 DEF l

\* The last of a path is the root only when the path is the root.
LEMMA RootIsLast ==
    ASSUME NEW nds, NEW doc, TreeOf(nds, doc), NEW stk, Standing(doc, stk), stk # <<>>
    PROVE  /\ Len(nds) # 0 /\ (Last(stk) = 1 <=> Len(stk) = 1) /\ (Front(stk) = <<>> <=> Len(stk) = 1)
           /\ 1 \in 1 .. Len(nds)
  <1>1. /\ Len(stk) \in Nat \ {0} /\ Last(stk) = stk[Len(stk)] /\ Last(stk) \in 1 .. Len(doc)
    BY StandsOn
  <1>2. stk[1] = 1 /\ \A k, x \in 1 .. Len(stk) : k < x => stk[k] < stk[x]
    BY DEF Standing
  <1>3. ASSUME Len(stk) # 1
        PROVE  stk[1] < stk[Len(stk)]
    <2>1. 1 \in 1 .. Len(stk) /\ Len(stk) \in 1 .. Len(stk) /\ 1 < Len(stk)
      BY <1>1, <1>3
    <2> QED  BY ONLY <1>2, <2>1
  <1>4. Last(stk) = 1 <=> Len(stk) = 1
    BY <1>1, <1>2, <1>3
  <1>5. Len(Front(stk)) = Len(stk) - 1 /\ Standing(doc, Front(stk))
    BY StandingShrinks
  <1>6. Front(stk) \in Seq(1 .. Len(doc))
    BY <1>5 DEF Standing
  <1>7. Front(stk) = <<>> <=> Len(Front(stk)) = 0
    BY <1>6
  <1>8. Len(nds) = Len(doc) /\ Len(nds) \in Nat
    BY DEF TreeOf, IsList
  <1> QED  BY <1>1, <1>4, <1>5, <1>7, <1>8

LEMMA DocumentStart == DocumentInit => DocumentInv
  <1> SUFFICES ASSUME DocumentInit PROVE DocumentInv
    OBVIOUS
  <1>1. /\ nodes = <<>> /\ stack = <<>> /\ root = None /\ namespaces = NoNamespaces /\ outcome = "parsing"
        /\ written = <<>> /\ open = <<>>
    BY DEF DocumentInit, XmlInit
  <1>2. Len(<<>>) = 0 /\ 1 .. 0 = {} /\ IsList(<<>>)
    BY DEF IsList
  <1>3. TreeOf(nodes, written)
    BY <1>1, <1>2 DEF TreeOf
  <1>4. Standing(written, stack)
    BY <1>1, <1>2 DEF Standing
  <1>5. AttrsOf(written, stack) = <<>>
    BY <1>1, <1>2 DEF AttrsOf
  <1>6. Scoped(<<>>, NoNamespaces)
    <2>1. /\ NoNamespaces.bindings = <<>> /\ NoNamespaces.marks = <<>>
          /\ NoNamespaces.innermost = [p \in {} |-> 0]
          /\ NoNamespaces = [bindings |-> <<>>, innermost |-> [p \in {} |-> 0], marks |-> <<>>]
      BY DEF NoNamespaces
    <2>2. DOMAIN NoNamespaces.innermost = {}
      BY <2>1
    <2>3. WellBound(NoNamespaces)
      <3>1. IsScope(NoNamespaces)
        BY <2>1 DEF IsScope
      <3>2. Shadows(<<>>)
        BY <1>2 DEF Shadows
      <3>3. FindsInner(<<>>, 0, NoNamespaces.innermost)
        BY <2>2, <1>2 DEF FindsInner, Found, IsInner
      <3> QED  BY <1>2, <2>1, <3>1, <3>2, <3>3 DEF WellBound
    <2>4. Segments(<<>>, <<>>, <<>>)
      BY <1>2 DEF Segments
    <2> QED  BY <2>1, <2>3, <2>4 DEF Scoped
  <1> QED  BY <1>1, <1>2, <1>3, <1>4, <1>5, <1>6 DEF DocumentInv, AcceptedIsWhole

\* What ends the parse keeps the rest.
LEMMA DocumentEnds ==
    ASSUME DocumentInv, UNCHANGED <<nodes, stack, root, namespaces, written, open>>,
           outcome' \notin {"ok", "parsing"}
    PROVE  DocumentInv'
  BY DEF DocumentInv, AcceptedIsWhole

LEMMA DocumentStays ==
    ASSUME DocumentInv, UNCHANGED <<nodes, stack, root, namespaces, outcome, written, open>>
    PROVE  DocumentInv'
  BY DEF DocumentInv, AcceptedIsWhole

LEMMA DocumentTag ==
    ASSUME DocumentInv, NEW tag \in Tags, StartTag(tag), Write(tag)
    PROVE  DocumentInv'
  <1> DEFINE ns == OpenScope(namespaces, tag)
             n == Len(nodes)
             at == AttrsOf(written, stack)
             node == [name |-> ElementName(ns, tag.name), text |-> <<>>, children |-> <<>>,
                      attrs |-> ReadAttributes(ns, tag).attrs]
             w == [tag |-> tag, path |-> Append(open, Len(written) + 1), text |-> <<>>]
             old == IF stack = <<>> THEN nodes
                    ELSE Put(nodes, Last(stack), Parented(nodes[Last(stack)], Len(nodes) + 1))
  <1>1. /\ TreeOf(nodes, written) /\ Standing(written, stack) /\ open = stack /\ Scoped(at, namespaces)
        /\ root = (IF n = 0 THEN None ELSE 1) /\ outcome = "parsing"
        /\ (stack = <<>> => n = 0) /\ Len(written) = n /\ n \in Nat
    BY DEF DocumentInv, StartTag, TreeOf, IsList
  <1>2. CASE TagRefusal(tag, ns) # "ok"
    <2>1. /\ outcome' = TagRefusal(tag, ns) /\ UNCHANGED <<nodes, stack, root, namespaces>>
      BY <1>2 DEF StartTag, Fail
    <2>2. outcome' \notin {"ok", "parsing"}
      BY <1>2, <2>1, RefusalIs
    <2>3. UNCHANGED <<written, open>>
      BY <2>2 DEF Write
    <2> QED  BY <2>1, <2>2, <2>3, DocumentEnds
  <1>3. CASE TagRefusal(tag, ns) = "ok"
    <2>1. /\ nodes' = Grown(node) /\ stack' = Append(stack, n + 1)
          /\ root' = (IF root = None THEN n + 1 ELSE root) /\ namespaces' = ns /\ outcome' = "parsing"
      BY <1>1, <1>3 DEF StartTag
    <2>2. written' = Append(written, w) /\ open' = stack'
      BY <1>1, <2>1 DEF Write
    <2>3. Grown(node) = Append(old, node)
      BY DEF Grown, Put, Parented
    <2>4. ReadAttributes(ns, tag).res = "ok"
      BY <1>3, RefusalIs
    <2>5. /\ IsList(<<>>) /\ DOMAIN node = {"name", "text", "children", "attrs"}
          /\ DOMAIN w = {"tag", "path", "text"}
      BY DEF IsList
    <2>6. /\ node.name = ElementName(ns, tag.name) /\ node.attrs = ReadAttributes(ns, tag).attrs
          /\ node.text = <<>> /\ node.children = <<>>
          /\ w.tag = tag /\ w.path = Append(stack, Len(written) + 1) /\ w.text = <<>>
      BY <1>1
    <2> HIDE DEF node, w, ns, old, at
    <2>7. IsNode(node) /\ IsElement(w)
      BY <2>5, <2>6 DEF IsNode, IsElement
    <2>8. WrittenMore(written, stack, w, written')
      BY <1>1, <2>2, <2>6 DEF WrittenMore, TreeOf
    <2>9. IsList(at)
      BY <2>8, StandingGrown DEF at
    <2>10. Scoped(Append(at, tag.attrs), ns)
      BY <1>1, <2>4, <2>9, ScopeGrows DEF ns
    <2>11. BareRight(node, w.tag, Append(at, w.tag.attrs))
      BY <2>4, <2>6, <2>10, TakenRight
    <2>12. /\ TreeOf(nodes', written') /\ Len(written') = n + 1
           /\ Standing(written', w.path) /\ AttrsOf(written', w.path) = Append(at, w.tag.attrs)
      <3>1. nodes' = Append(old, node)
        BY <2>1, <2>3
      <3>2. Grows(nodes, written, stack, node, w, nodes', written')
        BY <1>1, <2>6, <2>7, <2>8, <2>11, <3>1 DEF Grows, at, old
      <3>3. /\ TreeOf(nodes', written') /\ Len(written') = Len(written) + 1
            /\ Standing(written', w.path)
            /\ AttrsOf(written', w.path) = Append(AttrsOf(written, stack), w.tag.attrs)
        BY <3>2, BuiltGrown
      <3> QED  BY <1>1, <3>3 DEF at
    <2>13. stack' = w.path /\ w.tag = tag
      BY <1>1, <2>1, <2>6
    <2>14. Len(nodes') = n + 1
      BY <2>12 DEF TreeOf
    <2>15. root' = IF Len(nodes') = 0 THEN None ELSE 1
      BY <1>1, <2>1, <2>14, NoneAssumption
    <2>16. ~ (outcome' = "parsing" /\ stack' = <<>>)
      <3>1. stack \in Seq(1 .. Len(written))
        BY <1>1 DEF Standing
      <3> QED  BY <1>1, <2>1, <3>1, PathGrown
    <2>17. AcceptedIsWhole'
      BY <2>1 DEF AcceptedIsWhole
    <2> QED  BY <2>1, <2>2, <2>10, <2>12, <2>13, <2>15, <2>16, <2>17 DEF DocumentInv
  <1> QED  BY <1>2, <1>3

LEMMA DocumentCloses ==
    ASSUME DocumentInv, EndEvent
    PROVE  DocumentInv'
  <1> DEFINE at == AttrsOf(written, stack)
  <1>1. /\ TreeOf(nodes, written) /\ Standing(written, stack) /\ open = stack /\ Scoped(at, namespaces)
        /\ root = (IF Len(nodes) = 0 THEN None ELSE 1) /\ outcome = "parsing" /\ stack # <<>>
    BY DEF DocumentInv, EndEvent, EndTag
  <1>2. /\ stack' = Front(stack) /\ namespaces' = CloseScope(namespaces)
        /\ outcome' = (IF Last(stack) = root THEN Accepted ELSE "parsing")
        /\ nodes' = nodes /\ root' = root /\ written' = written /\ open' = Front(stack)
    BY <1>1 DEF EndEvent, EndTag
  <1>3. /\ Standing(written, Front(stack)) /\ Len(stack) \in Nat \ {0}
        /\ Len(at) = Len(stack) /\ Len(AttrsOf(written, Front(stack))) = Len(stack) - 1
        /\ \A k \in 1 .. Len(stack) - 1 : AttrsOf(written, Front(stack))[k] = at[k]
    BY <1>1, StandingShrinks
  <1>4. Scoped(AttrsOf(written, Front(stack)), namespaces')
    <2> HIDE DEF at
    <2>1. Len(at) > 0
      BY <1>3
    <2>2. Len(AttrsOf(written, Front(stack))) = Len(at) - 1
          /\ \A k \in 1 .. Len(at) - 1 : AttrsOf(written, Front(stack))[k] = at[k]
      BY <1>3
    <2>3. Scoped(at, namespaces) /\ namespaces' = CloseScope(namespaces)
      BY <1>1, <1>2
    <2> QED  BY ONLY <2>1, <2>2, <2>3, ScopeShrinks
  <1>5. root = 1 /\ (Last(stack) = root <=> Front(stack) = <<>>)
    BY <1>1, RootIsLast
  <1>6. outcome' = "parsing" => Front(stack) # <<>>
    <2>1. Accepted # "parsing"
      BY DEF Accepted
    <2> QED  BY <1>2, <1>5, <2>1
  <1>7. outcome' = "ok" => Front(stack) = <<>> /\ nodes[root].name = <<"xisf">>
    BY <1>2, <1>5 DEF Accepted
  <1> QED  BY <1>1, <1>2, <1>3, <1>4, <1>6, <1>7 DEF DocumentInv, AcceptedIsWhole

\* Character data to the innermost open element.
LEMMA DocumentTold ==
    ASSUME DocumentInv, NEW piece, outcome = "parsing", nodes' = WithText(piece), WriteText(piece),
           UNCHANGED <<stack, root, namespaces, outcome, open>>
    PROVE  DocumentInv'
  <1>1. /\ TreeOf(nodes, written) /\ Standing(written, stack) /\ open = stack
        /\ Scoped(AttrsOf(written, stack), namespaces)
        /\ root = (IF Len(nodes) = 0 THEN None ELSE 1) /\ (stack = <<>> => Len(nodes) = 0)
    BY DEF DocumentInv
  <1>2. CASE stack = <<>>
    <2>1. nodes' = nodes /\ written' = written
      BY <1>1, <1>2 DEF WithText, WriteText
    <2> QED  BY <2>1, DocumentStays
  <1>3. CASE stack # <<>>
    <2> DEFINE i == Last(stack)
    <2>1. nodes' = Put(nodes, i, Told(nodes[i], piece))
      BY <1>3 DEF WithText, Put, Told
    <2>2. written' = Put(written, i, Told(written[i], piece))
      BY <1>1, <1>3 DEF WriteText, Put, Told
    <2>3. i \in 1 .. Len(written)
      BY <1>1, <1>3, StandsOn
    <2> HIDE DEF i
    <2>4. /\ TreeOf(nodes', written') /\ Begins(written, written') /\ Len(written') = Len(written)
      <3>1. Hears(nodes, written, i, piece, nodes', written')
        BY <1>1, <2>1, <2>2, <2>3 DEF Hears
      <3> QED  BY <3>1, BuiltTold
    <2>5. Standing(written', stack) /\ AttrsOf(written', stack) = AttrsOf(written, stack)
      BY <1>1, <2>4, StandingStays
    <2>6. Len(nodes') = Len(nodes)
      BY <1>1, <2>4 DEF TreeOf
    <2> QED  BY <1>1, <2>4, <2>5, <2>6 DEF DocumentInv, AcceptedIsWhole
  <1> QED  BY <1>2, <1>3

LEMMA DocumentKept == DocumentInv /\ [DocumentNext]_documentVars => DocumentInv'
  <1> SUFFICES ASSUME DocumentInv, [DocumentNext]_documentVars PROVE DocumentInv'
    OBVIOUS
  <1>1. CASE StartEvent
    BY <1>1, DocumentTag DEF StartEvent
  <1>2. CASE EndEvent
    BY <1>2, DocumentCloses
  <1>3. CASE TextEvent
    BY <1>3, DocumentTold DEF TextEvent, CharacterData
  <1>4. CASE ReferenceEvent
    <2>1. PICK piece \in {"&", None} :
             Reference(piece) /\ IF piece = None THEN UNCHANGED written ELSE WriteText(piece)
      BY <1>4 DEF ReferenceEvent
    <2>2. UNCHANGED open
      BY <1>4 DEF ReferenceEvent
    <2>3. CASE piece = None
      BY <2>1, <2>2, <2>3, DocumentEnds DEF Reference, Fail
    <2>4. CASE piece # None
      BY <2>1, <2>2, <2>4, DocumentTold DEF Reference
    <2> QED  BY <2>3, <2>4
  <1>5. CASE OtherEvent
    <2>1. UNCHANGED <<written, open>>
      BY <1>5 DEF OtherEvent
    <2>2. CASE \E encoding \in {None, "utf-8", "utf-16"} : Declaration(encoding)
      <3>1. PICK encoding \in {None, "utf-8", "utf-16"} : Declaration(encoding)
        BY <2>2
      <3>2. \/ UNCHANGED <<nodes, stack, root, namespaces, outcome>>
            \/ UNCHANGED <<nodes, stack, root, namespaces>> /\ outcome' = "Unsupported"
        BY <3>1 DEF Declaration, Fail
      <3> QED  BY <2>1, <3>2, DocumentEnds, DocumentStays
    <2>3. CASE DocTypeOrBroken \/ Eof
      BY <2>1, <2>3, DocumentEnds DEF DocTypeOrBroken, Eof, Fail
    <2> QED  BY <1>5, <2>2, <2>3 DEF OtherEvent
  <1>6. CASE UNCHANGED documentVars
    BY <1>6, DocumentStays DEF documentVars, xmlVars
  <1> QED  BY <1>1, <1>2, <1>3, <1>4, <1>5, <1>6 DEF DocumentNext

LEMMA DocumentInvariance == DocumentSpec => []DocumentInv
  <1>1. DocumentInit => DocumentInv
    BY DocumentStart
  <1>2. DocumentInv /\ [DocumentNext]_documentVars => DocumentInv'
    BY DocumentKept
  <1> QED  BY <1>1, <1>2, PTL DEF DocumentSpec

\* An element is known by a core name, and an attribute too, by the innermost declaration around
\* it and by nothing else (open, resolve and close of Namespaces, whose bindings are undone one by
\* one as elements close): whatever the tags, however deep they nest and whatever was declared,
\* shadowed, undeclared and closed before.
THEOREM ForeignIsNeverBare == DocumentSpec => []ForeignNeverBare
  <1>1. DocumentInv => ForeignNeverBare
    <2> SUFFICES ASSUME DocumentInv PROVE ForeignNeverBare
      OBVIOUS
    <2>1. /\ IsList(nodes) /\ DOMAIN nodes = 1 .. Len(written) /\ Len(written) \in Nat
          /\ \A i \in 1 .. Len(written) : BuiltAt(nodes, written, i)
      BY DEF DocumentInv, TreeOf, IsList
    <2>2. ASSUME NEW i \in DOMAIN nodes
          PROVE  /\ Len(nodes[i].name) = 1 <=>
                       \/ Lexical(written, written[i].path, Front(written[i].tag.name)) = Xisf
                       \/ /\ Len(written[i].tag.name) = 1
                          /\ Lexical(written, written[i].path, Front(written[i].tag.name)) = None
                 /\ \A k \in DOMAIN written[i].tag.attrs :
                       Len(nodes[i].attrs[k][1]) = 1 <=>
                          \/ Len(written[i].tag.attrs[k].key) = 1
                          \/ /\ written[i].tag.attrs[k].key[1] # "xmlns"
                             /\ Lexical(written, written[i].path,
                                        Front(written[i].tag.attrs[k].key)) = Xisf
      <3> DEFINE path == written[i].path
                 tag == written[i].tag
                 at == AttrsOf(written, path)
      <3>1. BareRight(nodes[i], tag, at) /\ path \in Seq(1 .. i)
        BY <2>1, <2>2 DEF BuiltAt, IsPath
      <3>2. Len(path) \in Nat /\ DOMAIN path = 1 .. Len(path)
        BY <3>1
      <3> HIDE DEF at, path, tag
      <3>3. \A prefix : Lexical(written, path, prefix) = LexicalAt(at, prefix)
        BY <3>2, LexicalIs DEF at
      <3>4. NamedRight(nodes[i].name, tag.name, at)
        BY <3>1 DEF BareRight
      <3>5. \A k \in DOMAIN tag.attrs : KeyedRight(nodes[i].attrs[k][1], tag.attrs[k].key, at)
        BY <3>1 DEF BareRight
      <3>6. Len(nodes[i].name) = 1 <=>
               \/ Lexical(written, path, Front(tag.name)) = Xisf
               \/ Len(tag.name) = 1 /\ Lexical(written, path, Front(tag.name)) = None
        BY <3>3, <3>4 DEF NamedRight
      <3>7. ASSUME NEW k \in DOMAIN tag.attrs
            PROVE  Len(nodes[i].attrs[k][1]) = 1 <=>
                      \/ Len(tag.attrs[k].key) = 1
                      \/ /\ tag.attrs[k].key[1] # "xmlns"
                         /\ Lexical(written, path, Front(tag.attrs[k].key)) = Xisf
        <4>1. KeyedRight(nodes[i].attrs[k][1], tag.attrs[k].key, at)
          BY <3>5
        <4> QED  BY <3>3, <4>1 DEF KeyedRight
      <3> QED  BY <3>6, <3>7 DEF path, tag
    <2> QED  BY <2>2, Zenon DEF ForeignNeverBare
  <1> QED  BY <1>1, DocumentInvariance, PTL

\* The nodes parse returns are the elements of the document, each with the children and the
\* character data written in it (with_text and the stack of open elements in parse): whatever the
\* tags, and however references and children break the character data up.
THEOREM TreeIsAlwaysTheDocument == DocumentSpec => []TreeIsTheDocument
  <1>1. DocumentInv => TreeIsTheDocument
    <2> SUFFICES ASSUME DocumentInv PROVE TreeIsTheDocument
      OBVIOUS
    <2>1. /\ IsList(nodes) /\ DOMAIN nodes = 1 .. Len(written) /\ Len(written) \in Nat
          /\ \A i \in 1 .. Len(written) : BuiltAt(nodes, written, i)
      BY DEF DocumentInv, TreeOf, IsList
    <2>2. ASSUME NEW i \in DOMAIN nodes
          PROVE  /\ nodes[i].text = written[i].text
                 /\ ToSet(nodes[i].children) = {j \in DOMAIN nodes : written[j].path = Append(written[i].path, j)}
                 /\ \A k, l \in DOMAIN nodes[i].children : k < l => nodes[i].children[k] < nodes[i].children[l]
      <3> DEFINE ch == nodes[i].children
                 mine == {j \in DOMAIN nodes : written[j].path = Append(written[i].path, j)}
      <3>1. nodes[i].text = written[i].text /\ IsList(ch) /\ ChildrenAre(ch, written, i)
        BY <2>1, <2>2 DEF BuiltAt, IsNode
      <3>2. DOMAIN ch = 1 .. Len(ch)
        BY <3>1 DEF IsList
      <3> HIDE DEF ch
      <3>3. \A k, l \in DOMAIN ch : k < l => ch[k] < ch[l]
        BY <3>1, <3>2 DEF ChildrenAre
      <3>4. \A k \in DOMAIN ch : ch[k] \in mine
        BY <2>1, <3>1, <3>2 DEF ChildrenAre
      <3>5. \A j \in mine : \E k \in DOMAIN ch : ch[k] = j
        BY <2>1, <3>1, <3>2 DEF ChildrenAre
      <3>6. ToSet(ch) = mine
        <4> HIDE DEF mine
        <4>1. ToSet(ch) = {ch[k] : k \in DOMAIN ch}
          BY DEF ToSet
        <4> QED  BY <3>4, <3>5, <4>1
      <3> QED  BY <3>1, <3>3, <3>6 DEF ch
    <2> QED  BY <2>2, Zenon DEF TreeIsTheDocument
  <1> QED  BY <1>1, DocumentInvariance, PTL

\* parse returns a document only once the root is closed, and the root is then `xisf`: whatever
\* the tags, and wherever the header was cut.
THEOREM AcceptedIsAlwaysWhole == DocumentSpec => []AcceptedIsWhole
  <1>1. DocumentInv => AcceptedIsWhole
    BY DEF DocumentInv
  <1> QED  BY <1>1, DocumentInvariance, PTL
==============================================================================
