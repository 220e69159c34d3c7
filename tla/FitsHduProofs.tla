---------------------------- MODULE FitsHduProofs ----------------------------
(***************************************************************************)
(* What follows from the cards of one HDU alone, for every width of u64    *)
(* and every block: the types of what the code reads from them, and that   *)
(* the samples of an image that decodes lie inside the data unit whose     *)
(* size the walk steps by.  The size folds over the axes; MulsAreExact     *)
(* says what that fold comes to, for any number of them.                   *)
(***************************************************************************)
EXTENDS FitsHdu, TLAPS

-----------------------------------------------------------------------------
(* What the cards decide.                                                  *)

\* The size of a data unit is a u64, or nothing (data_unit_size).
LEMMA DataUnitSizeFits ==
    ASSUME NEW c
    PROVE  DataUnitSize(c) \in Option(U)
  BY MaxUAssumption DEF DataUnitSize, Padded, Fit, Option, U

Geometry == [width : 0 .. MaxAxis, height : 0 .. MaxAxis, channels : 0 .. MaxAxis]

\* A geometry that reads has axes a Geometry holds (read_geometry).
LEMMA GeometryType ==
    ASSUME NEW a
    PROVE  ReadGeometry(a) \in Option(Geometry)
  <1>1. CASE /\ a.naxis \in {2, 3}
             /\ \A i \in 1 .. a.naxis : i \in DOMAIN a.axes /\ a.axes[i] \in 0 .. MaxAxis
    <2>1. a.axes[1] \in 0 .. MaxAxis /\ a.axes[2] \in 0 .. MaxAxis
      BY <1>1
    <2>2. (IF a.naxis = 3 THEN a.axes[3] ELSE 1) \in 0 .. MaxAxis
      BY <1>1, MaxAxisAssumption
    <2> QED
      BY <1>1, <2>1, <2>2 DEF ReadGeometry, Geometry, Option
  <1>2. CASE ~(/\ a.naxis \in {2, 3}
               /\ \A i \in 1 .. a.naxis : i \in DOMAIN a.axes /\ a.axes[i] \in 0 .. MaxAxis)
    BY <1>2 DEF ReadGeometry, Option
  <1> QED
    BY <1>1, <1>2

\* A sample format has a width in bytes (SampleFormat::bytes).
LEMMA SampleBytesType ==
    ASSUME NEW bitpix
    PROVE  SampleBytes(bitpix) \in Option(1 .. 8)
  <1>1. CASE bitpix \in StandardBitpix
    BY <1>1 DEF SampleBytes, StandardBitpix, Option
  <1>2. CASE bitpix \notin StandardBitpix
    BY <1>2 DEF SampleBytes, Option
  <1> QED
    BY <1>1, <1>2

\* A position that is not declined, if its geometry reads, has no empty axis (first_fault).
LEMMA DecodableAxes ==
    ASSUME NEW c, NEW p, BuildHeader(c, p).decline = None,
           BuildHeader(c, p).geometry # None
    PROVE  /\ BuildHeader(c, p).geometry.width \in 1 .. MaxAxis
           /\ BuildHeader(c, p).geometry.height \in 1 .. MaxAxis
           /\ BuildHeader(c, p).geometry.channels \in 1 .. MaxAxis
  <1>1. FirstFault(c) = None /\ ReadGeometry(c.own) # None
        /\ BuildHeader(c, p).geometry = ReadGeometry(c.own)
    <2>1. FirstFault(c) = None
      BY DEF BuildHeader
    <2>2. ~OutOfScope(c)
      BY <2>1, NoDeclineAssumption DEF FirstFault
    <2>3. c.xtension # "BINTABLE"
      BY <2>2 DEF OutOfScope
    <2> QED
      BY <2>1, <2>3 DEF BuildHeader
  <1>2. \A i \in 1 .. c.own.naxis : Axis(c.own, i) \in 1 .. MaxAxis
    <2>1. ~OutOfScope(c)
      BY <1>1, NoDeclineAssumption DEF FirstFault
    <2> QED
      BY <2>1 DEF OutOfScope
  <1>3. /\ c.own.naxis \in {2, 3}
        /\ \A i \in 1 .. c.own.naxis : c.own.axes[i] \in 0 .. MaxAxis
    BY <1>1 DEF ReadGeometry
  <1>4. \A i \in 1 .. c.own.naxis : c.own.axes[i] = Axis(c.own, i)
    BY <1>2, NoneAssumption DEF Axis
  <1>5. /\ ReadGeometry(c.own).width = c.own.axes[1]
        /\ ReadGeometry(c.own).height = c.own.axes[2]
        /\ ReadGeometry(c.own).channels = IF c.own.naxis = 3 THEN c.own.axes[3] ELSE 1
    BY <1>1 DEF ReadGeometry
  <1> QED
    BY <1>1, <1>2, <1>3, <1>4, <1>5, MaxAxisAssumption

-----------------------------------------------------------------------------
(* The product of the axes.  The code multiplies in u64 and gives up as    *)
(* soon as one step leaves it; the exact product is over the integers.     *)
(* Each is a fold over the same axes, and the claim relates the two after  *)
(* every axis.                                                             *)

TimesStep(a, m, n) == m * n
MulStep(a, m, n) == CheckedMul(m, Unsigned(n))

NoClaim(a, k, m) == TRUE

Exact == INSTANCE Folding WITH Step <- TimesStep, Claim <- NoClaim

FirstOf(a, k) == Exact!Fold(a, 1, Exact!Prefix(a, k))

\* What was multiplied so far is the product, of axes that all read; and it was given up only
\* because the product is too large, unless an axis is empty.
MulClaim(a, k, m) ==
    /\ m # None => m = FirstOf(a, k) /\ m \in U /\ \A i \in 1 .. k : a[i] \in U
    /\ (\A i \in 1 .. k : a[i] \in Nat \ {0}) =>
          FirstOf(a, k) \in Nat \ {0} /\ (m = None => FirstOf(a, k) > MaxU)

Muls == INSTANCE Folding WITH Step <- MulStep, Claim <- MulClaim

\* The product of k axes is that of one fewer, times the last.
LEMMA OneAxisMore ==
    ASSUME NEW a, NEW k \in Nat \ {0}
    PROVE  FirstOf(a, k) = FirstOf(a, k - 1) * a[k]
  <1> DEFINE p == Exact!Prefix(a, k)
  <1>1. k - 1 \in Nat /\ DOMAIN p = 1 .. (k - 1) + 1 /\ p[(k - 1) + 1] = a[k]
    BY DEF Exact!Prefix
  <1>2. Exact!Prefix(p, k - 1) = Exact!Prefix(a, k - 1)
    BY DEF Exact!Prefix
  <1>3. Exact!Fold(a, 1, p) = TimesStep(a, Exact!Fold(a, 1, Exact!Prefix(p, k - 1)), p[(k - 1) + 1])
    BY <1>1, Exact!FoldOfOneMore
  <1> QED  BY <1>1, <1>2, <1>3 DEF FirstOf, TimesStep

\* A factor of one or more makes a product no smaller.
LEMMA ProductsGrow ==
    ASSUME NEW m \in Nat \ {0}, NEW n \in Nat \ {0}
    PROVE  m * n \in Nat \ {0} /\ m <= m * n /\ n <= m * n
  OBVIOUS

\* What the code makes of the axes, against their product.
LEMMA MulsAreExact ==
    ASSUME NEW a, NEW n \in Nat, DOMAIN a = 1 .. n
    PROVE  MulClaim(a, n, Muls!Fold(a, 1, a))
  <1>1. MulClaim(a, 0, 1)
    <2>1. DOMAIN Exact!Prefix(a, 0) = {}
      BY DEF Exact!Prefix
    <2>2. FirstOf(a, 0) = 1
      BY <2>1, Exact!FoldOfNone DEF FirstOf
    <2>3. 1 \in U /\ 1 # None
      BY MaxUAssumption, NoneAssumption DEF U
    <2> QED  BY <2>2, <2>3 DEF MulClaim
  <1>2. ASSUME NEW i \in 1 .. n, NEW s, MulClaim(a, i - 1, s)
        PROVE  MulClaim(a, i, MulStep(a, s, a[i]))
    <2> DEFINE t == MulStep(a, s, a[i])
               f == FirstOf(a, i - 1)
    <2>1. FirstOf(a, i) = f * a[i]
      BY OneAxisMore
    <2>2. 1 .. i = (1 .. i - 1) \cup {i}
      OBVIOUS
    <2>3. ASSUME t # None
          PROVE  t = f * a[i] /\ t \in U /\ \A j \in 1 .. i : a[j] \in U
      <3>1. s # None /\ a[i] \in U /\ t = s * a[i] /\ t \in U
        BY <2>3 DEF MulStep, CheckedMul, Unsigned, Fit
      <3>2. s = f /\ \A j \in 1 .. i - 1 : a[j] \in U
        BY <1>2, <3>1 DEF MulClaim
      <3> QED  BY <2>2, <3>1, <3>2
    <2>4. ASSUME \A j \in 1 .. i : a[j] \in Nat \ {0}
          PROVE  f * a[i] \in Nat \ {0} /\ (t = None => f * a[i] > MaxU)
      <3>1. a[i] \in Nat \ {0} /\ f \in Nat \ {0} /\ (s = None => f > MaxU)
        BY <1>2, <2>2, <2>4 DEF MulClaim
      <3>2. f * a[i] \in Nat \ {0} /\ f <= f * a[i] /\ a[i] <= f * a[i]
        BY <3>1, ProductsGrow
      <3> HIDE DEF f
      <3>3. ASSUME f * a[i] <= MaxU PROVE t # None
        <4>1. s # None /\ s = f
          BY <1>2, <3>1, <3>2, <3>3, MaxUAssumption DEF MulClaim, f
        <4>2. a[i] \in U /\ f * a[i] \in U
          BY <3>1, <3>2, <3>3, MaxUAssumption DEF U
        <4> DEFINE b == f * a[i]
        <4>3. b # None /\ a[i] # None
          BY <4>2, NoneAssumption, MaxUAssumption DEF U
        <4>4. Unsigned(a[i]) = a[i]
          BY <4>2, <4>3 DEF Unsigned, Fit
        <4>5. t = b
          BY <4>1, <4>2, <4>3, <4>4 DEF MulStep, CheckedMul, Fit
        <4> QED  BY <4>3, <4>5
      <3> QED  BY <3>2, <3>3, MaxUAssumption
    <2> QED  BY <2>1, <2>3, <2>4, Zenon DEF MulClaim
  <1>3. \A i \in 1 .. n : \A s : MulClaim(a, i - 1, s) => MulClaim(a, i, MulStep(a, s, a[i]))
    BY <1>2
  <1> QED  BY <1>1, <1>3, Muls!FoldKeeps

\* The product the code makes of a header's axes is the fold of its step (elements).
LEMMA ElementsFold ==
    ASSUME NEW c, ~(RandomGroups(c) /\ c.own.naxis < 2)
    PROVE  Elements(c) = Muls!Fold(SizedAxes(c), 1, SizedAxes(c))
  BY Zenon DEF Elements, MulStep, FoldLeft, MapThenFoldSet, Max,
     Muls!Fold, Muls!Iterates, Muls!Largest

-----------------------------------------------------------------------------
(* The samples of an image and the size of its data unit.                  *)

\* A product that fits u64 is at least what it was before a factor that is not zero.
LEMMA CheckedMulGrows ==
    ASSUME NEW m, NEW n, CheckedMul(m, n) # None, m \in U, n \in U, n # 0
    PROVE  /\ CheckedMul(m, n) = m * n /\ CheckedMul(m, n) \in U
           /\ m <= CheckedMul(m, n)
  <1>1. CheckedMul(m, n) = m * n /\ CheckedMul(m, n) \in U
    BY DEF CheckedMul, Fit
  <1>2. m \in Nat /\ n \in Nat /\ n >= 1
    BY MaxUAssumption DEF U
  <1>3. m * n >= m
    BY <1>2
  <1> QED
    BY <1>1, <1>3

\* Padding makes a size no smaller (next_multiple_of in data_unit_size).
LEMMA PaddedHolds ==
    ASSUME NEW n \in Option(U), Padded(n) # None
    PROVE  n \in U /\ n <= Padded(n)
  <1>1. n \in U
    BY DEF Padded, CheckedAdd, Option
  <1> DEFINE top == CheckedAdd(n, BLOCK - 1)
  <1>2. top # None
    BY DEF Padded
  <1>3. top = n + (BLOCK - 1) /\ n \in Nat
    BY <1>1, <1>2, MaxUAssumption DEF CheckedAdd, Fit, U
  <1>4. Padded(n) = (top \div BLOCK) * BLOCK
    BY <1>2 DEF Padded, Fit
  <1>5. \A m \in Nat, b \in Nat \ {0} : ((m + (b - 1)) \div b) * b >= m
    OBVIOUS
  <1> QED
    BY <1>1, <1>3, <1>4, <1>5, BlockAssumption

\* The axes of an image that decodes: two or three, each read, none empty, and all of them
\* counted in the size.
LEMMA AxesOfAnImage ==
    ASSUME NEW c, NEW p, BuildHeader(c, p).decline = None, BuildHeader(c, p).geometry # None
    PROVE  LET g == BuildHeader(c, p).geometry IN
           /\ c.own.naxis \in {2, 3} /\ ~c.groups
           /\ BuildHeader(c, p).bytes = SampleBytes(c.own.bitpix)
           /\ DOMAIN SizedAxes(c) = 1 .. c.own.naxis
           /\ SizedAxes(c)[1] = g.width /\ SizedAxes(c)[2] = g.height
           /\ g.channels = IF c.own.naxis = 3 THEN SizedAxes(c)[3] ELSE 1
  <1>1. FirstFault(c) = None /\ ~OutOfScope(c)
    BY NoDeclineAssumption DEF BuildHeader, FirstFault
  <1>2. c.xtension # "BINTABLE" /\ ~c.groups
    BY <1>1 DEF OutOfScope
  <1>3. /\ BuildHeader(c, p).geometry = ReadGeometry(c.own)
        /\ BuildHeader(c, p).bytes = SampleBytes(c.own.bitpix)
    BY <1>2 DEF BuildHeader
  <1>4. c.own.naxis \in {2, 3}
    BY <1>3 DEF ReadGeometry
  <1>5. SizedAxes(c) = [j \in 1 .. c.own.naxis |-> Axis(c.own, j)]
    BY <1>2, <1>4 DEF SizedAxes, RandomGroups
  <1>6. \A i \in 1 .. c.own.naxis : Axis(c.own, i) = c.own.axes[i]
    BY <1>1, NoneAssumption, MaxAxisAssumption DEF OutOfScope, Axis
  <1>7. /\ ReadGeometry(c.own).width = c.own.axes[1]
        /\ ReadGeometry(c.own).height = c.own.axes[2]
        /\ ReadGeometry(c.own).channels = IF c.own.naxis = 3 THEN c.own.axes[3] ELSE 1
    BY <1>3 DEF ReadGeometry
  <1> QED
    BY <1>2, <1>3, <1>4, <1>5, <1>6, <1>7

\* The size of an image that decodes counts each of its samples (data_unit_size).
LEMMA ElementsOfAnImage ==
    ASSUME NEW c, NEW p, BuildHeader(c, p).decline = None, BuildHeader(c, p).geometry # None,
           Elements(c) # None
    PROVE  LET g == BuildHeader(c, p).geometry
           IN  Elements(c) = g.width * g.height * g.channels /\ Elements(c) \in U
  <1> DEFINE g  == BuildHeader(c, p).geometry
             a  == SizedAxes(c)
  <1>1. /\ c.own.naxis \in {2, 3} /\ ~c.groups /\ DOMAIN a = 1 .. c.own.naxis
        /\ a[1] = g.width /\ a[2] = g.height
        /\ g.channels = IF c.own.naxis = 3 THEN a[3] ELSE 1
    BY AxesOfAnImage
  <1>2. Elements(c) = FirstOf(a, c.own.naxis) /\ Elements(c) \in U
    <2>1. Elements(c) = Muls!Fold(a, 1, a)
      BY <1>1, ElementsFold DEF RandomGroups
    <2>2. MulClaim(a, c.own.naxis, Elements(c))
      BY <1>1, <2>1, MulsAreExact
    <2> QED  BY <2>2, Zenon DEF MulClaim
  <1>3. g.width \in Nat /\ g.height \in Nat /\ g.channels \in Nat
    BY DecodableAxes
  <1> HIDE DEF g, a
  <1>4. FirstOf(a, 0) = 1
    <2>1. DOMAIN Exact!Prefix(a, 0) = {}
      BY DEF Exact!Prefix
    <2> QED  BY <2>1, Exact!FoldOfNone DEF FirstOf
  <1>5. /\ FirstOf(a, 1) = FirstOf(a, 1 - 1) * a[1] /\ FirstOf(a, 2) = FirstOf(a, 2 - 1) * a[2]
        /\ FirstOf(a, 3) = FirstOf(a, 3 - 1) * a[3]
    BY OneAxisMore
  <1>6. FirstOf(a, 2) = g.width * g.height /\ FirstOf(a, 3) = g.width * g.height * a[3]
    BY <1>1, <1>3, <1>4, <1>5
  <1>7. g.width * g.height * 1 = g.width * g.height
    <2>1. \A m, n \in Nat : m * n * 1 = m * n
      OBVIOUS
    <2> QED  BY <1>3, <2>1
  <1> QED
    BY <1>1, <1>2, <1>6, <1>7 DEF g

\* What a decode reads never passes the padded end the walk resumes from: the samples of an
\* image that decodes lie inside its data unit, if it has a size and at least one group.
LEMMA SamplesFit ==
    ASSUME NEW c, NEW p, BuildHeader(c, p).decline = None, BuildHeader(c, p).geometry # None,
           DataUnitSize(c) # None, Gcount(c) # 0
    PROVE  LET h == BuildHeader(c, p)
               g == h.geometry
           IN  g.width * g.height * g.channels * h.bytes <= DataUnitSize(c)
  <1> DEFINE h == BuildHeader(c, p)
             e == Elements(c)
             counted == CheckedAdd(e, Pcount(c))
             grouped == CheckedMul(counted, Gcount(c))
             bytes   == CheckedMul(grouped, h.bytes)
  <1>1. c.own.naxis \in {2, 3} /\ h.bytes = SampleBytes(c.own.bitpix)
    BY AxesOfAnImage
  <1>2. h.bytes \in 1 .. 8 /\ DataUnitSize(c) = Padded(bytes)
    <2>1. h.bytes # None /\ DataUnitSize(c) = Padded(bytes)
      BY <1>1, NoneAssumption DEF DataUnitSize
    <2> QED
      BY <1>1, <2>1, SampleBytesType DEF Option
  <1>3. bytes \in Option(U)
    BY DEF CheckedMul, Fit, Option
  <1>4. bytes \in U /\ bytes <= DataUnitSize(c)
    BY <1>2, <1>3, PaddedHolds
  <1> HIDE DEF h
  <1>5. grouped # None /\ grouped \in U
    BY <1>4, NoneAssumption DEF CheckedMul, Fit, U
  <1>6. counted # None /\ counted \in U /\ Gcount(c) # None /\ Gcount(c) \in U
    BY <1>5, MaxUAssumption DEF CheckedMul, CheckedAdd, Fit, Gcount, Unsigned, U
  <1>7. e # None /\ Pcount(c) # None /\ Pcount(c) \in U
    BY <1>6, MaxUAssumption DEF CheckedAdd, Fit, Pcount, Unsigned, U
  <1>8. e = h.geometry.width * h.geometry.height * h.geometry.channels /\ e \in U
    BY <1>7, ElementsOfAnImage DEF h
  <1> HIDE DEF e
  <1>9. counted = e + Pcount(c) /\ e <= counted
    BY <1>6, <1>7, <1>8, MaxUAssumption DEF CheckedAdd, Fit, U
  <1> HIDE DEF counted
  <1>10. grouped = counted * Gcount(c) /\ counted <= grouped
    BY <1>5, <1>6, CheckedMulGrows
  <1> HIDE DEF grouped
  <1>11. bytes = grouped * h.bytes
    BY <1>2, <1>4, NoneAssumption DEF CheckedMul, Fit, U
  <1> HIDE DEF bytes
  <1>12. e * h.bytes <= grouped * h.bytes
    <2>1. \A i, j, k \in Nat : i <= j => i * k <= j * k
      OBVIOUS
    <2>2. e \in Nat /\ counted \in Nat /\ grouped \in Nat /\ h.bytes \in Nat
      BY <1>2, <1>5, <1>6, <1>8, MaxUAssumption DEF U
    <2>3. e <= grouped
      BY <1>9, <1>10, <2>2
    <2> QED
      BY <2>1, <2>2, <2>3
  <1>13. DataUnitSize(c) \in Nat /\ bytes \in Nat /\ e * h.bytes \in Nat
    <2>1. \A i, j \in Nat : i * j \in Nat
      OBVIOUS
    <2>2. e \in Nat /\ h.bytes \in Nat
      BY <1>2, <1>8, MaxUAssumption DEF U
    <2>3. DataUnitSize(c) \in U
      BY DataUnitSizeFits DEF Option
    <2> QED
      BY <1>4, <2>1, <2>2, <2>3, MaxUAssumption DEF U
  <1> QED
    BY <1>4, <1>8, <1>11, <1>12, <1>13 DEF h

\* An image position that is not declined has a geometry and a sample format, although the
\* fault order, the geometry and the format read the cards separately (first_fault,
\* read_geometry, sample_format_of).
LEMMA ImagesThatDecodeRead ==
    ASSUME NEW c, NEW p, c.own.naxis \in Option(Int),
           BuildHeader(c, p).decline = None, IsImagePosition(c)
    PROVE  BuildHeader(c, p).bytes # None /\ BuildHeader(c, p).geometry # None
  <1>1. ~StructuralFault(c) /\ ~OutOfScope(c)
    BY NoDeclineAssumption DEF BuildHeader, FirstFault
  <1>2. c.xtension # "BINTABLE" /\ c.own.naxis # 0
    BY <1>1 DEF OutOfScope, IsImagePosition
  <1>3. /\ BuildHeader(c, p).geometry = ReadGeometry(c.own)
        /\ BuildHeader(c, p).bytes = SampleBytes(c.own.bitpix)
    BY <1>2 DEF BuildHeader
  <1>4. SampleBytes(c.own.bitpix) # None /\ c.own.naxis \in {2, 3}
    BY <1>1, <1>2 DEF StructuralFault, OutOfScope, Option
  <1>5. \A i \in 1 .. c.own.naxis : Axis(c.own, i) \in 1 .. MaxAxis
    BY <1>1 DEF OutOfScope
  <1>6. \A i \in 1 .. c.own.naxis : i \in DOMAIN c.own.axes /\ c.own.axes[i] \in 0 .. MaxAxis
    BY <1>5, NoneAssumption, MaxAxisAssumption DEF Axis
  <1>7. ReadGeometry(c.own) = [width    |-> c.own.axes[1], height |-> c.own.axes[2],
                               channels |-> IF c.own.naxis = 3 THEN c.own.axes[3] ELSE 1]
    BY <1>4, <1>6 DEF ReadGeometry
  <1>8. ReadGeometry(c.own) # None
    <2>1. ReadGeometry(c.own) \in [width : Nat, height : Nat, channels : Nat]
      BY <1>4, <1>6, <1>7
    <2> QED
      BY <2>1, NoGeometryAssumption
  <1> QED
    BY <1>3, <1>4, <1>8
=============================================================================
