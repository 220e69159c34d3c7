--------------------------- MODULE XisfBlockProofs ---------------------------
(***************************************************************************)
(* XISF blocks of any size.  The byte shuffle is a permutation of a        *)
(* block's offsets.  A subblock walk, whatever its codec reads ahead and   *)
(* wherever its source fails, takes the bytes its pairs hold, in order.    *)
(***************************************************************************)
EXTENDS BlockContent, XisfConforming, TLAPS

-----------------------------------------------------------------------------
(* The shuffle.                                                            *)

\* Euclid's division, as the quotient and the remainder the code computes.
LEMMA Division ==
    ASSUME NEW n \in Nat, NEW d \in Nat \ {0}
    PROVE  /\ n \div d \in Nat /\ n % d \in 0 .. d - 1
           /\ n = (n \div d) * d + (n % d)
  OBVIOUS

\* A quotient and a remainder determine the number they are of.
LEMMA DivisionIsUnique ==
    ASSUME NEW d \in Nat \ {0}, NEW p \in Nat, NEW q \in Nat,
           NEW r \in 0 .. d - 1, NEW s \in 0 .. d - 1,
           p * d + r = q * d + s
    PROVE  p = q /\ r = s
  OBVIOUS

\* The part of the block that is shuffled: the bytes of its complete items.
Span(len, item) == (len \div item) * item

\* A shuffled byte sits among the shuffled ones.
LEMMA IndexInSpan ==
    ASSUME NEW len \in Nat, NEW item \in Nat, item > 1,
           NEW o \in Nat, o < Span(len, item)
    PROVE  /\ Span(len, item) \in 0 .. len
           /\ o \div item \in 0 .. (len \div item) - 1 /\ o % item \in 0 .. item - 1
           /\ UnshuffledIndex(len, item, o) = (o % item) * (len \div item) + (o \div item)
           /\ UnshuffledIndex(len, item, o) \in 0 .. Span(len, item) - 1
  <1> DEFINE n == len \div item
             i == o \div item
             j == o % item
  <1>1. /\ n \in Nat /\ len % item \in 0 .. item - 1
        /\ len = n * item + (len % item)
    BY Division
  <1>2. i \in Nat /\ j \in 0 .. item - 1 /\ o = i * item + j
    BY Division
  <1>3. n * item \in 0 .. len
    BY <1>1
  <1>4. i \in 0 .. n - 1
    <2>1. i * item < n * item
      BY <1>1, <1>2 DEF Span
    <2> QED  BY <2>1, <1>1, <1>2
  <1>5. UnshuffledIndex(len, item, o) = j * n + i
    BY DEF UnshuffledIndex, Span
  <1>6. j * n + i \in 0 .. (n * item) - 1
    <2>1. j * n <= (item - 1) * n
      BY <1>1, <1>2
    <2>2. (item - 1) * n = n * item - n
      BY <1>1
    <2> QED  BY <2>1, <2>2, <1>1, <1>2, <1>4
  <1> QED  BY <1>2, <1>3, <1>4, <1>5, <1>6 DEF Span

\* Reading a block through unshuffled_byte reads every byte of the shuffled block exactly once
\* and none outside it, whatever the item size divides: the comment on its unchecked indexing
\* (block.rs) claims no less.
THEOREM UnshufflingPermutes ==
    ASSUME NEW len \in Nat, NEW item \in Nat
    PROVE  /\ \A o \in 0 .. len - 1 : UnshuffledIndex(len, item, o) \in 0 .. len - 1
           /\ \A a, b \in 0 .. len - 1 :
                 UnshuffledIndex(len, item, a) = UnshuffledIndex(len, item, b) => a = b
  <1> DEFINE Index(o) == UnshuffledIndex(len, item, o)
             n == len \div item
  <1>1. CASE item <= 1
    BY <1>1 DEF UnshuffledIndex
  <1>2. CASE item > 1
    <2>1. \A o \in 0 .. len - 1 : o >= Span(len, item) => Index(o) = o
      BY DEF UnshuffledIndex, Span
    <2>2. \A o \in 0 .. len - 1 :
             o < Span(len, item) => /\ Index(o) \in 0 .. Span(len, item) - 1
                                    /\ Span(len, item) \in 0 .. len
      BY <1>2, IndexInSpan
    <2>3. Span(len, item) \in Nat
      BY <1>2, Division DEF Span
    <2>4. \A o \in 0 .. len - 1 : Index(o) \in 0 .. len - 1
      BY <2>1, <2>2, <2>3
    <2>5. ASSUME NEW a \in 0 .. len - 1, NEW b \in 0 .. len - 1, Index(a) = Index(b)
          PROVE  a = b
      <3>1. CASE a >= Span(len, item) \/ b >= Span(len, item)
        BY <3>1, <2>1, <2>2, <2>3, <2>5
      <3>2. CASE a < Span(len, item) /\ b < Span(len, item)
        <4>1. /\ Index(a) = (a % item) * n + (a \div item) /\ a \div item \in 0 .. n - 1
              /\ Index(b) = (b % item) * n + (b \div item) /\ b \div item \in 0 .. n - 1
              /\ a % item \in 0 .. item - 1 /\ b % item \in 0 .. item - 1
          BY <3>2, <1>2, IndexInSpan
        <4>2. n \in Nat \ {0}
          BY <4>1, <1>2, Division
        <4>3. a % item = b % item /\ a \div item = b \div item
          BY <4>1, <4>2, <2>5, DivisionIsUnique
        <4>4. a = (a \div item) * item + (a % item) /\ b = (b \div item) * item + (b % item)
          BY <1>2, Division
        <4> QED  BY <4>3, <4>4
      <3> QED  BY <3>1, <3>2, <2>3
    <2> QED  BY <2>4, <2>5
  <1> QED  BY <1>1, <1>2

-----------------------------------------------------------------------------
(* Runs of a sequence.                                                     *)

\* Two runs that meet are one.
LEMMA RunsMeet ==
    ASSUME NEW S, NEW s \in Seq(S), NEW a \in 0 .. Len(s), NEW n \in Nat, a + n <= Len(s)
    PROVE  /\ SubSeq(s, 1, a) \o SubSeq(s, a + 1, a + n) = SubSeq(s, 1, a + n)
           /\ SubSeq(s, a + 1, a + n) \in Seq(S) /\ Len(SubSeq(s, a + 1, a + n)) = n
           /\ SubSeq(s, 1, a) \in Seq(S) /\ Len(SubSeq(s, 1, a)) = a
  OBVIOUS

\* The beginning of a sequence is a prefix of it, and of it followed by anything.
LEMMA RunIsPrefix ==
    ASSUME NEW S, NEW s \in Seq(S), NEW t \in Seq(S), NEW a \in 0 .. Len(s)
    PROVE  IsPrefix(t \o SubSeq(s, 1, a), t \o s)
  BY DEF IsPrefix

\* A sequence begins what it is continued to.
LEMMA PrefixOfMore ==
    ASSUME NEW S, NEW s \in Seq(S), NEW t \in Seq(S)
    PROVE  IsPrefix(s, s \o t)
  BY DEF IsPrefix

\* What begins a beginning begins the whole.
LEMMA PrefixTransitive ==
    ASSUME NEW S, NEW s \in Seq(S), NEW t \in Seq(S), NEW u \in Seq(S),
           IsPrefix(s, t), IsPrefix(t, u)
    PROVE  IsPrefix(s, u)
  BY DEF IsPrefix

\* The file's bytes are bytes, and a run of them is where it stands.
LEMMA FileBytesRun ==
    ASSUME NEW at \in Nat, NEW n \in Nat
    PROVE  /\ FileBytes(at, n) \in Seq(Byte) /\ Len(FileBytes(at, n)) = n
           /\ \A k \in 1 .. n : FileBytes(at, n)[k] = <<"file", at + k - 1>>
           /\ \A a \in 0 .. n, m \in Nat : a + m <= n =>
                 SubSeq(FileBytes(at, n), a + 1, a + m) = FileBytes(at + a, m)
  <1>1. \A k \in 1 .. n : <<"file", at + k - 1>> \in Byte
    <2>1. \A k \in 1 .. n : at + k - 1 \in Nat
      OBVIOUS
    <2> QED  BY <2>1, Zenon DEF Byte
  <1>2. FileBytes(at, n) \in Seq(Byte) /\ Len(FileBytes(at, n)) = n
    BY <1>1 DEF FileBytes
  <1>3. ASSUME NEW a \in 0 .. n, NEW m \in Nat, a + m <= n
        PROVE  SubSeq(FileBytes(at, n), a + 1, a + m) = FileBytes(at + a, m)
    BY <1>3 DEF FileBytes
  <1> QED  BY <1>2, <1>3 DEF FileBytes

-----------------------------------------------------------------------------
(* The pairs of a block.                                                   *)

\* The folds of BlockContent and of check_subblock_sums, with what each step keeps.
StartStep(p, n, j) == n + PairOf(p, j)[1]
StartClaim(p, k, n) == n \in Nat
Starts == INSTANCE Folding WITH Step <- StartStep, Claim <- StartClaim

ContentStep(p, all, i) == all \o Holds(p, i)
ContentClaim(p, k, all) == all \in Seq(Byte)
Contents == INSTANCE Folding WITH Step <- ContentStep, Claim <- ContentClaim

\* A pair is two lengths, and past the last there is none.
LEMMA PairsOf ==
    ASSUME NEW p, ConformingPlan(p)
    PROVE  /\ PairCount(p) \in Nat
           /\ \A i \in 1 .. PairCount(p) :
                 /\ PairOf(p, i) \in Nat \X Nat /\ PairOf(p, i) # None
                 /\ PairOf(p, i)[1] \in Nat /\ PairOf(p, i)[2] \in Nat
           /\ PairOf(p, PairCount(p) + 1) = None
  <1>1. CASE p.subblocks = None
    <2>1. PairCount(p) = 1
      BY <1>1 DEF PairCount
    <2>2. StoredSize(p.location, p.materialized) = p.location.size
      BY DEF StoredSize, ConformingPlan
    <2>3. /\ p.location.size \in Nat /\ p.implied_bytes \in Nat
          /\ p.location.size # None
      BY NoneAssumption DEF ConformingPlan
    <2>4. PairOf(p, 1) = <<p.location.size, p.implied_bytes>> /\ PairOf(p, 2) = None
      BY <1>1, <2>2, <2>3 DEF PairOf
    <2>5. <<p.location.size, p.implied_bytes>> \in Nat \X Nat
      BY <2>3
    <2> QED  BY <2>1, <2>4, <2>5, NoPairAssumption
  <1>2. CASE p.subblocks # None
    <2>1. p.subblocks \in Seq(Nat \X Nat)
      BY <1>2 DEF ConformingPlan
    <2>2. /\ PairCount(p) = Len(p.subblocks) /\ Len(p.subblocks) \in Nat
          /\ DOMAIN p.subblocks = 1 .. Len(p.subblocks)
      BY <1>2, <2>1 DEF PairCount
    <2>3. \A i \in 1 .. PairCount(p) : PairOf(p, i) = p.subblocks[i]
      BY <1>2, <2>2 DEF PairOf
    <2>4. \A i \in 1 .. PairCount(p) : p.subblocks[i] \in Nat \X Nat
      BY <2>1, <2>2
    <2>5. PairOf(p, PairCount(p) + 1) = None
      BY <1>2, <2>2 DEF PairOf
    <2> QED  BY <2>2, <2>3, <2>4, <2>5, NoPairAssumption
  <1> QED  BY <1>1, <1>2

\* A pair begins where the one before it ends.
LEMMA PairsFollow ==
    ASSUME NEW p, ConformingPlan(p)
    PROVE  /\ StartOf(p, 1) = p.location.position
           /\ \A i \in 1 .. PairCount(p) :
                 /\ StartOf(p, i) \in Nat
                 /\ StartOf(p, i + 1) = StartOf(p, i) + PairOf(p, i)[1]
           /\ StartOf(p, PairCount(p) + 1) \in Nat
  <1> DEFINE Numbers(n) == [j \in 1 .. n |-> j]
             Sum(n) == Starts!Fold(p, 0, Numbers(n))
  <1>1. ASSUME NEW i \in Nat \ {0} PROVE StartOf(p, i) = p.location.position + Sum(i - 1)
    BY <1>1, Zenon DEF StartOf, StartStep, FoldLeft, MapThenFoldSet, Max,
         Starts!Fold, Starts!Iterates, Starts!Largest
  <1>2. Sum(0) = 0
    <2>1. DOMAIN Numbers(0) = {}
      OBVIOUS
    <2> QED  BY <2>1, Starts!FoldOfNone
  <1>3. ASSUME NEW i \in 1 .. PairCount(p)
        PROVE  Sum(i) = Sum(i - 1) + PairOf(p, i)[1]
    <2>1. i - 1 \in Nat /\ DOMAIN Numbers(i) = 1 .. (i - 1) + 1 /\ Numbers(i)[(i - 1) + 1] = i
      BY PairsOf
    <2>2. Starts!Prefix(Numbers(i), i - 1) = Numbers(i - 1)
      BY <2>1 DEF Starts!Prefix
    <2>3. Sum(i) = StartStep(p, Starts!Fold(p, 0, Starts!Prefix(Numbers(i), i - 1)),
                             Numbers(i)[(i - 1) + 1])
      BY <2>1, Starts!FoldOfOneMore
    <2> QED  BY <2>1, <2>2, <2>3 DEF StartStep
  <1>4. ASSUME NEW n \in 0 .. PairCount(p) PROVE Sum(n) \in Nat
    <2>1. \A i \in 1 .. n : \A s : StartClaim(p, i - 1, s)
                => StartClaim(p, i, StartStep(p, s, Numbers(n)[i]))
      BY PairsOf DEF StartClaim, StartStep
    <2>2. n \in Nat /\ DOMAIN Numbers(n) = 1 .. n /\ StartClaim(p, 0, 0)
      BY PairsOf DEF StartClaim
    <2> HIDE DEF Numbers
    <2>3. StartClaim(p, n, Starts!Fold(p, 0, Numbers(n)))
      BY <2>1, <2>2, Starts!FoldKeeps
    <2> QED  BY <2>3 DEF StartClaim
  <1> HIDE DEF Sum
  <1>5. p.location.position \in Nat
    BY DEF ConformingPlan
  <1>6. StartOf(p, 1) = p.location.position
    BY <1>1, <1>2, <1>5
  <1>7. \A i \in 1 .. PairCount(p) + 1 : i \in Nat \ {0} /\ i - 1 \in 0 .. PairCount(p)
    BY PairsOf
  <1>8. \A i \in 1 .. PairCount(p) + 1 : StartOf(p, i) \in Nat
    BY <1>1, <1>4, <1>5, <1>7
  <1>9. ASSUME NEW i \in 1 .. PairCount(p)
        PROVE  StartOf(p, i + 1) = StartOf(p, i) + PairOf(p, i)[1]
    <2>1. i + 1 \in Nat \ {0} /\ (i + 1) - 1 = i /\ i \in Nat \ {0}
          /\ i - 1 \in 0 .. PairCount(p)
      BY PairsOf
    <2>2. /\ StartOf(p, i + 1) = p.location.position + Sum(i)
          /\ StartOf(p, i) = p.location.position + Sum(i - 1)
      BY <1>1, <2>1
    <2> QED  BY <2>1, <2>2, <1>3, <1>4, <1>5, PairsOf
  <1> QED  BY <1>6, <1>8, <1>9, PairsOf

-----------------------------------------------------------------------------
(* What the pairs hold.                                                    *)

\* What pair i gives: what it holds or, when it holds nothing, what its codec can deliver.
Gives(p, i) == IF Holds(p, i) # None THEN Holds(p, i) ELSE p.contents[i].output

\* The first n pairs all hold something.
AllHold(p, n) == \A i \in 1 .. n : Holds(p, i) # None

\* A pair is read in one of three ways, and stored at its own length unless it is compressed.
LEMMA KindsOfPair ==
    ASSUME NEW pair, NEW reading
    PROVE  /\ Classify(pair, reading) \in {"Compressed", "Raw", "Probe"}
           /\ Classify(pair, reading) # "Compressed" => pair[1] = pair[2]
  BY DEF Classify

\* A pair that holds something holds as many bytes as it declares.
LEMMA HoldsItsLength ==
    ASSUME NEW p, ConformingPlan(p), NEW i \in 1 .. PairCount(p)
    PROVE  /\ p.contents[i].output \in Seq(Byte)
           /\ Holds(p, i) # None =>
                 Holds(p, i) \in Seq(Byte) /\ Len(Holds(p, i)) = PairOf(p, i)[2]
           /\ Gives(p, i) \in Seq(Byte)
  <1> DEFINE pair == PairOf(p, i)
             stored == FileBytes(StartOf(p, i), pair[1])
             kind == Classify(pair, p.reading)
  <1>1. pair[1] \in Nat /\ pair[2] \in Nat /\ StartOf(p, i) \in Nat
    BY PairsOf, PairsFollow
  <1>2. stored \in Seq(Byte) /\ Len(stored) = pair[1]
    BY <1>1, FileBytesRun
  <1>3. p.contents[i].output \in Seq(Byte)
    BY DEF ConformingPlan, ConformingContent
  <1>4. kind # "Compressed" => pair[1] = pair[2]
    BY KindsOfPair
  <1>5. Holds(p, i) = IF kind = "Raw" THEN stored
                      ELSE IF Exact(p.contents[i], pair[2]) \/ Unended(p, i)
                      THEN p.contents[i].output
                      ELSE IF kind = "Probe" /\ ~p.contents[i].window THEN stored
                      ELSE None
    BY DEF Holds
  <1>6. Exact(p.contents[i], pair[2]) \/ Unended(p, i) => Len(p.contents[i].output) = pair[2]
    <2>1. p.contents[i].kept => p.contents[i].output = <<>>
      BY DEF ConformingPlan, ConformingContent
    <2> QED  BY <2>1 DEF Exact, Unended
  <1> HIDE DEF pair, stored, kind
  <1>7. Holds(p, i) # None => Holds(p, i) \in Seq(Byte) /\ Len(Holds(p, i)) = pair[2]
    BY <1>2, <1>3, <1>4, <1>5, <1>6
  <1> QED  BY <1>3, <1>7 DEF Gives, pair

\* One pair more is its bytes more.
LEMMA BeforeGrows ==
    ASSUME NEW p, ConformingPlan(p)
    PROVE  /\ Before(p, 0) = <<>>
           /\ \A n \in 1 .. PairCount(p) : Before(p, n) = Before(p, n - 1) \o Holds(p, n)
           /\ \A n \in 0 .. PairCount(p) : AllHold(p, n) => Before(p, n) \in Seq(Byte)
  <1> DEFINE Numbers(n) == [j \in 1 .. n |-> j]
  <1>1. ASSUME NEW n PROVE Before(p, n) = Contents!Fold(p, <<>>, Numbers(n))
    BY Zenon DEF Before, ContentStep, FoldLeft, MapThenFoldSet, Max,
       Contents!Fold, Contents!Iterates, Contents!Largest
  <1>2. Before(p, 0) = <<>>
    <2>1. DOMAIN Numbers(0) = {}
      OBVIOUS
    <2>2. Contents!Fold(p, <<>>, Numbers(0)) = <<>>
      BY <2>1, Contents!FoldOfNone
    <2> QED  BY <2>2, <1>1
  <1>3. ASSUME NEW n \in 1 .. PairCount(p)
        PROVE  Before(p, n) = Before(p, n - 1) \o Holds(p, n)
    <2>1. n - 1 \in Nat /\ DOMAIN Numbers(n) = 1 .. (n - 1) + 1 /\ Numbers(n)[(n - 1) + 1] = n
      BY PairsOf
    <2>2. Contents!Prefix(Numbers(n), n - 1) = Numbers(n - 1)
      BY <2>1 DEF Contents!Prefix
    <2>3. Contents!Fold(p, <<>>, Numbers(n))
            = ContentStep(p, Contents!Fold(p, <<>>, Contents!Prefix(Numbers(n), n - 1)),
                          Numbers(n)[(n - 1) + 1])
      BY <2>1, Contents!FoldOfOneMore
    <2> HIDE DEF Numbers
    <2> QED  BY <1>1, <2>1, <2>2, <2>3 DEF ContentStep
  <1>4. ASSUME NEW n \in 0 .. PairCount(p), AllHold(p, n) PROVE Before(p, n) \in Seq(Byte)
    <2>1. n \in Nat /\ DOMAIN Numbers(n) = 1 .. n /\ ContentClaim(p, 0, <<>>)
      BY PairsOf DEF ContentClaim
    <2>2. ASSUME NEW i \in 1 .. n, NEW s, ContentClaim(p, i - 1, s)
          PROVE  ContentClaim(p, i, ContentStep(p, s, Numbers(n)[i]))
      <3>1. i \in 1 .. PairCount(p) /\ Numbers(n)[i] = i
        BY PairsOf
      <3>2. Holds(p, i) \in Seq(Byte)
        BY <1>4, <3>1, HoldsItsLength DEF AllHold
      <3> QED  BY <2>2, <3>1, <3>2 DEF ContentClaim, ContentStep
    <2> HIDE DEF Numbers
    <2>3. ContentClaim(p, n, Contents!Fold(p, <<>>, Numbers(n)))
      BY <2>1, <2>2, Contents!FoldKeeps
    <2> QED  BY <2>3, <1>1 DEF ContentClaim
  <1> QED  BY <1>2, <1>3, <1>4

\* The bytes of fewer pairs are a prefix of the bytes of more.
LEMMA BeforeIsPrefix ==
    ASSUME NEW p, ConformingPlan(p), NEW n \in 0 .. PairCount(p), NEW m \in n .. PairCount(p),
           AllHold(p, m)
    PROVE  IsPrefix(Before(p, n), Before(p, m))
  <1> DEFINE Wrong == {k \in n .. m : ~ IsPrefix(Before(p, n), Before(p, k))}
  <1> SUFFICES ASSUME Wrong # {} PROVE FALSE
    BY PairsOf
  <1>1. PICK k \in Wrong : \A x \in Wrong : k <= x
    <2>1. Wrong \in SUBSET Nat
      BY PairsOf
    <2> QED  BY <2>1, Contents!LeastOf
  <1>2. /\ n \in Nat /\ m \in Nat /\ k \in n .. m /\ k \in 0 .. PairCount(p)
        /\ AllHold(p, n) /\ AllHold(p, k)
    BY PairsOf DEF AllHold
  <1>3. Before(p, n) \in Seq(Byte) /\ Before(p, k) \in Seq(Byte)
    BY <1>2, BeforeGrows
  <1>4. k # n
    BY <1>3, <1>1 DEF IsPrefix
  <1>5. /\ k - 1 \in n .. m /\ k - 1 \in 0 .. PairCount(p) /\ k - 1 \notin Wrong
        /\ k \in 1 .. PairCount(p) /\ AllHold(p, k - 1)
    <2>1. PairCount(p) \in Nat
      BY PairsOf
    <2>2. /\ k - 1 \in n .. m /\ k - 1 \in 0 .. PairCount(p)
          /\ k \in 1 .. PairCount(p) /\ ~ (k <= k - 1)
      BY <1>2, <1>4, <2>1
    <2>3. AllHold(p, k - 1)
      BY <1>2, <2>2 DEF AllHold
    <2> QED  BY <1>1, <2>2, <2>3
  <1>6. /\ Before(p, k) = Before(p, k - 1) \o Holds(p, k)
        /\ Before(p, k - 1) \in Seq(Byte) /\ Holds(p, k) \in Seq(Byte)
    BY <1>2, <1>5, BeforeGrows, HoldsItsLength DEF AllHold
  <1>7. IsPrefix(Before(p, n), Before(p, k - 1))
    BY <1>5
  <1>8. IsPrefix(Before(p, k - 1), Before(p, k))
    BY <1>6, PrefixOfMore
  <1>9. IsPrefix(Before(p, n), Before(p, k))
    BY <1>3, <1>6, <1>7, <1>8, PrefixTransitive
  <1> QED  BY <1>1, <1>9

\* Whatever part of the next pair was given, after pairs that all hold something, is the
\* beginning of what the block states.
LEMMA StatedBegins ==
    ASSUME NEW p, ConformingPlan(p), NEW n \in 0 .. PairCount(p), AllHold(p, n)
    PROVE  /\ IsPrefix(Before(p, n), Stated(p))
           /\ Stated(p) \in Seq(Byte)
           /\ n < PairCount(p) =>
                 \A a \in 0 .. Len(Gives(p, n + 1)) :
                    IsPrefix(Before(p, n) \o SubSeq(Gives(p, n + 1), 1, a), Stated(p))
  <1> DEFINE bad == {i \in 1 .. PairCount(p) : Holds(p, i) = None}
             all == IF bad = {} THEN PairCount(p) ELSE Min(bad) - 1
  <1>1. PairCount(p) \in Nat
    BY PairsOf
  <1>2. bad # {} => /\ Min(bad) \in bad
                    /\ \A i \in bad : Min(bad) <= i
    <2> SUFFICES ASSUME bad # {} PROVE Min(bad) \in bad /\ \A i \in bad : Min(bad) <= i
      OBVIOUS
    <2>1. bad \in SUBSET Nat
      BY <1>1
    <2> HIDE DEF bad
    <2>2. \E i \in bad : \A j \in bad : i <= j
      BY <2>1, Contents!LeastOf
    <2> QED  BY <2>2, Zenon DEF Min
  <1>3. /\ all \in 0 .. PairCount(p) /\ n <= all /\ AllHold(p, all)
        /\ \A i \in 0 .. PairCount(p) : AllHold(p, i) => i <= all
    <2>1. CASE bad = {}
      BY <2>1, <1>1 DEF AllHold
    <2>2. CASE bad # {}
      <3>1. /\ Min(bad) \in 1 .. PairCount(p) /\ Holds(p, Min(bad)) = None
            /\ all = Min(bad) - 1
        BY <2>2, <1>2
      <3>2. \A i \in 1 .. Min(bad) - 1 : i \in 1 .. PairCount(p) /\ i \notin bad
        <4> DEFINE m == Min(bad)
        <4>1. m \in 1 .. PairCount(p) /\ \A i \in bad : m <= i
          BY <1>2, <2>2, <3>1
        <4> HIDE DEF bad, m
        <4>2. \A i \in 1 .. m - 1 : i \in 1 .. PairCount(p) /\ ~ (m <= i)
          BY <1>1, <4>1
        <4>3. \A i \in 1 .. m - 1 : i \in 1 .. PairCount(p) /\ i \notin bad
          BY <4>1, <4>2
        <4> QED  BY <4>3 DEF m
      <3>3. \A i \in 1 .. Min(bad) - 1 : Holds(p, i) # None
        BY <3>2
      <3>4. \A i \in 0 .. PairCount(p) : AllHold(p, i) => ~ (Min(bad) <= i)
        BY <3>1 DEF AllHold
      <3> HIDE DEF bad
      <3>5. AllHold(p, all)
        BY <3>1, <3>3 DEF AllHold
      <3>6. \A i \in 0 .. PairCount(p) : AllHold(p, i) => i <= all
        BY <1>1, <3>1, <3>4
      <3> QED  BY <1>1, <3>1, <3>5, <3>6
    <2> QED  BY <2>1, <2>2
  <1>4. Stated(p) = IF bad = {} THEN Before(p, all)
                    ELSE Before(p, all) \o p.contents[Min(bad)].output
    BY DEF Stated
  <1>5. bad # {} => /\ Min(bad) \in 1 .. PairCount(p) /\ all = Min(bad) - 1
                    /\ p.contents[Min(bad)].output \in Seq(Byte)
                    /\ Gives(p, Min(bad)) = p.contents[Min(bad)].output
    BY <1>2, HoldsItsLength DEF Gives
  <1> HIDE DEF bad, all
  <1>6. Before(p, all) \in Seq(Byte) /\ Before(p, n) \in Seq(Byte)
    BY <1>3, BeforeGrows
  <1>7. IsPrefix(Before(p, all), Stated(p)) /\ Stated(p) \in Seq(Byte)
    <2>1. CASE bad = {}
      BY <2>1, <1>4, <1>6 DEF IsPrefix
    <2>2. CASE bad # {}
      BY <2>2, <1>4, <1>5, <1>6, PrefixOfMore
    <2> QED  BY <2>1, <2>2
  <1>8. \A k \in 0 .. all : /\ Before(p, k) \in Seq(Byte) /\ AllHold(p, k)
                            /\ IsPrefix(Before(p, k), Stated(p))
    <2> SUFFICES ASSUME NEW k \in 0 .. all
                 PROVE  /\ Before(p, k) \in Seq(Byte) /\ AllHold(p, k)
                        /\ IsPrefix(Before(p, k), Stated(p))
      OBVIOUS
    <2>1. k \in 0 .. PairCount(p) /\ all \in k .. PairCount(p) /\ AllHold(p, k)
      BY <1>1, <1>3 DEF AllHold
    <2>2. Before(p, k) \in Seq(Byte) /\ IsPrefix(Before(p, k), Before(p, all))
      BY <2>1, <1>3, BeforeGrows, BeforeIsPrefix
    <2> QED  BY <2>1, <2>2, <1>6, <1>7, PrefixTransitive
  <1>9. n \in 0 .. all
    BY <1>1, <1>3
  <1>10. ASSUME n < PairCount(p), NEW a \in 0 .. Len(Gives(p, n + 1))
         PROVE  IsPrefix(Before(p, n) \o SubSeq(Gives(p, n + 1), 1, a), Stated(p))
    <2>1. n + 1 \in 1 .. PairCount(p) /\ n \in Nat
      BY <1>1, <1>10
    <2>2. Gives(p, n + 1) \in Seq(Byte)
      BY <2>1, HoldsItsLength
    <2>3. IsPrefix(Before(p, n) \o SubSeq(Gives(p, n + 1), 1, a), Before(p, n) \o Gives(p, n + 1))
      BY <1>6, <2>2, RunIsPrefix
    <2>4. IsPrefix(Before(p, n) \o Gives(p, n + 1), Stated(p))
      <3>1. CASE Holds(p, n + 1) # None
        <4>1. AllHold(p, n + 1)
          BY <1>8, <1>9, <2>1, <3>1 DEF AllHold
        <4>2. n + 1 \in 0 .. all
          BY <1>3, <2>1, <4>1
        <4>3. Before(p, n + 1) = Before(p, n) \o Gives(p, n + 1)
          <5>1. (n + 1) - 1 = n
            BY <2>1
          <5> QED  BY <2>1, <3>1, <5>1, BeforeGrows DEF Gives
        <4> QED  BY <1>8, <4>2, <4>3
      <3>2. CASE Holds(p, n + 1) = None
        <4>1. all = n
          <5>1. ~ (n + 1 <= all)
            BY <1>3, <2>1, <3>2 DEF AllHold
          <5> QED  BY <5>1, <1>3, <2>1, <1>1
        <4>2. bad # {}
          BY <2>1, <3>2 DEF bad
        <4>3. Min(bad) = n + 1
          BY <1>5, <4>1, <4>2, <2>1
        <4>4. Stated(p) = Before(p, n) \o Gives(p, n + 1)
          BY <1>4, <1>5, <4>1, <4>2, <4>3
        <4> QED  BY <4>4, <1>7 DEF IsPrefix
      <3> QED  BY <3>1, <3>2
    <2>5. /\ Before(p, n) \o SubSeq(Gives(p, n + 1), 1, a) \in Seq(Byte)
          /\ Before(p, n) \o Gives(p, n + 1) \in Seq(Byte)
      BY <1>6, <2>2
    <2> QED  BY <1>7, <2>3, <2>4, <2>5, PrefixTransitive
  <1> QED  BY <1>7, <1>8, <1>9, <1>10

-----------------------------------------------------------------------------
(* What the pairs declare.                                                 *)

\* The decoded bytes the first n pairs declare.
OweStep(p, n, i) == n + PairOf(p, i)[2]
OweClaim(p, k, n) == n \in Nat
Owing == INSTANCE Folding WITH Step <- OweStep, Claim <- OweClaim
Owes(p, n) == Owing!Fold(p, 0, [j \in 1 .. n |-> j])

\* check_subblock_sums, in the same terms: a sum that did not overflow is the true one.
SumStep(p, sums, pair) == <<CheckedAdd(sums[1], pair[1]), CheckedAdd(sums[2], pair[2])>>
SumClaim(p, n, sums) ==
    /\ sums[1] = None \/ (sums[1] \in Nat /\ p.location.position + sums[1] = StartOf(p, n + 1))
    /\ sums[2] = None \/ (sums[2] \in Nat /\ sums[2] = Owes(p, n))
Sums == INSTANCE Folding WITH Step <- SumStep, Claim <- SumClaim

\* Each pair adds what it declares to what the pairs before it owe.
LEMMA OwesGrows ==
    ASSUME NEW p, ConformingPlan(p)
    PROVE  /\ Owes(p, 0) = 0
           /\ \A n \in 1 .. PairCount(p) : Owes(p, n) = Owes(p, n - 1) + PairOf(p, n)[2]
           /\ \A n \in 0 .. PairCount(p) : Owes(p, n) \in Nat
  <1> DEFINE Numbers(n) == [j \in 1 .. n |-> j]
  <1>1. Owes(p, 0) = 0
    <2>1. DOMAIN Numbers(0) = {}
      OBVIOUS
    <2>2. Owing!Fold(p, 0, Numbers(0)) = 0
      BY <2>1, Owing!FoldOfNone
    <2> QED  BY <2>2 DEF Owes
  <1>2. ASSUME NEW n \in 1 .. PairCount(p)
        PROVE  Owes(p, n) = Owes(p, n - 1) + PairOf(p, n)[2]
    <2>1. n - 1 \in Nat /\ DOMAIN Numbers(n) = 1 .. (n - 1) + 1 /\ Numbers(n)[(n - 1) + 1] = n
      BY PairsOf
    <2>2. Owing!Prefix(Numbers(n), n - 1) = Numbers(n - 1)
      BY <2>1 DEF Owing!Prefix
    <2>3. Owing!Fold(p, 0, Numbers(n))
            = OweStep(p, Owing!Fold(p, 0, Owing!Prefix(Numbers(n), n - 1)),
                      Numbers(n)[(n - 1) + 1])
      BY <2>1, Owing!FoldOfOneMore
    <2> QED  BY <2>1, <2>2, <2>3 DEF OweStep, Owes
  <1>3. ASSUME NEW n \in 0 .. PairCount(p) PROVE Owes(p, n) \in Nat
    <2>1. n \in Nat /\ DOMAIN Numbers(n) = 1 .. n /\ OweClaim(p, 0, 0)
      BY PairsOf DEF OweClaim
    <2>2. \A i \in 1 .. n : \A s : OweClaim(p, i - 1, s)
                => OweClaim(p, i, OweStep(p, s, Numbers(n)[i]))
      BY PairsOf DEF OweClaim, OweStep
    <2> HIDE DEF Numbers
    <2>3. OweClaim(p, n, Owing!Fold(p, 0, Numbers(n)))
      BY <2>1, <2>2, Owing!FoldKeeps
    <2> QED  BY <2>3 DEF OweClaim, Owes, Numbers
  <1> QED  BY <1>1, <1>2, <1>3

\* Sums along the pairs never go down.
LEMMA SumsClimb ==
    ASSUME NEW p, ConformingPlan(p), NEW n \in 0 .. PairCount(p), NEW m \in n .. PairCount(p)
    PROVE  Owes(p, n) <= Owes(p, m) /\ StartOf(p, n + 1) <= StartOf(p, m + 1)
  <1> DEFINE Good(k) == Owes(p, n) <= Owes(p, k) /\ StartOf(p, n + 1) <= StartOf(p, k + 1)
             Wrong == {k \in n .. m : ~ Good(k)}
  <1> SUFFICES ASSUME Wrong # {} PROVE FALSE
    BY PairsOf
  <1>1. PICK k \in Wrong : \A x \in Wrong : k <= x
    <2>1. Wrong \in SUBSET Nat
      BY PairsOf
    <2> HIDE DEF Wrong
    <2> QED  BY <2>1, Contents!LeastOf
  <1>2. \A i \in 0 .. PairCount(p) : Owes(p, i) \in Nat /\ StartOf(p, i + 1) \in Nat
    <2>1. \A i \in 0 .. PairCount(p) : i + 1 \in 1 .. PairCount(p) \/ i = PairCount(p)
      BY PairsOf
    <2> QED  BY <2>1, OwesGrows, PairsFollow
  <1>3. k # n
    BY <1>1, <1>2, PairsOf
  <1>4. k \in 1 .. PairCount(p) /\ k - 1 \in n .. m /\ ~ (k <= k - 1) /\ k - 1 \in 0 .. PairCount(p)
    BY <1>1, <1>3, PairsOf
  <1>5. Good(k - 1)
    BY <1>1, <1>4
  <1>6. /\ Owes(p, k) = Owes(p, k - 1) + PairOf(p, k)[2]
        /\ StartOf(p, k + 1) = StartOf(p, (k - 1) + 1) + PairOf(p, k)[1]
        /\ PairOf(p, k)[1] \in Nat /\ PairOf(p, k)[2] \in Nat
    <2>1. (k - 1) + 1 = k
      BY <1>4
    <2> QED  BY <1>4, <2>1, OwesGrows, PairsFollow, PairsOf
  <1>7. Good(k)
    BY <1>2, <1>4, <1>5, <1>6
  <1> QED  BY <1>1, <1>7

\* The pairs of a block whose sums were checked tile it, stored and decoded.
LEMMA PairsTile ==
    ASSUME NEW p, ConformingPlan(p)
    PROVE  /\ StartOf(p, PairCount(p) + 1) = p.location.position + p.location.size
           /\ Owes(p, PairCount(p)) = p.implied_bytes
  <1>1. CASE p.subblocks = None
    <2>1. PairCount(p) = 1
      BY <1>1 DEF PairCount
    <2>2. PairOf(p, 1) = <<p.location.size, p.implied_bytes>>
      BY <1>1, NoneAssumption DEF PairOf, StoredSize, ConformingPlan
    <2>3. Owes(p, 1) = Owes(p, 0) + PairOf(p, 1)[2] /\ Owes(p, 0) = 0
      BY <2>1, OwesGrows
    <2>4. StartOf(p, 1 + 1) = StartOf(p, 1) + PairOf(p, 1)[1] /\ StartOf(p, 1) = p.location.position
      BY <2>1, PairsFollow
    <2>5. p.implied_bytes \in Nat
      BY DEF ConformingPlan
    <2> QED  BY <2>1, <2>2, <2>3, <2>4, <2>5
  <1>2. CASE p.subblocks # None
    <2> DEFINE sb == p.subblocks
    <2>1. /\ sb \in Seq(Nat \X Nat) /\ SumsOf(sb) = <<p.location.size, p.implied_bytes>>
          /\ p.location.size # None /\ p.implied_bytes # None
          /\ p.location.size \in Nat /\ p.implied_bytes \in Nat /\ p.location.position \in Nat
      BY <1>2, NoneAssumption DEF ConformingPlan
    <2>2. /\ PairCount(p) = Len(sb) /\ DOMAIN sb = 1 .. PairCount(p)
          /\ \A i \in 1 .. PairCount(p) : PairOf(p, i) = sb[i]
      BY <1>2, <2>1 DEF PairCount, PairOf
    <2>3. SumsOf(sb) = Sums!Fold(p, <<0, 0>>, sb)
      BY Zenon DEF SumsOf, SumStep, FoldLeft, MapThenFoldSet, Max,
         Sums!Fold, Sums!Iterates, Sums!Largest
    <2>4. SumClaim(p, 0, <<0, 0>>)
      BY <2>1, OwesGrows, PairsFollow DEF SumClaim
    <2>5. ASSUME NEW i \in 1 .. PairCount(p), NEW s, SumClaim(p, i - 1, s)
          PROVE  SumClaim(p, i, SumStep(p, s, sb[i]))
      <3>1. /\ i - 1 \in 0 .. PairCount(p) /\ (i - 1) + 1 = i /\ sb[i] = PairOf(p, i)
            /\ sb[i][1] \in Nat /\ sb[i][2] \in Nat
            /\ StartOf(p, i) \in Nat /\ Owes(p, i - 1) \in Nat
            /\ StartOf(p, i + 1) = StartOf(p, i) + sb[i][1]
            /\ Owes(p, i) = Owes(p, i - 1) + sb[i][2]
        <4>1. i - 1 \in 0 .. PairCount(p) /\ (i - 1) + 1 = i
          BY PairsOf
        <4>2. sb[i] = PairOf(p, i) /\ sb[i][1] \in Nat /\ sb[i][2] \in Nat
          BY <2>2, PairsOf
        <4>3. StartOf(p, i) \in Nat /\ StartOf(p, i + 1) = StartOf(p, i) + PairOf(p, i)[1]
          BY PairsFollow
        <4>4. Owes(p, i - 1) \in Nat /\ Owes(p, i) = Owes(p, i - 1) + PairOf(p, i)[2]
          BY <4>1, OwesGrows
        <4> QED  BY <4>1, <4>2, <4>3, <4>4
      <3> DEFINE one == CheckedAdd(s[1], sb[i][1])
                 two == CheckedAdd(s[2], sb[i][2])
      <3>2. s[1] = None \/ (s[1] \in Nat /\ p.location.position + s[1] = StartOf(p, i))
        BY <2>5, <3>1 DEF SumClaim
      <3>3. s[2] = None \/ (s[2] \in Nat /\ s[2] = Owes(p, i - 1))
        BY <2>5 DEF SumClaim
      <3>4. two = None \/ (two = s[2] + sb[i][2] /\ s[2] # None)
        BY DEF CheckedAdd, Fit
      <3>5. one = None \/ (one = s[1] + sb[i][1] /\ s[1] # None)
        BY DEF CheckedAdd, Fit
      <3>6. SumStep(p, s, sb[i]) = <<one, two>>
        BY DEF SumStep
      <3> HIDE DEF one, two
      <3>7. two = None \/ (two \in Nat /\ two = Owes(p, i))
        BY <3>1, <3>3, <3>4
      <3>8. one = None \/ (one \in Nat /\ p.location.position + one = StartOf(p, i + 1))
        <4> DEFINE at == p.location.position
                   sum == s[1]
                   more == sb[i][1]
        <4>1. at \in Nat /\ more \in Nat /\ StartOf(p, i + 1) = StartOf(p, i) + more
          BY <2>1, <3>1
        <4>2. (sum = None) \/ (sum \in Nat /\ at + sum = StartOf(p, i))
          BY <3>2
        <4>3. (one = None) \/ (one = sum + more /\ sum # None)
          BY <3>5
        <4> HIDE DEF at, sum, more
        <4>4. (one = None) \/ (one \in Nat /\ at + one = StartOf(p, i + 1))
          BY <4>1, <4>2, <4>3
        <4> QED  BY <4>4 DEF at
      <3> QED  BY <3>6, <3>7, <3>8 DEF SumClaim
    <2>6. SumClaim(p, PairCount(p), Sums!Fold(p, <<0, 0>>, sb))
      <3> HIDE DEF sb
      <3> QED  BY <2>2, <2>4, <2>5, PairsOf, Sums!FoldKeeps
    <2> QED  BY <2>1, <2>3, <2>6 DEF SumClaim
  <1> QED  BY <1>1, <1>2

\* Pairs that all hold something hold what they declare.
LEMMA BeforeOwes ==
    ASSUME NEW p, ConformingPlan(p), NEW n \in 0 .. PairCount(p), AllHold(p, n)
    PROVE  Len(Before(p, n)) = Owes(p, n)
  <1> DEFINE Wrong == {k \in 0 .. n : Len(Before(p, k)) # Owes(p, k)}
  <1> SUFFICES ASSUME Wrong # {} PROVE FALSE
    BY PairsOf
  <1>1. PICK k \in Wrong : \A x \in Wrong : k <= x
    <2>1. Wrong \in SUBSET Nat
      BY PairsOf
    <2> HIDE DEF Wrong
    <2> QED  BY <2>1, Contents!LeastOf
  <1>2. k # 0
    BY <1>1, BeforeGrows, OwesGrows
  <1>3. /\ k \in 1 .. PairCount(p) /\ k - 1 \in 0 .. n /\ ~ (k <= k - 1)
        /\ k - 1 \in 0 .. PairCount(p)
    BY <1>1, <1>2, PairsOf
  <1>4. Len(Before(p, k - 1)) = Owes(p, k - 1)
    BY <1>1, <1>3
  <1>5. AllHold(p, k - 1) /\ Holds(p, k) # None
    BY <1>1, <1>3, PairsOf DEF AllHold
  <1>6. /\ Before(p, k) = Before(p, k - 1) \o Holds(p, k)
        /\ Before(p, k - 1) \in Seq(Byte) /\ Holds(p, k) \in Seq(Byte)
        /\ Len(Holds(p, k)) = PairOf(p, k)[2]
        /\ Owes(p, k) = Owes(p, k - 1) + PairOf(p, k)[2]
    BY <1>3, <1>5, BeforeGrows, HoldsItsLength, OwesGrows
  <1> QED  BY <1>1, <1>4, <1>6

-----------------------------------------------------------------------------
(* The source a walk reads from.                                           *)

SourceType == pos \in Nat /\ length \in Nat /\ faults \in Nat

\* An outcome of a move that ends at `at' when it is "ok": inside the source then, when it read.
Lands(o, at, read) ==
    /\ o = Outcome(o.res, o.pos) /\ o.pos \in Nat
    /\ o.res = "ok" => o.pos = at /\ (read => at <= length)
    /\ o.res = "Io" => faults > 0

\* A read that succeeds stops past its last byte, inside the source.
LEMMA ReadExactLands ==
    ASSUME SourceType, NEW at \in Nat, NEW n \in Nat, NEW o \in ReadExact(at, n)
    PROVE  Lands(o, at + n, TRUE)
  <1>1. \A r, q : /\ Outcome(r, q).res = r /\ Outcome(r, q).pos = q
    BY DEF Outcome
  <1>2. CASE o \in IoWhileReading(at, n)
    <2>1. /\ faults # 0 /\ \E q \in at .. Greatest(at, Least(at + n - 1, length)) :
                               o = Outcome("Io", q)
      BY <1>2 DEF IoWhileReading
    <2>2. PICK q \in Nat : o = Outcome("Io", q)
      BY <2>1 DEF Greatest, Least, SourceType
    <2> QED  BY <2>1, <2>2, <1>1 DEF Lands, SourceType
  <1>3. CASE o \notin IoWhileReading(at, n)
    <2>1. o = IF at + n <= length THEN Outcome("ok", at + n)
              ELSE Outcome("Malformed", Greatest(at, length))
      BY <1>3 DEF ReadExact
    <2>2. Greatest(at, length) \in Nat /\ at + n \in Nat
      BY DEF Greatest, SourceType
    <2> QED  BY <2>1, <2>2, <1>1 DEF Lands
  <1> QED  BY <1>2, <1>3

\* A seek that succeeds stops at its target.
LEMMA SeekLands ==
    ASSUME SourceType, NEW at \in Nat, NEW o \in SeekTo(at)
    PROVE  Lands(o, at, FALSE)
  <1>1. \A r, q : /\ Outcome(r, q).res = r /\ Outcome(r, q).pos = q
    BY DEF Outcome
  <1>2. CASE seekable
    <2>1. o \in SeekAbsolute(at)
      BY <1>2 DEF SeekTo
    <2>2. \/ o = Outcome("ok", at) \/ o = Outcome("Malformed", pos)
          \/ faults # 0 /\ o = Outcome("Io", pos)
      BY <2>1 DEF SeekAbsolute
    <2> QED  BY <2>2, <1>1 DEF Lands, SourceType
  <1>3. CASE ~seekable /\ at < pos
    <2>1. o = Outcome("Unsupported", pos)
      BY <1>3 DEF SeekTo
    <2> QED  BY <2>1, <1>1 DEF Lands, SourceType
  <1>4. CASE ~seekable /\ ~ (at < pos)
    <2>1. o \in SkipByReading(at - pos) /\ at - pos \in Nat
      BY <1>4 DEF SeekTo, SourceType
    <2>2. CASE o = Outcome("LimitExceeded", pos)
      BY <2>2, <1>1 DEF Lands, SourceType
    <2>3. CASE at - pos = 0 /\ o = Outcome("ok", pos)
      BY <2>3, <1>1 DEF Lands, SourceType
    <2>4. CASE o \in ReadExact(pos, at - pos)
      <3>1. Lands(o, pos + (at - pos), TRUE)
        BY <2>1, <2>4, ReadExactLands DEF SourceType
      <3>2. pos + (at - pos) = at
        BY DEF SourceType
      <3> QED  BY <3>1, <3>2 DEF Lands
    <2> QED  BY <2>1, <2>2, <2>3, <2>4 DEF SkipByReading
  <1> QED  BY <1>2, <1>3, <1>4

\* A seek and a read that succeed stop past the last byte read, inside the source.
LEMMA ReadAtLands ==
    ASSUME SourceType, NEW at \in Nat, NEW n \in Nat, NEW o \in ReadAt(at, n)
    PROVE  Lands(o, at + n, TRUE)
  <1>1. PICK s \in SeekTo(at) : o \in IF s.res = "ok" THEN ReadExact(s.pos, n) ELSE {s}
    BY DEF ReadAt
  <1>2. Lands(s, at, FALSE)
    BY SeekLands
  <1>3. CASE s.res = "ok"
    <2>1. s.pos = at /\ o \in ReadExact(at, n)
      BY <1>1, <1>2, <1>3 DEF Lands
    <2> QED  BY <2>1, ReadExactLands
  <1>4. CASE s.res # "ok"
    BY <1>1, <1>2, <1>4 DEF Lands
  <1> QED  BY <1>3, <1>4

-----------------------------------------------------------------------------
(* One operation of a walk.                                                *)

\* The walk after n more of its stored bytes.
Drawn(w, n) == [w EXCEPT !.stored_left = @ - n, !.stored_at = @ + n]

\* A result of an operation on walk w: what the source did is sound.
Sound(r) == r = Result(r.res, r.pos, r.walk, r.out) /\ r.pos \in Nat /\ (r.res = "Io" => faults > 0)

\* BlockReader gives the stored bytes that come next, and fails with nothing drawn.
LEMMA StoredBytes ==
    ASSUME SourceType, NEW w \in WalkType, NEW n \in 0 .. w.stored_left, NEW r \in ReadStored(w, n)
    PROVE  /\ Sound(r)
           /\ r.res # "ok" => r.walk = w /\ r.out = <<>>
           /\ r.res = "ok" => /\ r.walk = Drawn(w, n) /\ r.out = FileBytes(w.stored_at, n)
                              /\ n # 0 => w.stored_at + n <= length
  <1>1. PICK o \in IF n = 0 THEN {Outcome("ok", pos)} ELSE ReadAt(w.stored_at, n) :
                r = IF o.res # "ok" THEN Result(o.res, o.pos, w, <<>>)
                    ELSE Result("ok", o.pos, Drawn(w, n), FileBytes(w.stored_at, n))
    BY DEF ReadStored, Drawn
  <1>2. /\ o.pos \in Nat /\ (o.res = "Io" => faults > 0)
        /\ o.res = "ok" /\ n # 0 => w.stored_at + n <= length
    <2>1. CASE n = 0
      BY <1>1, <2>1 DEF Outcome, SourceType
    <2>2. CASE n # 0
      <3>1. w.stored_at \in Nat /\ n \in Nat
        BY DEF WalkType
      <3> QED  BY <1>1, <2>2, <3>1, ReadAtLands DEF Lands
    <2> QED  BY <2>1, <2>2
  <1>3. \A a, b, c, d : /\ Result(a, b, c, d).res = a /\ Result(a, b, c, d).pos = b
                        /\ Result(a, b, c, d).walk = c /\ Result(a, b, c, d).out = d
    BY DEF Result
  <1>4. CASE o.res # "ok"
    BY <1>1, <1>2, <1>3, <1>4 DEF Sound
  <1>5. CASE o.res = "ok"
    BY <1>1, <1>2, <1>3, <1>5 DEF Sound
  <1> QED  BY <1>4, <1>5

-----------------------------------------------------------------------------
(* Where a walk stands, and what it has told so far.                       *)

\* Whichever pair is open, its stored bytes are the ones the declared lengths place there.
Standing(p, w) ==
    /\ w \in WalkType /\ w.index <= PairCount(p)
    /\ w.next_at = StartOf(p, w.index + 1)
    /\ w.index # 0 => /\ StartOf(p, w.index) <= w.stored_at
                      /\ w.stored_at + w.stored_left = w.next_at
                      /\ w.owed <= PairOf(p, w.index)[2]
    /\ HeldUnderCap(p, w)

Taken(p, w) == PairOf(p, w.index)[2] - w.owed

\* What is open can give the rest of the pair, if the pair holds it.
Opened(p, w) ==
    LET i == w.index
        kind == Classify(PairOf(p, i), p.reading)
    IN  \/ w.current = "Raw" /\ kind = "Raw" /\ w.stored_left = w.owed
        \/ /\ w.current = "Held" /\ Holds(p, i) # None
           /\ w.buf = SubSeq(Holds(p, i), Taken(p, w) + 1, PairOf(p, i)[2])
        \/ /\ w.current \in {"Zlib", "Zstd"} /\ kind = "Compressed"
           /\ ~p.contents[i].window /\ w.given = Taken(p, w)

\* The file's bytes among these lie in the block and in the source.
Within(p, bytes) ==
    \A k \in DOMAIN bytes : bytes[k][1] = "file" => bytes[k][2] \in p.location.position .. length - 1

\* A walk with a pair open has told the pairs before it and what was taken of this one.
Tells(p, w, done) ==
    /\ Standing(p, w) /\ w.index # 0 /\ AllHold(p, w.index - 1) /\ Opened(p, w)
    /\ Taken(p, w) <= Len(Gives(p, w.index))
    /\ done = Before(p, w.index - 1) \o SubSeq(Gives(p, w.index), 1, Taken(p, w))
    /\ Within(p, w.buf)

\* A walk at the end of a pair has told it and the pairs before it.
Between(p, w, done) ==
    Standing(p, w) /\ AllHold(p, w.index) /\ done = Before(p, w.index)

\* A run of what follows a run is a run of the whole.
LEMMA RunOfRun ==
    ASSUME NEW S, NEW s \in Seq(S), NEW a \in Nat, NEW n \in Nat, a + n <= Len(s)
    PROVE  LET rest == SubSeq(s, a + 1, Len(s)) IN
           /\ rest \in Seq(S) /\ Len(rest) = Len(s) - a
           /\ SubSeq(rest, 1, n) = SubSeq(s, a + 1, a + n)
           /\ SubSeq(rest, n + 1, Len(rest)) = SubSeq(s, (a + n) + 1, Len(s))
  OBVIOUS

\* More of a pair is more of the block.
LEMMA MoreGiven ==
    ASSUME NEW p, ConformingPlan(p), NEW i \in 1 .. PairCount(p), AllHold(p, i - 1),
           NEW a \in Nat, NEW n \in Nat, a + n <= Len(Gives(p, i))
    PROVE  /\ (Before(p, i - 1) \o SubSeq(Gives(p, i), 1, a)) \o SubSeq(Gives(p, i), a + 1, a + n)
                = Before(p, i - 1) \o SubSeq(Gives(p, i), 1, a + n)
           /\ SubSeq(Gives(p, i), a + 1, a + n) \in Seq(Byte)
           /\ Len(SubSeq(Gives(p, i), a + 1, a + n)) = n
  <1> DEFINE g == Gives(p, i)
             b == Before(p, i - 1)
  <1>1. g \in Seq(Byte)
    BY HoldsItsLength
  <1>2. b \in Seq(Byte)
    <2>1. i - 1 \in 0 .. PairCount(p)
      BY PairsOf
    <2> QED  BY <2>1, BeforeGrows
  <1>3. a \in 0 .. Len(g)
    BY <1>1
  <1> HIDE DEF g, b
  <1>4. /\ SubSeq(g, 1, a) \o SubSeq(g, a + 1, a + n) = SubSeq(g, 1, a + n)
        /\ SubSeq(g, a + 1, a + n) \in Seq(Byte) /\ Len(SubSeq(g, a + 1, a + n)) = n
        /\ SubSeq(g, 1, a) \in Seq(Byte)
    <2>1. a + n <= Len(g)
      BY DEF g
    <2> QED  BY <1>1, <1>3, <2>1, RunsMeet
  <1>5. (b \o SubSeq(g, 1, a)) \o SubSeq(g, a + 1, a + n)
            = b \o (SubSeq(g, 1, a) \o SubSeq(g, a + 1, a + n))
    <2> DEFINE x == SubSeq(g, 1, a)
               y == SubSeq(g, a + 1, a + n)
    <2>1. x \in Seq(Byte) /\ y \in Seq(Byte)
      BY <1>4
    <2> HIDE DEF x, y
    <2>2. (b \o x) \o y = b \o (x \o y)
      BY <1>2, <2>1
    <2> QED  BY <2>2 DEF x, y
  <1> QED  BY <1>4, <1>5 DEF g, b

\* Bytes within a block stay so joined to others and cut into runs.
LEMMA WithinParts ==
    ASSUME NEW p, NEW s \in Seq(Byte), NEW t \in Seq(Byte), Within(p, s)
    PROVE  /\ Within(p, t) => Within(p, s \o t)
           /\ \A a, b \in Nat : a >= 1 /\ b <= Len(s) => Within(p, SubSeq(s, a, b))
  BY DEF Within

\* Some bytes out of more, each where it was.
LEMMA PartOf ==
    ASSUME NEW S, NEW s \in Seq(S), NEW a \in Nat, NEW n \in Nat, a + n <= Len(s)
    PROVE  LET t == SubSeq(s, a + 1, a + n) IN
           /\ t \in Seq(S) /\ Len(t) = n /\ DOMAIN t = 1 .. n
           /\ \A k \in 1 .. n : t[k] = s[a + k] /\ a + k \in DOMAIN s
  OBVIOUS

\* What is open at a pair, in the terms of what the pair gives.
LEMMA OpenedFacts ==
    ASSUME SourceType, NEW p, ConformingPlan(p), NEW w, NEW done, Tells(p, w, done)
    PROVE  LET i == w.index
               g == Gives(p, i)
               a == Taken(p, w)
           IN  /\ w \in WalkType /\ i \in 1 .. PairCount(p) /\ i - 1 \in 0 .. PairCount(p)
               /\ PairOf(p, i)[1] \in Nat /\ PairOf(p, i)[2] \in Nat
               /\ a \in Nat /\ a + w.owed = PairOf(p, i)[2] /\ a <= Len(g) /\ g \in Seq(Byte)
               /\ w.stored_left <= PairOf(p, i)[1] /\ p.location.position <= w.stored_at
               /\ w.current = "Raw" =>
                     /\ Holds(p, i) # None /\ g = FileBytes(StartOf(p, i), PairOf(p, i)[2])
                     /\ Len(g) = PairOf(p, i)[2] /\ w.stored_left = w.owed
                     /\ w.stored_at = StartOf(p, i) + a
               /\ w.current = "Held" =>
                     /\ Holds(p, i) # None /\ g = Holds(p, i) /\ Len(g) = PairOf(p, i)[2]
                     /\ w.buf = SubSeq(g, a + 1, Len(g))
               /\ w.current \in {"Zlib", "Zstd"} =>
                     /\ g = p.contents[i].output /\ w.given = a
                     /\ (p.contents[i].ends \/ p.contents[i].kept) /\ Len(g) = PairOf(p, i)[2]
                           => Holds(p, i) # None
               /\ w.current # "Ended"
  <1> DEFINE i == w.index
             g == Gives(p, i)
             a == Taken(p, w)
             pair == PairOf(p, i)
             kind == Classify(pair, p.reading)
  <1>1. w \in WalkType /\ i \in 1 .. PairCount(p) /\ i - 1 \in 0 .. PairCount(p)
    <2>1. w \in WalkType /\ i <= PairCount(p) /\ i # 0
      BY DEF Tells, Standing
    <2>2. i \in Nat
      BY <2>1 DEF WalkType
    <2> HIDE DEF i
    <2> QED  BY <2>1, <2>2, PairsOf
  <1>2. /\ pair[1] \in Nat /\ pair[2] \in Nat /\ StartOf(p, i) \in Nat
        /\ StartOf(p, i + 1) = StartOf(p, i) + pair[1]
        /\ StartOf(p, i) >= p.location.position
    <2>1. 0 \in 0 .. PairCount(p) /\ i - 1 \in 0 .. PairCount(p) /\ (i - 1) + 1 = i
      BY <1>1, PairsOf
    <2>2. StartOf(p, 0 + 1) <= StartOf(p, (i - 1) + 1)
      BY <2>1, SumsClimb
    <2> QED  BY <1>1, <2>1, <2>2, PairsOf, PairsFollow
  <1>3. /\ w.next_at = StartOf(p, i + 1) /\ StartOf(p, i) <= w.stored_at
        /\ w.stored_at + w.stored_left = w.next_at /\ w.owed <= pair[2]
        /\ w.stored_at \in Nat /\ w.stored_left \in Nat /\ w.owed \in Nat
    BY DEF Tells, Standing, WalkType
  <1>4. a = pair[2] - w.owed /\ a \in Nat /\ a + w.owed = pair[2] /\ a <= Len(g)
    <2>1. a = pair[2] - w.owed
      BY DEF Taken
    <2>2. a <= Len(g)
      BY DEF Tells
    <2>3. pair[2] - w.owed \in Nat /\ (pair[2] - w.owed) + w.owed = pair[2]
      BY <1>2, <1>3
    <2> QED  BY <2>1, <2>2, <2>3
  <1>5. w.stored_left <= pair[1] /\ p.location.position <= w.stored_at
    <2>1. p.location.position \in Nat
      BY DEF ConformingPlan
    <2> QED  BY <1>2, <1>3, <2>1
  <1>6. g \in Seq(Byte) /\ (Holds(p, i) # None => Len(Holds(p, i)) = pair[2] /\ g = Holds(p, i))
    BY <1>1, HoldsItsLength DEF Gives
  <1>7. \/ w.current = "Raw" /\ kind = "Raw" /\ w.stored_left = w.owed
        \/ /\ w.current = "Held" /\ Holds(p, i) # None
           /\ w.buf = SubSeq(Holds(p, i), a + 1, pair[2])
        \/ /\ w.current \in {"Zlib", "Zstd"} /\ kind = "Compressed"
           /\ ~p.contents[i].window /\ w.given = a
    BY DEF Tells, Opened
  <1>8. CASE w.current = "Raw"
    <2>1. kind = "Raw" /\ w.stored_left = w.owed /\ pair[1] = pair[2]
      BY <1>7, <1>8, KindsOfPair
    <2>2. Holds(p, i) = FileBytes(StartOf(p, i), pair[1])
      BY <2>1 DEF Holds
    <2>3. Holds(p, i) # None
      <3>1. FileBytes(StartOf(p, i), pair[1]) \in Seq(Byte)
        BY <1>2, FileBytesRun
      <3> QED  BY <2>2, <3>1, NoBytesAssumption
    <2>4. w.stored_at = StartOf(p, i) + a
      BY <1>2, <1>3, <1>4, <2>1
    <2> QED  BY <1>1, <1>2, <1>4, <1>5, <1>6, <1>8, <2>1, <2>2, <2>3, <2>4
  <1>9. CASE w.current = "Held"
    <2>1. Holds(p, i) # None /\ w.buf = SubSeq(Holds(p, i), a + 1, pair[2])
      BY <1>7, <1>9
    <2> QED  BY <1>1, <1>2, <1>4, <1>5, <1>6, <1>9, <2>1
  <1>10. CASE w.current \in {"Zlib", "Zstd"}
    <2>1. kind = "Compressed" /\ ~p.contents[i].window /\ w.given = a
      BY <1>7, <1>10
    <2>2. Holds(p, i) = IF Exact(p.contents[i], pair[2]) \/ Unended(p, i)
                        THEN p.contents[i].output ELSE None
      BY <2>1 DEF Holds
    <2>3. p.contents[i].output \in Seq(Byte)
      BY <1>1, HoldsItsLength
    <2>4. g = p.contents[i].output
      BY <2>2, <2>3, NoBytesAssumption DEF Gives
    <2>5. (p.contents[i].ends \/ p.contents[i].kept) /\ Len(g) = pair[2] => Holds(p, i) # None
      <3>1. p.contents[i].kept => p.contents[i].output = <<>>
        BY <1>1 DEF ConformingPlan, ConformingContent
      <3>2. p.contents[i].kept /\ Len(g) = pair[2] => Unended(p, i)
        BY <2>1, <2>4, <3>1 DEF Unended
      <3>3. p.contents[i].ends /\ Len(g) = pair[2] => Exact(p.contents[i], pair[2])
        BY <2>1, <2>4 DEF Exact
      <3> QED  BY <2>2, <2>3, <3>2, <3>3, NoBytesAssumption
    <2> QED  BY <1>1, <1>2, <1>4, <1>5, <1>6, <1>10, <2>1, <2>4, <2>5
  <1> QED  BY <1>7, <1>8, <1>9, <1>10

-----------------------------------------------------------------------------
(* Reading the open pair.                                                  *)

\* A result has the fields it is made of.
LEMMA ResultFields ==
    \A a, b, c, d : /\ Result(a, b, c, d).res = a /\ Result(a, b, c, d).pos = b
                    /\ Result(a, b, c, d).walk = c /\ Result(a, b, c, d).out = d
  BY DEF Result

\* The walk v that a read of walk w left has its pair still open.
Follows(p, w, v) ==
    /\ Standing(p, v)
    /\ v.index = w.index /\ v.owed = w.owed /\ v.current = w.current

\* The bytes out are the next ones of the pair walk w has open, and v is the walk past them.
Yields(p, w, v, out) ==
    LET g == Gives(p, w.index)
        a == Taken(p, w)
        m == Len(out)
    IN  /\ out \in Seq(Byte) /\ a + m <= Len(g) /\ out = SubSeq(g, a + 1, a + m)
        /\ Within(p, out) /\ Within(p, v.buf)
        /\ w.current = "Raw" => v.stored_left = w.stored_left - m
        /\ w.current = "Held" => v.buf = SubSeq(g, (a + m) + 1, Len(g))
        /\ w.current \in {"Zlib", "Zstd"} => v.given = w.given + m

\* A walk that drew stored bytes stands where they end.
LEMMA DrawnStands ==
    ASSUME NEW p, ConformingPlan(p), NEW w, Standing(p, w), w.index # 0,
           NEW n \in 0 .. w.stored_left
    PROVE  /\ Follows(p, w, Drawn(w, n)) /\ Drawn(w, n).buf = w.buf
           /\ Drawn(w, n).stored_left = w.stored_left - n /\ Drawn(w, n).given = w.given
  <1> DEFINE v == Drawn(w, n)
  <1>1. w \in WalkType /\ n \in Nat
    BY DEF Standing, WalkType
  <1>2. /\ w.stored_left - n \in Nat /\ w.stored_at + n \in Nat
        /\ w.stored_left \in Nat /\ w.stored_at \in Nat /\ w.next_at \in Nat /\ w.index \in Nat
    BY <1>1 DEF WalkType
  <1>3. /\ v \in WalkType /\ v.index = w.index /\ v.next_at = w.next_at /\ v.owed = w.owed
        /\ v.current = w.current /\ v.buf = w.buf /\ v.given = w.given
        /\ v.stored_left = w.stored_left - n /\ v.stored_at = w.stored_at + n
    BY <1>1, <1>2 DEF WalkType, Drawn
  <1> HIDE DEF v
  <1>4. /\ StartOf(p, w.index) <= w.stored_at /\ w.stored_at + w.stored_left = w.next_at
        /\ w.owed <= PairOf(p, w.index)[2] /\ w.index <= PairCount(p)
        /\ w.next_at = StartOf(p, w.index + 1) /\ HeldUnderCap(p, w)
    BY DEF Standing
  <1>5. w.index \in 1 .. PairCount(p)
    BY <1>2, <1>4, PairsOf
  <1>6. StartOf(p, w.index) <= w.stored_at + n /\ (w.stored_at + n) + (w.stored_left - n) = w.next_at
    <2>1. StartOf(p, w.index) \in Nat /\ n \in Nat
      BY <1>1, <1>5, PairsFollow
    <2> DEFINE start == StartOf(p, w.index)
               at == w.stored_at
               left == w.stored_left
               end == w.next_at
    <2>2. /\ start \in Nat /\ n \in Nat /\ at \in Nat /\ left \in Nat /\ end \in Nat
          /\ start <= at /\ at + left = end
      BY <2>1, <1>2, <1>4
    <2> HIDE DEF start, at, left, end
    <2>3. start <= at + n /\ (at + n) + (left - n) = end
      BY <2>2
    <2> QED  BY <2>3 DEF start, at, left, end
  <1>7. HeldUnderCap(p, v)
    BY <1>3, <1>4 DEF HeldUnderCap
  <1> QED  BY <1>3, <1>4, <1>6, <1>7 DEF v, Follows, Standing

\* A pull gives the bytes that come next in the pair, and is short only at its end.
LEMMA PullsYield ==
    ASSUME SourceType, NEW p, ConformingPlan(p), NEW w, NEW done, Tells(p, w, done),
           NEW n \in Nat, NEW r \in FillUpto(p, w, n)
    PROVE  /\ Sound(r) /\ Follows(p, w, r.walk) /\ Within(p, r.walk.buf)
           /\ r.res = "ok" =>
                 /\ Yields(p, w, r.walk, r.out) /\ Len(r.out) <= n
                 /\ Len(r.out) < n =>
                       /\ Len(Gives(p, w.index)) = Taken(p, w) + Len(r.out)
                       /\ w.current \in {"Zlib", "Zstd"} =>
                             p.contents[w.index].ends \/ p.contents[w.index].kept
  <1> DEFINE i == w.index
             g == Gives(p, i)
             a == Taken(p, w)
             low == p.location.position
  <1> USE ResultFields
  <1>1. /\ w \in WalkType /\ i \in 1 .. PairCount(p)
        /\ PairOf(p, i)[2] \in Nat /\ a \in Nat /\ a + w.owed = PairOf(p, i)[2] /\ a <= Len(g)
        /\ g \in Seq(Byte) /\ low <= w.stored_at /\ w.current # "Ended"
    BY OpenedFacts
  <1>2. Standing(p, w) /\ Within(p, w.buf) /\ w.index # 0
    BY DEF Tells
  <1>3. Follows(p, w, w)
    BY <1>2 DEF Follows
  <1>4. /\ w.stored_at \in Nat /\ w.stored_left \in Nat /\ w.owed \in Nat /\ w.given \in Nat
        /\ w.buf \in Seq(Byte) /\ w.current \in {"Raw", "Held", "Zlib", "Zstd"}
        /\ low \in Nat /\ length \in Nat
    BY <1>1 DEF WalkType, ConformingPlan, SourceType
  <1>5. ASSUME NEW k \in 0 .. w.stored_left, NEW q \in ReadStored(w, k)
        PROVE  /\ Sound(q) /\ Follows(p, w, q.walk) /\ q.walk.buf = w.buf
               /\ q.walk.given = w.given
               /\ q.res = "ok" => /\ q.walk.stored_left = w.stored_left - k
                                  /\ q.out = FileBytes(w.stored_at, k)
                                  /\ k # 0 => w.stored_at + k <= length
    <2>1. CASE q.res = "ok"
      BY <1>1, <1>2, <1>5, <2>1, StoredBytes, DrawnStands
    <2>2. CASE q.res # "ok"
      BY <1>1, <1>2, <1>3, <1>5, <2>2, StoredBytes
    <2> QED  BY <2>1, <2>2
  <1>6. CASE w.current = "Raw"
    <2> DEFINE k == Least(n, w.stored_left)
    <2>1. /\ g = FileBytes(StartOf(p, i), PairOf(p, i)[2]) /\ Len(g) = PairOf(p, i)[2]
          /\ w.stored_left = w.owed /\ w.stored_at = StartOf(p, i) + a
      BY <1>6, OpenedFacts
    <2>2. /\ k \in 0 .. w.stored_left /\ k <= n /\ k \in Nat
          /\ (k < n => k = w.stored_left)
      BY <1>4 DEF Least
    <2>3. r \in ReadStored(w, k)
      BY <1>6 DEF FillUpto
    <2> HIDE DEF k
    <2>4. a + k <= Len(g) /\ (k < n => Len(g) = a + k) /\ a \in 0 .. Len(g)
      BY <1>1, <1>4, <2>1, <2>2
    <2>5. StartOf(p, i) \in Nat
      BY <1>1, PairsFollow
    <2>6. /\ SubSeq(g, a + 1, a + k) = FileBytes(w.stored_at, k)
          /\ FileBytes(w.stored_at, k) \in Seq(Byte) /\ Len(FileBytes(w.stored_at, k)) = k
      <3>1. \A b \in 0 .. PairOf(p, i)[2], m \in Nat : b + m <= PairOf(p, i)[2] =>
                SubSeq(FileBytes(StartOf(p, i), PairOf(p, i)[2]), b + 1, b + m)
                    = FileBytes(StartOf(p, i) + b, m)
        BY <1>1, <2>5, FileBytesRun
      <3>2. a \in 0 .. PairOf(p, i)[2] /\ a + k <= PairOf(p, i)[2]
        BY <2>1, <2>4
      <3>3. SubSeq(g, a + 1, a + k) = FileBytes(w.stored_at, k)
        <4> DEFINE from == StartOf(p, i)
                   len == PairOf(p, i)[2]
                   at == w.stored_at
        <4>1. /\ g = FileBytes(from, len) /\ at = from + a /\ k \in Nat
              /\ a \in 0 .. len /\ a + k <= len
          BY <2>1, <2>2, <3>2
        <4>2. \A b \in 0 .. len, m \in Nat : b + m <= len =>
                  SubSeq(FileBytes(from, len), b + 1, b + m) = FileBytes(from + b, m)
          BY <3>1
        <4> HIDE DEF from, len, at, g, a, k, i, low
        <4>3. SubSeq(FileBytes(from, len), a + 1, a + k) = FileBytes(from + a, k)
          BY <4>1, <4>2
        <4>4. SubSeq(g, a + 1, a + k) = FileBytes(at, k)
          BY <4>1, <4>3
        <4> QED  BY <4>4 DEF at
      <3> QED  BY <1>4, <2>2, <3>3, FileBytesRun
    <2>7. ASSUME k # 0 => w.stored_at + k <= length PROVE Within(p, FileBytes(w.stored_at, k))
      <3>1. \A x \in 1 .. k : FileBytes(w.stored_at, k)[x] = <<"file", w.stored_at + x - 1>>
        BY <1>4, <2>2, FileBytesRun
      <3>2. DOMAIN FileBytes(w.stored_at, k) = 1 .. k
        BY DEF FileBytes
      <3>3. \A x \in 1 .. k : w.stored_at + x - 1 \in low .. length - 1
        <4> DEFINE at == w.stored_at
        <4> HIDE DEF k, low, i
        <4> SUFFICES ASSUME NEW x \in 1 .. k PROVE at + x - 1 \in low .. length - 1
          OBVIOUS
        <4>1. at + k <= length
          BY <2>2, <2>7
        <4>2. at \in Nat /\ low \in Nat /\ length \in Nat /\ low <= at /\ k \in Nat
          BY <1>1, <1>4, <2>2
        <4> HIDE DEF at
        <4> QED  BY <4>1, <4>2
      <3> QED  BY <3>1, <3>2, <3>3 DEF Within
    <2>8. /\ Sound(r) /\ Follows(p, w, r.walk) /\ r.walk.buf = w.buf
      BY <1>5, <2>2, <2>3
    <2>9. ASSUME r.res = "ok"
          PROVE  /\ r.out = FileBytes(w.stored_at, k) /\ r.walk.stored_left = w.stored_left - k
                 /\ Within(p, r.out)
      <3>1. /\ r.out = FileBytes(w.stored_at, k) /\ r.walk.stored_left = w.stored_left - k
            /\ k # 0 => w.stored_at + k <= length
        BY <1>5, <2>2, <2>3, <2>9
      <3> QED  BY <3>1, <2>7
    <2>10. ASSUME r.res = "ok" PROVE Yields(p, w, r.walk, r.out) /\ Len(r.out) = k
      BY <1>2, <1>6, <2>4, <2>6, <2>8, <2>9, <2>10 DEF Yields
    <2> QED  BY <1>2, <1>6, <2>2, <2>4, <2>8, <2>10
  <1>7. CASE w.current = "Held"
    <2> DEFINE k == Least(n, Len(w.buf))
               v == [w EXCEPT !.buf = SubSeq(@, k + 1, Len(@))]
    <2>1. g = Holds(p, i) /\ Len(g) = PairOf(p, i)[2] /\ w.buf = SubSeq(g, a + 1, Len(g))
      BY <1>7, OpenedFacts
    <2>2. r = Result("ok", pos, v, SubSeq(w.buf, 1, k))
      BY <1>7 DEF FillUpto
    <2>3. Len(w.buf) = Len(g) - a /\ Len(g) \in Nat
      BY <1>1, <2>1
    <2>4. k \in Nat /\ k <= n /\ a + k <= Len(g) /\ (k < n => Len(g) = a + k) /\ k <= Len(w.buf)
      BY <1>1, <2>3 DEF Least
    <2> HIDE DEF k
    <2>5. /\ SubSeq(w.buf, 1, k) = SubSeq(g, a + 1, a + k)
          /\ SubSeq(w.buf, k + 1, Len(w.buf)) = SubSeq(g, (a + k) + 1, Len(g))
      <3> DEFINE b == w.buf
      <3>1. b = SubSeq(g, a + 1, Len(g)) /\ g \in Seq(Byte) /\ a \in Nat
        BY <1>1, <2>1
      <3> HIDE DEF b, g, a
      <3>2. SubSeq(b, 1, k) = SubSeq(g, a + 1, a + k)
        BY <3>1, <2>4
      <3>3. SubSeq(b, k + 1, Len(b)) = SubSeq(g, (a + k) + 1, Len(g))
        BY <3>1, <2>4
      <3> QED  BY <3>2, <3>3 DEF b
    <2>6. /\ SubSeq(w.buf, 1, k) \in Seq(Byte) /\ Len(SubSeq(w.buf, 1, k)) = k
          /\ SubSeq(w.buf, k + 1, Len(w.buf)) \in Seq(Byte)
          /\ Len(SubSeq(w.buf, k + 1, Len(w.buf))) <= Len(w.buf)
      BY <1>4, <2>4
    <2>7. /\ Within(p, SubSeq(w.buf, 1, k)) /\ Within(p, SubSeq(w.buf, k + 1, Len(w.buf)))
      <3> DEFINE b == w.buf
                 m == Len(b)
      <3>1. b \in Seq(Byte) /\ m \in Nat /\ k \in 0 .. m /\ Within(p, b)
        BY <1>2, <1>4, <2>4
      <3>2. \A x \in 1 .. k : SubSeq(b, 1, k)[x] = b[x]
        BY <3>1
      <3>3. \A x \in 1 .. m - k : SubSeq(b, k + 1, m)[x] = b[k + x]
        BY <3>1
      <3>4. /\ DOMAIN SubSeq(b, 1, k) = 1 .. k /\ DOMAIN SubSeq(b, k + 1, m) = 1 .. m - k
            /\ DOMAIN b = 1 .. m
        BY <3>1
      <3>5. (\A x \in 1 .. k : x \in 1 .. m) /\ (\A x \in 1 .. m - k : k + x \in 1 .. m)
        BY <3>1
      <3> HIDE DEF b, m
      <3>6. Within(p, SubSeq(b, 1, k))
        BY <3>1, <3>2, <3>4, <3>5 DEF Within
      <3>7. Within(p, SubSeq(b, k + 1, m))
        BY <3>1, <3>3, <3>4, <3>5 DEF Within
      <3> QED  BY <3>6, <3>7 DEF b, m
    <2>8. /\ v \in WalkType /\ v.index = w.index /\ v.next_at = w.next_at /\ v.owed = w.owed
          /\ v.current = w.current /\ v.buf = SubSeq(w.buf, k + 1, Len(w.buf))
          /\ v.stored_left = w.stored_left /\ v.stored_at = w.stored_at
      BY <1>1, <2>6 DEF WalkType
    <2> HIDE DEF v
    <2>9. Limits.materialized_bytes \in Nat
      BY LimitsAssumption
    <2>10. Follows(p, w, v)
      <3>1. HeldUnderCap(p, v)
        <4>1. Len(w.buf) <= Limits.materialized_bytes /\ Len(v.buf) <= Len(w.buf)
              /\ Len(v.buf) \in Nat /\ Len(w.buf) \in Nat
          BY <1>2, <1>4, <2>6, <2>8 DEF Standing, HeldUnderCap
        <4>2. Len(v.buf) <= Limits.materialized_bytes
          BY <4>1, <2>9
        <4> QED  BY <1>2, <2>8, <4>2 DEF Standing, HeldUnderCap
      <3> QED  BY <1>2, <2>8, <3>1 DEF Follows, Standing
    <2>11. /\ r.res = "ok" /\ r.pos = pos /\ r.walk = v /\ r.out = SubSeq(w.buf, 1, k)
           /\ Sound(r)
      <3>1. /\ r.res = "ok" /\ r.pos = pos /\ r.walk = v /\ r.out = SubSeq(w.buf, 1, k)
        BY <2>2 DEF Result
      <3> QED  BY <3>1, <2>2 DEF Sound, SourceType
    <2>12. Yields(p, w, r.walk, r.out) /\ Len(r.out) = k
      BY <1>7, <2>4, <2>5, <2>6, <2>7, <2>8, <2>11 DEF Yields
    <2> QED  BY <1>7, <2>4, <2>7, <2>8, <2>10, <2>11, <2>12
  <1>8. CASE w.current \in {"Zlib", "Zstd"} /\ n = 0
    <2>1. r = Result("ok", pos, w, <<>>)
      BY <1>8 DEF FillUpto, PullFramed
    <2>2. g = p.contents[i].output /\ w.given = a
      BY <1>8, OpenedFacts
    <2>3. /\ r.res = "ok" /\ r.pos = pos /\ r.walk = w /\ r.out = <<>> /\ Sound(r)
      BY <2>1 DEF Sound, SourceType
    <2>4. /\ <<>> \in Seq(Byte) /\ Len(<<>>) = 0 /\ <<>> = SubSeq(g, a + 1, a + 0)
          /\ Within(p, <<>>)
      BY <1>1 DEF Within
    <2>5. Yields(p, w, r.walk, r.out)
      BY <1>1, <1>2, <1>4, <1>8, <2>3, <2>4 DEF Yields
    <2> QED  BY <1>2, <1>3, <1>8, <2>3, <2>4, <2>5
  <1>9. CASE w.current \in {"Zlib", "Zstd"} /\ n # 0
    <2> DEFINE c == p.contents[i]
               take == Least(n, Len(c.output) - w.given)
               consumed == PairOf(p, i)[1] - w.stored_left
               least == IF w.given + n < Len(c.output) THEN 0 ELSE Greatest(0, c.needs - consumed)
               Give(q) == IF q.res # "ok" THEN q
                          ELSE Result(IF take < n /\ ~c.ends /\ ~c.kept THEN "Malformed" ELSE "ok",
                                      q.pos, [q.walk EXCEPT !.given = @ + take],
                                      SubSeq(c.output, w.given + 1, w.given + take))
    <2>1. g = c.output /\ w.given = a
      BY <1>9, OpenedFacts
    <2>2. r \in {Give(q) : q \in UNION {ReadStored(w, m) : m \in least .. w.stored_left}}
      BY <1>9 DEF FillUpto, PullFramed
    <2>3. /\ c.needs \in Nat /\ \A k \in DOMAIN c.output : c.output[k][1] # "file"
      BY <1>1 DEF ConformingPlan, ConformingContent
    <2>4. least \in Nat
      <3>1. consumed \in Int
        BY <1>1, <1>4, PairsOf
      <3> QED  BY <2>3, <3>1 DEF Greatest
    <2>5. take \in Nat /\ take <= n /\ a + take <= Len(g) /\ (take < n => Len(g) = a + take)
      <3> DEFINE l == Len(c.output)
      <3>1. l = Len(g) /\ l \in Nat /\ a \in Nat /\ a <= l
        BY <1>1, <2>1
      <3>2. take = IF n < l - a THEN n ELSE l - a
        BY <2>1 DEF Least
      <3> HIDE DEF take, l, a, g
      <3> QED  BY <3>1, <3>2
    <2> HIDE DEF take, least
    <2>6. PICK m \in least .. w.stored_left : \E q \in ReadStored(w, m) : r = Give(q)
      BY <2>2
    <2>7. PICK q \in ReadStored(w, m) : r = Give(q)
      BY <2>6
    <2>8. m \in 0 .. w.stored_left
      BY <2>4, <1>4
    <2>9. /\ Sound(q) /\ Follows(p, w, q.walk) /\ q.walk.buf = w.buf /\ q.walk.given = w.given
      BY <1>5, <2>8
    <2>10. CASE q.res # "ok"
      BY <1>2, <2>7, <2>9, <2>10
    <2>11. CASE q.res = "ok"
      <3> DEFINE v == [q.walk EXCEPT !.given = @ + take]
      <3>1. r = Result(IF take < n /\ ~c.ends /\ ~c.kept THEN "Malformed" ELSE "ok", q.pos, v,
                       SubSeq(g, a + 1, a + take))
        BY <2>1, <2>7, <2>11
      <3>2. q.walk \in WalkType /\ q.walk.given + take \in Nat
        BY <1>4, <2>5, <2>9 DEF Follows, Standing
      <3>3. /\ v \in WalkType /\ v.index = q.walk.index /\ v.next_at = q.walk.next_at
            /\ v.owed = q.walk.owed /\ v.current = q.walk.current /\ v.buf = q.walk.buf
            /\ v.stored_left = q.walk.stored_left /\ v.stored_at = q.walk.stored_at
            /\ v.given = q.walk.given + take
        BY <3>2 DEF WalkType
      <3> HIDE DEF v
      <3>4. Follows(p, w, v)
        BY <2>9, <3>3 DEF Follows, Standing, HeldUnderCap
      <3>5. /\ SubSeq(g, a + 1, a + take) \in Seq(Byte) /\ Len(SubSeq(g, a + 1, a + take)) = take
            /\ Within(p, SubSeq(g, a + 1, a + take))
        <4>1. g \in Seq(Byte) /\ a \in Nat /\ \A k \in DOMAIN g : g[k][1] # "file"
          BY <1>1, <2>1, <2>3
        <4> HIDE DEF g, a
        <4> DEFINE s == SubSeq(g, a + 1, a + take)
        <4>2. /\ s \in Seq(Byte) /\ Len(s) = take /\ DOMAIN s = 1 .. take
              /\ \A k \in 1 .. take : s[k] = g[a + k] /\ a + k \in DOMAIN g
          BY <4>1, <2>5, PartOf
        <4> HIDE DEF s
        <4>3. Within(p, s)
          BY <4>1, <4>2 DEF Within
        <4> QED  BY <4>2, <4>3 DEF s
      <3>6. /\ r.walk = v /\ r.pos = q.pos /\ r.out = SubSeq(g, a + 1, a + take)
            /\ r.res = (IF take < n /\ ~c.ends /\ ~c.kept THEN "Malformed" ELSE "ok")
        <4> DEFINE res == IF take < n /\ ~c.ends /\ ~c.kept THEN "Malformed" ELSE "ok"
                   out == SubSeq(g, a + 1, a + take)
        <4>1. r = Result(res, q.pos, v, out)
          BY <3>1
        <4> HIDE DEF res, out
        <4>2. r.walk = v /\ r.pos = q.pos /\ r.out = out /\ r.res = res
          BY <4>1 DEF Result
        <4> QED  BY <4>2 DEF res, out
      <3>7. Sound(r)
        BY <2>9, <3>1, <3>6 DEF Sound
      <3>8. Yields(p, w, r.walk, r.out)
        BY <1>2, <1>4, <1>9, <2>5, <2>9, <3>3, <3>5, <3>6 DEF Yields
      <3> QED  BY <1>2, <2>5, <2>9, <3>3, <3>4, <3>5, <3>6, <3>7, <3>8
    <2> QED  BY <2>10, <2>11
  <1> QED  BY <1>4, <1>6, <1>7, <1>8, <1>9

\* A turn of fill takes what it asks for, the next bytes of the block, or fails.
LEMMA TakeTells ==
    ASSUME SourceType, NEW p, ConformingPlan(p), NEW w, NEW done, Tells(p, w, done),
           NEW rest \in Nat, NEW r \in Take(p, w, rest)
    PROVE  /\ Sound(r) /\ Standing(p, r.walk) /\ r.walk.index = w.index
           /\ r.res = "ok" =>
                 /\ Tells(p, r.walk, done \o r.out)
                 /\ r.out \in Seq(Byte) /\ Within(p, r.out)
                 /\ Len(r.out) = Least(rest, w.owed) /\ r.walk.owed = w.owed - Len(r.out)
  <1> DEFINE i == w.index
             g == Gives(p, i)
             a == Taken(p, w)
             take == Least(rest, w.owed)
             Short(q) == IF q.res = "ok" /\ Len(q.out) < take THEN [q EXCEPT !.res = "Malformed"]
                         ELSE q
  <1>1. PICK q \in FillUpto(p, w, take) :
            r = IF Short(q).res = "ok" THEN [Short(q) EXCEPT !.walk.owed = @ - take] ELSE Short(q)
    <2>1. PICK f \in Fill(p, w, take) :
              r = IF f.res = "ok" THEN [f EXCEPT !.walk.owed = @ - take] ELSE f
      BY DEF Take
    <2>2. PICK q \in FillUpto(p, w, take) : f = Short(q)
      BY DEF Fill
    <2> QED  BY <2>1, <2>2, Zenon
  <1>2. /\ w \in WalkType /\ i \in 1 .. PairCount(p)
        /\ PairOf(p, i)[2] \in Nat /\ a \in Nat /\ a + w.owed = PairOf(p, i)[2] /\ a <= Len(g)
        /\ g \in Seq(Byte) /\ w.current # "Ended"
        /\ w.current = "Raw" => w.stored_left = w.owed
        /\ w.current = "Held" =>
              Holds(p, i) # None /\ g = Holds(p, i) /\ Len(g) = PairOf(p, i)[2]
        /\ w.current \in {"Zlib", "Zstd"} => w.given = a
    BY OpenedFacts
  <1>3. w.owed \in Nat /\ take \in Nat /\ take <= w.owed
    BY <1>2 DEF WalkType, Least
  <1>4. /\ Sound(q) /\ Follows(p, w, q.walk) /\ Within(p, q.walk.buf)
        /\ q.res = "ok" => Yields(p, w, q.walk, q.out) /\ Len(q.out) <= take
    BY <1>3, PullsYield
  <1>5. q = Result(q.res, q.pos, q.walk, q.out)
    BY <1>4 DEF Sound
  <1> HIDE DEF take
  <1>6. CASE q.res # "ok"
    <2>1. r = q
      BY <1>1, <1>6
    <2> QED  BY <1>4, <1>6, <2>1 DEF Follows
  <1>7. CASE q.res = "ok" /\ Len(q.out) < take
    <2> DEFINE f == [q EXCEPT !.res = "Malformed"]
    <2>1. r = f /\ f = Result("Malformed", q.pos, q.walk, q.out)
      BY <1>1, <1>5, <1>7 DEF Result
    <2>2. r.res = "Malformed" /\ r.pos = q.pos /\ r.walk = q.walk /\ r.out = q.out
      BY <2>1 DEF Result
    <2> HIDE DEF f
    <2>3. Sound(r)
      BY <1>4, <2>1, <2>2 DEF Sound
    <2> QED  BY <1>4, <2>2, <2>3 DEF Follows
  <1>8. CASE q.res = "ok" /\ ~ (Len(q.out) < take)
    <2> DEFINE v == [q.walk EXCEPT !.owed = @ - take]
    <2>1. Yields(p, w, q.walk, q.out) /\ Len(q.out) \in Nat
      BY <1>4, <1>8 DEF Yields
    <2>2. Len(q.out) = take
      BY <1>3, <1>4, <1>8, <2>1
    <2>3. r = Result("ok", q.pos, v, q.out)
      <3>1. r = [q EXCEPT !.walk.owed = @ - take]
        BY <1>1, <1>8
      <3>2. [q EXCEPT !.walk.owed = @ - take] = [q EXCEPT !.walk = v]
        OBVIOUS
      <3>3. [q EXCEPT !.walk = v] = Result("ok", q.pos, v, q.out)
        BY <1>5, <1>8 DEF Result
      <3> QED  BY <3>1, <3>2, <3>3
    <2>4. /\ r.res = "ok" /\ r.pos = q.pos /\ r.walk = v /\ r.out = q.out
      BY <2>3 DEF Result
    <2>5. q.walk \in WalkType /\ q.walk.owed = w.owed
      BY <1>4 DEF Follows, Standing
    <2>6. w.owed - take \in Nat
      BY <1>3
    <2>7. /\ v \in WalkType /\ v.index = q.walk.index /\ v.next_at = q.walk.next_at
          /\ v.current = q.walk.current /\ v.buf = q.walk.buf /\ v.given = q.walk.given
          /\ v.stored_left = q.walk.stored_left /\ v.stored_at = q.walk.stored_at
          /\ v.owed = w.owed - take
      BY <2>5, <2>6 DEF WalkType
    <2> HIDE DEF v
    <2>8. v.index = i /\ v.current = w.current /\ Standing(p, q.walk)
      BY <1>4, <2>7 DEF Follows
    <2>9. Standing(p, v)
      <3>1. w.owed <= PairOf(p, i)[2]
        BY <1>2, <1>3
      <3>2. w.owed - take <= PairOf(p, i)[2]
        <4> HIDE DEF i, g, a
        <4> QED  BY <1>2, <1>3, <3>1
      <3> QED  BY <2>7, <2>8, <3>2 DEF Standing, HeldUnderCap
    <2>10. Taken(p, v) = a + take
      <3>1. Taken(p, v) = PairOf(p, i)[2] - v.owed /\ a = PairOf(p, i)[2] - w.owed
        BY <2>8 DEF Taken
      <3> HIDE DEF i, g, a
      <3> QED  BY <1>2, <1>3, <2>7, <3>1
    <2>11. /\ a + take <= Len(g) /\ q.out = SubSeq(g, a + 1, a + take)
           /\ Within(p, q.out) /\ Within(p, q.walk.buf)
           /\ w.current = "Raw" => q.walk.stored_left = w.stored_left - take
           /\ w.current = "Held" => q.walk.buf = SubSeq(g, (a + take) + 1, Len(g))
           /\ w.current \in {"Zlib", "Zstd"} => q.walk.given = w.given + take
      BY <2>1, <2>2 DEF Yields
    <2>12. Opened(p, v)
      <3>1. CASE w.current = "Raw"
        <4>1. Classify(PairOf(p, i), p.reading) = "Raw"
          BY <3>1 DEF Tells, Opened
        <4> QED  BY <1>2, <2>7, <2>8, <2>11, <3>1, <4>1 DEF Opened
      <3>2. CASE w.current = "Held"
        BY <1>2, <2>7, <2>8, <2>10, <2>11, <3>2 DEF Opened
      <3>3. CASE w.current \in {"Zlib", "Zstd"}
        <4>1. Classify(PairOf(p, i), p.reading) = "Compressed" /\ ~p.contents[i].window
          BY <3>3 DEF Tells, Opened
        <4> QED  BY <1>2, <2>7, <2>8, <2>10, <2>11, <3>3, <4>1 DEF Opened
      <3> QED  BY <1>2, <3>1, <3>2, <3>3 DEF WalkType
    <2>13. AllHold(p, i - 1) /\ done = Before(p, i - 1) \o SubSeq(g, 1, a)
      BY DEF Tells
    <2>14. /\ done \o q.out = Before(p, i - 1) \o SubSeq(g, 1, a + take)
           /\ q.out \in Seq(Byte)
      <3>1. /\ (Before(p, i - 1) \o SubSeq(g, 1, a)) \o SubSeq(g, a + 1, a + take)
                  = Before(p, i - 1) \o SubSeq(g, 1, a + take)
            /\ SubSeq(g, a + 1, a + take) \in Seq(Byte)
        <4>1. /\ i \in 1 .. PairCount(p) /\ AllHold(p, i - 1) /\ a \in Nat /\ take \in Nat
              /\ a + take <= Len(Gives(p, i))
          BY <1>2, <1>3, <2>11, <2>13
        <4> HIDE DEF a, i
        <4> QED  BY <4>1, MoreGiven, ZenonT(30) DEF g
      <3> HIDE DEF g, a, i
      <3> QED  BY <2>11, <2>13, <3>1
    <2>15. Tells(p, v, done \o q.out)
      <3>1. Within(p, v.buf) /\ v.index # 0 /\ Taken(p, v) <= Len(Gives(p, v.index))
        BY <1>2, <2>7, <2>8, <2>10, <2>11
      <3> QED  BY <2>8, <2>9, <2>10, <2>12, <2>13, <2>14, <3>1 DEF Tells
    <2>16. Sound(r)
      BY <1>4, <2>3, <2>4 DEF Sound
    <2> QED  BY <2>2, <2>4, <2>7, <2>8, <2>9, <2>11, <2>14, <2>15, <2>16 DEF take
  <1> QED  BY <1>6, <1>7, <1>8

\* A pair that ends when it owes nothing more has been told.
LEMMA EndTells ==
    ASSUME SourceType, NEW p, ConformingPlan(p), NEW w, NEW done, Tells(p, w, done),
           w.owed = 0, NEW r \in RequireEnd(p, w)
    PROVE  /\ Sound(r) /\ Standing(p, r.walk) /\ r.walk.index = w.index
           /\ r.res = "ok" => Between(p, r.walk, done)
  <1> DEFINE i == w.index
             g == Gives(p, i)
             a == Taken(p, w)
  <1>1. PICK q \in FillUpto(p, w, 1) :
            r = IF q.res = "ok" /\ q.out # <<>> THEN [q EXCEPT !.res = "Malformed"] ELSE q
    BY DEF RequireEnd
  <1>2. /\ w \in WalkType /\ i \in 1 .. PairCount(p) /\ i - 1 \in 0 .. PairCount(p)
        /\ PairOf(p, i)[2] \in Nat /\ a \in Nat /\ a + w.owed = PairOf(p, i)[2]
        /\ g \in Seq(Byte) /\ w.current # "Ended"
        /\ w.current \in {"Raw", "Held"} => Holds(p, i) # None
        /\ w.current \in {"Zlib", "Zstd"} =>
              ((p.contents[i].ends \/ p.contents[i].kept) /\ Len(g) = PairOf(p, i)[2]
                    => Holds(p, i) # None)
    BY OpenedFacts
  <1>3. /\ Sound(q) /\ Follows(p, w, q.walk)
        /\ q.res = "ok" =>
              /\ Len(q.out) < 1 =>
                    /\ Len(g) = a + Len(q.out)
                    /\ w.current \in {"Zlib", "Zstd"} => p.contents[i].ends \/ p.contents[i].kept
    BY PullsYield
  <1>4. Standing(p, q.walk) /\ q.walk.index = i
    BY <1>3 DEF Follows
  <1>5. CASE q.res = "ok" /\ q.out # <<>>
    <2> DEFINE f == [q EXCEPT !.res = "Malformed"]
    <2>1. q = Result(q.res, q.pos, q.walk, q.out) /\ q.pos \in Nat
      BY <1>3 DEF Sound
    <2>2. r = f /\ f = Result("Malformed", q.pos, q.walk, q.out)
      BY <1>1, <1>5, <2>1 DEF Result
    <2>3. r.res = "Malformed" /\ r.pos = q.pos /\ r.walk = q.walk /\ r.out = q.out
      BY <2>2 DEF Result
    <2> HIDE DEF f
    <2>4. Sound(r)
      BY <2>1, <2>2, <2>3 DEF Sound
    <2> QED  BY <1>4, <2>3, <2>4
  <1>6. CASE ~ (q.res = "ok" /\ q.out # <<>>)
    <2>1. r = q
      BY <1>1, <1>6
    <2>2. ASSUME q.res = "ok" PROVE Between(p, q.walk, done)
      <3>1. Len(q.out) = 0
        BY <1>6, <2>2
      <3>2. Len(g) = a /\ a = PairOf(p, i)[2]
        <4>1. Len(g) = a + Len(q.out) /\ a + w.owed = PairOf(p, i)[2]
          BY <1>2, <1>3, <2>2, <3>1
        <4> HIDE DEF g, a, i
        <4> QED  BY <4>1, <3>1, <1>2
      <3>3. Holds(p, i) # None
        BY <1>2, <1>3, <2>2, <3>1, <3>2 DEF WalkType
      <3>4. g = Holds(p, i)
        BY <3>3 DEF Gives
      <3>5. AllHold(p, i - 1) /\ done = Before(p, i - 1) \o SubSeq(g, 1, a)
        BY DEF Tells
      <3>6. SubSeq(g, 1, a) = g
        <4> HIDE DEF g, a
        <4> QED  BY <1>2, <3>2
      <3>7. done = Before(p, i)
        BY <1>2, <3>4, <3>5, <3>6, BeforeGrows
      <3>8. AllHold(p, i)
        BY <1>2, <3>3, <3>5 DEF AllHold
      <3> QED  BY <1>4, <3>7, <3>8 DEF Between
    <2> QED  BY <1>3, <1>4, <2>1, <2>2
  <1> QED  BY <1>5, <1>6

-----------------------------------------------------------------------------
(* Opening the next pair.                                                  *)

\* What a pair that cannot be decoded is refused for: its window, or its data.
Refusal(p, i) == IF p.contents[i].window THEN "LimitExceeded" ELSE "Malformed"

\* Pair i decodes: it holds something, and not only to a stream.
PairDecodes(p, i) == Holds(p, i) # None /\ ~Unended(p, i)

\* A pair decoded whole is what it holds, and one that cannot be is refused for what it is.
LEMMA DecodedHolds ==
    ASSUME NEW p, ConformingPlan(p), NEW i \in 1 .. PairCount(p),
           NEW kind, kind = Classify(PairOf(p, i), p.reading), kind # "Raw"
    PROVE  LET pair == PairOf(p, i)
               one  == DecodePair(kind, p.contents[i], FileBytes(StartOf(p, i), pair[1]), pair[2])
           IN  /\ one.res = "ok" =>
                     /\ one.dst = Holds(p, i) /\ PairDecodes(p, i)
                     /\ \/ one.dst = FileBytes(StartOf(p, i), pair[1])
                        \/ \A k \in DOMAIN one.dst : one.dst[k][1] # "file"
               /\ one.res = (IF PairDecodes(p, i) THEN "ok" ELSE Refusal(p, i))
  <1> DEFINE pair == PairOf(p, i)
             c == p.contents[i]
             stored == FileBytes(StartOf(p, i), pair[1])
             attempt == DecompressOne(c, pair[2])
             one == DecodePair(kind, c, stored, pair[2])
  <1>1. /\ c.output \in Seq(Byte) /\ \A k \in DOMAIN c.output : c.output[k][1] # "file"
    BY DEF ConformingPlan, ConformingContent
  <1>2. pair[1] \in Nat /\ pair[2] \in Nat /\ StartOf(p, i) \in Nat
    BY PairsOf, PairsFollow
  <1>3. stored \in Seq(Byte)
    BY <1>2, FileBytesRun
  <1>4. Holds(p, i) = IF Exact(c, pair[2]) \/ Unended(p, i) THEN c.output
                      ELSE IF kind = "Probe" /\ ~c.window THEN stored ELSE None
    BY DEF Holds
  <1>10. Unended(p, i) => kind = "Compressed" /\ ~c.ends /\ ~c.window /\ c.output = <<>>
    BY DEF Unended, ConformingPlan, ConformingContent
  <1>5. /\ attempt.fault = (IF c.window THEN "Refused"
                            ELSE IF c.ends /\ Len(c.output) = pair[2] THEN "none" ELSE "Corrupt")
        /\ attempt.dst = [k \in 1 .. pair[2] |->
                            IF c.window \/ k \notin DOMAIN c.output THEN Zero ELSE c.output[k]]
    BY DEF DecompressOne
  <1>6. one = IF attempt.fault = "Refused" THEN Decoded("LimitExceeded", <<>>)
              ELSE IF attempt.fault = "none" THEN Decoded("ok", attempt.dst)
              ELSE IF kind = "Probe" THEN Decoded("ok", stored)
              ELSE Decoded("Malformed", <<>>)
    BY DEF DecodePair
  <1> HIDE DEF attempt, stored, one, pair, c
  <1>7. CASE Exact(c, pair[2])
    <2>1. ~c.window /\ c.ends /\ Len(c.output) = pair[2]
      BY <1>7 DEF Exact
    <2>2. attempt.fault = "none"
      BY <1>5, <2>1
    <2>3. attempt.dst = c.output
      BY <1>1, <1>5, <2>1
    <2>4. one.dst = c.output
      BY <1>6, <2>2, <2>3 DEF Decoded
    <2>5. Holds(p, i) = c.output /\ c.output # None /\ PairDecodes(p, i)
      BY <1>1, <1>4, <1>7, <1>10, <2>1, NoBytesAssumption DEF PairDecodes
    <2>6. one.res = "ok"
      BY <1>6, <2>2 DEF Decoded
    <2> QED  BY <1>1, <2>4, <2>5, <2>6 DEF one, pair, c, stored
  <1>8. CASE ~Exact(c, pair[2])
    <2>1. attempt.fault # "none"
      BY <1>5, <1>8 DEF Exact
    <2>2. c.window <=> attempt.fault = "Refused"
      BY <1>5
    <2>3. ASSUME one.res = "ok" PROVE kind = "Probe" /\ ~c.window /\ one.dst = stored
      BY <1>6, <2>1, <2>2, <2>3 DEF Decoded
    <2>4. ASSUME one.res = "ok"
          PROVE  Holds(p, i) = stored /\ PairDecodes(p, i) /\ one.dst = stored
      BY <1>3, <1>4, <1>8, <1>10, <2>3, <2>4, NoBytesAssumption DEF PairDecodes
    <2>5. CASE c.window
      <3>1. one.res = "LimitExceeded" /\ ~PairDecodes(p, i)
        BY <1>4, <1>6, <1>8, <2>2, <2>5 DEF Decoded, PairDecodes
      <3> QED  BY <2>5, <3>1 DEF one, pair, c, stored, Refusal
    <2>6. CASE ~c.window /\ kind = "Probe"
      <3>1. one.res = "ok" /\ PairDecodes(p, i)
        BY <1>3, <1>4, <1>6, <1>8, <1>10, <2>1, <2>2, <2>6, NoBytesAssumption
          DEF Decoded, PairDecodes
      <3> QED  BY <2>4, <3>1 DEF one, pair, c, stored
    <2>7. CASE ~c.window /\ kind # "Probe"
      <3>1. one.res = "Malformed" /\ ~PairDecodes(p, i)
        BY <1>4, <1>6, <1>8, <2>1, <2>2, <2>7 DEF Decoded, PairDecodes
      <3> QED  BY <2>7, <3>1 DEF one, pair, c, stored, Refusal
    <2> QED  BY <2>5, <2>6, <2>7
  <1> QED  BY <1>7, <1>8

\* Before any pair, nothing has been told.
LEMMA UnopenedIsBetween ==
    ASSUME NEW p, ConformingPlan(p)
    PROVE  Between(p, [Unopened EXCEPT !.next_at = p.location.position], <<>>)
  <1> DEFINE w == [Unopened EXCEPT !.next_at = p.location.position]
  <1>1. p.location.position \in Nat /\ <<>> \in Seq(Byte) /\ Limits.materialized_bytes \in Nat
    BY LimitsAssumption DEF ConformingPlan
  <1>2. w \in WalkType /\ w.index = 0 /\ w.next_at = p.location.position /\ w.buf = <<>>
        /\ w.current = "Ended"
    BY <1>1 DEF Unopened, WalkType
  <1> HIDE DEF w
  <1>3. Standing(p, w)
    <2>1. HeldUnderCap(p, w)
      BY <1>1, <1>2 DEF HeldUnderCap
    <2> QED  BY <1>1, <1>2, <2>1, PairsOf, PairsFollow DEF Standing
  <1>4. AllHold(p, 0) /\ Before(p, 0) = <<>>
    BY BeforeGrows DEF AllHold
  <1> QED  BY <1>2, <1>3, <1>4 DEF Between, w

\* Opening the pair after the last that was told leaves it open, or nothing open.
LEMMA OpenTells ==
    ASSUME SourceType, NEW p, ConformingPlan(p), NEW w, NEW done, Between(p, w, done),
           w.index < PairCount(p), NEW r \in Open(p, w)
    PROVE  /\ Sound(r) /\ Standing(p, r.walk)
           /\ r.res = "ok" => Tells(p, r.walk, done) /\ r.walk.index = w.index + 1
           /\ r.res # "ok" => \/ r.walk = w
                              \/ r.walk.current = "Ended" /\ r.walk.index = w.index + 1
           /\ p.location.position + p.location.size \in U /\ r.res # "ok"
                => r.walk.current = "Ended"
  <1> DEFINE i == w.index + 1
             pair == PairOf(p, i)
             kind == Classify(pair, p.reading)
             e == Entered(w, i, pair)
             c == p.contents[i]
             stored == FileBytes(StartOf(p, i), pair[1])
             low == p.location.position
  <1>1. /\ w \in WalkType /\ w.next_at = StartOf(p, i) /\ AllHold(p, w.index)
        /\ done = Before(p, w.index) /\ Standing(p, w)
    BY DEF Between, Standing
  <1>2. /\ w.index \in Nat /\ i \in 1 .. PairCount(p) /\ i - 1 = w.index
        /\ i - 1 \in 0 .. PairCount(p) /\ i \in Nat
    <2>1. w.index \in Nat
      BY <1>1 DEF WalkType
    <2> QED  BY <2>1, PairsOf
  <1>3. /\ pair # None /\ pair[1] \in Nat /\ pair[2] \in Nat /\ StartOf(p, i) \in Nat
        /\ StartOf(p, i + 1) = StartOf(p, i) + pair[1] /\ StartOf(p, i + 1) \in Nat
    <2>1. i + 1 \in 1 .. PairCount(p) \/ i + 1 = PairCount(p) + 1
      BY <1>2, PairsOf
    <2> QED  BY <1>2, <2>1, PairsOf, PairsFollow
  <1>4. low <= StartOf(p, i) /\ StartOf(p, i + 1) <= p.location.position + p.location.size
        /\ low \in Nat
    <2>1. 0 \in 0 .. PairCount(p) /\ w.index \in 0 .. PairCount(p) /\ i \in 0 .. PairCount(p)
          /\ PairCount(p) \in i .. PairCount(p)
      BY <1>2, PairsOf
    <2>2. StartOf(p, 0 + 1) <= StartOf(p, w.index + 1)
      BY <1>2, <2>1, SumsClimb
    <2>3. StartOf(p, i + 1) <= StartOf(p, PairCount(p) + 1)
      BY <2>1, SumsClimb
    <2> QED  BY <2>2, <2>3, PairsTile, PairsFollow DEF ConformingPlan
  <1> HIDE DEF pair, kind, e, i, c, stored
  <1>5. Limits.materialized_bytes \in Nat /\ <<>> \in Seq(Byte)
    BY LimitsAssumption
  <1>6. /\ e \in WalkType /\ e.index = i /\ e.stored_left = pair[1] /\ e.stored_at = StartOf(p, i)
        /\ e.next_at = StartOf(p, i + 1) /\ e.owed = pair[2] /\ e.current = "Ended"
        /\ e.buf = <<>> /\ e.given = 0
    BY <1>1, <1>2, <1>3, <1>5 DEF e, Entered, Boundary, WalkType
  <1>7. Standing(p, e) /\ e.index # 0
    BY <1>2, <1>3, <1>5, <1>6 DEF Standing, HeldUnderCap, pair
  <1>8. kind \in {"Compressed", "Raw", "Probe"} /\ (kind # "Compressed" => pair[1] = pair[2])
    BY KindsOfPair DEF kind
  <1>9. /\ c.output \in Seq(Byte) /\ (c.window => p.compression.codec = "zstd")
        /\ Holds(p, i) # None => Holds(p, i) \in Seq(Byte) /\ Len(Holds(p, i)) = pair[2]
        /\ Gives(p, i) \in Seq(Byte)
    BY <1>2, HoldsItsLength DEF ConformingPlan, ConformingContent, c, pair
  \* What any walk that has just opened the pair owes its reader.
  <1>10. ASSUME NEW v \in WalkType, v.index = i, v.owed = pair[2], Standing(p, v), Opened(p, v),
                Within(p, v.buf)
         PROVE  Tells(p, v, done)
    <2>1. Taken(p, v) = 0
      BY <1>3, <1>10 DEF Taken, pair
    <2>2. SubSeq(Gives(p, i), 1, 0) = <<>> /\ Len(Gives(p, i)) >= 0
      BY <1>9
    <2>3. done \in Seq(Byte) /\ done \o <<>> = done
      <3>1. w.index \in 0 .. PairCount(p)
        BY <1>2
      <3>2. done \in Seq(Byte)
        BY <1>1, <3>1, BeforeGrows
      <3> QED  BY <3>2
    <2> QED  BY <1>1, <1>2, <1>10, <2>1, <2>2, <2>3 DEF Tells
  <1>11. Within(p, <<>>)
    BY DEF Within
  <1>12. CASE CheckedAdd(w.next_at, pair[1]) = None
    <2>1. r = Result("Malformed", pos, w, <<>>)
      BY <1>12 DEF Open, i, pair
    <2>2. r.res = "Malformed" /\ r.pos = pos /\ r.walk = w /\ r.out = <<>>
      BY <2>1 DEF Result
    <2>3. Sound(r)
      BY <2>1, <2>2 DEF Sound, SourceType
    <2>4. p.location.position + p.location.size \notin U
      <3>1. StartOf(p, i) + pair[1] \notin U
        BY <1>1, <1>3, <1>12, NoneAssumption DEF CheckedAdd, Fit, U
      <3>2. p.location.position \in Nat /\ p.location.size \in Nat
        BY DEF ConformingPlan
      <3> DEFINE end == p.location.position + p.location.size
                 s == StartOf(p, i) + pair[1]
      <3>3. s \in Nat /\ s <= end /\ end \in Nat
        BY <1>3, <1>4, <3>2
      <3>4. s \notin U
        BY <3>1
      <3> HIDE DEF s, end
      <3>5. end \notin U
        BY <3>3, <3>4, MaxUAssumption DEF U
      <3> QED  BY <3>5 DEF end
    <2> QED  BY <1>1, <2>2, <2>3, <2>4
  <1>13. CASE CheckedAdd(w.next_at, pair[1]) # None
    <2>1. r \in OpenStream(p, e, kind)
      BY <1>3, <1>13 DEF Open, i, pair, kind, e
    \* It is enough that a failure leaves nothing open.
    <2>2. ASSUME Sound(r), Standing(p, r.walk), r.walk.index = i,
                 r.res = "ok" => r.walk.owed = pair[2] /\ Opened(p, r.walk) /\ Within(p, r.walk.buf),
                 r.res # "ok" => r.walk.current = "Ended"
          PROVE  /\ Sound(r) /\ Standing(p, r.walk)
                 /\ r.res = "ok" => Tells(p, r.walk, done) /\ r.walk.index = w.index + 1
                 /\ r.res # "ok" => r.walk.current = "Ended" /\ r.walk.index = w.index + 1
      <3>1. r.walk \in WalkType
        BY <2>2 DEF Standing
      <3> QED  BY <1>10, <2>2, <3>1 DEF i
    <2>3. CASE kind = "Raw"
      <3> DEFINE v == [e EXCEPT !.current = "Raw"]
      <3>1. r = Result("ok", pos, v, <<>>)
        BY <2>1, <2>3 DEF OpenStream
      <3>2. r.res = "ok" /\ r.pos = pos /\ r.walk = v /\ r.out = <<>>
        BY <3>1 DEF Result
      <3>3. Sound(r)
        BY <3>1, <3>2 DEF Sound, SourceType
      <3>4. /\ v \in WalkType /\ v.index = i /\ v.stored_left = pair[1] /\ v.stored_at = e.stored_at
            /\ v.next_at = e.next_at /\ v.owed = pair[2] /\ v.current = "Raw" /\ v.buf = <<>>
        BY <1>6 DEF WalkType
      <3> HIDE DEF v
      <3>5. Standing(p, v)
        BY <1>6, <1>7, <3>4 DEF Standing, HeldUnderCap
      <3>6. Opened(p, v)
        BY <1>8, <2>3, <3>4 DEF Opened, kind, pair
      <3> QED  BY <1>11, <2>2, <3>2, <3>3, <3>4, <3>5, <3>6
    <2>4. CASE kind = "Compressed" /\ p.compression.codec \in {"zlib", "zstd"}
      <3>1. r \in OpenFramed(p, e, i)
        BY <1>6, <2>1, <2>4 DEF OpenStream
      \* A framed stream over a walk v that may have drawn its frame header.
      <3>2. ASSUME NEW v, Standing(p, v), v.index = i, v.owed = pair[2], v.given = 0,
                   v.buf = <<>>, ~c.window,
                   NEW current \in {"Zlib", "Zstd"}, r = Result("ok", r.pos, [v EXCEPT !.current = current], <<>>),
                   r.pos \in Nat
            PROVE  /\ Sound(r) /\ Standing(p, r.walk) /\ r.walk.index = i /\ r.res = "ok"
                   /\ r.walk.owed = pair[2] /\ Opened(p, r.walk) /\ Within(p, r.walk.buf)
        <4> DEFINE f == [v EXCEPT !.current = current]
        <4>1. r.res = "ok" /\ r.walk = f /\ r.out = <<>>
          BY <3>2 DEF Result
        <4>2. v \in WalkType
          BY <3>2 DEF Standing
        <4>3. /\ f \in WalkType /\ f.index = i /\ f.stored_left = v.stored_left
              /\ f.stored_at = v.stored_at /\ f.next_at = v.next_at /\ f.owed = pair[2]
              /\ f.current = current /\ f.buf = <<>> /\ f.given = 0
          BY <3>2, <4>2 DEF WalkType
        <4> HIDE DEF f
        <4>4. Standing(p, f)
          BY <3>2, <4>3 DEF Standing, HeldUnderCap
        <4>5. Taken(p, f) = 0
          BY <1>3, <4>3 DEF Taken, pair
        <4>6. Opened(p, f)
          BY <2>4, <3>2, <4>3, <4>5 DEF Opened, kind, pair, c
        <4>7. Sound(r)
          BY <3>2, <4>1 DEF Sound, f
        <4> QED  BY <1>11, <4>1, <4>3, <4>4, <4>6, <4>7
      <3>3. CASE p.compression.codec = "zlib"
        <4>1. r = Result("ok", pos, [e EXCEPT !.current = "Zlib"], <<>>)
          BY <3>1, <3>3 DEF OpenFramed
        <4>2. r.pos = pos
          BY <4>1 DEF Result
        <4>3. ~c.window /\ pos \in Nat
          BY <1>9, <3>3 DEF SourceType
        <4> QED  BY <1>6, <1>7, <2>2, <3>2, <4>1, <4>2, <4>3
      <3>4. CASE p.compression.codec # "zlib"
        <4> DEFINE Header(q) ==
              IF q.res # "ok" THEN {q}
              ELSE IF c.window THEN {Result("LimitExceeded", q.pos, q.walk, <<>>)}
              ELSE {Result("ok", q.pos, [q.walk EXCEPT !.current = "Zstd"], <<>>)}
                   \cup (IF c.output = <<>> /\ ~c.ends /\ ~c.kept
                         THEN {Result("Malformed", q.pos, q.walk, <<>>)} ELSE {})
        <4>1. r \in UNION {Header(q) : q \in UNION {ReadStored(e, n) : n \in 0 .. e.stored_left}}
          <5>1. p.compression.codec = "zstd"
            BY <2>4, <3>4
          <5>2. [e EXCEPT !.current = IF p.compression.codec = "zlib" THEN "Zlib" ELSE "Zstd"].current
                    = "Zstd"
            BY <1>6, <5>1 DEF WalkType
          <5> QED  BY <3>1, <3>4, <5>2, Zenon DEF OpenFramed, c
        <4>2. PICK n \in 0 .. e.stored_left : \E q \in ReadStored(e, n) : r \in Header(q)
          BY <4>1
        <4>3. PICK q \in ReadStored(e, n) : r \in Header(q)
          BY <4>2
        <4>4. /\ Sound(q)
              /\ q.res # "ok" => q.walk = e
              /\ q.res = "ok" => q.walk = Drawn(e, n)
          BY <1>6, StoredBytes
        <4>5. /\ Follows(p, e, Drawn(e, n)) /\ Drawn(e, n).buf = <<>> /\ Drawn(e, n).given = 0
          BY <1>6, <1>7, DrawnStands
        <4>6. CASE q.res # "ok"
          BY <1>6, <1>7, <2>2, <4>3, <4>4, <4>6
        <4>7. CASE q.res = "ok"
          <5>1. /\ q.walk.index = i /\ q.walk.owed = pair[2] /\ q.walk.current = "Ended"
                /\ q.walk.buf = <<>> /\ q.walk.given = 0 /\ Standing(p, q.walk) /\ q.pos \in Nat
            BY <1>6, <4>4, <4>5, <4>7 DEF Follows, Sound
          <5>2. CASE ~c.window /\ r = Result("ok", q.pos, [q.walk EXCEPT !.current = "Zstd"], <<>>)
            <6>1. r.pos = q.pos
              BY <5>2 DEF Result
            <6> QED  BY <2>2, <3>2, <5>1, <5>2, <6>1
          <5>3. ASSUME NEW res \in {"LimitExceeded", "Malformed"}, r = Result(res, q.pos, q.walk, <<>>)
                PROVE  Sound(r) /\ r.walk = q.walk /\ r.res # "ok"
            <6>1. r.res = res /\ r.pos = q.pos /\ r.walk = q.walk /\ r.out = <<>>
              BY <5>3 DEF Result
            <6> QED  BY <5>1, <5>3, <6>1 DEF Sound
          <5>4. \/ ~c.window /\ r = Result("ok", q.pos, [q.walk EXCEPT !.current = "Zstd"], <<>>)
                \/ r = Result("LimitExceeded", q.pos, q.walk, <<>>)
                \/ r = Result("Malformed", q.pos, q.walk, <<>>)
            BY <4>3, <4>7
          <5> QED  BY <2>2, <5>1, <5>2, <5>3, <5>4
        <4> QED  BY <4>6, <4>7
      <3> QED  BY <3>3, <3>4
    <2>5. CASE kind # "Raw" /\ ~ (kind = "Compressed" /\ p.compression.codec \in {"zlib", "zstd"})
      <3>1. r \in OpenHeld(p, e, i, kind)
        BY <1>6, <2>1, <2>5 DEF OpenStream
      <3>2. CASE pair[1] > Limits.materialized_bytes \/ pair[2] > Limits.materialized_bytes
        <4>1. r = Result("LimitExceeded", pos, e, <<>>)
          BY <1>6, <3>1, <3>2 DEF OpenHeld
        <4>2. r.res = "LimitExceeded" /\ r.pos = pos /\ r.walk = e /\ r.out = <<>>
          BY <4>1 DEF Result
        <4>3. Sound(r)
          BY <4>1, <4>2 DEF Sound, SourceType
        <4> QED  BY <1>6, <1>7, <2>2, <4>2, <4>3
      <3>3. CASE ~ (pair[1] > Limits.materialized_bytes \/ pair[2] > Limits.materialized_bytes)
        <4> DEFINE one(q) == DecodePair(kind, p.contents[i], q.out, e.owed)
                   Decode(q) ==
                     IF q.res # "ok" THEN q
                     ELSE Result(one(q).res, q.pos,
                                 IF one(q).res # "ok" THEN q.walk
                                 ELSE [q.walk EXCEPT !.current = "Held", !.buf = one(q).dst], <<>>)
        <4>1. r \in {Decode(q) : q \in ReadStored(e, e.stored_left)}
          <5>1. ~ (\/ e.stored_left > Limits.materialized_bytes
                   \/ e.owed > Limits.materialized_bytes)
            BY <1>6, <3>3
          <5> QED  BY <3>1, <5>1, Zenon DEF OpenHeld
        <4>2. PICK q \in ReadStored(e, pair[1]) : r = Decode(q)
          BY <1>6, <4>1
        <4>3. pair[1] \in 0 .. e.stored_left
          BY <1>3, <1>6
        <4>4. /\ Sound(q)
              /\ q.res # "ok" => q.walk = e
              /\ q.res = "ok" => /\ q.walk = Drawn(e, pair[1]) /\ q.out = stored
                                 /\ pair[1] # 0 => StartOf(p, i) + pair[1] <= length
          BY <1>6, <4>3, StoredBytes DEF stored
        <4>5. CASE q.res # "ok"
          BY <1>6, <1>7, <2>2, <4>2, <4>4, <4>5
        <4>6. CASE q.res = "ok"
          <5> DEFINE d == DecodePair(kind, c, stored, pair[2])
                     v == [q.walk EXCEPT !.current = "Held", !.buf = d.dst]
          <5>1. /\ Follows(p, e, q.walk) /\ q.walk.buf = <<>> /\ q.walk.given = 0
            BY <1>6, <1>7, <4>3, <4>4, <4>6, DrawnStands
          <5>2. /\ q.walk \in WalkType /\ q.walk.index = i /\ q.walk.owed = pair[2]
                /\ q.walk.current = "Ended" /\ Standing(p, q.walk) /\ q.pos \in Nat
            BY <1>6, <4>4, <5>1 DEF Follows, Sound, Standing
          <5>3. r = Result(d.res, q.pos, IF d.res # "ok" THEN q.walk ELSE v, <<>>)
            BY <1>6, <4>2, <4>4, <4>6 DEF c
          <5>4. d.res \in {"ok", "LimitExceeded", "Malformed"}
            BY DEF DecodePair, Decoded
          <5> HIDE DEF d
          <5>5. /\ r.res = d.res /\ r.pos = q.pos /\ r.out = <<>>
                /\ r.walk = (IF d.res # "ok" THEN q.walk ELSE v)
            BY <5>3 DEF Result
          <5>6. Sound(r)
            BY <5>2, <5>3, <5>4, <5>5 DEF Sound
          <5>7. CASE d.res # "ok"
            BY <2>2, <5>2, <5>5, <5>6, <5>7
          <5>8. CASE d.res = "ok"
            <6>1. /\ d.dst = Holds(p, i) /\ Holds(p, i) # None
                  /\ \/ d.dst = stored \/ \A k \in DOMAIN d.dst : d.dst[k][1] # "file"
              BY <1>2, <2>5, <5>8, DecodedHolds DEF d, kind, pair, c, stored, PairDecodes
            <6>2. d.dst \in Seq(Byte) /\ Len(d.dst) = pair[2]
              BY <1>9, <6>1
            <6>3. /\ v \in WalkType /\ v.index = i /\ v.owed = pair[2] /\ v.current = "Held"
                  /\ v.buf = d.dst /\ v.stored_left = q.walk.stored_left
                  /\ v.stored_at = q.walk.stored_at /\ v.next_at = q.walk.next_at
              BY <5>2, <6>2 DEF WalkType
            <6>4. r.walk = v
              BY <5>5, <5>8
            <6> HIDE DEF v
            <6>5. Standing(p, v)
              <7>1. pair[1] <= Limits.materialized_bytes /\ pair[2] <= Limits.materialized_bytes
                BY <1>3, <1>5, <3>3
              <7>2. HeldUnderCap(p, v)
                BY <6>2, <6>3, <7>1 DEF HeldUnderCap, pair
              <7> QED  BY <5>2, <6>3, <7>2 DEF Standing
            <6>6. Taken(p, v) = 0
              BY <1>3, <6>3 DEF Taken, pair
            <6>7. Opened(p, v)
              <7>1. SubSeq(d.dst, 0 + 1, pair[2]) = d.dst
                BY <6>2
              <7> QED  BY <6>1, <6>3, <6>6, <7>1 DEF Opened, pair
            <6>8. Within(p, d.dst)
              <7>1. CASE d.dst = stored
                <8>1. /\ DOMAIN stored = 1 .. pair[1]
                      /\ \A k \in 1 .. pair[1] : stored[k] = <<"file", StartOf(p, i) + k - 1>>
                  BY DEF stored, FileBytes
                <8>2. \A k \in 1 .. pair[1] : StartOf(p, i) + k - 1 \in low .. length - 1
                  BY <1>3, <1>4, <4>4, <4>6 DEF SourceType
                <8> QED  BY <7>1, <8>1, <8>2 DEF Within
              <7>2. CASE \A k \in DOMAIN d.dst : d.dst[k][1] # "file"
                BY <7>2 DEF Within
              <7> QED  BY <6>1, <7>1, <7>2
            <6> QED  BY <2>2, <5>5, <5>6, <5>8, <6>3, <6>4, <6>5, <6>7, <6>8
          <5> QED  BY <5>7, <5>8
        <4> QED  BY <4>5, <4>6
      <3> QED  BY <3>2, <3>3
    <2> QED  BY <2>3, <2>4, <2>5
  <1> QED  BY <1>12, <1>13

-----------------------------------------------------------------------------
(* What has been told, in bytes.                                           *)

\* Between two pairs the stream has told all that the pairs so far declare.
LEMMA ToldBetween ==
    ASSUME NEW p, ConformingPlan(p), NEW w, NEW done, Between(p, w, done)
    PROVE  /\ w.index \in 0 .. PairCount(p) /\ done \in Seq(Byte)
           /\ Len(done) = Owes(p, w.index) /\ Owes(p, w.index) \in 0 .. p.implied_bytes
           /\ w.index = PairCount(p) => Owes(p, w.index) = p.implied_bytes
           /\ IsPrefix(done, Stated(p))
  <1>1. /\ w \in WalkType /\ w.index <= PairCount(p) /\ AllHold(p, w.index)
        /\ done = Before(p, w.index)
    BY DEF Between, Standing
  <1>2. w.index \in 0 .. PairCount(p) /\ PairCount(p) \in w.index .. PairCount(p)
    <2>1. w.index \in Nat
      BY <1>1 DEF WalkType
    <2> QED  BY <1>1, <2>1, PairsOf
  <1>3. Owes(p, w.index) \in 0 .. p.implied_bytes
    <2>1. Owes(p, w.index) <= Owes(p, PairCount(p)) /\ Owes(p, w.index) \in Nat
      BY <1>2, SumsClimb, OwesGrows
    <2> QED  BY <2>1, PairsTile DEF ConformingPlan
  <1> QED  BY <1>1, <1>2, <1>3, BeforeGrows, BeforeOwes, StatedBegins, PairsTile

\* Inside a pair the stream has told all but what the pair still owes.
LEMMA ToldSoFar ==
    ASSUME SourceType, NEW p, ConformingPlan(p), NEW w, NEW done, Tells(p, w, done)
    PROVE  /\ w.index \in 1 .. PairCount(p) /\ w.owed \in Nat /\ done \in Seq(Byte)
           /\ Len(done) + w.owed = Owes(p, w.index) /\ Owes(p, w.index) \in 0 .. p.implied_bytes
           /\ w.index = PairCount(p) => Owes(p, w.index) = p.implied_bytes
           /\ IsPrefix(done, Stated(p))
  <1> DEFINE i == w.index
             g == Gives(p, i)
             a == Taken(p, w)
             b == Before(p, i - 1)
  <1>1. /\ w \in WalkType /\ i \in 1 .. PairCount(p) /\ i - 1 \in 0 .. PairCount(p)
        /\ PairOf(p, i)[2] \in Nat /\ a \in Nat /\ a + w.owed = PairOf(p, i)[2] /\ a <= Len(g)
        /\ g \in Seq(Byte)
    BY OpenedFacts
  <1>2. AllHold(p, i - 1) /\ done = b \o SubSeq(g, 1, a)
    BY DEF Tells
  <1>3. b \in Seq(Byte) /\ Len(b) = Owes(p, i - 1) /\ Owes(p, i) = Owes(p, i - 1) + PairOf(p, i)[2]
    BY <1>1, <1>2, BeforeGrows, BeforeOwes, OwesGrows
  <1>4. i \in 0 .. PairCount(p) /\ PairCount(p) \in i .. PairCount(p) /\ w.owed \in Nat
    BY <1>1, PairsOf DEF WalkType
  <1>5. Owes(p, i) \in 0 .. p.implied_bytes /\ (i = PairCount(p) => Owes(p, i) = p.implied_bytes)
    <2>1. Owes(p, i) <= Owes(p, PairCount(p)) /\ Owes(p, i) \in Nat
      BY <1>4, SumsClimb, OwesGrows
    <2> QED  BY <2>1, PairsTile DEF ConformingPlan
  <1>6. IsPrefix(done, Stated(p))
    <2>1. /\ i - 1 < PairCount(p) /\ (i - 1) + 1 = i /\ a \in 0 .. Len(g)
      BY <1>1, PairsOf
    <2> QED  BY <1>1, <1>2, <2>1, StatedBegins
  <1>7. done \in Seq(Byte) /\ Len(done) = Len(b) + a
    <2> DEFINE x == SubSeq(g, 1, a)
    <2> HIDE DEF b, g, a, i
    <2>1. x \in Seq(Byte) /\ Len(x) = a
      BY <1>1
    <2>2. b \in Seq(Byte) /\ done = b \o x
      BY <1>2, <1>3
    <2> HIDE DEF x
    <2> QED  BY <1>1, <2>1, <2>2
  <1>8. Len(done) + w.owed = Owes(p, i)
    <2>1. Owes(p, i - 1) \in Nat
      BY <1>1, OwesGrows
    <2> HIDE DEF b, g, a, i
    <2> QED  BY <1>1, <1>3, <1>4, <1>7, <2>1
  <1> QED  BY <1>1, <1>4, <1>5, <1>6, <1>7, <1>8

-----------------------------------------------------------------------------
(* The same block, decompressed whole.                                     *)

\* Pair i is the first that holds nothing.
FirstBad(p, i) == i \in 1 .. PairCount(p) /\ AllHold(p, i - 1) /\ Holds(p, i) = None

\* The first n pairs decode, and pair i is the first that does not.
AllDecode(p, n) == \A i \in 1 .. n : PairDecodes(p, i)
FirstRefused(p, i) == i \in 1 .. PairCount(p) /\ AllDecode(p, i - 1) /\ ~PairDecodes(p, i)

\* Pairs that decode hold something.
LEMMA DecodingHolds ==
    ASSUME NEW p, NEW n, AllDecode(p, n)
    PROVE  AllHold(p, n)
  BY DEF AllDecode, AllHold, PairDecodes

\* The fold of decompress, with what it says of the pairs it went through: what they hold, as
\* long as each decodes, and what the first that does not is refused for.
DecodeStep(c, sofar, i) == IF sofar.res = "ok" THEN DecodeNext(c[1], c[2], sofar, i) ELSE sofar
SaysClaim(c, k, s) ==
    /\ AllDecode(c[1], k) =>
          /\ s.res = "ok" /\ s.dst = Before(c[1], k)
          /\ s.at \in Nat /\ c[1].location.position + s.at = StartOf(c[1], k + 1)
    /\ \A j \in 1 .. k : FirstRefused(c[1], j) => s.res = Refusal(c[1], j)
Saying == INSTANCE Folding WITH Step <- DecodeStep, Claim <- SaysClaim

\* A pair after pairs that all decode is within the block, stored and decoded.
LEMMA NextIsDecoded ==
    ASSUME NEW p, ConformingPlan(p), NEW i \in 1 .. PairCount(p), AllDecode(p, i - 1),
           NEW s, s.res = "ok", s.dst = Before(p, i - 1),
           s.at \in Nat, p.location.position + s.at = StartOf(p, i)
    PROVE  LET stored == FileBytes(p.location.position, p.location.size)
               t      == DecodeStep(<<p, stored>>, s, i)
           IN  /\ ~PairDecodes(p, i) => t.res = Refusal(p, i)
               /\ PairDecodes(p, i) =>
                     /\ t.res = "ok" /\ t.dst = Before(p, i)
                     /\ t.at \in Nat /\ p.location.position + t.at = StartOf(p, i + 1)
  <1> DEFINE from == p.location.position
             size == p.location.size
             stored == FileBytes(from, size)
             c == <<p, stored>>
             pair == PairOf(p, i)
             kind == Classify(pair, p.reading)
             piece == SubSeq(stored, s.at + 1, s.at + pair[1])
             one == DecodePair(kind, p.contents[i], piece, pair[2])
             t == DecodeStep(c, s, i)
  <1>0. AllHold(p, i - 1)
    BY DecodingHolds
  <1>1. /\ pair[1] \in Nat /\ pair[2] \in Nat /\ i - 1 \in 0 .. PairCount(p) /\ i \in Nat
        /\ StartOf(p, i) \in Nat /\ StartOf(p, i + 1) = StartOf(p, i) + pair[1]
        /\ Before(p, i) = Before(p, i - 1) \o Holds(p, i)
        /\ from \in Nat /\ size \in Nat
    <2>1. from \in Nat /\ size \in Nat
      BY DEF ConformingPlan
    <2>2. pair[1] \in Nat /\ pair[2] \in Nat /\ i - 1 \in 0 .. PairCount(p) /\ i \in Nat
      BY PairsOf
    <2>3. StartOf(p, i) \in Nat /\ StartOf(p, i + 1) = StartOf(p, i) + pair[1]
      BY PairsFollow
    <2>4. Before(p, i) = Before(p, i - 1) \o Holds(p, i)
      BY <1>0, BeforeGrows
    <2> QED  BY <2>1, <2>2, <2>3, <2>4
  <1>2. /\ stored \in Seq(Byte) /\ Len(stored) = size
        /\ \A a \in 0 .. size, m \in Nat :
              a + m <= size => SubSeq(stored, a + 1, a + m) = FileBytes(from + a, m)
    BY <1>1, FileBytesRun
  <1>3. c[1] = p /\ c[2] = stored
    OBVIOUS
  <1>4. s.at + pair[1] <= size /\ Len(s.dst) + pair[2] <= p.implied_bytes
    <2>1. i \in 0 .. PairCount(p) /\ PairCount(p) \in i .. PairCount(p)
      BY PairsOf
    <2>2. Owes(p, i) <= p.implied_bytes /\ StartOf(p, i + 1) <= from + size
      BY <2>1, SumsClimb, PairsTile
    <2>3. /\ Len(s.dst) = Owes(p, i - 1) /\ Owes(p, i) = Owes(p, i - 1) + pair[2]
      BY <1>0, <1>1, BeforeOwes, OwesGrows
    <2> DEFINE a == s.at
               m == pair[1]
               there == StartOf(p, i)
    <2>4. a \in Nat /\ m \in Nat /\ from + a = there /\ there + m <= from + size
      BY <1>1, <2>2
    <2> HIDE DEF a, m, there, from, size
    <2>5. a + m <= size
      BY <1>1, <2>4
    <2> QED  BY <2>2, <2>3, <2>5 DEF a, m
  <1>5. piece = FileBytes(StartOf(p, i), pair[1])
    <2> DEFINE a == s.at
               m == pair[1]
    <2> HIDE DEF from, size, stored
    <2>1. a \in Nat /\ m \in Nat /\ size \in Nat /\ a + m <= size
      BY <1>1, <1>4
    <2> HIDE DEF a, m
    <2>2. a \in 0 .. size
      BY <2>1
    <2>3. SubSeq(stored, a + 1, a + m) = FileBytes(from + a, m)
      BY <1>2, <2>1, <2>2
    <2> QED  BY <2>3 DEF a, m, from
  <1>6. /\ one.res = (IF PairDecodes(p, i) THEN "ok" ELSE Refusal(p, i))
        /\ PairDecodes(p, i) => one.dst = Holds(p, i)
    <2>1. CASE kind = "Raw"
      <3>1. one.dst = piece /\ one.res = "ok"
        <4>1. one = Decoded("ok", piece)
          BY <2>1, Zenon DEF DecodePair
        <4> HIDE DEF one, piece
        <4> QED  BY <4>1 DEF Decoded
      <3>2. Holds(p, i) = FileBytes(StartOf(p, i), pair[1])
        BY <2>1 DEF Holds, kind, pair
      <3>3. FileBytes(StartOf(p, i), pair[1]) \in Seq(Byte)
        BY <1>1, FileBytesRun
      <3>4. PairDecodes(p, i)
        BY <2>1, <3>2, <3>3, NoBytesAssumption DEF PairDecodes, Unended, kind, pair
      <3> QED  BY <1>5, <3>1, <3>2, <3>4
    <2>2. CASE kind # "Raw"
      <3> DEFINE d == DecodePair(kind, p.contents[i], FileBytes(StartOf(p, i), PairOf(p, i)[1]),
                                 PairOf(p, i)[2])
      <3>1. one = d
        BY <1>5, Zenon
      <3>2. /\ d.res = "ok" => d.dst = Holds(p, i)
            /\ d.res = (IF PairDecodes(p, i) THEN "ok" ELSE Refusal(p, i))
        <4>1. kind = Classify(PairOf(p, i), p.reading)
          OBVIOUS
        <4> HIDE DEF kind
        <4> QED  BY <2>2, <4>1, DecodedHolds
      <3> HIDE DEF one, d
      <3> QED  BY <3>1, <3>2
    <2> QED  BY <2>1, <2>2
  <1>7. t = [res |-> one.res, at |-> s.at + pair[1], dst |-> s.dst \o one.dst]
    <2>1. ~ (s.at + pair[1] > Len(stored) \/ Len(s.dst) + pair[2] > p.implied_bytes)
      <3> DEFINE x == s.at + pair[1]
                 y == Len(s.dst) + pair[2]
      <3>1. x \in Nat /\ x <= Len(stored) /\ Len(stored) \in Nat /\ y <= p.implied_bytes
        <4>1. s.at \in Nat /\ pair[1] \in Nat /\ s.at + pair[1] <= size /\ Len(stored) = size
              /\ size \in Nat /\ Len(s.dst) + pair[2] <= p.implied_bytes
          BY <1>1, <1>2, <1>4
        <4> HIDE DEF pair, size, stored
        <4> QED  BY <4>1
      <3>2. y \in Nat /\ p.implied_bytes \in Nat
        <4>1. Before(p, i - 1) \in Seq(Byte)
          BY <1>0, <1>1, BeforeGrows
        <4> QED  BY <1>1, <4>1 DEF ConformingPlan
      <3> HIDE DEF x, y, stored
      <3>3. ~ (x > Len(stored) \/ y > p.implied_bytes)
        BY <3>1, <3>2
      <3> QED  BY <3>3 DEF x, y
    <2>2. DecodeStep(c, s, i) = DecodeNext(c[1], c[2], s, i)
      BY DEF DecodeStep
    <2> QED  BY <1>3, <2>1, <2>2 DEF DecodeNext
  <1> HIDE DEF piece, one, kind, stored, c, t
  <1>8. t.res = one.res /\ t.at = s.at + pair[1] /\ t.dst = s.dst \o one.dst
    BY <1>7
  <1>9. t.at \in Nat /\ from + t.at = StartOf(p, i + 1)
    <2> DEFINE a == s.at
               m == pair[1]
               there == StartOf(p, i)
    <2>1. /\ a \in Nat /\ m \in Nat /\ from \in Nat /\ from + a = there
          /\ StartOf(p, i + 1) = there + m /\ t.at = a + m
      BY <1>1, <1>8
    <2> HIDE DEF a, m, there, from
    <2> QED  BY <2>1
  <1>10. PairDecodes(p, i) => t.dst = Before(p, i)
    BY <1>1, <1>6, <1>8
  <1> QED  BY <1>6, <1>8, <1>9, <1>10 DEF t, c, stored

\* What the fold claims of a plan and its stored bytes is a claim of the plan.
LEMMA ClaimOfPlan ==
    ASSUME NEW p, NEW c, c[1] = p, NEW k, NEW s,
           AllDecode(p, k) => /\ s.res = "ok" /\ s.dst = Before(p, k)
                            /\ s.at \in Nat /\ p.location.position + s.at = StartOf(p, k + 1),
           \A j \in 1 .. k : FirstRefused(p, j) => s.res = Refusal(p, j)
    PROVE  SaysClaim(c, k, s)
  <1>1. ASSUME NEW j \in 1 .. k, FirstRefused(c[1], j) PROVE s.res = Refusal(c[1], j)
    BY <1>1
  <1>2. ASSUME AllDecode(c[1], k)
        PROVE  /\ s.res = "ok" /\ s.dst = Before(c[1], k)
               /\ s.at \in Nat /\ c[1].location.position + s.at = StartOf(c[1], k + 1)
    BY <1>2
  <1> QED  BY <1>1, <1>2, Zenon DEF SaysClaim

\* One more pair decoded is what it holds, at the end of what the pairs before it hold; after
\* one that was refused, nothing is.
LEMMA SayingGoesOn ==
    ASSUME NEW p, ConformingPlan(p), NEW i \in 1 .. PairCount(p), NEW s,
           SaysClaim(<<p, FileBytes(p.location.position, p.location.size)>>, i - 1, s)
    PROVE  LET c == <<p, FileBytes(p.location.position, p.location.size)>> IN
           SaysClaim(c, i, DecodeStep(c, s, i))
  <1> DEFINE stored == FileBytes(p.location.position, p.location.size)
             c == <<p, stored>>
             t == DecodeStep(c, s, i)
  <1>1. c[1] = p /\ c[2] = stored
    OBVIOUS
  <1>2. i \in Nat /\ (i - 1) + 1 = i
    BY PairsOf
  <1> HIDE DEF c, stored
  <1>3. /\ AllDecode(p, i - 1) => /\ s.res = "ok" /\ s.dst = Before(p, i - 1)
                                /\ s.at \in Nat /\ p.location.position + s.at = StartOf(p, i)
        /\ \A j \in 1 .. i - 1 : FirstRefused(p, j) => s.res = Refusal(p, j)
    BY <1>1, <1>2 DEF SaysClaim, c, stored
  <1>4. CASE AllDecode(p, i - 1)
    <2>1. /\ ~PairDecodes(p, i) => t.res = Refusal(p, i)
          /\ PairDecodes(p, i) =>
                /\ t.res = "ok" /\ t.dst = Before(p, i)
                /\ t.at \in Nat /\ p.location.position + t.at = StartOf(p, i + 1)
      BY <1>3, <1>4, NextIsDecoded DEF c, stored
    <2> HIDE DEF t
    <2>2. AllDecode(p, i) => PairDecodes(p, i)
      BY <1>2 DEF AllDecode
    <2>3. \A j \in 1 .. i : FirstRefused(p, j) => j = i /\ ~PairDecodes(p, i)
      <3> SUFFICES ASSUME NEW j \in 1 .. i, FirstRefused(p, j) PROVE j = i /\ ~PairDecodes(p, i)
        OBVIOUS
      <3>1. ~PairDecodes(p, j)
        BY DEF FirstRefused
      <3>2. j \notin 1 .. i - 1
        BY <1>4, <3>1 DEF AllDecode
      <3>3. j = i
        BY <1>2, <3>2
      <3> QED  BY <3>1, <3>3
    <2>4. /\ AllDecode(p, i) =>
                /\ t.res = "ok" /\ t.dst = Before(p, i)
                /\ t.at \in Nat /\ p.location.position + t.at = StartOf(p, i + 1)
          /\ \A j \in 1 .. i : FirstRefused(p, j) => t.res = Refusal(p, j)
      BY <2>1, <2>2, <2>3
    <2>5. SaysClaim(c, i, t)
      BY <1>1, <2>4, ClaimOfPlan
    <2> QED  BY <2>5 DEF t, c, stored
  <1>5. CASE ~AllDecode(p, i - 1)
    <2>1. ~AllDecode(p, i)
      BY <1>2, <1>5 DEF AllDecode
    <2>2. ASSUME NEW j \in 1 .. i, FirstRefused(p, j) PROVE t.res = Refusal(p, j)
      <3>1. j # i
        BY <1>5, <2>2 DEF FirstRefused
      <3>2. j \in 1 .. i - 1
        BY <1>2, <3>1
      <3>3. s.res = Refusal(p, j)
        BY <1>3, <2>2, <3>2
      <3>4. s.res # "ok"
        BY <3>3 DEF Refusal
      <3> QED  BY <3>3, <3>4 DEF DecodeStep
    <2> HIDE DEF t
    <2>3. SaysClaim(c, i, t)
      BY <1>1, <2>1, <2>2, ClaimOfPlan
    <2> QED  BY <2>3 DEF t, c, stored
  <1> QED  BY <1>4, <1>5 DEF c, stored

\* A block decompressed whole is what its pairs hold one after another, or what the first that
\* does not decode is refused for: the bytes, and the verdict, of a walk over the same pairs.
LEMMA DecompressedIsStated ==
    ASSUME NEW p, ConformingPlan(p)
    PROVE  /\ AllDecode(p, PairCount(p)) =>
                 Materialized(p).res = "ok" /\ Materialized(p).dst = Before(p, PairCount(p))
           /\ \A i : FirstRefused(p, i) => Materialized(p).res = Refusal(p, i)
           /\ Materialized(p).res = "ok" =>
                 /\ Materialized(p).dst = Stated(p)
                 /\ AllDecode(p, PairCount(p)) /\ AllHold(p, PairCount(p))
  <1> DEFINE stored == FileBytes(p.location.position, p.location.size)
             c == <<p, stored>>
             n == PairCount(p)
             numbers == [i \in 1 .. n |-> i]
             none == [res |-> "ok", at |-> 0, dst |-> <<>>]
             made == Materialized(p)
  <1>1. n \in Nat /\ Before(p, 0) = <<>> /\ StartOf(p, 1) = p.location.position
        /\ p.location.position \in Nat
    BY PairsOf, BeforeGrows, PairsFollow DEF ConformingPlan
  <1>2. c[1] = p /\ c[2] = stored
    OBVIOUS
  <1>3. SaysClaim(c, 0, none)
    <2> HIDE DEF c
    <2>1. 0 + 1 = 1 /\ 1 .. 0 = {} /\ p.location.position + 0 = p.location.position
      BY <1>1
    <2> QED  BY <1>1, <1>2, <2>1 DEF SaysClaim
  <1>4. \A i \in 1 .. n : \A s : SaysClaim(c, i - 1, s) => SaysClaim(c, i, DecodeStep(c, s, numbers[i]))
    BY SayingGoesOn
  <1>5. DOMAIN numbers = 1 .. n
    OBVIOUS
  <1>6. made = Saying!Fold(c, none, numbers)
    <2>1. made = Decompress(p, stored)
      BY DEF Materialized
    <2> HIDE DEF c, stored, made
    <2>2. Decompress(c[1], c[2]) = Saying!Fold(c, none, [i \in 1 .. PairCount(c[1]) |-> i])
      BY Zenon DEF Decompress, DecodeStep, FoldLeft, MapThenFoldSet, Max,
                Saying!Fold, Saying!Iterates, Saying!Largest
    <2> QED  BY <1>2, <2>1, <2>2
  <1> HIDE DEF numbers, none, c, made, stored
  <1>7. SaysClaim(c, n, made)
    <2> HIDE DEF n
    <2> QED  BY <1>1, <1>3, <1>4, <1>5, <1>6, Saying!FoldKeeps
  <1>8. /\ AllDecode(p, n) => made.res = "ok" /\ made.dst = Before(p, n)
        /\ \A i \in 1 .. n : FirstRefused(p, i) => made.res = Refusal(p, i)
    BY <1>2, <1>7 DEF SaysClaim
  <1>9. \A i : FirstRefused(p, i) => made.res = Refusal(p, i)
    BY <1>8 DEF FirstRefused
  <1>10. ASSUME made.res = "ok" PROVE AllDecode(p, n)
    <2> DEFINE bad == {i \in 1 .. n : ~PairDecodes(p, i)}
    <2> SUFFICES ASSUME bad # {} PROVE FALSE
      BY DEF AllDecode
    <2>1. bad \in SUBSET Nat
      OBVIOUS
    <2> HIDE DEF bad
    <2>2. PICK i \in bad : \A j \in bad : i <= j
      BY <2>1, Contents!LeastOf
    <2> USE DEF bad
    <2>3. i \in 1 .. n /\ ~PairDecodes(p, i)
      BY <2>2
    <2>4. \A j \in 1 .. i - 1 : j \in 1 .. n /\ ~ (i <= j)
      BY <1>1, <2>3
    <2>5. AllDecode(p, i - 1)
      BY <2>2, <2>4 DEF AllDecode
    <2>6. made.res = Refusal(p, i)
      BY <1>9, <2>3, <2>5 DEF FirstRefused
    <2> QED  BY <1>10, <2>6 DEF Refusal
  <1>11. AllDecode(p, n) => AllHold(p, n) /\ Stated(p) = Before(p, n)
    BY DecodingHolds DEF Stated, AllHold
  <1> QED  BY <1>8, <1>9, <1>10, <1>11 DEF made

-----------------------------------------------------------------------------
(* The plans a walk over a header makes.                                   *)

\* The least number of a set is a member of it, and none is smaller.
LEMMA MinOf ==
    ASSUME NEW T \in SUBSET Nat, T # {}
    PROVE  Min(T) \in T /\ \A m \in T : Min(T) <= m
  <1>1. \E i \in T : \A j \in T : i <= j
    BY Contents!LeastOf
  <1> QED  BY <1>1, Zenon DEF Min

\* A position with no fault has none among its parts.
LEMMA NoFirstFault ==
    ASSUME NEW given, DOMAIN given \subseteq Nat, FirstFault(given) = None
    PROVE  \A i \in DOMAIN given : given[i] = None
  <1> DEFINE real == {i \in DOMAIN given : given[i] # None}
  <1> SUFFICES ASSUME real # {} PROVE FALSE
    OBVIOUS
  <1>1. Min(real) \in real
    BY MinOf
  <1>2. FirstFault(given) = given[Min(real)]
    BY DEF FirstFault
  <1> QED  BY <1>1, <1>2

\* An attribute that is there is one its element carries.
LEMMA AttrIsCarried ==
    ASSUME NEW doc, NEW node, NEW name, Attr(doc, node, name) # None
    PROVE  /\ name \in DOMAIN doc.nodes[node].attrs
           /\ Attr(doc, node, name) = doc.nodes[node].attrs[name]
  BY DEF Attr

\* A block's geometry, as it reads without a fault.
Geometry == [width : U \ {0}, height : U \ {0}, channels : U \ {0}]

\* A compression as it reads without a fault: with an item size exactly when it is shuffled.
Compressions ==
    {c \in [codec : Codecs, shuffled : BOOLEAN, uncompressed_size : U, item_size : Option(U \ {0})] :
        c.shuffled <=> c.item_size # None}

\* The bytes a geometry implies, every product in u64.
Implied(g, bytes) ==
    LET product == CheckedMul(CheckedMul(CheckedMul(g.width, g.height), g.channels), bytes)
    IN  IF product = None THEN MaxU ELSE product

\* Bytes none of which is the file's.
Made(bytes) == bytes \in Seq(Byte) /\ \A k \in DOMAIN bytes : bytes[k][1] # "file"

\* Where the block of a plan is.
Placed(p) ==
    \/ p.location \in [mode : {"attachment"}, position : U, size : U]
    \/ p.location \in [mode : {"embedded"}] /\ p.materialized # None /\ Made(p.materialized)

\* How it is packed.
PackedAs(p) ==
    /\ p.compression # None => p.compression \in Compressions
    /\ p.subblocks # None =>
          /\ p.compression # None /\ p.subblocks \in Seq(U \X U)
          /\ Len(p.subblocks) <= XisfLimits.subblock_count
          /\ SumsOf(p.subblocks) = <<StoredSize(p.location, p.materialized), p.implied_bytes>>
    /\ p.compression # None =>
          \A i \in 1 .. PairCount(p) : ConformingContent(p.contents[i], p.compression.codec)

\* Whether the codec has to hold a subblock of the plan whole.
HeldWhole(p) ==
    /\ p.compression # None
    /\ HoldsWholeSubblocks(p.compression.codec, p.subblocks,
                           StoredSize(p.location, p.materialized), p.implied_bytes, p.reading)

\* The plan of an occurrence that has one, whatever the document says.
Planned(o) ==
    LET p == o.plan IN
    /\ p.geometry \in Geometry /\ p.bytes \in {1, 2, 4, 8} /\ p.storage \in {"Planar", "Normal"}
    /\ p.implied_bytes = Implied(p.geometry, p.bytes) /\ p.implied_bytes \in U
    /\ p.reading = Reading
    /\ Placed(p) /\ PackedAs(p)
    /\ o.header.geometry = p.geometry /\ o.header.bytes = p.bytes /\ o.header.decline = None
    /\ o.header.granularity =
          GranularityOf(p.location, p.compression, p.subblocks, p.checksum, HeldWhole(p), FALSE)

\* A list of numbers none of which failed to read is one of numbers.
LEMMA FieldsRead ==
    ASSUME NEW fields \in Seq(Option(U)), None \notin Range(fields)
    PROVE  \A i \in DOMAIN fields : fields[i] \in U
  <1> SUFFICES ASSUME NEW i \in DOMAIN fields PROVE fields[i] \in U
    OBVIOUS
  <1>1. fields[i] \in Range(fields)
    BY DEF Range
  <1>2. fields[i] \in Option(U)
    OBVIOUS
  <1> QED  BY <1>1, <1>2 DEF Option

\* The size a geometry implies is one u64 holds.
LEMMA ImpliedInU ==
    ASSUME NEW g, NEW bytes
    PROVE  Implied(g, bytes) \in U
  <1> DEFINE product == CheckedMul(CheckedMul(CheckedMul(g.width, g.height), g.channels), bytes)
  <1>1. product = None \/ product \in U
    BY DEF CheckedMul, Fit
  <1>2. MaxU \in U
    BY MaxUAssumption DEF U
  <1> QED  BY <1>1, <1>2 DEF Implied

\* The attributes of an image that read without a fault are a geometry and a sample format.
LEMMA AttributesRead ==
    ASSUME NEW doc, ConformingDoc(doc), NEW image \in DOMAIN doc.nodes
    PROVE  LET reads == ReadAttributes(doc, image) IN
           /\ reads.geometry.fault = None => reads.geometry.value \in Geometry
           /\ reads.format.fault = None =>
                 reads.format.value # None /\ reads.format.value.bytes \in {1, 2, 4, 8}
           /\ reads.storage.fault = None => reads.storage.value \in {"Planar", "Normal"}
  <1> DEFINE reads == ReadAttributes(doc, image)
             A(name) == Attr(doc, image, name)
             fields == A("geometry")
             format == A("sampleFormat")
             storage == A("pixelStorage")
  <1>1. /\ reads.geometry = ReadGeometry(fields) /\ reads.format = ReadSampleFormat(format)
        /\ reads.storage = ReadPixelStorage(storage)
    BY DEF ReadAttributes
  <1>2. fields # None => fields \in Seq(Option(U))
    <2>1. ConformingAttrs(doc.nodes[image].attrs)
      BY DEF ConformingDoc
    <2> QED  BY <2>1, AttrIsCarried DEF ConformingAttrs, Carries
  <1> HIDE DEF reads, fields, format, storage
  <1>3. ASSUME reads.geometry.fault = None PROVE reads.geometry.value \in Geometry
    <2>1. /\ ~ (fields = None \/ Len(fields) < 2 \/ None \in Range(fields)) /\ Len(fields) = 3
          /\ 0 \notin Range(fields)
          /\ reads.geometry.value = [width |-> fields[1], height |-> fields[2], channels |-> fields[3]]
      BY <1>1, <1>3, NoFaultAssumption DEF ReadGeometry, Reads
    <2>2. fields \in Seq(Option(U)) /\ DOMAIN fields = 1 .. 3
      BY <1>2, <2>1
    <2>3. \A i \in 1 .. 3 : fields[i] \in U \ {0}
      BY <2>1, <2>2, FieldsRead DEF Range
    <2> QED  BY <2>1, <2>3 DEF Geometry
  <1>4. ASSUME reads.format.fault = None
        PROVE  reads.format.value # None /\ reads.format.value.bytes \in {1, 2, 4, 8}
    <2>1. format \in DOMAIN SampleFormats /\ reads.format.value = SampleFormats[format]
      BY <1>1, <1>4, NoFaultAssumption DEF ReadSampleFormat, Reads
    <2>2. SampleFormats[format] \in Range(SampleFormats)
      BY <2>1 DEF Range
    <2>3. SampleFormats[format].bytes \in {1, 2, 4, 8}
      BY <2>1 DEF SampleFormats
    <2> QED  BY <2>1, <2>2, <2>3, NoValueAssumption
  <1>5. ASSUME reads.storage.fault = None PROVE reads.storage.value \in {"Planar", "Normal"}
    BY <1>1, <1>5, NoFaultAssumption DEF ReadPixelStorage, Reads
  <1> QED  BY <1>3, <1>4, <1>5 DEF reads

\* The block site of an image with no fault in it, and the element its packing is read from.
LEMMA SiteReads ==
    ASSUME NEW doc, ConformingDoc(doc), NEW image \in DOMAIN doc.nodes,
           ReadBlockSite(doc, image).fault = None
    PROVE  LET site == ReadBlockSite(doc, image) IN
           site.attrs_on \in DOMAIN doc.nodes /\ Placed(site)
  <1> DEFINE text == Attr(doc, image, "location")
             parsed == IF text = None THEN Refuse("Malformed") ELSE ParseLocation(text)
             site == ReadBlockSite(doc, image)
  <1>1. site.location = parsed.value
    BY DEF ReadBlockSite
  <1>2. text # None => text.fields \in Seq(Option(U))
    <2>1. ConformingAttrs(doc.nodes[image].attrs)
      BY DEF ConformingDoc
    <2> QED  BY <2>1, AttrIsCarried DEF ConformingAttrs
  <1>3. CASE parsed.res = "ok" /\ parsed.value.mode = "embedded"
    <2> DEFINE data == DataChild(doc, image)
               kids == Children(doc, image)
               datas == {k \in DOMAIN kids : NameOf(doc, kids[k]) = "Data"}
    <2>1. /\ site.attrs_on = EmbeddedSite(doc, image).attrs_on
          /\ site.materialized = EmbeddedSite(doc, image).materialized
          /\ EmbeddedSite(doc, image).fault = None
      BY <1>3 DEF ReadBlockSite
    <2>2. data # None /\ doc.nodes[data].text # None
      BY <2>1, NoFaultAssumption DEF EmbeddedSite
    <2>3. site.attrs_on = data /\ site.materialized = doc.nodes[data].text
      BY <2>1, <2>2, NoFaultAssumption DEF EmbeddedSite
    <2>4. data \in DOMAIN doc.nodes /\ doc.nodes[data].name = "Data"
      <3>1. data = (IF datas = {} THEN None ELSE kids[Min(datas)])
        BY DEF DataChild
      <3>2. kids \in Seq(DOMAIN doc.nodes)
        BY DEF Children, ConformingDoc
      <3>3. datas # {}
        BY <2>2, <3>1
      <3>4. datas \in SUBSET Nat
        BY <3>2
      <3>5. Min(datas) \in datas
        BY <3>3, <3>4, MinOf
      <3>6. Min(datas) \in DOMAIN kids /\ NameOf(doc, kids[Min(datas)]) = "Data"
        BY <3>5
      <3>7. data = kids[Min(datas)]
        BY <3>1, <3>3
      <3> HIDE DEF datas, data
      <3>8. data \in DOMAIN doc.nodes
        BY <3>2, <3>6, <3>7
      <3> QED  BY <3>6, <3>7, <3>8 DEF NameOf
    <2>5. Made(doc.nodes[data].text)
      <3>1. ConformingData(doc.nodes[data])
        BY <2>4 DEF ConformingDoc
      <3> QED  BY <2>2, <2>4, <3>1 DEF ConformingData, Made
    <2>6. parsed.value \in [mode : {"embedded"}]
      BY <1>3 DEF ParseLocation, Accept, Refuse
    <2> QED  BY <1>1, <2>2, <2>3, <2>4, <2>5, <2>6 DEF Placed
  <1>4. CASE ~ (parsed.res = "ok" /\ parsed.value.mode = "embedded")
    <2> DEFINE fault == IF parsed.res # "ok" THEN parsed.res
                        ELSE IF parsed.value.mode \in {"inline", "external"} THEN "Malformed"
                        ELSE None
    <2>0. site.attrs_on = image /\ fault = None
      BY <1>4 DEF ReadBlockSite
    <2>5. parsed.res \in {"ok", "Malformed"}
      BY DEF ParseLocation, Accept, Refuse
    <2>1. /\ site.attrs_on = image /\ parsed.res = "ok"
          /\ parsed.value.mode \notin {"inline", "external"}
      BY <2>0, <2>5, NoFaultAssumption
    <2>2. text # None /\ parsed = ParseLocation(text)
      BY <2>1 DEF Refuse
    <2>3. /\ Len(text.fields) = 2 /\ None \notin Range(text.fields)
          /\ parsed.value = [mode |-> "attachment", position |-> text.fields[1],
                             size |-> text.fields[2]]
      BY <1>4, <2>1, <2>2 DEF ParseLocation, Accept, Refuse
    <2>4. text.fields[1] \in U /\ text.fields[2] \in U
      BY <1>2, <2>2, <2>3, FieldsRead
    <2> QED  BY <1>1, <2>1, <2>3, <2>4 DEF Placed
  <1> QED  BY <1>3, <1>4

-----------------------------------------------------------------------------
(* What a block is packed in.                                              *)

\* The lengths of a list that was accepted are u64s, and no more of them than the cap.
LEMMA SubblocksRead ==
    ASSUME NEW list \in Seq(Option(Option(U) \X Option(U))), ParseSubblocks(list).res = "ok"
    PROVE  /\ ParseSubblocks(list).value = list
           /\ list \in Seq(U \X U) /\ Len(list) <= XisfLimits.subblock_count
  <1> DEFINE spelled(i) == list[i] # None /\ None \notin Range(list[i])
             stops == {i \in DOMAIN list : i > XisfLimits.subblock_count \/ ~spelled(i)}
  <1>1. stops = {} /\ ParseSubblocks(list).value = list
    BY DEF ParseSubblocks, Accept, Refuse
  <1>2. \A i \in DOMAIN list : i <= XisfLimits.subblock_count /\ spelled(i)
    <2> SUFFICES ASSUME NEW i \in DOMAIN list
                 PROVE  i <= XisfLimits.subblock_count /\ spelled(i)
      OBVIOUS
    <2>1. i \notin stops
      BY <1>1
    <2>2. i \in Nat /\ XisfLimits.subblock_count \in Nat
      BY XisfLimitsAssumption
    <2> HIDE DEF spelled
    <2> QED  BY <2>1, <2>2
  <1>3. \A i \in DOMAIN list : list[i] \in U \X U
    <2> SUFFICES ASSUME NEW i \in DOMAIN list PROVE list[i] \in U \X U
      OBVIOUS
    <2>1. list[i] # None /\ None \notin Range(list[i])
      BY <1>2
    <2>2. list[i] \in Option(U) \X Option(U)
      BY <2>1 DEF Option
    <2>3. list[i][1] \in Range(list[i]) /\ list[i][2] \in Range(list[i])
      BY <2>2 DEF Range
    <2>4. list[i] = <<list[i][1], list[i][2]>> /\ list[i][1] \in Option(U) /\ list[i][2] \in Option(U)
      BY <2>2
    <2>5. list[i][1] \in U /\ list[i][2] \in U
      BY <2>1, <2>3, <2>4 DEF Option
    <2> QED  BY <2>4, <2>5
  <1>4. Len(list) <= XisfLimits.subblock_count
    <2>1. Len(list) \in Nat /\ XisfLimits.subblock_count \in Nat /\ DOMAIN list = 1 .. Len(list)
      BY XisfLimitsAssumption
    <2>2. CASE Len(list) = 0
      BY <2>1, <2>2
    <2>3. CASE Len(list) # 0
      BY <1>2, <2>1, <2>3
    <2> QED  BY <2>2, <2>3
  <1> QED  BY <1>1, <1>3, <1>4

\* A compression attribute that was accepted.
LEMMA CompressionReads ==
    ASSUME NEW text, text.fields \in Seq(Option(U)), text.shuffled \in BOOLEAN,
           ParseCompression(text).res = "ok"
    PROVE  /\ ParseCompression(text).value \in Compressions
           /\ ParseCompression(text).value.codec = text.codec
  <1> DEFINE fields == text.fields
             value == ParseCompression(text).value
  <1>1. /\ text.codec \in Codecs /\ Len(fields) = (IF text.shuffled THEN 2 ELSE 1)
        /\ None \notin Range(fields) /\ ~ (text.shuffled /\ fields[2] = 0)
        /\ value = [codec |-> text.codec, shuffled |-> text.shuffled,
                    uncompressed_size |-> fields[1],
                    item_size |-> IF text.shuffled THEN fields[2] ELSE None]
    BY DEF ParseCompression, Accept, Refuse
  <1>2. \A i \in DOMAIN fields : fields[i] \in U
    BY <1>1, FieldsRead
  <1>3. DOMAIN fields = 1 .. (IF text.shuffled THEN 2 ELSE 1)
    BY <1>1
  <1>4. fields[1] \in U /\ (text.shuffled => fields[2] \in U \ {0})
    BY <1>1, <1>2, <1>3
  <1>5. None \notin U
    BY NoneAssumption DEF U
  <1> QED  BY <1>1, <1>4, <1>5 DEF Compressions, Option

\* The stored length of a block that has a place.
LEMMA StoredSizeReads ==
    ASSUME NEW p, Placed(p)
    PROVE  StoredSize(p.location, p.materialized) \in Nat
  <1>1. CASE p.location \in [mode : {"attachment"}, position : U, size : U]
    BY <1>1, NoLocationAssumption, MaxUAssumption DEF StoredSize, U
  <1>2. CASE p.location \in [mode : {"embedded"}] /\ p.materialized # None /\ Made(p.materialized)
    BY <1>2, NoLocationAssumption DEF StoredSize, Made
  <1> QED  BY <1>1, <1>2 DEF Placed

\* A block stands in the file or in the header.
LEMMA PlacesRead ==
    ASSUME NEW p, Placed(p)
    PROVE  /\ p.location # None /\ p.location.mode \in {"attachment", "embedded"}
           /\ p.location.mode = "attachment" => p.location.position \in U /\ p.location.size \in U
           /\ p.location.mode = "embedded" => p.materialized # None /\ Made(p.materialized)
  <1>1. CASE p.location \in [mode : {"attachment"}, position : U, size : U]
    <2>1. U \subseteq Nat
      BY MaxUAssumption DEF U
    <2>2. p.location \in [mode : {"attachment"}, position : Nat, size : Nat]
      BY <1>1, <2>1
    <2>3. p.location # None
      BY <2>2, NoLocationAssumption
    <2> QED  BY <1>1, <2>3
  <1>2. CASE p.location \in [mode : {"embedded"}] /\ p.materialized # None /\ Made(p.materialized)
    BY <1>2, NoLocationAssumption
  <1> QED  BY <1>1, <1>2 DEF Placed

\* A compression that reads without a fault packs the block in pairs that add up.
LEMMA PackingReads ==
    ASSUME NEW doc, ConformingDoc(doc), NEW node \in DOMAIN doc.nodes,
           NEW stored \in Nat, NEW implied \in U,
           ReadCompression(doc, node, stored, implied).fault = None
    PROVE  LET packing == ReadCompression(doc, node, stored, implied)
               contents == Attr(doc, node, "contents") IN
           /\ packing.compression # None =>
                 /\ packing.compression \in Compressions
                 /\ \A i \in 1 .. (IF packing.subblocks = None THEN 1 ELSE Len(packing.subblocks)) :
                       ConformingContent(contents[i], packing.compression.codec)
           /\ packing.subblocks # None =>
                 /\ packing.compression # None /\ packing.subblocks \in Seq(U \X U)
                 /\ Len(packing.subblocks) <= XisfLimits.subblock_count
                 /\ SumsOf(packing.subblocks) = <<stored, implied>>
  <1> DEFINE packing == ReadCompression(doc, node, stored, implied)
             attrs == doc.nodes[node].attrs
             contents == Attr(doc, node, "contents")
             text == Attr(doc, node, "compression")
             list == Attr(doc, node, "subblocks")
             parsed == IF text = None THEN Accept(None) ELSE ParseCompression(text)
             c == parsed.value
             split == ParseSubblocks(list)
             beside == ReadSubblocks(list, c, stored, implied)
  <1>1. /\ ConformingAttrs(attrs) /\ ConformingContents(attrs)
    BY DEF ConformingDoc
  <1>2. packing.compression = c
    BY DEF ReadCompression, Packing
  <1>3. parsed.res \in {"ok", "Malformed", "Unsupported"}
    BY DEF ParseCompression, Accept, Refuse
  <1> HIDE DEF parsed
  <1>4. parsed.res = "ok" /\ packing.subblocks = beside.subblocks /\ beside.fault = None
    <2> DEFINE kept == IF parsed.res # "ok" THEN [subblocks |-> None, fault |-> parsed.res]
                       ELSE IF c # None /\ c.item_size # None /\ implied > 0 /\ c.item_size > implied
                       THEN [subblocks |-> None, fault |-> "Malformed"]
                       ELSE beside
    <2>1. packing.subblocks = kept.subblocks /\ kept.fault = None
      BY DEF ReadCompression, Packing, parsed
    <2> HIDE DEF beside, c
    <2>2. parsed.res = "ok" /\ kept = beside
      BY <1>3, <2>1, NoFaultAssumption
    <2> HIDE DEF kept
    <2> QED  BY <2>1, <2>2
  <1>5. c # None => text # None /\ parsed = ParseCompression(text)
    BY DEF parsed, Accept
  <1>6. text # None => /\ "compression" \in DOMAIN attrs /\ text = attrs.compression
                       /\ text.fields \in Seq(Option(U)) /\ text.shuffled \in BOOLEAN
    BY <1>1, AttrIsCarried DEF ConformingAttrs
  <1>7. c # None => c \in Compressions /\ c.codec = attrs.compression.codec
    BY <1>4, <1>5, <1>6, CompressionReads
  <1>8. list # None => /\ "subblocks" \in DOMAIN attrs /\ list = attrs.subblocks
                       /\ list \in Seq(Option(Option(U) \X Option(U)))
    BY <1>1, AttrIsCarried DEF ConformingAttrs, Carries
  <1> HIDE DEF c, list, text
  <1>9. ASSUME beside.subblocks # None
        PROVE  /\ list # None /\ c # None /\ beside.subblocks = list
               /\ list \in Seq(U \X U) /\ Len(list) <= XisfLimits.subblock_count
               /\ SumsOf(list) = <<stored, implied>>
    <2>1. list # None /\ c # None /\ split.res = "ok" /\ beside.subblocks = split.value
      BY <1>9 DEF ReadSubblocks
    <2>2. split.value = list /\ list \in Seq(U \X U) /\ Len(list) <= XisfLimits.subblock_count
      BY <1>8, <2>1, SubblocksRead
    <2>3. stored # None
      BY NoneAssumption
    <2>4. CheckSubblockSums(split.value, stored, implied) = "ok"
      BY <1>4, <2>1, <2>3, NoFaultAssumption DEF ReadSubblocks
    <2>5. SumsOf(list) = <<stored, implied>>
      BY <2>2, <2>4 DEF CheckSubblockSums
    <2> QED  BY <2>1, <2>2, <2>5
  <1>10. ASSUME c # None,
                NEW i \in 1 .. (IF packing.subblocks = None THEN 1 ELSE Len(packing.subblocks))
         PROVE  ConformingContent(contents[i], c.codec)
    <2>1. "compression" \in DOMAIN attrs
      BY <1>5, <1>6, <1>10
    <2>2. contents = attrs.contents
      BY <1>1, <2>1 DEF ConformingContents, Attr
    <2>3. i \in {1} \cup (IF "subblocks" \in DOMAIN attrs THEN DOMAIN attrs.subblocks ELSE {})
      <3>1. CASE packing.subblocks = None
        BY <1>10, <3>1
      <3>2. CASE packing.subblocks # None
        BY <1>4, <1>8, <1>9, <1>10, <3>2
      <3> QED  BY <3>1, <3>2
    <2>4. ConformingContent(attrs.contents[i], attrs.compression.codec)
      BY <1>1, <2>1, <2>3 DEF ConformingContents
    <2> QED  BY <1>7, <1>10, <2>2, <2>4
  <1>11. packing.compression # None =>
            /\ packing.compression \in Compressions
            /\ \A i \in 1 .. (IF packing.subblocks = None THEN 1 ELSE Len(packing.subblocks)) :
                  ConformingContent(contents[i], packing.compression.codec)
    BY <1>2, <1>7, <1>10
  <1>12. packing.subblocks # None =>
            /\ packing.compression # None /\ packing.subblocks \in Seq(U \X U)
            /\ Len(packing.subblocks) <= XisfLimits.subblock_count
            /\ SumsOf(packing.subblocks) = <<stored, implied>>
    BY <1>2, <1>4, <1>9
  <1> HIDE DEF packing, contents, beside
  <1> QED  BY <1>11, <1>12 DEF packing, contents

-----------------------------------------------------------------------------
(* The occurrence they make.                                               *)

\* The first of three runs joined stands where it stood.
LEMMA FirstRunStands ==
    ASSUME NEW S, NEW x \in Seq(S), NEW y \in Seq(S), NEW z \in Seq(S)
    PROVE  /\ x \o y \o z \in Seq(S)
           /\ \A i \in 1 .. Len(x) : i \in DOMAIN (x \o y \o z) /\ (x \o y \o z)[i] = x[i]
  <1>1. x \o y \in Seq(S) /\ Len(x \o y) = Len(x) + Len(y) /\ \A i \in 1 .. Len(x) : (x \o y)[i] = x[i]
    OBVIOUS
  <1>2. ASSUME NEW w \in Seq(S)
        PROVE  /\ w \o z \in Seq(S) /\ Len(w \o z) = Len(w) + Len(z)
               /\ \A i \in 1 .. Len(w) : (w \o z)[i] = w[i]
    OBVIOUS
  <1>3. Len(x) \in Nat /\ Len(y) \in Nat /\ Len(z) \in Nat
    OBVIOUS
  <1> DEFINE w == x \o y
             v == w \o z
  <1>4. w \in Seq(S) /\ Len(w) = Len(x) + Len(y) /\ \A i \in 1 .. Len(x) : w[i] = x[i]
    BY <1>1
  <1>5. v \in Seq(S) /\ Len(v) = Len(w) + Len(z) /\ \A i \in 1 .. Len(w) : v[i] = w[i]
    BY <1>2, <1>4
  <1> HIDE DEF v, w
  <1>6. DOMAIN v = 1 .. Len(v)
    BY <1>5
  <1>7. v \in Seq(S) /\ \A i \in 1 .. Len(x) : i \in DOMAIN v /\ v[i] = x[i]
    BY <1>3, <1>4, <1>5, <1>6
  <1> QED  BY <1>7 DEF v, w

\* An image that is not declined has no fault in what its block is read by.
LEMMA NoFaultAmong ==
    ASSUME NEW reads, NEW site, NEW packing, NEW a, NEW b, NEW c,
           DeclineOf(reads, site, packing, <<a, b, c>>) = None
    PROVE  /\ reads.geometry.fault = None /\ reads.format.fault = None
           /\ reads.storage.fault = None /\ site.fault = None /\ packing.fault = None
  <1> DEFINE early == <<reads.geometry.fault, reads.color.fault, reads.format.fault,
                        reads.order.fault, reads.storage.fault, site.fault, packing.fault,
                        reads.offset.fault>>
             mid == <<a, b, c>>
             late == <<reads.checksum.fault>>
             every == {early[i] : i \in 1 .. 8} \cup {a, b, c} \cup {late[1]}
             given == early \o mid \o late
  <1>1. early \in Seq(every) /\ mid \in Seq(every) /\ late \in Seq(every)
    OBVIOUS
  <1>2. Len(early) = 8 /\ Len(mid) = 3 /\ Len(late) = 1
    OBVIOUS
  <1>3. early[1] = reads.geometry.fault /\ early[3] = reads.format.fault
        /\ early[5] = reads.storage.fault /\ early[6] = site.fault /\ early[7] = packing.fault
    OBVIOUS
  <1>4. FirstFault(given) = None
    BY DEF DeclineOf
  <1> HIDE DEF early, mid, late, every
  <1>5. given \in Seq(every) /\ \A i \in 1 .. 8 : i \in DOMAIN given /\ given[i] = early[i]
    <2>1. /\ early \o mid \o late \in Seq(every)
          /\ \A i \in 1 .. Len(early) :
                i \in DOMAIN (early \o mid \o late) /\ (early \o mid \o late)[i] = early[i]
      BY <1>1, FirstRunStands, ZenonT(30)
    <2> QED  BY <1>2, <2>1
  <1> HIDE DEF given
  <1>6. \A i \in DOMAIN given : given[i] = None
    BY <1>4, <1>5, NoFirstFault
  <1> QED  BY <1>3, <1>5, <1>6

\* The size of an image is the one its geometry and its format imply.
LEMMA ImpliedReads ==
    ASSUME NEW g \in Geometry, NEW format, format # None
    PROVE  ImpliedBytes(g, format) = Implied(g, format.bytes)
  <1>1. g # None
    BY NoValueAssumption DEF Geometry
  <1> QED  BY <1>1 DEF ImpliedBytes, Implied

\* An occurrence that has a plan was declined for nothing, and its plan is what its document
\* says.
LEMMA OccurrenceIsPlanned ==
    ASSUME NEW doc, ConformingDoc(doc), NEW image \in DOMAIN doc.nodes,
           NEW a, NEW b, NEW c,
           BuildOccurrence(doc, image, Reading, <<a, b, c>>).plan # None
    PROVE  Planned(BuildOccurrence(doc, image, Reading, <<a, b, c>>))
  <1> DEFINE o == BuildOccurrence(doc, image, Reading, <<a, b, c>>)
             reads == ReadAttributes(doc, image)
             site == ReadBlockSite(doc, image)
             implied == ImpliedBytes(reads.geometry.value, reads.format.value)
             stored == StoredSize(site.location, site.materialized)
             packing == ReadCompression(doc, site.attrs_on, stored, implied)
             contents == Attr(doc, site.attrs_on, "contents")
             decline == DeclineOf(reads, site, packing, <<a, b, c>>)
             plan == PlanOf(reads, site, packing, implied, Reading, contents)
             held == /\ packing.compression # None
                     /\ HoldsWholeSubblocks(packing.compression.codec, packing.subblocks, stored,
                                            implied, Reading)
  <1>1. o = Occurrence(reads, site, packing, implied, Reading, contents, decline)
    BY DEF BuildOccurrence, WithAttributes, WithSite, WithPacking
  <1> HIDE DEF o, reads, site, implied, stored, packing, contents, decline, plan, held
  <1>2. decline = None /\ o.plan = plan /\ o.header = HeaderOf(reads, site, packing, held, decline)
    <2>1. o.plan # None
      BY DEF o
    <2> QED  BY <1>1, <2>1 DEF Occurrence, held, stored, plan
  <1>3. /\ reads.geometry.fault = None /\ reads.format.fault = None
        /\ reads.storage.fault = None /\ site.fault = None /\ packing.fault = None
    BY <1>2, NoFaultAmong DEF decline
  <1>4. /\ reads.geometry.value \in Geometry
        /\ reads.format.value # None /\ reads.format.value.bytes \in {1, 2, 4, 8}
        /\ reads.storage.value \in {"Planar", "Normal"}
    BY <1>3, AttributesRead DEF reads
  <1>5. site.attrs_on \in DOMAIN doc.nodes /\ Placed(site)
    BY <1>3, SiteReads DEF site
  <1>6. implied = Implied(reads.geometry.value, reads.format.value.bytes) /\ implied \in U
    BY <1>3, <1>4, ImpliedReads, ImpliedInU DEF implied
  <1>7. stored \in Nat
    BY <1>5, StoredSizeReads DEF stored
  <1>8. /\ packing.compression # None =>
              /\ packing.compression \in Compressions
              /\ \A i \in 1 .. (IF packing.subblocks = None THEN 1 ELSE Len(packing.subblocks)) :
                    ConformingContent(contents[i], packing.compression.codec)
        /\ packing.subblocks # None =>
              /\ packing.compression # None /\ packing.subblocks \in Seq(U \X U)
              /\ Len(packing.subblocks) <= XisfLimits.subblock_count
              /\ SumsOf(packing.subblocks) = <<stored, implied>>
    BY <1>3, <1>5, <1>6, <1>7, PackingReads DEF packing, contents
  <1>9. /\ plan.location = site.location /\ plan.compression = packing.compression
        /\ plan.subblocks = packing.subblocks /\ plan.checksum = reads.checksum.value
        /\ plan.storage = reads.storage.value /\ plan.geometry = reads.geometry.value
        /\ plan.bytes = reads.format.value.bytes /\ plan.implied_bytes = implied
        /\ plan.materialized = site.materialized /\ plan.reading = Reading
        /\ plan.contents = contents
    BY DEF plan, PlanOf
  <1>10. Placed(plan)
    BY <1>5, <1>9 DEF Placed
  <1>11. PackedAs(plan)
    BY <1>8, <1>9 DEF PackedAs, PairCount, stored
  <1>12. HeldWhole(plan) = held
    BY <1>9 DEF HeldWhole, held, stored
  <1>13. /\ o.header.geometry = plan.geometry /\ o.header.decline = None
         /\ o.header.bytes = (IF reads.format.value = None THEN None ELSE plan.bytes)
         /\ o.header.granularity =
               GranularityOf(plan.location, plan.compression, plan.subblocks, plan.checksum, held,
                             FALSE)
    <2>1. (decline # None) = FALSE
      BY <1>2
    <2> DEFINE graded(x) == GranularityOf(site.location, packing.compression, packing.subblocks,
                                          reads.checksum.value, held, x)
    <2>2. o.header.granularity = graded(decline # None)
      BY <1>2 DEF HeaderOf
    <2>3. graded(FALSE) = GranularityOf(plan.location, plan.compression, plan.subblocks,
                                        plan.checksum, held, FALSE)
      BY <1>9
    <2> HIDE DEF graded
    <2>4. o.header.granularity = graded(FALSE)
      BY <2>1, <2>2
    <2>5. /\ o.header.geometry = reads.geometry.value /\ o.header.decline = decline
          /\ o.header.bytes = IF reads.format.value = None THEN None ELSE reads.format.value.bytes
      BY <1>2 DEF HeaderOf
    <2> QED  BY <1>2, <1>9, <2>3, <2>4, <2>5
  <1> QED  BY <1>2, <1>4, <1>6, <1>9, <1>10, <1>11, <1>12, <1>13 DEF Planned, o

-----------------------------------------------------------------------------
(* The walk over a header.                                                 *)

\* A child stands for an element, itself or what its reference resolves to, or for none.
LEMMA TargetsAreElements ==
    ASSUME NEW doc, ConformingDoc(doc), NEW child \in DOMAIN doc.nodes, Target(doc, child) # None
    PROVE  Target(doc, child) \in DOMAIN doc.nodes
  <1> DEFINE node == Target(doc, child)
  <1>1. CASE NameOf(doc, child) # "Reference"
    BY <1>1 DEF Target
  <1>2. CASE NameOf(doc, child) = "Reference"
    <2> DEFINE uid == Attr(doc, child, "ref")
               target == IF uid = None THEN None ELSE NodeWithUid(doc.nodes, uid)
               bearers == UidBearers(doc.nodes, uid)
    <2>1. node = (IF target = None \/ NameOf(doc, target) = "Reference" THEN None ELSE target)
      BY <1>2 DEF Target, Resolve
    <2>2. node = target /\ target # None
      BY <2>1
    <2>3. uid # None /\ target = NodeWithUid(doc.nodes, uid)
      BY <2>2
    <2>4. bearers # {} /\ target = Min(bearers)
      BY <2>2, <2>3 DEF NodeWithUid
    <2>5. bearers \subseteq DOMAIN doc.nodes /\ DOMAIN doc.nodes \subseteq Nat
      BY DEF UidBearers, ConformingDoc
    <2> HIDE DEF bearers, target, uid, node
    <2>6. Min(bearers) \in bearers
      BY <2>4, <2>5, MinOf
    <2> QED  BY <2>2, <2>4, <2>5, <2>6 DEF node
  <1> QED  BY <1>1, <1>2

\* The image an occurrence is of is an element.
LEMMA ImagesAreElements ==
    ASSUME NEW doc, ConformingDoc(doc), NEW child \in DOMAIN doc.nodes, ImageAt(doc, child) # None
    PROVE  ImageAt(doc, child) \in DOMAIN doc.nodes
  <1>1. ImageAt(doc, child) = Target(doc, child) /\ Target(doc, child) # None
    BY DEF ImageAt
  <1> QED  BY <1>1, TargetsAreElements

\* What is known of an occurrence is known of one that agrees with it.
LEMMA PlannedAgrees ==
    ASSUME NEW o, NEW q, Planned(o), q.plan = o.plan,
           q.header.geometry = o.header.geometry, q.header.bytes = o.header.bytes,
           q.header.decline = o.header.decline, q.header.granularity = o.header.granularity
    PROVE  Planned(q)
  BY DEF Planned

\* Occurrences of which every one that has a plan has it from its document.
AllPlanned(S) ==
    \A o \in S : o = [header |-> o.header, plan |-> o.plan] /\ (o.plan # None => Planned(o))

\* An occurrence built from an image element has the plan its attributes state, or none.
LEMMA BuiltIsPlanned ==
    ASSUME NEW doc, ConformingDoc(doc), NEW image \in DOMAIN doc.nodes, NEW shared, NEW cache
    PROVE  AllPlanned({BuildAt(doc, image, shared, cache).occurrence})
  <1> DEFINE c == CollectChildren(doc, image, cache)
             got == c.got
             keywords == FoldRecords(got.keywords, ValueBytes, c.cache)
             fresh == OccurrenceWith(doc, image, shared, got, keywords)
             a == ValueOr(got.cfa, None).fault
             b == ValueOr(got.resolution, <<72, 72>>).fault
             d == ValueOr(got.display_function, IdentityDisplay).fault
             o == BuildOccurrence(doc, image, Reading, <<a, b, d>>)
             q == fresh.occurrence
  <1>1. BuildAt(doc, image, shared, cache) = fresh
    BY DEF BuildAt, BuildFrom
  <1> HIDE DEF got, keywords
  <1>2. /\ q.plan = o.plan
        /\ q.header.geometry = o.header.geometry /\ q.header.bytes = o.header.bytes
        /\ q.header.decline = o.header.decline /\ q.header.granularity = o.header.granularity
        /\ q = [header |-> q.header, plan |-> q.plan]
    BY DEF OccurrenceWith
  <1> HIDE DEF fresh, q
  <1>3. q.plan # None => Planned(q)
    <2> SUFFICES ASSUME q.plan # None PROVE Planned(q)
      OBVIOUS
    <2> HIDE DEF a, b, d
    <2>1. Planned(o)
      BY <1>2, OccurrenceIsPlanned
    <2> HIDE DEF o
    <2> QED  BY <1>2, <2>1, PlannedAgrees
  <1> QED  BY <1>1, <1>2, <1>3 DEF AllPlanned, q

\* A walk under way: its occurrences and those it remembers are of one kind.
Walked(s) ==
    /\ s = [res |-> s.res, out |-> s.out, built |-> s.built, shared |-> s.shared,
            cache |-> s.cache]
    /\ Len(s.out) \in 0 .. ImagesPerSource + 1
    /\ \E S : /\ AllPlanned(S) /\ s.out \in Seq(S)
              /\ \A n \in DOMAIN s.built : s.built[n] \in S

\* The walk over the document starts with no occurrence.
LEMMA WalkStartsWell ==
    ASSUME NEW doc
    PROVE  Walked(WalkStart(doc))
  <1> DEFINE s == WalkStart(doc)
             m == MetadataProperties(doc, EmptyCache)
  <1>1. s = [res |-> "ok", out |-> <<>>, built |-> <<>>, shared |-> m.shared, cache |-> m.cache]
    BY DEF WalkStart, WalkFrom
  <1> HIDE DEF s, m
  <1>2. s.out = <<>> /\ s.built = <<>>
    BY <1>1
  <1>3. AllPlanned({}) /\ s.out \in Seq({}) /\ Len(s.out) = 0 /\ DOMAIN s.built = {}
    BY <1>2 DEF AllPlanned
  <1>4. 0 \in 0 .. ImagesPerSource + 1
    BY ImagesPerSourceAssumption
  <1>5. s = [res |-> s.res, out |-> s.out, built |-> s.built, shared |-> s.shared,
             cache |-> s.cache]
    BY <1>1
  <1>6. \E S : /\ AllPlanned(S) /\ s.out \in Seq(S)
               /\ \A n \in DOMAIN s.built : s.built[n] \in S
    BY <1>3
  <1> QED  BY <1>3, <1>4, <1>5, <1>6 DEF Walked, s

\* A child of the root adds planned occurrences only.
LEMMA WalkGoesWell ==
    ASSUME NEW doc, ConformingDoc(doc), NEW child \in DOMAIN doc.nodes, NEW s, Walked(s)
    PROVE  Walked(WalkChild(doc, s, child))
  <1> DEFINE image == ImageAt(doc, child)
             fresh == BuildAt(doc, image, s.shared, s.cache)
             t == WalkChild(doc, s, child)
  <1>1. /\ s = [res |-> s.res, out |-> s.out, built |-> s.built, shared |-> s.shared,
                cache |-> s.cache]
        /\ Len(s.out) \in 0 .. ImagesPerSource + 1
    BY DEF Walked
  <1>2. PICK S : /\ AllPlanned(S) /\ s.out \in Seq(S)
                 /\ \A n \in DOMAIN s.built : s.built[n] \in S
    BY DEF Walked
  <1>3. CASE s.res # "ok" \/ PastTheCap(s.out) \/ image = None
    BY <1>3 DEF WalkChild
  <1>4. CASE ~ (s.res # "ok" \/ PastTheCap(s.out) \/ image = None)
    <2>1. Len(s.out) + 1 \in 0 .. ImagesPerSource + 1
      BY <1>1, <1>4, ImagesPerSourceAssumption DEF PastTheCap
    <2>2. CASE image \in DOMAIN s.built
      <3>1. t = [s EXCEPT !.out = Append(@, s.built[image])]
        BY <1>4, <2>2 DEF WalkChild
      <3> DEFINE out == Append(s.out, s.built[image])
      <3>2. out \in Seq(S) /\ Len(out) = Len(s.out) + 1
        BY <1>2, <2>2
      <3>3. t = [res |-> s.res, out |-> out, built |-> s.built, shared |-> s.shared,
                 cache |-> s.cache]
        BY <1>1, <3>1
      <3> HIDE DEF out, t
      <3>4. /\ t.out = out /\ t.built = s.built
            /\ t = [res |-> t.res, out |-> t.out, built |-> t.built, shared |-> t.shared,
                    cache |-> t.cache]
        BY <3>3
      <3> QED  BY <1>2, <2>1, <3>2, <3>4 DEF Walked, t
    <2>3. CASE image \notin DOMAIN s.built
      <3>1. t = Enter(s, image, IsReferenced(doc, child), fresh)
        BY <1>4, <2>3 DEF WalkChild
      <3>2. CASE fresh.res # "ok"
        <4>1. t = [s EXCEPT !.res = fresh.res]
          BY <3>1, <3>2 DEF Enter
        <4>2. t = [res |-> fresh.res, out |-> s.out, built |-> s.built, shared |-> s.shared,
                   cache |-> s.cache]
          BY <1>1, <4>1
        <4> HIDE DEF t
        <4>3. /\ t.out = s.out /\ t.built = s.built
              /\ t = [res |-> t.res, out |-> t.out, built |-> t.built, shared |-> t.shared,
                      cache |-> t.cache]
          BY <4>2
        <4> QED  BY <1>1, <1>2, <4>3 DEF Walked, t
      <3>3. CASE fresh.res = "ok"
        <4> DEFINE o == fresh.occurrence
                   more == S \cup {o}
                   out == Append(s.out, o)
                   built == IF IsReferenced(doc, child) THEN Remembering(s.built, image, o)
                            ELSE s.built
        <4>1. t = [s EXCEPT !.out = out, !.cache = fresh.cache, !.built = built]
          BY <1>1, <3>1, <3>3 DEF Enter
        <4>2. image \in DOMAIN doc.nodes
          BY <1>4, ImagesAreElements
        <4>3. AllPlanned({o})
          BY <4>2, BuiltIsPlanned
        <4> HIDE DEF o
        <4>4. AllPlanned(more)
          BY <1>2, <4>3 DEF AllPlanned
        <4>5. out \in Seq(more) /\ Len(out) = Len(s.out) + 1
          <5>1. s.out \in Seq(more) /\ o \in more
            BY <1>2
          <5> HIDE DEF more
          <5> QED  BY <5>1
        <4>6. \A n \in DOMAIN built : built[n] \in more
          BY <1>2 DEF Remembering
        <4>7. t = [res |-> s.res, out |-> out, built |-> built, shared |-> s.shared,
                   cache |-> fresh.cache]
          BY <1>1, <4>1
        <4> HIDE DEF out, built, more, t
        <4>8. /\ t.out = out /\ t.built = built
              /\ t = [res |-> t.res, out |-> t.out, built |-> t.built, shared |-> t.shared,
                      cache |-> t.cache]
          BY <4>7
        <4> QED  BY <2>1, <4>4, <4>5, <4>6, <4>8 DEF Walked, t
      <3> QED  BY <3>2, <3>3
    <2> QED  BY <2>2, <2>3
  <1> QED  BY <1>3, <1>4

\* walk_occurrences as the fold it is.
WalkStep(doc, s, child) == WalkChild(doc, s, child)
WalkClaim(doc, n, s) == Walked(s)
Walking == INSTANCE Folding WITH Step <- WalkStep, Claim <- WalkClaim

\* Every occurrence of a document is planned.
LEMMA WalkEndsWell ==
    ASSUME NEW doc, ConformingDoc(doc)
    PROVE  Walked(WalkOccurrences(doc))
  <1> DEFINE kids == Children(doc, 1)
             n == Len(kids)
  <1>1. kids \in Seq(DOMAIN doc.nodes)
    BY DEF ConformingDoc, Children
  <1>2. n \in Nat /\ DOMAIN kids = 1 .. n /\ \A i \in 1 .. n : kids[i] \in DOMAIN doc.nodes
    BY <1>1
  <1>3. WalkClaim(doc, 0, WalkStart(doc))
    BY WalkStartsWell DEF WalkClaim
  <1> HIDE DEF kids, n
  <1>4. \A i \in 1 .. n : \A s : WalkClaim(doc, i - 1, s) => WalkClaim(doc, i, WalkStep(doc, s, kids[i]))
    BY <1>2, WalkGoesWell DEF WalkClaim, WalkStep
  <1>5. WalkClaim(doc, n, Walking!Fold(doc, WalkStart(doc), kids))
    BY <1>2, <1>3, <1>4, Walking!FoldKeeps
  <1>6. Walking!Fold(doc, WalkStart(doc), kids) = WalkOccurrences(doc)
    BY Zenon DEF WalkOccurrences, WalkStep, kids, FoldLeft, MapThenFoldSet, Max,
         Walking!Fold, Walking!Iterates, Walking!Largest
  <1> QED  BY <1>5, <1>6 DEF WalkClaim
=============================================================================
