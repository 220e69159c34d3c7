--------------------------- MODULE XisfReaderProofs ---------------------------
(***************************************************************************)
(* Sessions over any XISF sources, under any caps, with any I/O errors and *)
(* any order of calls.  The invariant follows a block from the plan its    *)
(* header was read as to the samples handed over: what is resident is the  *)
(* block's, what is streamed has told its beginning, and every index a     *)
(* sample is read through stays inside what is resident.                   *)
(***************************************************************************)
EXTENDS XisfReader, XisfBlockProofs

-----------------------------------------------------------------------------
(* The sizes of a block.                                                   *)

\* A product grows with its factors.
LEMMA TimesMore ==
    \A x, y, z \in Nat : x <= y => x * z <= y * z /\ z * x <= z * y
  OBVIOUS

\* A product is no less than a factor the other of which is not zero.
LEMMA TimesPositive ==
    \A x, y \in Nat : y # 0 => x <= x * y /\ x <= y * x
  OBVIOUS

\* The rows a block is read in: each channel's of a planar one, and the image's otherwise.
RowsIn(plan) ==
    plan.geometry.height * (IF plan.storage = "Planar" THEN plan.geometry.channels ELSE 1)

\* Sizes no saturation stands behind: a block is its rows.
Sized(plan) ==
    /\ RowSamples(plan) \in Nat \ {0} /\ RowsIn(plan) \in Nat \ {0}
    /\ RowLength(plan) = RowSamples(plan) * plan.bytes /\ RowLength(plan) \in Nat \ {0}
    /\ plan.implied_bytes = RowsIn(plan) * RowLength(plan)

\* A product that fits u64 with room for its bytes was not saturated.
LEMMA SamplesFit ==
    ASSUME NEW w \in U \ {0}, NEW h \in U \ {0}, NEW c \in U \ {0}, NEW n \in Nat, n >= 4,
           SaturatingMul(SaturatingMul(w, h), c) * n <= MaxU
    PROVE  /\ w * h \in U /\ (w * h) * c \in U /\ ((w * h) * c) * n \in U
           /\ SaturatingMul(SaturatingMul(w, h), c) = (w * h) * c
  <1> DEFINE a == w * h
             s == SaturatingMul(a, c)
             t == SaturatingMul(SaturatingMul(w, h), c)
  <1>1. w \in Nat /\ h \in Nat /\ c \in Nat \ {0} /\ MaxU \in Nat \ {0} /\ U = 0 .. MaxU
    BY MaxUAssumption DEF U
  <1>2. a \in Nat
    BY <1>1
  <1>3. MaxU * n > MaxU
    BY <1>1
  <1>4. ASSUME NEW x \in Nat, x >= MaxU PROVE ~ (x * n <= MaxU)
    <2>1. x * n >= x
      BY <1>1, <1>4, TimesPositive
    <2>2. MaxU * n <= x * n
      BY <1>1, <1>4, TimesMore
    <2> QED  BY <1>1, <1>3, <2>1, <2>2
  <1> HIDE DEF a
  <1>5. a \in U
    <2> SUFFICES ASSUME a \notin U PROVE FALSE
      OBVIOUS
    <2>1. SaturatingMul(w, h) = MaxU
      BY DEF SaturatingMul, a
    <2>2. MaxU * c \in Nat /\ MaxU * c >= MaxU
      BY <1>1, TimesPositive
    <2>3. t \in Nat /\ t >= MaxU
      BY <1>1, <2>1, <2>2 DEF SaturatingMul
    <2> QED  BY <1>4, <2>3
  <1>6. SaturatingMul(w, h) = a
    BY <1>5 DEF SaturatingMul, a
  <1>7. a * c \in U
    <2> SUFFICES ASSUME a * c \notin U PROVE FALSE
      OBVIOUS
    <2>1. t = MaxU
      BY <1>6 DEF SaturatingMul
    <2> QED  BY <1>1, <1>4, <2>1
  <1>8. t = a * c
    BY <1>6, <1>7 DEF SaturatingMul
  <1>9. (a * c) * n \in U
    <2>1. a * c \in Nat
      BY <1>1, <1>7
    <2>2. (a * c) * n \in Nat
      BY <2>1
    <2> QED  BY <1>1, <1>8, <2>2
  <1> QED  BY <1>5, <1>7, <1>8, <1>9 DEF a

\* An image the reader lets be decoded is one whose sizes are exact.
LEMMA SizesAreExact ==
    ASSUME NEW o, Planned(o), header = o.header, PixelRefusal = "ok"
    PROVE  Sized(o.plan) /\ TotalSamples(o.plan.geometry) <= Limits.total_samples
  <1> DEFINE p == o.plan
             g == p.geometry
             w == g.width
             h == g.height
             c == g.channels
             n == Greatest(p.bytes, 4)
  <1>1. /\ g \in Geometry /\ p.bytes \in {1, 2, 4, 8} /\ p.storage \in {"Planar", "Normal"}
        /\ p.implied_bytes = Implied(g, p.bytes)
        /\ header.geometry = g /\ header.bytes = p.bytes /\ header.decline = None
    BY DEF Planned
  <1>2. g # None /\ header.bytes # None
    BY <1>1, NoValueAssumption, NoneAssumption DEF Geometry
  <1>3. /\ ~ (TotalSamples(g) > Limits.total_samples) /\ CheckedMul(TotalSamples(g), n) # None
    BY <1>1, <1>2 DEF PixelRefusal, TooManySamples
  <1>4. w \in U \ {0} /\ h \in U \ {0} /\ c \in U \ {0} /\ n \in Nat /\ n >= 4 /\ p.bytes <= n
    BY <1>1 DEF Geometry, Greatest
  <1> HIDE DEF n
  <1>5. SaturatingMul(SaturatingMul(w, h), c) * n <= MaxU
    <2>1. SaturatingMul(SaturatingMul(w, h), c) * n \in U
      BY <1>3 DEF CheckedMul, Fit, TotalSamples
    <2> QED  BY <2>1, MaxUAssumption DEF U
  <1>6. /\ w * h \in U /\ (w * h) * c \in U /\ ((w * h) * c) * n \in U
        /\ TotalSamples(g) = (w * h) * c
    BY <1>4, <1>5, SamplesFit DEF TotalSamples
  <1> DEFINE t == (w * h) * c
             r == RowSamples(p)
             m == RowsIn(p)
             b == p.bytes
  <1>7. b \in Nat \ {0} /\ MaxU \in Nat \ {0} /\ U = 0 .. MaxU
    BY <1>1, MaxUAssumption DEF U
  <1>8. t * b \in U
    <2>1. t \in Nat
      BY <1>6, <1>7
    <2>2. b \in Nat /\ n \in Nat /\ b <= n /\ t * n \in U
      BY <1>4, <1>6, <1>7
    <2> HIDE DEF t, b
    <2>3. t * b <= t * n /\ t * b \in Nat /\ t * n \in Nat
      BY <2>1, <2>2, TimesMore
    <2> QED  BY <1>7, <2>2, <2>3
  <1>9. p.implied_bytes = t * b
    <2>1. CheckedMul(w, h) = w * h
      BY <1>4, <1>6, <1>7, NoneAssumption DEF CheckedMul, Fit
    <2>2. CheckedMul(w * h, c) = t
      BY <1>4, <1>6, <1>7, NoneAssumption DEF CheckedMul, Fit
    <2>3. CheckedMul(t, b) = t * b
      BY <1>6, <1>7, <1>8, NoneAssumption DEF CheckedMul, Fit
    <2>4. t * b # None
      BY <1>7, <1>8, NoneAssumption
    <2> QED  BY <1>1, <2>1, <2>2, <2>3, <2>4 DEF Implied
  <1>10. r \in Nat \ {0} /\ m \in Nat \ {0} /\ t = m * r
    <2>1. w \in Nat \ {0} /\ h \in Nat \ {0} /\ c \in Nat \ {0}
      BY <1>4, <1>7
    <2>2. CASE p.storage = "Planar"
      <3>1. r = w * 1 /\ m = h * c
        BY <2>2 DEF RowSamples, RowsIn
      <3>2. (w * h) * c = (h * c) * w /\ h * c \in Nat \ {0}
        BY <2>1
      <3> QED  BY <2>1, <3>1, <3>2
    <2>3. CASE p.storage = "Normal"
      <3>1. r = w * c /\ m = h * 1
        BY <2>3 DEF RowSamples, RowsIn
      <3>2. (w * h) * c = h * (w * c) /\ w * c \in Nat \ {0}
        BY <2>1
      <3> QED  BY <2>1, <3>1, <3>2
    <2> QED  BY <1>1, <2>2, <2>3
  <1> HIDE DEF t, r, m, b
  <1>11. r * b \in Nat \ {0} /\ t * b = m * (r * b)
    BY <1>7, <1>10
  <1>12. r * b \in U
    <2>1. r * b <= m * (r * b)
      BY <1>10, <1>11, TimesPositive
    <2> QED  BY <1>7, <1>8, <1>11, <2>1
  <1>13. RowLength(p) = r * b
    BY <1>7, <1>10, <1>12, NoneAssumption DEF RowLength, CheckedMul, Fit, r, b
  <1>14. Sized(p)
    BY <1>9, <1>10, <1>11, <1>13 DEF Sized, r, m, b
  <1>15. TotalSamples(g) <= Limits.total_samples
    BY <1>3, <1>6, <1>7, LimitsAssumption
  <1> QED  BY <1>14, <1>15

-----------------------------------------------------------------------------
(* A block held whole.                                                     *)

\* A compressed attachment is one whose pairs add up, streamed or not.
LEMMA AttachmentsConform ==
    ASSUME NEW o, Planned(o), o.plan.location.mode = "attachment", o.plan.compression # None
    PROVE  ConformingPlan(o.plan)
  <1> DEFINE p == o.plan
  <1>1. Placed(p) /\ PackedAs(p) /\ p.location.mode = "attachment" /\ p.implied_bytes \in U
    BY DEF Planned
  <1>2. p.location \in [mode : {"attachment"}, position : U, size : U]
    BY <1>1 DEF Placed
  <1>3. /\ p.location # None /\ p.location.position \in Nat /\ p.location.size \in Nat
        /\ p.implied_bytes \in Nat /\ U \subseteq Nat
    BY <1>1, <1>2, NoLocationAssumption, MaxUAssumption DEF U
  <1>4. StoredSize(p.location, p.materialized) = p.location.size
    BY <1>1, <1>3 DEF StoredSize
  <1>5. p.subblocks # None => /\ p.subblocks \in Seq(Nat \X Nat)
                              /\ SumsOf(p.subblocks) = <<p.location.size, p.implied_bytes>>
    <2> SUFFICES ASSUME p.subblocks # None
                 PROVE  /\ p.subblocks \in Seq(Nat \X Nat)
                        /\ SumsOf(p.subblocks) = <<p.location.size, p.implied_bytes>>
      OBVIOUS
    <2>1. /\ p.subblocks \in Seq(U \X U)
          /\ SumsOf(p.subblocks) = <<StoredSize(p.location, p.materialized), p.implied_bytes>>
      BY <1>1 DEF PackedAs
    <2>2. U \X U \subseteq Nat \X Nat
      BY <1>3
    <2> QED  BY <1>4, <2>1, <2>2
  <1>6. \A i \in 1 .. PairCount(p) : ConformingContent(p.contents[i], p.compression.codec)
    BY <1>1 DEF PackedAs
  <1> QED  BY <1>1, <1>3, <1>5, <1>6 DEF ConformingPlan

\* A plan that is streamed pair by pair is one whose pairs add up.
LEMMA StreamsConform ==
    ASSUME NEW o, Planned(o), IsStreamable(o.plan), o.plan.compression # None
    PROVE  ConformingPlan(o.plan)
  BY AttachmentsConform DEF IsStreamable

\* Every byte of the file among these is one of those.
Copies(bytes, stored) ==
    \A k \in DOMAIN bytes : bytes[k][1] = "file" => \E j \in DOMAIN stored : bytes[k] = stored[j]

\* What a resident pair decodes to, of the length it declares.
LEMMA OnePairDecodes ==
    ASSUME NEW kind, NEW content, NEW codec, ConformingContent(content, codec),
           NEW stored \in Seq(Byte), NEW len \in Nat,
           kind # "Compressed" => Len(stored) = len,
           DecodePair(kind, content, stored, len).res = "ok", kind \in {"Compressed", "Raw", "Probe"}
    PROVE  LET dst == DecodePair(kind, content, stored, len).dst IN
           dst \in Seq(Byte) /\ Len(dst) = len /\ Copies(dst, stored)
  <1> DEFINE attempt == DecompressOne(content, len)
             one == DecodePair(kind, content, stored, len)
  <1>1. /\ content.output \in Seq(Byte)
        /\ \A k \in DOMAIN content.output : content.output[k][1] # "file"
    BY DEF ConformingContent
  <1>2. /\ attempt.fault = (IF content.window THEN "Refused"
                            ELSE IF content.ends /\ Len(content.output) = len THEN "none"
                            ELSE "Corrupt")
        /\ attempt.dst = [k \in 1 .. len |->
                            IF content.window \/ k \notin DOMAIN content.output THEN Zero
                            ELSE content.output[k]]
    BY DEF DecompressOne
  <1>3. one = IF kind = "Raw" THEN Decoded("ok", stored)
              ELSE IF attempt.fault = "Refused" THEN Decoded("LimitExceeded", <<>>)
              ELSE IF attempt.fault = "none" THEN Decoded("ok", attempt.dst)
              ELSE IF kind = "Probe" THEN Decoded("ok", stored)
              ELSE Decoded("Malformed", <<>>)
    BY DEF DecodePair
  <1>4. one.res = "ok"
    OBVIOUS
  <1>5. Copies(stored, stored)
    BY DEF Copies
  <1>6. ASSUME attempt.fault = "none"
        PROVE  attempt.dst = content.output /\ Len(content.output) = len /\ Copies(attempt.dst, stored)
    <2>1. ~content.window /\ Len(content.output) = len
      BY <1>2, <1>6
    <2> HIDE DEF attempt
    <2>2. attempt.dst = content.output
      BY <1>1, <1>2, <2>1
    <2> QED  BY <1>1, <2>1, <2>2 DEF Copies
  <1> HIDE DEF attempt, one
  <1>7. \/ one.dst = stored /\ kind # "Compressed"
        \/ one.dst = attempt.dst /\ attempt.fault = "none"
    BY <1>3, <1>4 DEF Decoded
  <1>8. one.dst \in Seq(Byte) /\ Len(one.dst) = len /\ Copies(one.dst, stored)
    BY <1>1, <1>5, <1>6, <1>7
  <1> QED  BY <1>8 DEF one

\* A plan as though its block were the whole of a file: its pairs are the same.
AsFile(p) ==
    [location |-> [mode |-> "attachment", position |-> 0,
                   size |-> StoredSize(p.location, p.materialized)],
     materialized |-> None, subblocks |-> p.subblocks, implied_bytes |-> p.implied_bytes,
     compression |-> p.compression, contents |-> p.contents, reading |-> p.reading]

\* A block that conforms has the pairs it would have as the whole of a file.
LEMMA PairsOfFile ==
    ASSUME NEW o, Planned(o), o.plan.compression # None
    PROVE  /\ ConformingPlan(AsFile(o.plan)) /\ PairCount(AsFile(o.plan)) = PairCount(o.plan)
           /\ \A i \in 1 .. PairCount(o.plan) : PairOf(AsFile(o.plan), i) = PairOf(o.plan, i)
           /\ AsFile(o.plan).implied_bytes = o.plan.implied_bytes
  <1> DEFINE p == o.plan
             q == AsFile(p)
             size == StoredSize(p.location, p.materialized)
             place == [mode |-> "attachment", position |-> 0, size |-> size]
  <1>1. Placed(p) /\ PackedAs(p) /\ p.implied_bytes \in U /\ U \subseteq Nat
    BY MaxUAssumption DEF Planned, U
  <1>2. size \in Nat /\ size # None
    BY <1>1, StoredSizeReads, NoneAssumption
  <1>3. place # None /\ StoredSize(place, None) = size
    <2>1. place \in [mode : {"attachment"}, position : Nat, size : Nat]
      BY <1>2
    <2> HIDE DEF size
    <2>2. place # None
      BY <2>1, NoLocationAssumption
    <2> QED  BY <2>2 DEF StoredSize
  <1>4. /\ q.location = place /\ q.materialized = None /\ q.subblocks = p.subblocks
        /\ q.implied_bytes = p.implied_bytes /\ q.compression = p.compression
        /\ q.contents = p.contents
    BY DEF AsFile
  <1> HIDE DEF place, q
  <1>5. PairCount(q) = PairCount(p)
    BY <1>4 DEF PairCount
  <1>6. \A i : PairOf(q, i) = PairOf(p, i)
    <2>1. StoredSize(q.location, q.materialized) = size
      BY <1>3, <1>4
    <2> QED  BY <1>4, <2>1 DEF PairOf
  <1>7. p.subblocks # None => /\ p.subblocks \in Seq(Nat \X Nat)
                              /\ SumsOf(p.subblocks) = <<size, p.implied_bytes>>
    <2> SUFFICES ASSUME p.subblocks # None
                 PROVE  /\ p.subblocks \in Seq(Nat \X Nat)
                        /\ SumsOf(p.subblocks) = <<size, p.implied_bytes>>
      OBVIOUS
    <2>1. /\ p.subblocks \in Seq(U \X U) /\ SumsOf(p.subblocks) = <<size, p.implied_bytes>>
      BY <1>1 DEF PackedAs
    <2>2. U \X U \subseteq Nat \X Nat
      BY <1>1
    <2> QED  BY <2>1, <2>2
  <1>8. \A i \in 1 .. PairCount(p) : ConformingContent(p.contents[i], p.compression.codec)
    BY <1>1 DEF PackedAs
  <1>9. place.mode = "attachment" /\ place.position = 0 /\ place.size = size
    BY DEF place
  <1>10. ConformingPlan(q)
    <2>1. /\ q.location # None /\ q.location.mode = "attachment"
          /\ q.location.position \in Nat /\ q.location.size \in Nat
      BY <1>2, <1>3, <1>4, <1>9
    <2>2. q.implied_bytes \in Nat
      BY <1>1, <1>4
    <2>3. q.subblocks # None => /\ q.subblocks \in Seq(Nat \X Nat)
                                /\ SumsOf(q.subblocks) = <<q.location.size, q.implied_bytes>>
      BY <1>4, <1>7, <1>9
    <2>4. \A i \in 1 .. PairCount(q) : ConformingContent(q.contents[i], q.compression.codec)
      BY <1>4, <1>5, <1>8
    <2> QED  BY <2>1, <2>2, <2>3, <2>4, Zenon DEF ConformingPlan
  <1> QED  BY <1>4, <1>5, <1>6, <1>10 DEF q

\* The fold of decompress, with what each pair keeps.
DecodeClaim(c, k, s) ==
    /\ s = [res |-> s.res, at |-> s.at, dst |-> s.dst] /\ s.res # "Io"
    /\ s.res = "ok" => /\ s.at \in Nat /\ s.dst \in Seq(Byte)
                       /\ Len(s.dst) = Owes(AsFile(c[1]), k) /\ Copies(s.dst, c[2])
Decoding == INSTANCE Folding WITH Step <- DecodeStep, Claim <- DecodeClaim

\* Runs of bytes joined are as long as both.
LEMMA Joined ==
    \A a, b \in Seq(Byte) : a \o b \in Seq(Byte) /\ Len(a \o b) = Len(a) + Len(b)
  OBVIOUS

\* Bytes that copy two parts of a block copy the block.
LEMMA CopiesMore ==
    ASSUME NEW a \in Seq(Byte), NEW b \in Seq(Byte), NEW t \in Seq(Byte), NEW s \in Seq(Byte),
           Copies(a, s), Copies(b, t), \A k \in DOMAIN t : \E j \in DOMAIN s : t[k] = s[j]
    PROVE  Copies(a \o b, s)
  <1>1. Copies(b, s)
    BY DEF Copies
  <1>2. ASSUME NEW k \in DOMAIN (a \o b), (a \o b)[k][1] = "file"
        PROVE  \E j \in DOMAIN s : (a \o b)[k] = s[j]
    <2>1. CASE k \in DOMAIN a
      <3>1. (a \o b)[k] = a[k]
        BY <2>1
      <3> QED  BY <1>2, <2>1, <3>1 DEF Copies
    <2>2. CASE k \notin DOMAIN a
      <3>1. k - Len(a) \in DOMAIN b /\ (a \o b)[k] = b[k - Len(a)]
        BY <2>2
      <3> QED  BY <1>1, <1>2, <3>1 DEF Copies
    <2> QED  BY <2>1, <2>2
  <1> QED  BY <1>2, Zenon DEF Copies

\* One more pair decoded adds what it declares, of the block or of the codec.
LEMMA DecodeGoesOn ==
    ASSUME NEW o, Planned(o), o.plan.compression # None, NEW stored \in Seq(Byte),
           NEW i \in 1 .. PairCount(o.plan), NEW s, DecodeClaim(<<o.plan, stored>>, i - 1, s)
    PROVE  DecodeClaim(<<o.plan, stored>>, i, DecodeStep(<<o.plan, stored>>, s, i))
  <1> DEFINE p == o.plan
             c == <<p, stored>>
             q == AsFile(p)
             pair == PairOf(p, i)
             kind == Classify(pair, p.reading)
             piece == SubSeq(stored, s.at + 1, s.at + pair[1])
             one == DecodePair(kind, p.contents[i], piece, pair[2])
  <1>1. /\ ConformingPlan(q) /\ PairCount(q) = PairCount(p) /\ PairOf(q, i) = pair
    BY PairsOfFile
  <1>2. /\ pair[1] \in Nat /\ pair[2] \in Nat /\ Owes(q, i) = Owes(q, i - 1) + pair[2]
        /\ Owes(q, i - 1) \in Nat
    <2>1. i \in 1 .. PairCount(q) /\ i - 1 \in 0 .. PairCount(q)
      BY <1>1, PairsOf
    <2> QED  BY <1>1, <2>1, PairsOf, OwesGrows
  <1>3. ConformingContent(p.contents[i], p.compression.codec)
    BY DEF Planned, PackedAs
  <1>4. kind \in {"Compressed", "Raw", "Probe"} /\ (kind # "Compressed" => pair[1] = pair[2])
    BY DEF Classify
  <1>5. c[1] = p /\ c[2] = stored
    OBVIOUS
  <1> HIDE DEF c, q, pair, kind
  <1>6. CASE s.res # "ok"
    BY <1>5, <1>6 DEF DecodeStep, DecodeClaim, c
  <1>7. CASE s.res = "ok" /\ (s.at + pair[1] > Len(stored) \/ Len(s.dst) + pair[2] > p.implied_bytes)
    <2>1. DecodeStep(c, s, i) = [s EXCEPT !.res = "Malformed"]
      BY <1>5, <1>7 DEF DecodeStep, DecodeNext, pair
    <2>2. s = [res |-> s.res, at |-> s.at, dst |-> s.dst]
      BY DEF DecodeClaim
    <2>3. DecodeStep(c, s, i) = [res |-> "Malformed", at |-> s.at, dst |-> s.dst]
      BY <2>1, <2>2
    <2> HIDE DEF c
    <2> QED  BY <2>3 DEF DecodeClaim, c
  <1>8. CASE s.res = "ok" /\ ~ (s.at + pair[1] > Len(stored) \/ Len(s.dst) + pair[2] > p.implied_bytes)
    <2>1. DecodeStep(c, s, i) = [res |-> one.res, at |-> s.at + pair[1], dst |-> s.dst \o one.dst]
      BY <1>5, <1>8 DEF DecodeStep, DecodeNext, pair, kind
    <2>2. /\ s.at \in Nat /\ s.dst \in Seq(Byte) /\ Len(s.dst) = Owes(q, i - 1)
          /\ Copies(s.dst, stored)
      BY <1>5, <1>8 DEF DecodeClaim, q, c
    <2>3. s.at + pair[1] <= Len(stored)
      BY <1>2, <1>8, <2>2
    <2>4. /\ piece \in Seq(Byte) /\ Len(piece) = pair[1]
          /\ \A k \in DOMAIN piece : \E j \in DOMAIN stored : piece[k] = stored[j]
      <3> DEFINE at == s.at
                 m == pair[1]
      <3>1. at \in Nat /\ m \in Nat /\ at + m <= Len(stored) /\ piece = SubSeq(stored, at + 1, at + m)
        BY <1>2, <2>2, <2>3
      <3> HIDE DEF at, m, piece
      <3>2. /\ piece \in Seq(Byte) /\ Len(piece) = m /\ DOMAIN piece = 1 .. m
            /\ \A k \in 1 .. m : piece[k] = stored[at + k] /\ at + k \in DOMAIN stored
        BY <3>1, PartOf
      <3> QED  BY <3>2 DEF m
    <2> HIDE DEF piece
    <2>5. ASSUME one.res = "ok"
          PROVE  one.dst \in Seq(Byte) /\ Len(one.dst) = pair[2] /\ Copies(one.dst, piece)
      BY <1>2, <1>3, <1>4, <2>4, <2>5, OnePairDecodes
    <2>11. one.res # "Io"
      BY DEF DecodePair, Decoded
    <2> HIDE DEF one
    <2>6. ASSUME one.res = "ok"
          PROVE  /\ s.dst \o one.dst \in Seq(Byte) /\ Len(s.dst \o one.dst) = Owes(q, i)
                 /\ Copies(s.dst \o one.dst, stored)
      <3>1. Copies(s.dst \o one.dst, stored)
        BY <2>2, <2>4, <2>5, <2>6, CopiesMore
      <3>2. s.dst \o one.dst \in Seq(Byte) /\ Len(s.dst \o one.dst) = Len(s.dst) + Len(one.dst)
        BY <2>2, <2>5, <2>6, Joined
      <3> QED  BY <1>2, <2>2, <2>5, <2>6, <3>1, <3>2
    <2> DEFINE more == s.dst \o one.dst
               past == s.at + pair[1]
               t == DecodeStep(c, s, i)
    <2>7. t = [res |-> one.res, at |-> past, dst |-> more]
      BY <2>1
    <2>8. past \in Nat
      BY <1>2, <2>2
    <2>9. one.res = "ok" => more \in Seq(Byte) /\ Len(more) = Owes(AsFile(c[1]), i) /\ Copies(more, c[2])
      BY <1>5, <2>6 DEF q
    <2> HIDE DEF more, past, t
    <2>10. DecodeClaim(c, i, t)
      BY <2>7, <2>8, <2>9, <2>11 DEF DecodeClaim
    <2> QED  BY <2>10 DEF t, c
  <1> QED  BY <1>6, <1>7, <1>8 DEF c

\* decompress gives the block its pairs declare, of bytes the codec made or the block stores.
LEMMA DecompressedFits ==
    ASSUME NEW o, Planned(o), o.plan.compression # None, NEW stored \in Seq(Byte)
    PROVE  LET made == Decompress(o.plan, stored) IN
           /\ made.res # "Io"
           /\ made.res = "ok" => /\ made.dst \in Seq(Byte) /\ Len(made.dst) = o.plan.implied_bytes
                                 /\ Copies(made.dst, stored)
  <1> DEFINE p == o.plan
             c == <<p, stored>>
             q == AsFile(p)
             n == PairCount(p)
             numbers == [i \in 1 .. n |-> i]
             none == [res |-> "ok", at |-> 0, dst |-> <<>>]
  <1>1. /\ ConformingPlan(q) /\ PairCount(q) = n /\ q.implied_bytes = p.implied_bytes
    BY PairsOfFile
  <1>2. n \in Nat /\ Owes(q, 0) = 0 /\ Owes(q, n) = p.implied_bytes
    BY <1>1, PairsOf, OwesGrows, PairsTile
  <1>3. DecodeClaim(c, 0, none)
    <2>1. c[1] = p /\ <<>> \in Seq(Byte) /\ Len(<<>>) = 0 /\ Copies(<<>>, c[2])
      BY DEF Copies
    <2> HIDE DEF c
    <2> QED  BY <1>2, <2>1 DEF DecodeClaim
  <1>4. \A i \in 1 .. n : \A s : DecodeClaim(c, i - 1, s) => DecodeClaim(c, i, DecodeStep(c, s, numbers[i]))
    BY DecodeGoesOn
  <1>5. DOMAIN numbers = 1 .. n
    OBVIOUS
  <1>6. Decompress(p, stored) = Decoding!Fold(c, none, numbers)
    <2>1. c[1] = p /\ c[2] = stored
      OBVIOUS
    <2> HIDE DEF c
    <2>2. Decompress(c[1], c[2]) = Decoding!Fold(c, none, [i \in 1 .. PairCount(c[1]) |-> i])
      BY Zenon DEF Decompress, DecodeStep, FoldLeft, MapThenFoldSet, Max,
                Decoding!Fold, Decoding!Iterates, Decoding!Largest
    <2> QED  BY <2>1, <2>2
  <1>7. c[1] = p /\ c[2] = stored
    OBVIOUS
  <1> HIDE DEF numbers, n, none, c
  <1>8. DecodeClaim(c, n, Decoding!Fold(c, none, numbers))
    BY <1>2, <1>3, <1>4, <1>5, Decoding!FoldKeeps
  <1> QED  BY <1>2, <1>6, <1>7, <1>8 DEF DecodeClaim

\* What the pipeline gives is the block its plan implies, verified.
LEMMA PipelineFits ==
    ASSUME NEW o, Planned(o), NEW stored \in Seq(Byte)
    PROVE  LET result == Pipeline(o.plan, stored) IN
           /\ result.res # "Io"
           /\ result.res = "ok" =>
                 /\ result.dst \in Seq(Byte) /\ Len(result.dst) = o.plan.implied_bytes
                 /\ Copies(result.dst, stored)
                 /\ o.plan.checksum # None => Verify(o.plan.checksum) = "ok"
                 /\ o.plan.compression = None => Len(stored) = o.plan.implied_bytes
  <1> DEFINE p == o.plan
             verdict == IF p.checksum = None THEN "ok" ELSE Verify(p.checksum)
             sums == IF p.subblocks = None THEN "ok"
                     ELSE CheckSubblockSums(p.subblocks, Len(stored), p.implied_bytes)
             made == Decompress(p, stored)
             result == Pipeline(p, stored)
  <1>1. result = IF verdict # "ok" THEN Decoded(verdict, <<>>)
                 ELSE IF p.compression = None
                 THEN IF Len(stored) = p.implied_bytes THEN Decoded("ok", stored)
                      ELSE Decoded("Malformed", <<>>)
                 ELSE IF sums # "ok" THEN Decoded(sums, <<>>)
                 ELSE Decoded(made.res, made.dst)
    BY DEF Pipeline
  <1>2. \A r, d : Decoded(r, d).res = r /\ Decoded(r, d).dst = d
    BY DEF Decoded
  <1>3. p.compression # None =>
           /\ made.res # "Io"
           /\ made.res = "ok" => /\ made.dst \in Seq(Byte) /\ Len(made.dst) = p.implied_bytes
                                 /\ Copies(made.dst, stored)
    BY DecompressedFits
  <1>4. Copies(stored, stored)
    BY DEF Copies
  <1>5. verdict # "Io" /\ sums # "Io"
    BY DEF Verify, CheckSubblockSums
  <1>6. verdict = "ok" => (p.checksum # None => Verify(p.checksum) = "ok")
    OBVIOUS
  <1> HIDE DEF sums, made, result, verdict
  <1>7. CASE verdict # "ok"
    BY <1>1, <1>2, <1>5, <1>7 DEF result
  <1>8. CASE verdict = "ok" /\ p.compression = None
    BY <1>1, <1>2, <1>4, <1>6, <1>8 DEF result
  <1>9. CASE verdict = "ok" /\ p.compression # None
    BY <1>1, <1>2, <1>3, <1>5, <1>6, <1>9 DEF result
  <1> QED  BY <1>7, <1>8, <1>9

-----------------------------------------------------------------------------
(* The occurrences of a source.                                            *)

\* An occurrence as the constructor leaves it: one with a plan has it from its document, and
\* an attachment lies past the header.
Stands(u, o) ==
    /\ o = [header |-> o.header, plan |-> o.plan]
    /\ o.plan # None =>
          /\ Planned(o)
          /\ o.plan.location.mode = "attachment" =>
                PREAMBLE + u.declared <= o.plan.location.position

\* A declined occurrence has no plan left to decode.
LEMMA DeclinedHasNoPlan ==
    ASSUME NEW o, o = [header |-> o.header, plan |-> o.plan], NEW class
    PROVE  /\ Declined(o, class).plan = None
           /\ Declined(o, class) = [header |-> Declined(o, class).header, plan |-> None]
  <1> DEFINE d == Declined(o, class)
  <1>1. d.plan = None
    BY DEF Declined
  <1>2. d = [f \in {"header", "plan"} |-> d[f]]
    BY Zenon DEF Declined
  <1> HIDE DEF d
  <1>3. d = [header |-> d.header, plan |-> d.plan]
    BY <1>2
  <1> QED  BY <1>1, <1>3 DEF d

\* The constructor leaves occurrences that stand, one past the cap at most.
LEMMA OccurrencesStand ==
    ASSUME NEW u \in Units
    PROVE  LET all == Construct(u).out IN
           /\ Len(all) \in 0 .. Limits.images_per_source + 1 /\ DOMAIN all = 1 .. Len(all)
           /\ \A i \in DOMAIN all : Stands(u, all[i])
  <1> DEFINE walked == WalkOccurrences(u.doc)
             n == Len(walked.out)
             apart == RefuseAttachmentsInsideTheHeader(walked.out, u)
             all == Construct(u).out
             last == VerifyMaterializedBlocks(apart).out
  <1>1. Walked(walked)
    BY WalkEndsWell, DocsAssumption
  <1>2. PICK S : AllPlanned(S) /\ walked.out \in Seq(S)
    BY <1>1 DEF Walked
  <1>3. n \in 0 .. Limits.images_per_source + 1 /\ DOMAIN walked.out = 1 .. n /\ n \in Nat
    BY <1>1, <1>2, OneCapAssumption DEF Walked
  <1>4. \A i \in 1 .. n : /\ walked.out[i] = [header |-> walked.out[i].header, plan |-> walked.out[i].plan]
                          /\ walked.out[i].plan # None => Planned(walked.out[i])
    BY <1>2, <1>3 DEF AllPlanned
  <1>5. u.declared \in Nat /\ PREAMBLE \in Nat
    BY UnitsAssumption, HeaderAssumption
  <1> HIDE DEF walked, n
  <1>6. DOMAIN apart = 1 .. n /\ \A i \in 1 .. n : Stands(u, apart[i])
    <2> SUFFICES ASSUME NEW i \in 1 .. n PROVE Stands(u, apart[i])
      BY <1>3 DEF RefuseAttachmentsInsideTheHeader
    <2> DEFINE o == walked.out[i]
    <2>1. apart[i] = IF /\ o.plan # None /\ o.plan.location.mode = "attachment"
                        /\ o.plan.location.position < PREAMBLE + u.declared
                     THEN Declined(o, "Malformed") ELSE o
      BY <1>3 DEF RefuseAttachmentsInsideTheHeader
    <2>2. o = [header |-> o.header, plan |-> o.plan] /\ (o.plan # None => Planned(o))
      BY <1>4
    <2> HIDE DEF o
    <2>3. CASE apart[i] = Declined(o, "Malformed")
      BY <2>2, <2>3, DeclinedHasNoPlan DEF Stands
    <2>4. CASE /\ apart[i] = o
               /\ ~ /\ o.plan # None /\ o.plan.location.mode = "attachment"
                    /\ o.plan.location.position < PREAMBLE + u.declared
      <3>1. o.plan # None /\ o.plan.location.mode = "attachment" => o.plan.location.position \in Nat
        <4>1. U \subseteq Nat
          BY MaxUAssumption DEF U
        <4> QED  BY <2>2, <4>1, PlacesRead DEF Planned
      <3> QED  BY <1>5, <2>2, <2>4, <3>1 DEF Stands
    <2> QED  BY <2>1, <2>3, <2>4
  <1> HIDE DEF apart
  <1>7. DOMAIN last = 1 .. n /\ \A i \in 1 .. n : Stands(u, last[i])
    <2>1. last = [i \in 1 .. n |-> IF Verified(apart[i]) = "Unsupported"
                                   THEN Declined(apart[i], "Unsupported") ELSE apart[i]]
      BY <1>6 DEF VerifyMaterializedBlocks
    <2> SUFFICES ASSUME NEW i \in 1 .. n PROVE Stands(u, last[i])
      BY <2>1
    <2>2. last[i] = Declined(apart[i], "Unsupported") \/ last[i] = apart[i]
      BY <2>1
    <2>3. Stands(u, apart[i]) /\ apart[i] = [header |-> apart[i].header, plan |-> apart[i].plan]
      BY <1>6 DEF Stands
    <2>4. Stands(u, Declined(apart[i], "Unsupported"))
      BY <2>3, DeclinedHasNoPlan DEF Stands
    <2> QED  BY <2>2, <2>3, <2>4
  <1> HIDE DEF last
  <1>8. all = <<>> \/ all = last
    <2>1. Construct(u) \in {Fails(u.parse), Fails("Malformed"), Fails("Unsupported"), Fails(walked.res)}
          \/ Construct(u) = VerifyMaterializedBlocks(apart)
      BY DEF Construct, Settle, walked, apart
    <2>2. \A res : Fails(res).out = <<>>
      BY DEF Fails
    <2> QED  BY <2>1, <2>2 DEF last
  <1>9. CASE all = <<>>
    <2>1. Len(<<>>) = 0 /\ DOMAIN <<>> = 1 .. 0 /\ Limits.images_per_source \in Nat
      BY LimitsAssumption
    <2> HIDE DEF all
    <2> QED  BY <1>9, <2>1 DEF all
  <1>10. CASE all = last
    <2>1. Len(last) = n
      BY <1>3, <1>7
    <2> QED  BY <1>3, <1>7, <1>10, <2>1
  <1> QED  BY <1>8, <1>9, <1>10

-----------------------------------------------------------------------------
(* The samples of a row.                                                   *)

\* None of these bytes is the file's preamble or header, or from past its end.
Clean(bytes) ==
    \A k \in DOMAIN bytes :
        bytes[k][1] = "file" => bytes[k][2] \in PREAMBLE + unit.declared .. length - 1

CleanRun(from) == \A x \in DOMAIN from : Clean(from[x])

\* Every byte of a run whose row is in range is one that is resident.
LEMMA RunStaysInside ==
    ASSUME NEW first \in Nat, NEW stride \in Nat, NEW width \in Nat, NEW bytes \in Nat,
           NEW origin \in Nat, NEW held \in Nat, first * bytes >= origin,
           (first + (width - 1) * stride) * bytes + bytes - 1 < origin + held,
           NEW x \in 1 .. width, NEW k \in 1 .. bytes
    PROVE  (first + (x - 1) * stride) * bytes - origin + k - 1 \in 0 .. held - 1
  <1> DEFINE far == (width - 1) * stride
             here == (x - 1) * stride
             a == (first + here) * bytes
             b == (first + far) * bytes
             c == first * bytes
  <1>1. x - 1 \in Nat /\ width - 1 \in Nat /\ x - 1 <= width - 1
    OBVIOUS
  <1>2. far \in Nat /\ here \in Nat /\ here <= far
    BY <1>1, TimesMore
  <1> HIDE DEF far, here
  <1>3. a \in Nat /\ b \in Nat /\ c \in Nat
    BY <1>2
  <1>4. c <= a
    <2>1. first + here \in Nat /\ first <= first + here
      BY <1>2
    <2> QED  BY <2>1, TimesMore
  <1>5. a <= b
    <2>1. first + here \in Nat /\ first + far \in Nat /\ first + here <= first + far
      BY <1>2
    <2> QED  BY <2>1, TimesMore
  <1>6. c >= origin /\ b + bytes - 1 < origin + held
    BY DEF far
  <1> HIDE DEF a, b, c
  <1>7. a - origin + k - 1 \in 0 .. held - 1
    BY <1>3, <1>4, <1>5, <1>6
  <1> QED  BY <1>7 DEF a, here

\* Where a run of an image lies, in numbers.
LEMMA RunIsPlaced ==
    ASSUME NEW o, Planned(o), NEW p, p.plan = o.plan, NEW channel \in Nat, NEW row \in Nat
    PROVE  LET run == RunOf(p, channel, row) IN
           run.first \in Nat /\ run.stride \in Nat /\ run.row_base \in Nat
  <1> DEFINE g == p.plan.geometry
             w == g.width
             h == g.height
             n == g.channels
             b == p.plan.bytes
  <1>1. w \in Nat /\ h \in Nat /\ n \in Nat /\ b \in Nat
    BY MaxUAssumption DEF Planned, Geometry, U
  <1>2. RunOf(p, channel, row) =
           IF p.plan.storage = "Planar"
           THEN [first |-> (channel * h + row) * w, stride |-> 1,
                 row_base |-> (channel * h + row) * w * b]
           ELSE [first |-> row * w * n + channel, stride |-> n, row_base |-> row * w * n * b]
    BY DEF RunOf
  <1> HIDE DEF w, h, n, b
  <1>3. (channel * h + row) \in Nat /\ row * w \in Nat
    BY <1>1
  <1>4. (channel * h + row) * w \in Nat /\ row * w * n \in Nat
    BY <1>1, <1>3
  <1>5. (channel * h + row) * w * b \in Nat /\ row * w * n * b \in Nat /\ row * w * n + channel \in Nat
    BY <1>1, <1>4
  <1> QED  BY <1>1, <1>2, <1>4, <1>5

\* Byte k of sample x of a run, both from 1, in the resident bytes.
ByteIn(p, channel, row, x, k) ==
    LET run == RunOf(p, channel, row) IN
    (run.first + (x - 1) * run.stride) * p.plan.bytes
        - (IF p.whole = None THEN run.row_base ELSE 0) + k - 1

\* A row that decodes is made of resident bytes, each where the plan places it.
LEMMA RowDecodes ==
    ASSUME NEW o, Planned(o), NEW p \in PixelStates(o.plan),
           NEW channel \in Nat, NEW row \in Nat, DecodeRow(p, channel, row).res = "ok"
    PROVE  LET width == p.plan.geometry.width
               bytes == p.plan.bytes
           IN  /\ Held(p) \in Seq(Byte)
               /\ DecodeRow(p, channel, row).value =
                     [x \in 1 .. width |->
                        Sample(p.plan, [k \in 1 .. bytes |-> ByteAt(p, ByteIn(p, channel, row, x, k))])]
               /\ \A x \in 1 .. width : \A k \in 1 .. bytes :
                     /\ ByteIn(p, channel, row, x, k) \in 0 .. Len(Held(p)) - 1
                     /\ \E j \in DOMAIN Held(p) : ByteAt(p, ByteIn(p, channel, row, x, k)) = Held(p)[j]
  <1> DEFINE run == RunOf(p, channel, row)
             origin == IF p.whole = None THEN run.row_base ELSE 0
             held == Held(p)
             width == p.plan.geometry.width
             bytes == p.plan.bytes
             At(x, k) == ByteIn(p, channel, row, x, k)
             value == [x \in 1 .. width |-> Sample(p.plan, [k \in 1 .. bytes |-> ByteAt(p, At(x, k))])]
  <1>0. \A x, k : At(x, k) = (run.first + (x - 1) * run.stride) * bytes - origin + k - 1
    BY DEF ByteIn
  <1>1. DecodeRow(p, channel, row) =
           IF ~RowInRange(p, run, origin) THEN Refuse("Malformed") ELSE Accept(value)
    BY Zenon DEF DecodeRow, ByteIn
  <1>2. p.plan = o.plan
    BY DEF PixelStates
  <1>3. /\ run.first \in Nat /\ run.stride \in Nat /\ run.row_base \in Nat /\ origin \in Nat
        /\ width \in Nat /\ bytes \in Nat
    <2>1. run.first \in Nat /\ run.stride \in Nat /\ run.row_base \in Nat
      BY <1>2, RunIsPlaced
    <2>2. width \in Nat /\ bytes \in Nat
      BY <1>2, MaxUAssumption DEF Planned, Geometry, U
    <2> HIDE DEF run
    <2> QED  BY <2>1, <2>2
  <1>4. held \in Seq(Byte) /\ Len(held) \in Nat
    BY DEF Held, PixelStates, Option
  <1> HIDE DEF run, origin, value, At
  <1>5. RowInRange(p, run, origin) /\ DecodeRow(p, channel, row).value = value
    BY <1>1 DEF Refuse, Accept
  <1>6. ASSUME NEW x \in 1 .. width, NEW k \in 1 .. bytes
        PROVE  /\ At(x, k) \in 0 .. Len(held) - 1
               /\ \E j \in DOMAIN held : ByteAt(p, At(x, k)) = held[j]
    <2> DEFINE at == At(x, k)
    <2>1. /\ run.first * bytes >= origin
          /\ (run.first + (width - 1) * run.stride) * bytes + bytes - 1 < origin + Len(held)
      BY <1>5 DEF RowInRange
    <2>2. at \in 0 .. Len(held) - 1
      BY <1>0, <1>3, <1>4, <2>1, RunStaysInside
    <2> HIDE DEF at
    <2> DEFINE c == p.plan.compression
               there == IF c # None /\ c.shuffled THEN UnshuffledIndex(Len(held), c.item_size, at)
                        ELSE at
    <2>3. ByteAt(p, at) = held[1 + there]
      BY DEF ByteAt
    <2>4. there \in 0 .. Len(held) - 1
      <3>1. c # None /\ c.shuffled => c.item_size \in Nat
        BY <1>2, MaxUAssumption DEF Planned, PackedAs, Compressions, Option, U
      <3> QED  BY <1>4, <2>2, <3>1, UnshufflingPermutes
    <2> HIDE DEF there
    <2>5. 1 + there \in DOMAIN held
      BY <1>4, <2>4
    <2> QED  BY <2>2, <2>3, <2>5 DEF at
  <1> HIDE DEF held
  <1> QED  BY <1>4, <1>5, <1>6 DEF value, At, held

\* A row decoded from clean bytes is clean.
LEMMA DecodedClean ==
    ASSUME NEW o, Planned(o), NEW p \in PixelStates(o.plan), Clean(Held(p)),
           NEW channel \in Nat, NEW row \in Nat, DecodeRow(p, channel, row).res = "ok"
    PROVE  CleanRun(DecodeRow(p, channel, row).value)
  <1> DEFINE held == Held(p)
             width == p.plan.geometry.width
             bytes == p.plan.bytes
             Byte1(x, k) == ByteAt(p, ByteIn(p, channel, row, x, k))
             value == [x \in 1 .. width |-> Sample(p.plan, [k \in 1 .. bytes |-> Byte1(x, k)])]
  <1>1. /\ DecodeRow(p, channel, row).value = value
        /\ \A x \in 1 .. width : \A k \in 1 .. bytes : \E j \in DOMAIN held : Byte1(x, k) = held[j]
    BY RowDecodes
  <1>2. bytes \in Nat
    BY DEF PixelStates, Planned
  <1> HIDE DEF held, Byte1, bytes
  <1>3. ASSUME NEW x \in 1 .. width
        PROVE  Clean(Sample(p.plan, [k \in 1 .. bytes |-> Byte1(x, k)]))
    <2> DEFINE b == [k \in 1 .. bytes |-> Byte1(x, k)]
    <2>1. DOMAIN b = 1 .. bytes /\ \A k \in 1 .. bytes : \E j \in DOMAIN held : b[k] = held[j]
      BY <1>1
    <2> HIDE DEF b
    <2>2. Clean(b)
      BY <2>1 DEF Clean, held
    <2>3. Clean(Reverse(b))
      <3>1. Len(b) = bytes
        BY <1>2, <2>1
      <3>2. DOMAIN Reverse(b) = 1 .. bytes /\ \A k \in 1 .. bytes : Reverse(b)[k] = b[(bytes - k) + 1]
        BY <3>1 DEF Reverse
      <3>3. \A k \in 1 .. bytes : (bytes - k) + 1 \in 1 .. bytes
        BY <1>2
      <3> QED  BY <2>1, <2>2, <3>2, <3>3 DEF Clean
    <2>4. Clean(Sample(p.plan, b))
      BY <2>2, <2>3 DEF Sample
    <2> QED  BY <2>4 DEF b
  <1> QED  BY <1>1, <1>3 DEF CleanRun

-----------------------------------------------------------------------------
(* The invariant.                                                          *)

\* A block begin_pixels lets be decoded: what will be held of it stays under the cap.
Fits(plan) ==
    /\ Sized(plan) /\ RowLength(plan) <= Limits.materialized_bytes
    /\ ~IsStreamable(plan) => plan.implied_bytes <= Limits.materialized_bytes
    /\ plan.compression # None => SizesAgree(plan)

\* A block of the size its image implies whose digest, if it has one, was found to be that of
\* its bytes.
Vouched(plan) == SizesAgree(plan) /\ (plan.checksum # None => Verify(plan.checksum) = "ok")

\* The occurrences are those of the unit, and the header is that of the one sat on.
Grounded ==
    /\ unit \in Units /\ length \in unit.lengths /\ pos \in Nat /\ faults \in 0 .. MaxFaults
    /\ occurrences \in {<<>>, Construct(unit).out}
    /\ occurrences # <<>> => unit.declared <= XisfLimits.xml_header_bytes
    /\ next \in 0 .. Len(occurrences) /\ current \in Option(1 .. next)
    /\ header = (IF current = None THEN None ELSE occurrences[current].header)
    /\ pixels_read \in BOOLEAN

Beginning == {"begin_pixels", "begin_walk"}
Filling == {"fill", "end_pair", "open_pair", "finish"}
Chunking == {"next_chunk"} \cup Filling
Apart == {"build", "refused", "abandon", "next_image"}

\* Who may be where: what a call has checked before it comes to a point.
Disciplined ==
    /\ phase \in {"header", "pixel"} /\ cursor \in {"none", "pull", "push", "samples", "image"}
    /\ selected_channel \in Option(0 .. MaxChannel)
    /\ pixels_started \in BOOLEAN /\ pixels_failed \in BOOLEAN
    /\ pc \in {"idle"} \cup Apart \cup Beginning \cup Chunking
    /\ cursor # "none" \/ pixels_started => phase = "pixel"
    /\ pc = "build" => next = 0 /\ current = None /\ pixels = None
    /\ pc \in Apart => cursor = "none"
    /\ pc \in {"build", "next_image"} => ~pixels_started /\ selected_channel = None /\ stream = <<>>
    /\ pc \in Beginning => /\ cursor # "none" /\ ~pixels_started /\ ~pixels_failed
                           /\ PixelRefusal = "ok"
    /\ pc \in Chunking => cursor # "none" /\ pixels_started /\ ~pixels_failed
    /\ pc = "begin_walk" => Plan # None /\ Fits(Plan) /\ IsStreamable(Plan) /\ Plan.compression # None
    /\ pixels_started => PixelRefusal = "ok" /\ Plan # None /\ Fits(Plan) /\ Vouched(Plan)
    /\ stream # <<>> => pixels_started
    /\ cursor = "samples" => ~OverOutputCap(header.bytes)
    /\ cursor = "image" => ~OverOutputCap(4)
    /\ selected_channel # None =>
          header # None /\ header.geometry # None /\ ~ (selected_channel >= header.geometry.channels)

\* A decode, under way or left behind: what is resident of its block, and no more than that.
Sits(p) ==
    /\ p \in PixelStates(p.plan) /\ p.plan # None /\ Fits(p.plan)
    /\ \E i \in DOMAIN occurrences : p.plan = occurrences[i].plan
    /\ p.chunks_done <= p.chunks_total
    /\ Len(p.raw) <= RowLength(p.plan) /\ Clean(p.raw)
    /\ p.whole = None => IsStreamable(p.plan)
    /\ p.whole # None => /\ ~IsStreamable(p.plan)
                         /\ Len(p.whole) = p.plan.implied_bytes /\ Clean(p.whole)
    /\ WholeUnderCap(p.plan, p.whole)
    /\ p.walk.index <= PairCount(p.plan) /\ HeldUnderCap(p.plan, p.walk)

PixelsHeld == pixels # None => Sits(pixels)

\* The row of the chunk just counted is in hand.
InHand(p) ==
    LET c == CursorAt(p, p.chunks_done - 1) IN
    p.chunks_done # 0 /\ DecodeRow(p, c.channel, c.row).res = "ok"

\* At a point of a compressed stream: the walk has told the rows before, the bytes b, and what
\* is in hand of the row wanted; past the last row it has told the whole block.
Told(p, at, b) ==
    LET done == b \o p.raw
        size == RowLength(p.plan)
        more == p.chunks_done < p.chunks_total
    IN  /\ at \notin Filling /\ more =>
              Tells(p.plan, p.walk, done) /\ Len(done) = p.stream_row * size
        /\ at = "fill" => Tells(p.plan, p.walk, done) /\ more
        /\ at \in {"end_pair", "finish"} => Tells(p.plan, p.walk, done) /\ p.walk.owed = 0
        /\ at = "open_pair" => Between(p.plan, p.walk, done)
        /\ at \in Filling /\ more => Len(b) = p.stream_row * size /\ Len(p.raw) < size
        /\ at = "finish" => ~more
        /\ at \in Filling /\ ~more => InHand(p) /\ Len(done) = p.plan.implied_bytes

Underway ==
    pixels_started /\ ~pixels_failed =>
        /\ pixels # None /\ pixels.plan = Plan /\ pixels.selected = selected_channel
        /\ pc \in Filling => Compressed /\ pixels.whole = None
        /\ Compressed /\ pixels.whole = None => \E b \in Seq(Byte) : Told(pixels, pc, b)

Delivered == \E T : stream \in Seq(T) /\ \A t \in T : CleanRun(t.from)

RInv == Grounded /\ Disciplined /\ PixelsHeld /\ Underway /\ Delivered

-----------------------------------------------------------------------------
(* What the invariant says of a state.                                     *)

\* The source has its type, and every occurrence stands.
LEMMA GroundFacts ==
    ASSUME Grounded
    PROVE  /\ SourceType /\ unit \in Units /\ unit.declared \in Nat
           /\ Len(occurrences) \in 0 .. Limits.images_per_source + 1
           /\ DOMAIN occurrences = 1 .. Len(occurrences)
           /\ \A i \in DOMAIN occurrences : Stands(unit, occurrences[i])
           /\ current # None => current \in DOMAIN occurrences /\ current \in Nat
  <1>1. unit \in Units /\ length \in unit.lengths /\ pos \in Nat /\ faults \in 0 .. MaxFaults
    BY DEF Grounded
  <1>2. SourceType /\ unit.declared \in Nat
    BY <1>1, UnitsAssumption, MaxFaultsAssumption DEF SourceType
  <1>3. /\ Len(occurrences) \in 0 .. Limits.images_per_source + 1
        /\ DOMAIN occurrences = 1 .. Len(occurrences)
        /\ \A i \in DOMAIN occurrences : Stands(unit, occurrences[i])
    <2>1. CASE occurrences = <<>>
      <3>1. Len(<<>>) = 0 /\ DOMAIN <<>> = 1 .. 0 /\ Limits.images_per_source \in Nat
        BY LimitsAssumption
      <3> QED  BY <2>1, <3>1
    <2>2. CASE occurrences = Construct(unit).out
      BY <1>1, <2>2, OccurrencesStand
    <2> QED  BY <2>1, <2>2 DEF Grounded
  <1>4. current # None => current \in 1 .. next /\ next \in 0 .. Len(occurrences)
    BY DEF Grounded, Option
  <1>5. Len(occurrences) \in Nat
    BY <1>3, LimitsAssumption
  <1> QED  BY <1>1, <1>2, <1>3, <1>4, <1>5

\* An image that may be decoded is one the reader sits on.
LEMMA RefusalFacts ==
    ASSUME Grounded, PixelRefusal = "ok"
    PROVE  /\ current \in DOMAIN occurrences /\ header = occurrences[current].header
           /\ Plan # None => /\ Planned(occurrences[current]) /\ Plan = occurrences[current].plan
                             /\ Sized(Plan) /\ TotalSamples(header.geometry) <= Limits.total_samples
                             /\ header.geometry = Plan.geometry /\ header.bytes \in {1, 2, 4, 8}
                             /\ Plan.geometry \in Geometry
  <1>1. header # None
    BY DEF PixelRefusal
  <1>2. current # None /\ header = occurrences[current].header
    BY <1>1 DEF Grounded
  <1>3. current \in DOMAIN occurrences /\ Stands(unit, occurrences[current])
    BY <1>2, GroundFacts
  <1>4. ASSUME Plan # None
        PROVE  /\ Planned(occurrences[current]) /\ Sized(Plan)
               /\ TotalSamples(Plan.geometry) <= Limits.total_samples
    <2>1. Planned(occurrences[current])
      BY <1>3, <1>4 DEF Stands, Plan
    <2> QED  BY <1>2, <2>1, SizesAreExact DEF Plan
  <1> QED  BY <1>2, <1>3, <1>4 DEF Plan, Planned

\* The plan of a decode is that of an occurrence, and what it streams from starts past the header.
LEMMA SittingFacts ==
    ASSUME Grounded, NEW p, Sits(p)
    PROVE  \E o : /\ Planned(o) /\ p.plan = o.plan /\ p \in PixelStates(o.plan)
                  /\ IsStreamable(o.plan) => /\ PREAMBLE + unit.declared <= o.plan.location.position
                                             /\ o.plan.location.position \in Nat
                  /\ IsStreamable(o.plan) /\ o.plan.compression # None => ConformingPlan(o.plan)
  <1>1. PICK i \in DOMAIN occurrences : p.plan = occurrences[i].plan
    BY DEF Sits
  <1> DEFINE o == occurrences[i]
  <1>2. Stands(unit, o) /\ o.plan # None
    BY <1>1, GroundFacts DEF Sits
  <1>3. Planned(o) /\ p \in PixelStates(o.plan)
    BY <1>1, <1>2 DEF Stands, Sits
  <1>4. IsStreamable(o.plan) => o.plan.location.mode = "attachment"
    BY DEF IsStreamable
  <1>5. o.plan.location.mode = "attachment" =>
           /\ PREAMBLE + unit.declared <= o.plan.location.position
           /\ o.plan.location.position \in Nat
    <2>1. o.plan.location.mode = "attachment" => o.plan.location.position \in U
      BY <1>3, PlacesRead DEF Planned
    <2> QED  BY <1>2, <2>1, MaxUAssumption DEF Stands, U
  <1>6. IsStreamable(o.plan) /\ o.plan.compression # None => ConformingPlan(o.plan)
    BY <1>3, StreamsConform
  <1> QED  BY <1>1, <1>3, <1>4, <1>5, <1>6

\* A decode that sits is not None, so that a call finds it.
LEMMA SittingIsSome ==
    ASSUME Grounded, NEW p, Sits(p)
    PROVE  p # None
  <1>1. PICK i \in DOMAIN occurrences : p.plan = occurrences[i].plan
    BY DEF Sits
  <1>2. occurrences = Construct(unit).out /\ unit \in Units
    BY <1>1 DEF Grounded
  <1>3. occurrences[i] \in Range(Construct(unit).out)
    BY <1>1, <1>2 DEF Range
  <1>4. None \notin PixelStates(occurrences[i].plan)
    BY <1>2, <1>3, NoPixelsAssumption
  <1> QED  BY <1>1, <1>4 DEF Sits

-----------------------------------------------------------------------------
(* What a step leaves alone.                                               *)

\* The source moves, and stays as long as it was.
LEMMA GroundMoves ==
    ASSUME Grounded, NEW o, Moves(o), o.pos \in Nat, o.res = "Io" => faults > 0,
           UNCHANGED <<unit, occurrences, next, current, header>>, pixels_read' \in BOOLEAN
    PROVE  Grounded' /\ length' = length
  <1>1. /\ pos' = o.pos /\ length' = length
        /\ faults' = (IF o.res = "Io" THEN faults - 1 ELSE faults)
    BY DEF Moves
  <1>2. faults' \in 0 .. MaxFaults
    BY <1>1, MaxFaultsAssumption DEF Grounded
  <1> QED  BY <1>1, <1>2 DEF Grounded

\* The occurrences and the header stay those of the unit while none of them moves.
LEMMA GroundStays ==
    ASSUME Grounded, UNCHANGED <<pos, length, faults, unit, occurrences, next, current, header>>,
           pixels_read' \in BOOLEAN
    PROVE  Grounded'
  BY DEF Grounded

\* A decode that sat still sits.
LEMMA SitsStill ==
    ASSUME NEW p, Sits(p), UNCHANGED <<unit, length, occurrences>>, pixels' = p
    PROVE  PixelsHeld'
  <1>1. Sits(pixels)'
    BY DEF Sits, Clean
  <1> QED  BY <1>1 DEF PixelsHeld

\* A decode nobody touches still sits.
LEMMA PixelsStay ==
    ASSUME PixelsHeld, UNCHANGED <<unit, length, occurrences, pixels>>
    PROVE  PixelsHeld'
  <1>1. CASE pixels = None
    BY <1>1 DEF PixelsHeld
  <1>2. CASE pixels # None
    <2>1. Sits(pixels)
      BY <1>2 DEF PixelsHeld
    <2> QED  BY <2>1, SitsStill
  <1> QED  BY <1>1, <1>2

\* What was delivered stays clean.
LEMMA StreamStays ==
    ASSUME Delivered, UNCHANGED <<unit, length, stream>>
    PROVE  Delivered'
  BY DEF Delivered, CleanRun, Clean

\* A cursor that opens has delivered nothing.
LEMMA StreamEmpties ==
    ASSUME stream' = <<>>
    PROVE  Delivered'
  <1>1. stream' \in Seq({}) /\ \A t \in {} : CleanRun(t.from)'
    OBVIOUS
  <1> QED  BY <1>1 DEF Delivered

\* What the reader would refuse an image for is told by the image.
LEMMA VerdictsStand ==
    ASSUME UNCHANGED <<header, current, occurrences>>
    PROVE  /\ PixelRefusal' = PixelRefusal /\ Plan' = Plan
           /\ selected_channel' = selected_channel =>
                 /\ OverOutputCap(header.bytes)' = OverOutputCap(header.bytes)
                 /\ OverOutputCap(4)' = OverOutputCap(4)
  BY DEF PixelRefusal, TooManySamples, Plan, OverOutputCap, DestinationLen

-----------------------------------------------------------------------------
(* A call, as far as the reader takes it.                                  *)

\* The reader touches neither the source nor the decoder before the decoder steps.
LEMMA CallLeaves ==
    ASSUME UNCHANGED <<sourceVars, header, decoderVars>>
    PROVE  UNCHANGED <<seekable, length, pos, faults, header, unit, occurrences, current, next,
                       pixels, pixels_read>>
  BY DEF sourceVars, decoderVars

\* next_image, as far as the decoder method it waits for.
LEMMA NextImageDisciplined ==
    ASSUME Disciplined, NextImage, UNCHANGED <<header, current, occurrences, next, pixels>>
    PROVE  Disciplined' /\ (pixels_started' => pixels_started /\ UNCHANGED <<stream, pixels_failed>>)
  <1>1. PixelRefusal' = PixelRefusal /\ Plan' = Plan
    BY VerdictsStand
  <1>2. CASE pixels_started
    BY <1>1, <1>2 DEF Disciplined, NextImage, readerVars, Apart, Beginning, Chunking, Filling
  <1>3. CASE ~pixels_started
    BY <1>1, <1>3 DEF Disciplined, NextImage, ResetForNextImage, Apart, Beginning, Chunking, Filling,
                      Option
  <1> QED  BY <1>2, <1>3 DEF NextImage, readerVars, ResetForNextImage

\* set_bounds and select_channel, refused in the pixel phase.
LEMMA SettingsDisciplined ==
    ASSUME Disciplined, UNCHANGED <<header, current, occurrences, next, pixels>>,
           NEW k \in 0 .. MaxChannel, NEW valid, SetBounds(valid) \/ SelectChannel(k)
    PROVE  /\ Disciplined' /\ UNCHANGED <<pixels_started, pixels_failed, stream>>
           /\ pixels_started => UNCHANGED selected_channel
  <1>1. PixelRefusal' = PixelRefusal /\ Plan' = Plan
    BY VerdictsStand
  <1>2. CASE SetBounds(valid)
    <2>1. /\ UNCHANGED <<phase, selected_channel, pixels_started, pixels_failed, cursor, stream>>
          /\ pc = "idle" /\ pc' = "idle" /\ cursor = "none"
      BY <1>2 DEF SetBounds, Answers, Returns, readerVars
    <2> QED  BY <1>1, <2>1 DEF Disciplined, Apart, Beginning, Chunking, Filling
  <1>3. CASE SelectChannel(k)
    <2>1. /\ UNCHANGED <<phase, pixels_started, pixels_failed, cursor, stream>>
          /\ pc = "idle" /\ pc' = "idle" /\ cursor = "none"
          /\ \/ selected_channel' = selected_channel
             \/ /\ selected_channel' = k /\ phase # "pixel" /\ header # None
                /\ header.geometry # None /\ ~ (k >= header.geometry.channels)
      BY <1>3 DEF SelectChannel, Answers, Returns, readerVars
    <2>2. CASE selected_channel' = selected_channel
      BY <1>1, <2>1, <2>2 DEF Disciplined, Apart, Beginning, Chunking, Filling
    <2>3. CASE selected_channel' # selected_channel
      BY <1>1, <2>1, <2>3 DEF Disciplined, Apart, Beginning, Chunking, Filling, Option
    <2> QED  BY <2>1, <2>2, <2>3
  <1> QED  BY <1>2, <1>3

\* A cursor over the image opens on nothing started and nothing delivered.
LEMMA OpensDisciplined ==
    ASSUME Disciplined, UNCHANGED <<header, current, occurrences, next, pixels>>,
           NEW driver \in {"pull", "push", "samples", "image"}, Opens(driver),
           pc' = "idle" \/ (pc' = "begin_pixels" /\ PixelRefusal = "ok"),
           driver = "samples" => ~OverOutputCap(header.bytes),
           driver = "image" => ~OverOutputCap(4)
    PROVE  Disciplined' /\ ~pixels_started' /\ stream' = <<>>
  <1>1. PixelRefusal' = PixelRefusal /\ Plan' = Plan
    BY VerdictsStand
  <1>2. /\ phase' = "pixel" /\ pixels_started' = FALSE /\ pixels_failed' = FALSE
        /\ cursor' = driver /\ stream' = <<>> /\ UNCHANGED selected_channel
    BY DEF Opens
  <1>3. /\ driver = "samples" => ~OverOutputCap(header.bytes)'
        /\ driver = "image" => ~OverOutputCap(4)'
    BY <1>2, VerdictsStand
  <1> QED  BY <1>1, <1>2, <1>3 DEF Disciplined, Apart, Beginning, Chunking, Filling

\* A chunk that fails, wherever it fails, and a step on to another point of next_chunk.
LEMMA FailDisciplined ==
    ASSUME Disciplined, NEW res, ChunkFails(res), cursor # "none",
           UNCHANGED <<header, current, occurrences>>
    PROVE  /\ Disciplined' /\ pixels_failed' = TRUE /\ pc' = "idle"
           /\ UNCHANGED <<stream, pixels_started, selected_channel>>
  <1>1. PixelRefusal' = PixelRefusal /\ Plan' = Plan
    BY VerdictsStand
  <1>2. /\ pixels_failed' = TRUE /\ pc' = "idle"
        /\ UNCHANGED <<phase, selected_channel, pixels_started, stream>>
        /\ cursor' = IF cursor = "pull" THEN "pull" ELSE "none"
    BY DEF ChunkFails, Returns
  <1>3. cursor' = "none" \/ cursor' = cursor
    BY <1>2
  <1>4. cursor' \notin {"samples", "image"}
    BY <1>2
  <1> QED  BY <1>1, <1>2, <1>3, <1>4 DEF Disciplined, Apart, Beginning, Chunking, Filling

\* A step from one point of next_chunk to another.
LEMMA MoveDisciplined ==
    ASSUME Disciplined, pc \in Chunking, pc' \in Chunking,
           UNCHANGED <<readerVars, cursor, stream, header, current, occurrences>>
    PROVE  Disciplined' /\ UNCHANGED <<pixels_started, pixels_failed, selected_channel>>
  <1>1. PixelRefusal' = PixelRefusal /\ Plan' = Plan
    BY VerdictsStand
  <1>2. UNCHANGED <<phase, selected_channel, pixels_started, pixels_failed>>
    BY DEF readerVars
  <1>3. OverOutputCap(header.bytes)' = OverOutputCap(header.bytes) /\ OverOutputCap(4)' = OverOutputCap(4)
    BY <1>2, VerdictsStand
  <1> QED  BY <1>1, <1>2, <1>3 DEF Disciplined, Apart, Beginning, Chunking, Filling

\* A step that takes the reader to idle or from idle to a point, its image as it was.
LEMMA StillDisciplined ==
    ASSUME Disciplined, UNCHANGED <<readerVars, stream, header, current, occurrences>>,
           cursor' = cursor \/ cursor' = "none",
           \/ pc' = "idle"
           \/ pc' = "next_chunk" /\ cursor' # "none" /\ pixels_started /\ ~pixels_failed
           \/ /\ pc' = "begin_pixels" /\ cursor' # "none" /\ ~pixels_started /\ ~pixels_failed
              /\ PixelRefusal = "ok"
    PROVE  Disciplined' /\ UNCHANGED <<pixels_started, pixels_failed, selected_channel>>
  <1>1. PixelRefusal' = PixelRefusal /\ Plan' = Plan
    BY VerdictsStand
  <1>2. UNCHANGED <<phase, selected_channel, pixels_started, pixels_failed>>
    BY DEF readerVars
  <1>3. OverOutputCap(header.bytes)' = OverOutputCap(header.bytes) /\ OverOutputCap(4)' = OverOutputCap(4)
    BY <1>2, VerdictsStand
  <1>4. pc' \notin Apart \cup Filling \cup {"begin_walk"}
    BY DEF Apart, Filling
  <1> QED  BY <1>1, <1>2, <1>3, <1>4 DEF Disciplined, Apart, Beginning, Chunking, Filling

\* What a stream has told outlives the step, and does not depend on where outside it stands.
LEMMA ToldStays ==
    ASSUME NEW p, NEW at, NEW b, Told(p, at, b), length' = length, pixels' = p, pc' = at
    PROVE  Told(pixels, pc, b)'
  <1>1. \A done : Tells(p.plan, p.walk, done) => Tells(pixels.plan, pixels.walk, done)'
    BY DEF Tells, Within
  <1>2. \A done : Between(p.plan, p.walk, done) => Between(pixels.plan, pixels.walk, done)'
    BY DEF Between
  <1> DEFINE done == b \o p.raw
  <1>3. (b \o pixels.raw)' = done
    OBVIOUS
  <1>4. Tells(p.plan, p.walk, done) => Tells(pixels.plan, pixels.walk, b \o pixels.raw)'
    BY <1>1, <1>3
  <1>5. Between(p.plan, p.walk, done) => Between(pixels.plan, pixels.walk, b \o pixels.raw)'
    BY <1>2, <1>3
  <1>6. InHand(p) => InHand(pixels)'
    BY DEF InHand
  <1> QED  BY <1>3, <1>4, <1>5, <1>6 DEF Told

\* Outside the filling of a row, what a stream has told does not depend on the point.
LEMMA ToldOutside ==
    ASSUME NEW p, NEW b, NEW at, at \notin Filling, NEW to, to \notin Filling, Told(p, at, b)
    PROVE  Told(p, to, b)
  BY DEF Told, Filling

\* A call that keeps the decode as it was, or leaves none under way.
LEMMA CallRest ==
    ASSUME RInv, UNCHANGED <<sourceVars, header, decoderVars>>, Disciplined', pc' \notin Filling,
           stream' = stream \/ stream' = <<>>,
           pixels_started' /\ ~pixels_failed' =>
              /\ pixels_started /\ ~pixels_failed /\ pc \notin Filling
              /\ UNCHANGED selected_channel
    PROVE  RInv'
  <1>1. UNCHANGED <<seekable, length, pos, faults, header, unit, occurrences, current, next,
                    pixels, pixels_read>>
    BY CallLeaves
  <1>2. Grounded' /\ PixelsHeld'
    <2>1. pixels_read' \in BOOLEAN
      BY <1>1 DEF RInv, Grounded
    <2> QED  BY <1>1, <2>1, GroundStays, PixelsStay DEF RInv
  <1>3. Delivered'
    BY <1>1, StreamStays, StreamEmpties DEF RInv
  <1>4. Underway'
    <2> SUFFICES ASSUME pixels_started', ~pixels_failed' PROVE Underway'
      BY DEF Underway
    <2>1. /\ pixels # None /\ pixels.plan = Plan /\ pixels.selected = selected_channel
          /\ Compressed /\ pixels.whole = None => \E b \in Seq(Byte) : Told(pixels, pc, b)
      BY DEF RInv, Underway
    <2>2. Plan' = Plan /\ Compressed' = Compressed /\ UNCHANGED <<pixels, length, selected_channel>>
      BY <1>1, VerdictsStand DEF Compressed
    <2>3. \A b : Told(pixels, pc, b) => Told(pixels, pc, b)'
      BY <1>1, ToldOutside, ToldStays DEF RInv
    <2> QED  BY <2>1, <2>2, <2>3 DEF Underway
  <1> QED  BY <1>2, <1>3, <1>4 DEF RInv

\* next_image keeps the invariant until the decoder steps.
LEMMA NextImageKeeps ==
    ASSUME RInv, Calls(NextImage)
    PROVE  RInv'
  <1>1. /\ NextImage /\ UNCHANGED <<sourceVars, header, decoderVars>> /\ Disciplined
        /\ UNCHANGED <<header, current, occurrences, next, pixels>>
    BY CallLeaves DEF Calls, RInv
  <1>2. Disciplined' /\ (pixels_started' => pixels_started /\ UNCHANGED <<stream, pixels_failed>>)
    BY <1>1, NextImageDisciplined
  <1>3. /\ pc = "idle" /\ pc' \in {"abandon", "next_image"}
        /\ stream' = stream \/ stream' = <<>>
        /\ pixels_started' => UNCHANGED selected_channel
    BY <1>1 DEF NextImage, ResetForNextImage, readerVars
  <1>4. pc \notin Filling /\ pc' \notin Filling
    BY <1>3 DEF Filling
  <1> QED  BY <1>1, <1>2, <1>3, <1>4, CallRest

\* The settings keep the invariant.
LEMMA SettingsKeep ==
    ASSUME RInv, NEW k \in 0 .. MaxChannel, NEW valid,
           Calls(SetBounds(valid)) \/ Calls(SelectChannel(k))
    PROVE  RInv'
  <1>1. /\ SetBounds(valid) \/ SelectChannel(k)
        /\ UNCHANGED <<sourceVars, header, decoderVars>> /\ Disciplined
        /\ UNCHANGED <<header, current, occurrences, next, pixels>>
    BY CallLeaves DEF Calls, RInv
  <1>2. /\ Disciplined' /\ UNCHANGED <<pixels_started, pixels_failed, stream>>
        /\ pixels_started => UNCHANGED selected_channel
    BY <1>1, SettingsDisciplined
  <1>3. pc = "idle" /\ pc' = "idle"
    BY <1>1 DEF SetBounds, SelectChannel, Answers, Returns
  <1>4. pc \notin Filling /\ pc' \notin Filling
    BY <1>3 DEF Filling
  <1> QED  BY <1>1, <1>2, <1>4, CallRest

\* A cursor of any kind opens over a state of the invariant.
LEMMA CursorKeeps ==
    ASSUME RInv, NEW driver \in {"samples", "image"}, NEW refusal,
           Calls(Chunks) \/ Calls(ForEachChunk) \/ Calls(Decodes(driver, refusal)),
           Calls(Decodes(driver, refusal)) /\ refusal = "ok" =>
              /\ PixelRefusal = "ok"
              /\ driver = "samples" => ~OverOutputCap(header.bytes)
              /\ driver = "image" => ~OverOutputCap(4)
    PROVE  RInv'
  <1>1. /\ UNCHANGED <<sourceVars, header, decoderVars>> /\ Disciplined
        /\ UNCHANGED <<header, current, occurrences, next, pixels>>
    BY CallLeaves DEF Calls, RInv
  <1>2. /\ pc = "idle" /\ pc' \in {"idle", "begin_pixels"} /\ cursor = "none"
    BY DEF Calls, Chunks, ForEachChunk, Decodes, Answers, Returns
  <1>3. pc \notin Filling /\ pc' \notin Filling
    BY <1>2 DEF Filling
  <1>4. ASSUME NEW d \in {"pull", "push", "samples", "image"}, Opens(d),
               pc' = "idle" \/ (pc' = "begin_pixels" /\ PixelRefusal = "ok"),
               d = "samples" => ~OverOutputCap(header.bytes),
               d = "image" => ~OverOutputCap(4)
        PROVE  RInv'
    <2>1. Disciplined' /\ ~pixels_started' /\ stream' = <<>>
      BY <1>1, <1>4, OpensDisciplined
    <2> QED  BY <1>1, <1>3, <2>1, CallRest
  <1>5. CASE Calls(Chunks)
    <2>1. Opens("pull") /\ pc' = "idle"
      BY <1>5 DEF Calls, Chunks, Returns
    <2> QED  BY <1>4, <2>1
  <1>6. CASE Calls(ForEachChunk) /\ PixelRefusal = "ok"
    <2>1. Opens("push") /\ pc' = "begin_pixels"
      BY <1>6 DEF Calls, ForEachChunk
    <2> QED  BY <1>4, <1>6, <2>1
  <1>7. CASE Calls(ForEachChunk) /\ PixelRefusal # "ok"
    <2>1. /\ phase' = "pixel" /\ pixels_started' = FALSE /\ pixels_failed' = TRUE
          /\ stream' = <<>> /\ pc' = "idle" /\ UNCHANGED <<selected_channel, cursor>>
      BY <1>7 DEF Calls, ForEachChunk, Returns
    <2>2. Disciplined'
      BY <1>1, <1>2, <2>1 DEF Disciplined, Apart, Beginning, Chunking, Filling
    <2> QED  BY <1>1, <1>3, <2>1, <2>2, CallRest
  <1>8. CASE Calls(Decodes(driver, refusal)) /\ refusal = "ok"
    <2>1. Opens(driver) /\ pc' = "begin_pixels"
      BY <1>8 DEF Calls, Decodes
    <2> QED  BY <1>4, <1>8, <2>1
  <1>9. CASE Calls(Decodes(driver, refusal)) /\ refusal # "ok"
    <2>1. UNCHANGED <<readerVars, cursor, stream>> /\ pc' = "idle"
      BY <1>9 DEF Calls, Decodes, Answers, Returns
    <2>2. Disciplined' /\ UNCHANGED <<pixels_started, pixels_failed, selected_channel>>
      BY <1>1, <2>1, StillDisciplined
    <2> QED  BY <1>1, <1>3, <2>1, <2>2, CallRest
  <1> QED  BY <1>5, <1>6, <1>7, <1>8, <1>9

\* A tier-2 decode is begun under its caps, or refused.
LEMMA DecodesKeeps ==
    ASSUME RInv, NEW len, NEW variant, Calls(ReadSamples(len, variant)) \/ Calls(ReadImage(len))
    PROVE  RInv'
  <1>1. SamplesRefusal(len, variant) = "ok" => PixelRefusal = "ok" /\ ~OverOutputCap(header.bytes)
    BY DEF SamplesRefusal
  <1>2. ImageRefusal(len) = "ok" => PixelRefusal = "ok" /\ ~OverOutputCap(4)
    BY DEF ImageRefusal
  <1>3. CASE Calls(ReadSamples(len, variant))
    <2>1. Calls(Decodes("samples", SamplesRefusal(len, variant)))
      BY <1>3 DEF ReadSamples, Calls
    <2> QED  BY <1>1, <2>1, CursorKeeps
  <1>4. CASE Calls(ReadImage(len))
    <2>1. Calls(Decodes("image", ImageRefusal(len)))
      BY <1>4 DEF ReadImage, Calls
    <2> QED  BY <1>2, <2>1, CursorKeeps
  <1> QED  BY <1>3, <1>4

\* A pulled cursor asks for its next chunk, or is dropped.
LEMMA PullKeeps ==
    ASSUME RInv, Calls(NextChunk) \/ Calls(DropChunks)
    PROVE  RInv'
  <1>1. /\ UNCHANGED <<sourceVars, header, decoderVars>> /\ Disciplined
        /\ UNCHANGED <<header, current, occurrences, next, pixels>>
    BY CallLeaves DEF Calls, RInv
  <1>2. pc = "idle" /\ pc \notin Filling
    BY DEF Calls, NextChunk, DropChunks, Filling
  <1>3. ASSUME UNCHANGED <<readerVars, stream>>, cursor' = cursor \/ cursor' = "none",
               \/ pc' = "idle"
               \/ pc' = "next_chunk" /\ cursor' # "none" /\ pixels_started /\ ~pixels_failed
               \/ /\ pc' = "begin_pixels" /\ cursor' # "none" /\ ~pixels_started /\ ~pixels_failed
                  /\ PixelRefusal = "ok"
        PROVE  RInv'
    <2>1. Disciplined' /\ UNCHANGED <<pixels_started, pixels_failed, selected_channel>>
      BY <1>1, <1>3, StillDisciplined
    <2>2. pc' \notin Filling
      BY <1>3 DEF Filling
    <2> QED  BY <1>1, <1>2, <1>3, <2>1, <2>2, CallRest
  <1>4. CASE Calls(DropChunks)
    <2>1. UNCHANGED <<readerVars, stream>> /\ cursor' = "none" /\ pc' = "idle"
      BY <1>4 DEF Calls, DropChunks
    <2> QED  BY <1>3, <2>1
  <1>5. CASE Calls(NextChunk)
    <2>1. NextChunk /\ cursor = "pull"
      BY <1>5 DEF Calls, NextChunk
    <2>2. CASE ChunkFails(PixelRefusal)
      <3>1. /\ Disciplined' /\ pixels_failed' = TRUE /\ pc' = "idle" /\ UNCHANGED stream
        BY <1>1, <2>1, <2>2, FailDisciplined
      <3>2. pc' \notin Filling
        BY <3>1 DEF Filling
      <3> QED  BY <1>1, <3>1, <3>2, CallRest
    <2>3. CASE pixels_failed
      <3>1. UNCHANGED <<readerVars, cursor, stream>> /\ pc' = "idle"
        BY <2>1, <2>3 DEF NextChunk, Answers, Returns
      <3> QED  BY <1>3, <3>1
    <2>4. CASE ~pixels_failed /\ pixels_started
      <3>1. UNCHANGED <<readerVars, cursor, stream>> /\ pc' = "next_chunk"
        BY <2>1, <2>4 DEF NextChunk
      <3> QED  BY <1>3, <2>1, <2>4, <3>1
    <2>5. CASE ~pixels_failed /\ ~pixels_started /\ PixelRefusal = "ok"
      <3>1. UNCHANGED <<readerVars, cursor, stream>> /\ pc' = "begin_pixels"
        BY <2>1, <2>5 DEF NextChunk
      <3> QED  BY <1>3, <2>1, <2>5, <3>1
    <2> QED  BY <2>1, <2>2, <2>3, <2>4, <2>5 DEF NextChunk
  <1> QED  BY <1>4, <1>5

-----------------------------------------------------------------------------
(* Construction, and the walk over the occurrences.                        *)

\* A header that was read is one under its cap.
LEMMA HeaderReads ==
    ASSUME Grounded, NEW o \in ReadHeader(unit)
    PROVE  /\ o.pos \in Nat /\ (o.res = "Io" => faults > 0)
           /\ o.res = "ok" => unit.declared <= XisfLimits.xml_header_bytes
  <1>1. SourceType /\ PREAMBLE \in Nat /\ unit.declared \in Nat
    BY GroundFacts, HeaderAssumption
  <1>2. PICK r \in ReadExact(pos, PREAMBLE) :
            o \in IF r.res # "ok" THEN {r}
                  ELSE IF unit.declared < MIN_HEADER THEN {Outcome("Malformed", r.pos)}
                  ELSE IF unit.declared > XisfLimits.xml_header_bytes
                  THEN {Outcome("LimitExceeded", r.pos)}
                  ELSE ReadExact(r.pos, unit.declared)
    BY DEF ReadHeader
  <1>3. Lands(r, pos + PREAMBLE, TRUE)
    BY <1>1, ReadExactLands DEF SourceType
  <1>4. r.pos \in Nat /\ (r.res = "Io" => faults > 0)
    BY <1>3 DEF Lands
  <1>5. CASE o = r /\ r.res # "ok"
    BY <1>4, <1>5
  <1>6. CASE o = Outcome("Malformed", r.pos) \/ o = Outcome("LimitExceeded", r.pos)
    BY <1>4, <1>6 DEF Outcome
  <1>7. CASE o \in ReadExact(r.pos, unit.declared) /\ ~ (unit.declared > XisfLimits.xml_header_bytes)
    <2>1. Lands(o, r.pos + unit.declared, TRUE)
      BY <1>1, <1>4, <1>7, ReadExactLands
    <2> QED  BY <1>1, <1>7, <2>1, XisfLimitsAssumption DEF Lands
  <1> QED  BY <1>2, <1>5, <1>6, <1>7

\* The constructor makes occurrences that stand, or no reader.
LEMMA BuildKeeps ==
    ASSUME RInv, Build
    PROVE  RInv'
  <1>1. /\ pc = "build" /\ Grounded /\ Disciplined
        /\ UNCHANGED <<readerVars, header, cursor, stream, unit, current, next, pixels, pixels_read>>
    BY DEF Build, RInv
  <1>2. PICK o \in ReadHeader(unit) :
            Moves(o) /\ BuildReturns(IF o.res = "ok" THEN Construct(unit) ELSE Fails(o.res))
    BY DEF Build
  <1>3. /\ o.pos \in Nat /\ (o.res = "Io" => faults > 0)
        /\ o.res = "ok" => unit.declared <= XisfLimits.xml_header_bytes
    BY <1>1, HeaderReads
  <1>4. /\ occurrences' = <<>> \/ (o.res = "ok" /\ occurrences' = Construct(unit).out)
        /\ pc' \in {"idle", "refused"}
    BY <1>2 DEF BuildReturns, Fails
  <1>5. /\ next = 0 /\ current = None /\ pixels = None /\ cursor = "none" /\ stream = <<>>
        /\ pixels_started = FALSE /\ selected_channel = None /\ header = None
    BY <1>1 DEF Disciplined, Grounded, Apart
  <1>6. /\ pos' = o.pos /\ length' = length
        /\ faults' = (IF o.res = "Io" THEN faults - 1 ELSE faults)
    BY <1>2 DEF Moves
  <1>7. Grounded'
    <2>1. faults' \in 0 .. MaxFaults
      BY <1>1, <1>3, <1>6, MaxFaultsAssumption DEF Grounded
    <2>2. Len(occurrences') \in Nat
      <3>1. Len(<<>>) \in Nat
        OBVIOUS
      <3>2. unit \in Units
        BY <1>1 DEF Grounded
      <3>3. Len(Construct(unit).out) \in Nat
        BY <3>2, OccurrencesStand, LimitsAssumption
      <3> QED  BY <1>4, <3>1, <3>3
    <2> QED  BY <1>1, <1>3, <1>4, <1>5, <1>6, <2>1, <2>2 DEF Grounded, Option
  <1>8. Disciplined'
    BY <1>1, <1>4, <1>5 DEF Disciplined, readerVars, Apart, Beginning, Chunking, Filling, Option
  <1>9. PixelsHeld' /\ Underway' /\ Delivered'
    BY <1>1, <1>5, StreamEmpties DEF PixelsHeld, Underway, readerVars
  <1> QED  BY <1>7, <1>8, <1>9 DEF RInv

\* abandon leaves no decode.
LEMMA AbandonKeeps ==
    ASSUME RInv, Abandon
    PROVE  RInv'
  <1>1. /\ Grounded /\ Disciplined /\ pixels' = None /\ pc = "abandon" /\ cursor = "none"
        /\ UNCHANGED <<pos, length, faults, unit, occurrences, next, current, header, pixels_read>>
    BY DEF Abandon, RInv, sourceVars, walkVars, Disciplined, Apart
  <1>2. /\ phase' = "header" /\ selected_channel' = None /\ pixels_started' = FALSE
        /\ pixels_failed' = FALSE /\ stream' = <<>> /\ pc' = "next_image" /\ cursor' = cursor
    BY DEF Abandon, AbandonReturns, ResetForNextImage
  <1>3. Grounded'
    <2>1. pixels_read' \in BOOLEAN
      BY <1>1 DEF Grounded
    <2> QED  BY <1>1, <2>1, GroundStays
  <1>4. Disciplined'
    BY <1>1, <1>2 DEF Disciplined, Apart, Beginning, Chunking, Filling, Option
  <1>5. PixelsHeld' /\ Underway' /\ Delivered'
    BY <1>1, <1>2, StreamEmpties DEF PixelsHeld, Underway
  <1> QED  BY <1>3, <1>4, <1>5 DEF RInv

\* next_image sits on the next occurrence, with nothing decoded, or past the last.
LEMMA AdvanceKeeps ==
    ASSUME RInv, AfterTheLast \/ ToTheNext
    PROVE  RInv'
  <1>1. /\ Grounded /\ Disciplined /\ PixelsHeld /\ pc = "next_image" /\ cursor = "none"
        /\ ~pixels_started /\ selected_channel = None /\ stream = <<>>
        /\ UNCHANGED <<pos, length, faults, unit, occurrences>>
    BY DEF AfterTheLast, ToTheNext, RInv, sourceVars, Disciplined, Apart
  <1>2. /\ UNCHANGED <<phase, selected_channel, pixels_started, pixels_failed, cursor, stream>>
        /\ pc' = "idle"
    BY DEF AfterTheLast, ToTheNext, NextImageReturns, Returns
  <1>3. Grounded'
    <2>1. CASE AfterTheLast
      <3>1. current' = None /\ header' = None /\ UNCHANGED <<next, pixels_read>>
        BY <2>1 DEF AfterTheLast
      <3> QED  BY <1>1, <3>1 DEF Grounded, Option
    <2>2. CASE ToTheNext
      <3>1. /\ current' = next + 1 /\ next' = next + 1 /\ header' = occurrences[next + 1].header
            /\ pixels_read' = FALSE /\ next < Len(occurrences)
        BY <2>2 DEF ToTheNext
      <3>2. next \in Nat /\ Len(occurrences) \in Nat /\ next \in 0 .. Len(occurrences)
        BY <1>1, GroundFacts, LimitsAssumption DEF Grounded
      <3>3. next + 1 \in 0 .. Len(occurrences) /\ next + 1 \in 1 .. (next + 1) /\ next + 1 # None
        BY <3>1, <3>2, NoneAssumption
      <3> QED  BY <1>1, <3>1, <3>3 DEF Grounded, Option
    <2> QED  BY <2>1, <2>2
  <1>4. Disciplined'
    BY <1>1, <1>2 DEF Disciplined, Apart, Beginning, Chunking, Filling, Option
  <1>5. PixelsHeld'
    <2>1. CASE AfterTheLast
      BY <1>1, <2>1, PixelsStay DEF AfterTheLast
    <2>2. CASE ToTheNext
      BY <2>2 DEF ToTheNext, PixelsHeld
    <2> QED  BY <2>1, <2>2
  <1>6. Underway' /\ Delivered'
    BY <1>1, <1>2, StreamEmpties DEF Underway
  <1> QED  BY <1>3, <1>4, <1>5, <1>6 DEF RInv

-----------------------------------------------------------------------------
(* What begin_pixels has of a block.                                       *)

\* What a block read whole holds is its own, or what a codec made of it.
LEMMA MaterializeFits ==
    ASSUME Grounded, NEW o, Planned(o), Stands(unit, o), o.plan # None, Fits(o.plan),
           NEW m \in Materialize(o.plan)
    PROVE  /\ m.pos \in Nat /\ (m.res = "Io" => faults > 0)
           /\ m.res = "ok" => /\ m.dst \in Seq(Byte) /\ Len(m.dst) = o.plan.implied_bytes
                              /\ Clean(m.dst) /\ Vouched(o.plan)
  <1> DEFINE p == o.plan
             place == p.location
             stored == FileBytes(place.position, place.size)
  <1>1. /\ SourceType /\ place.mode \in {"attachment", "embedded"}
        /\ place.mode = "attachment" => place.position \in Nat /\ place.size \in Nat
        /\ place.mode = "embedded" => Made(p.materialized)
    <2>1. U \subseteq Nat
      BY MaxUAssumption DEF U
    <2> QED  BY <2>1, GroundFacts, PlacesRead DEF Planned
  <1>2. \A a, d : /\ Resident(a, d).res = d.res /\ Resident(a, d).pos = a.pos
                  /\ Resident(a, d).dst = d.dst
    BY DEF Resident
  <1>3. \A r, d, q : /\ Decoded(r, d).res = r /\ Outcome(r, q).pos = q
    BY DEF Decoded, Outcome
  <1>4. ASSUME NEW s \in Seq(Byte), NEW a, a.pos \in Nat, m = Resident(a, Pipeline(p, s)), Clean(s),
               Len(s) = IF place.mode = "attachment" THEN place.size ELSE Len(p.materialized)
        PROVE  /\ m.pos \in Nat /\ m.res # "Io"
               /\ m.res = "ok" => /\ m.dst \in Seq(Byte) /\ Len(m.dst) = p.implied_bytes
                                  /\ Clean(m.dst) /\ Vouched(o.plan)
    <2>1. /\ Pipeline(p, s).res # "Io"
          /\ Pipeline(p, s).res = "ok" =>
                /\ Pipeline(p, s).dst \in Seq(Byte) /\ Len(Pipeline(p, s).dst) = p.implied_bytes
                /\ Copies(Pipeline(p, s).dst, s) /\ Vouched(p)
      BY <1>4, PipelineFits DEF Vouched, Fits, SizesAgree
    <2>2. \A d : Copies(d, s) => Clean(d)
      BY <1>4 DEF Copies, Clean
    <2> QED  BY <1>2, <1>4, <2>1, <2>2
  <1>5. CASE place.mode = "attachment"
    <2>1. \/ m = Resident(Outcome("LimitExceeded", pos), Decoded("LimitExceeded", <<>>))
          \/ \E a \in ReadAt(place.position, place.size) :
                m = IF a.res # "ok" THEN Resident(a, Decoded(a.res, <<>>))
                    ELSE Resident(a, Pipeline(p, stored))
      BY <1>3, <1>5 DEF Materialize, Decoded, Outcome
    <2>2. CASE m = Resident(Outcome("LimitExceeded", pos), Decoded("LimitExceeded", <<>>))
      BY <1>1, <1>2, <1>3, <2>2 DEF SourceType
    <2>3. ASSUME NEW a \in ReadAt(place.position, place.size),
                 m = IF a.res # "ok" THEN Resident(a, Decoded(a.res, <<>>))
                     ELSE Resident(a, Pipeline(p, stored))
          PROVE  /\ m.pos \in Nat /\ (m.res = "Io" => faults > 0)
                 /\ m.res = "ok" => /\ m.dst \in Seq(Byte) /\ Len(m.dst) = p.implied_bytes
                                    /\ Clean(m.dst) /\ Vouched(o.plan)
      <3>1. Lands(a, place.position + place.size, TRUE)
        BY <1>1, <1>5, ReadAtLands
      <3>2. CASE a.res # "ok"
        BY <1>2, <1>3, <2>3, <3>1, <3>2 DEF Lands
      <3>3. CASE a.res = "ok"
        <4> DEFINE at == place.position
                   n == place.size
        <4>1. at \in Nat /\ n \in Nat /\ at + n <= length /\ PREAMBLE + unit.declared <= at
          <5>1. at \in Nat /\ n \in Nat
            BY <1>1, <1>5
          <5>2. PREAMBLE + unit.declared <= at
            BY <1>5 DEF Stands
          <5>3. a.pos = at + n /\ at + n <= length
            BY <3>1, <3>3 DEF Lands
          <5> QED  BY <5>1, <5>2, <5>3
        <4>2. PREAMBLE \in Nat /\ unit.declared \in Nat /\ length \in Nat
          BY GroundFacts, HeaderAssumption DEF SourceType
        <4> HIDE DEF at, n
        <4>3. /\ FileBytes(at, n) \in Seq(Byte) /\ Len(FileBytes(at, n)) = n
              /\ \A k \in 1 .. n : FileBytes(at, n)[k] = <<"file", at + k - 1>>
          BY <4>1, FileBytesRun
        <4>4. \A k \in 1 .. n : at + k - 1 \in PREAMBLE + unit.declared .. length - 1
          BY <4>1, <4>2
        <4>5. DOMAIN FileBytes(at, n) = 1 .. n
          BY DEF FileBytes
        <4>6. Clean(FileBytes(at, n))
          BY <4>3, <4>4, <4>5 DEF Clean
        <4>7. a.pos \in Nat /\ m = Resident(a, Pipeline(p, FileBytes(at, n)))
          BY <2>3, <3>1, <3>3 DEF Lands, at, n
        <4>8. Len(FileBytes(at, n)) = place.size
          BY <4>3 DEF n
        <4> QED  BY <1>4, <1>5, <4>3, <4>6, <4>7, <4>8
      <3> QED  BY <3>2, <3>3
    <2> QED  BY <2>1, <2>2, <2>3
  <1>6. CASE place.mode = "embedded"
    <2>1. \/ m = Resident(Outcome(Pipeline(p, p.materialized).res, pos), Pipeline(p, p.materialized))
          \/ m = Resident(Outcome("Malformed", pos), Decoded("Malformed", <<>>))
      BY <1>6 DEF Materialize, Decoded
    <2>2. CASE m = Resident(Outcome("Malformed", pos), Decoded("Malformed", <<>>))
      BY <1>1, <1>2, <1>3, <2>2 DEF SourceType
    <2>3. CASE m = Resident(Outcome(Pipeline(p, p.materialized).res, pos), Pipeline(p, p.materialized))
      <3>1. p.materialized \in Seq(Byte) /\ Clean(p.materialized)
        BY <1>1, <1>6 DEF Made, Clean
      <3>2. Outcome(Pipeline(p, p.materialized).res, pos).pos \in Nat
        BY <1>1, <1>3 DEF SourceType
      <3> QED  BY <1>4, <1>6, <2>3, <3>1, <3>2
    <2> QED  BY <2>1, <2>2, <2>3
  <1> QED  BY <1>1, <1>5, <1>6

\* What begin_pixels has checked of an image it goes on to read.
LEMMA BeginFits ==
    ASSUME Grounded, PixelRefusal = "ok", BeginRefusal(Plan) = "ok"
    PROVE  /\ Plan # None /\ Fits(Plan)
           /\ Planned(occurrences[current]) /\ Plan = occurrences[current].plan
           /\ Stands(unit, occurrences[current])
  <1>1. Plan # None /\ StagingRefusal(Plan) = "ok"
    BY DEF BeginRefusal
  <1>2. /\ current \in DOMAIN occurrences /\ Sized(Plan)
        /\ Planned(occurrences[current]) /\ Plan = occurrences[current].plan
    BY <1>1, RefusalFacts
  <1>3. Stands(unit, occurrences[current])
    BY <1>2, GroundFacts
  <1>4. /\ ~ (RowLength(Plan) > Limits.materialized_bytes)
        /\ ~IsStreamable(Plan) => ~ (Plan.implied_bytes > Limits.materialized_bytes)
    BY <1>1 DEF StagingRefusal
  <1>5. RowLength(Plan) \in Nat /\ Plan.implied_bytes \in Nat /\ Limits.materialized_bytes \in Nat
    <2>1. RowsIn(Plan) \in Nat
      BY <1>2 DEF Sized
    <2> QED  BY <1>2, <2>1, LimitsAssumption DEF Sized
  <1>6. Plan.compression # None => SizesAgree(Plan)
    BY <1>1 DEF BeginRefusal, SizesAgree
  <1>7. Fits(Plan)
    BY <1>2, <1>4, <1>5, <1>6 DEF Fits
  <1> QED  BY <1>1, <1>2, <1>3, <1>7

\* The state a decode begins in.
LEMMA BeganSits ==
    ASSUME Grounded, Disciplined, PixelRefusal = "ok", Plan # None, Fits(Plan),
           NEW whole \in Option(Seq(Byte)), NEW w \in WalkType,
           w.index <= PairCount(Plan), HeldUnderCap(Plan, w), WholeUnderCap(Plan, whole),
           whole = None => IsStreamable(Plan),
           whole # None => ~IsStreamable(Plan) /\ Len(whole) = Plan.implied_bytes /\ Clean(whole)
    PROVE  LET p == Began(Plan, whole, w) IN
           /\ Sits(p) /\ p.plan = Plan /\ p.selected = selected_channel
           /\ p.whole = whole /\ p.walk = w /\ p.raw = <<>> /\ p.stream_row = 0
           /\ p.chunks_done = 0 /\ p.chunks_total = ChunksTotal(Plan, selected_channel)
  <1> DEFINE p == Began(Plan, whole, w)
             q == Plan
             total == ChunksTotal(q, selected_channel)
  <1>1. p = [plan |-> q, selected |-> selected_channel, chunks_total |-> total, chunks_done |-> 0,
             whole |-> whole, raw |-> <<>>, raw_row |-> None, walk |-> w, stream_row |-> 0]
    BY DEF Began
  <1>2. selected_channel \in Option(Nat)
    BY MaxChannelAssumption DEF Disciplined, Option
  <1>3. total \in Nat
    <2>1. q.geometry.height \in Nat /\ q.geometry.channels \in Nat
      BY RefusalFacts, MaxUAssumption DEF Geometry, U
    <2> QED  BY <2>1 DEF ChunksTotal
  <1>4. \E i \in DOMAIN occurrences : q = occurrences[i].plan
    BY RefusalFacts
  <1>5. RowLength(q) \in Nat
    BY DEF Fits, Sized
  <1> HIDE DEF p, q, total
  <1>6. None \in Option(Nat) /\ <<>> \in Seq(Byte) /\ Len(<<>>) = 0 /\ 0 \in Nat
    BY DEF Option
  <1>7. p \in PixelStates(q)
    BY <1>1, <1>2, <1>3, <1>6 DEF PixelStates
  <1>8. /\ p.plan = q /\ p.selected = selected_channel /\ p.whole = whole /\ p.walk = w
        /\ p.raw = <<>> /\ p.stream_row = 0 /\ p.chunks_done = 0 /\ p.chunks_total = total
    BY <1>1
  <1>9. Clean(<<>>)
    BY DEF Clean
  <1>10. q # None /\ Fits(q) /\ w.index <= PairCount(q) /\ HeldUnderCap(q, w)
         /\ WholeUnderCap(q, whole)
         /\ (whole = None => IsStreamable(q))
         /\ (whole # None => ~IsStreamable(q) /\ Len(whole) = q.implied_bytes /\ Clean(whole))
    BY DEF q
  <1>11. Sits(p)
    <2>1. p.chunks_done <= p.chunks_total /\ Len(p.raw) <= RowLength(q)
      BY <1>3, <1>5, <1>6, <1>8
    <2> QED  BY <1>4, <1>7, <1>8, <1>9, <1>10, <2>1 DEF Sits
  <1> QED  BY <1>8, <1>11 DEF p, q, total

\* A decode begins, and the cursor is at its first chunk.
LEMMA StartedDisciplined ==
    ASSUME Disciplined, pc \in Beginning, BeginPixelsReturns("ok"), Plan # None, Fits(Plan),
           Vouched(Plan), UNCHANGED <<header, current, occurrences>>
    PROVE  /\ Disciplined' /\ pixels_started' = TRUE /\ pixels_failed' = FALSE /\ pc' = "next_chunk"
           /\ UNCHANGED <<selected_channel, stream>>
  <1>1. PixelRefusal' = PixelRefusal /\ Plan' = Plan
    BY VerdictsStand
  <1>2. /\ pixels_started' = TRUE /\ pc' = "next_chunk"
        /\ UNCHANGED <<phase, selected_channel, pixels_failed, cursor, stream>>
    BY DEF BeginPixelsReturns
  <1>3. OverOutputCap(header.bytes)' = OverOutputCap(header.bytes) /\ OverOutputCap(4)' = OverOutputCap(4)
    BY <1>2, VerdictsStand
  <1>4. pixels_failed = FALSE
    BY DEF Disciplined
  <1> QED  BY <1>1, <1>2, <1>3, <1>4 DEF Disciplined, Apart, Beginning, Chunking, Filling

\* The decode the step leaves is the one the reader has under way.
LEMMA UnderwayLeads ==
    ASSUME Grounded, Grounded', NEW q, Sits(q), pixels' = q, q.plan = Plan,
           q.selected = selected_channel, length' = length,
           UNCHANGED <<header, current, occurrences, unit, selected_channel>>,
           pc' \in Filling => q.plan.compression # None /\ q.whole = None,
           q.plan.compression # None /\ q.whole = None => \E b \in Seq(Byte) : Told(q, pc', b)
    PROVE  PixelsHeld' /\ Underway'
  <1>1. PixelsHeld'
    BY SitsStill
  <1>2. q # None
    BY SittingIsSome
  <1>3. Plan' = Plan
    BY VerdictsStand
  <1>4. \A b : Told(q, pc', b) => Told(pixels, pc, b)'
    BY ToldStays
  <1>5. Compressed' = (q.plan.compression # None)
    BY DEF Compressed
  <1> QED  BY <1>1, <1>2, <1>3, <1>4, <1>5 DEF Underway

\* A chunk that fails leaves an image that is not read on.
LEMMA FailKeeps ==
    ASSUME RInv, NEW res, ChunkFails(res), cursor # "none", Grounded', PixelsHeld',
           UNCHANGED <<unit, length, occurrences, current, header>>
    PROVE  RInv'
  <1>1. Disciplined' /\ pixels_failed' = TRUE /\ UNCHANGED stream
    BY FailDisciplined DEF RInv
  <1>2. Underway'
    BY <1>1 DEF Underway
  <1>3. Delivered'
    BY <1>1, StreamStays DEF RInv
  <1> QED  BY <1>1, <1>2, <1>3 DEF RInv

-----------------------------------------------------------------------------
(* begin_pixels.                                                           *)

\* A block has a number of pairs.
LEMMA PairsCount ==
    ASSUME NEW p, PackedAs(p)
    PROVE  PairCount(p) \in Nat
  <1>1. CASE p.subblocks = None
    BY <1>1 DEF PairCount
  <1>2. CASE p.subblocks # None
    <2>1. p.subblocks \in Seq(U \X U)
      BY <1>2 DEF PackedAs
    <2> QED  BY <1>2, <2>1 DEF PairCount
  <1> QED  BY <1>1, <1>2

\* A walk with nothing open, wherever the block starts.
LEMMA NothingOpen ==
    ASSUME NEW p, p.location.position \in Nat
    PROVE  /\ AtBlock(p) \in WalkType /\ AtBlock(p).index = 0 /\ AtBlock(p).buf = <<>>
           /\ AtBlock(p).current = "Ended"
           /\ Unopened \in WalkType /\ Unopened.index = 0 /\ Unopened.buf = <<>>
  <1>1. <<>> \in Seq(Byte)
    OBVIOUS
  <1> QED  BY <1>1 DEF AtBlock, Unopened, WalkType

\* Past the last pair there is none to open.
LEMMA OpenPast ==
    ASSUME SourceType, NEW p, ConformingPlan(p), NEW w, w.index = PairCount(p), NEW r \in Open(p, w)
    PROVE  Sound(r) /\ r.res = "Malformed" /\ r.walk = w
  <1>1. PairOf(p, w.index + 1) = None
    BY PairsOf
  <1>2. r = Result("Malformed", pos, w, <<>>)
    BY <1>1 DEF Open
  <1> QED  BY <1>2, ResultFields DEF Sound, SourceType

\* The image as begin_pixels finds it.
LEMMA BeginFacts ==
    ASSUME RInv, pc \in Beginning
    PROVE  /\ PixelRefusal = "ok" /\ cursor # "none" /\ ~pixels_started /\ ~pixels_failed
           /\ SourceType /\ pixels_read \in BOOLEAN /\ Limits.materialized_bytes \in Nat
  BY GroundFacts, LimitsAssumption DEF RInv, Disciplined, Grounded

\* begin_pixels fails, and nothing but the source has moved.
LEMMA BeginFails ==
    ASSUME RInv, pc \in Beginning, NEW res, res # "ok", NEW began, Begins(res, began),
           UNCHANGED walkVars,
           \/ UNCHANGED sourceVars
           \/ \E o : Moves(o) /\ o.pos \in Nat /\ (o.res = "Io" => faults > 0)
    PROVE  RInv'
  <1>1. UNCHANGED <<unit, occurrences, next, current, header, pixels>>
    BY DEF walkVars, Begins
  <1>2. pixels_read' \in BOOLEAN /\ ChunkFails(res)
    BY DEF Begins, BeginPixelsReturns
  <1>3. Grounded' /\ length' = length
    <2>1. CASE UNCHANGED sourceVars
      BY <1>1, <1>2, <2>1, GroundStays DEF RInv, sourceVars
    <2>2. ASSUME NEW o, Moves(o), o.pos \in Nat, o.res = "Io" => faults > 0
          PROVE  Grounded' /\ length' = length
      BY <1>1, <1>2, <2>2, GroundMoves DEF RInv
    <2> QED  BY <2>1, <2>2
  <1>4. PixelsHeld'
    BY <1>1, <1>3, PixelsStay DEF RInv
  <1> QED  BY <1>1, <1>2, <1>3, <1>4, BeginFacts, FailKeeps

\* begin_pixels succeeds, with a decode that sits.
LEMMA BeginSucceeds ==
    ASSUME RInv, pc \in Beginning, NEW q, Begins("ok", q), UNCHANGED walkVars,
           NEW o, Moves(o), o.pos \in Nat, o.res # "Io",
           Plan # None, Fits(Plan), Vouched(Plan),
           Sits(q), q.plan = Plan, q.selected = selected_channel,
           q.plan.compression # None /\ q.whole = None =>
              \E b \in Seq(Byte) : Told(q, "next_chunk", b)
    PROVE  RInv'
  <1>1. UNCHANGED <<unit, occurrences, next, current, header>> /\ pixels' = q
    BY DEF walkVars, Begins
  <1>2. pixels_read' \in BOOLEAN /\ BeginPixelsReturns("ok")
    BY DEF Begins
  <1>3. Grounded' /\ length' = length
    BY <1>1, <1>2, GroundMoves DEF RInv
  <1>4. Disciplined' /\ pc' = "next_chunk" /\ UNCHANGED <<selected_channel, stream>>
    BY <1>1, <1>2, StartedDisciplined DEF RInv
  <1>5. pc' \notin Filling
    BY <1>4 DEF Filling
  <1>6. PixelsHeld' /\ Underway'
    BY <1>1, <1>3, <1>4, <1>5, UnderwayLeads DEF RInv
  <1>7. Delivered'
    BY <1>1, <1>3, <1>4, StreamStays DEF RInv
  <1> QED  BY <1>3, <1>4, <1>6, <1>7 DEF RInv

\* begin_pixels refuses an image before it reads any of it.
LEMMA BeginRefusedKeeps ==
    ASSUME RInv, BeginRefused
    PROVE  RInv'
  <1>1. pc \in Beginning
    BY DEF BeginRefused, Beginning
  <1> QED  BY <1>1, BeginFails DEF BeginRefused

\* begin_pixels seeks to a block it will stream.
LEMMA BeginStreamKeeps ==
    ASSUME RInv, BeginStream
    PROVE  RInv'
  <1>1. /\ pc = "begin_pixels" /\ pc \in Beginning /\ BeginRefusal(Plan) = "ok" /\ IsStreamable(Plan)
        /\ UNCHANGED walkVars
    BY DEF BeginStream, Beginning
  <1>2. /\ PixelRefusal = "ok" /\ cursor # "none" /\ ~pixels_started /\ ~pixels_failed
        /\ SourceType /\ pixels_read \in BOOLEAN /\ Limits.materialized_bytes \in Nat
    BY <1>1, BeginFacts
  <1>3. /\ Plan # None /\ Fits(Plan) /\ Placed(Plan) /\ PackedAs(Plan) /\ Grounded /\ Disciplined
        /\ Vouched(Plan)
    <2>1. /\ Plan # None /\ Fits(Plan) /\ Placed(Plan) /\ PackedAs(Plan) /\ Grounded /\ Disciplined
      BY <1>1, <1>2, BeginFits DEF Planned, RInv
    <2>2. Plan.compression = None => SizesAgree(Plan)
      BY <1>1 DEF BeginRefusal, AttachmentRefusal, IsStreamable, SizesAgree
    <2> QED  BY <1>1, <2>1, <2>2 DEF Fits, IsStreamable, Vouched
  <1>4. Plan.location.position \in Nat
    <2>1. U \subseteq Nat
      BY MaxUAssumption DEF U
    <2> QED  BY <1>1, <1>3, <2>1, PlacesRead DEF IsStreamable
  <1>5. PICK o \in SeekTo(Plan.location.position) :
          /\ Moves(o)
          /\ IF o.res = "ok" /\ Plan.compression # None
             THEN pc' = "begin_walk" /\ UNCHANGED <<readerVars, cursor, ret, stream, pixelVars>>
             ELSE Begins(o.res, Began(Plan, None, AtBlock(Plan)))
    BY DEF BeginStream
  <1>6. o.pos \in Nat /\ (o.res = "Io" => faults > 0)
    BY <1>2, <1>4, SeekLands DEF Lands
  <1>7. CASE o.res = "ok" /\ Plan.compression # None
    <2>1. /\ pc' = "begin_walk" /\ UNCHANGED <<readerVars, cursor, stream, pixels, pixels_read>>
          /\ UNCHANGED <<unit, occurrences, next, current, header>>
      BY <1>1, <1>5, <1>7 DEF pixelVars, walkVars
    <2>2. Grounded' /\ length' = length
      BY <1>2, <1>3, <1>5, <1>6, <2>1, GroundMoves
    <2>3. PixelsHeld' /\ Delivered'
      BY <2>1, <2>2, PixelsStay, StreamStays DEF RInv
    <2>4. UNCHANGED <<phase, selected_channel, pixels_started, pixels_failed>>
      BY <2>1 DEF readerVars
    <2>5. Underway'
      BY <1>2, <2>4 DEF Underway
    <2>6. Disciplined'
      <3>1. PixelRefusal' = PixelRefusal /\ Plan' = Plan
        BY <2>1, VerdictsStand
      <3>2. /\ OverOutputCap(header.bytes)' = OverOutputCap(header.bytes)
            /\ OverOutputCap(4)' = OverOutputCap(4)
        BY <2>1, <2>4, VerdictsStand
      <3> QED  BY <1>1, <1>2, <1>3, <1>7, <2>1, <2>4, <3>1, <3>2
               DEF Disciplined, Apart, Beginning, Chunking, Filling
    <2> QED  BY <2>2, <2>3, <2>5, <2>6 DEF RInv
  <1>8. CASE o.res = "ok" /\ Plan.compression = None
    <2> DEFINE q == Began(Plan, None, AtBlock(Plan))
    <2>1. Begins("ok", q)
      BY <1>5, <1>8
    <2>2. /\ None \in Option(Seq(Byte)) /\ AtBlock(Plan) \in WalkType
          /\ AtBlock(Plan).index <= PairCount(Plan)
          /\ HeldUnderCap(Plan, AtBlock(Plan)) /\ WholeUnderCap(Plan, None)
      BY <1>2, <1>3, <1>4, PairsCount, NothingOpen DEF Option, HeldUnderCap, WholeUnderCap
    <2>3. Sits(q) /\ q.plan = Plan /\ q.selected = selected_channel
      BY <1>1, <1>2, <1>3, <2>2, BeganSits
    <2> HIDE DEF q
    <2> QED  BY <1>1, <1>3, <1>5, <1>6, <1>8, <2>1, <2>3, BeginSucceeds
  <1>9. CASE o.res # "ok"
    BY <1>1, <1>5, <1>6, <1>9, BeginFails
  <1> QED  BY <1>7, <1>8, <1>9

\* begin_pixels opens the first pair of a compressed block.
LEMMA BeginWalkKeeps ==
    ASSUME RInv, BeginWalk
    PROVE  RInv'
  <1> DEFINE w == AtBlock(Plan)
  <1>1. pc = "begin_walk" /\ pc \in Beginning /\ UNCHANGED walkVars
    BY DEF BeginWalk, Beginning
  <1>2. PixelRefusal = "ok" /\ SourceType /\ Limits.materialized_bytes \in Nat
    BY <1>1, BeginFacts
  <1>3. /\ Plan # None /\ Fits(Plan) /\ IsStreamable(Plan) /\ Plan.compression # None
        /\ Grounded /\ Disciplined /\ Vouched(Plan)
    BY <1>1 DEF RInv, Disciplined, Fits, IsStreamable, Vouched
  <1>4. Planned(occurrences[current]) /\ Plan = occurrences[current].plan
    BY <1>2, <1>3, RefusalFacts
  <1>5. ConformingPlan(Plan)
    BY <1>3, <1>4, StreamsConform
  <1>6. PICK r \in Open(Plan, w) : Moves(r) /\ Begins(r.res, Began(Plan, None, r.walk))
    BY DEF BeginWalk
  <1>7. Between(Plan, w, <<>>) /\ w.index = 0 /\ PairCount(Plan) \in Nat
    BY <1>5, UnopenedIsBetween, PairsOf, NothingOpen DEF AtBlock, ConformingPlan
  <1> HIDE DEF w
  <1>8. CASE PairCount(Plan) = 0
    <2>1. Sound(r) /\ r.res = "Malformed"
      BY <1>2, <1>5, <1>6, <1>7, <1>8, OpenPast
    <2>2. r.pos \in Nat /\ (r.res = "Io" => faults > 0)
      BY <2>1 DEF Sound
    <2> QED  BY <1>1, <1>6, <2>1, <2>2, BeginFails
  <1>9. CASE PairCount(Plan) # 0
    <2>1. /\ Sound(r) /\ Standing(Plan, r.walk)
          /\ r.res = "ok" => Tells(Plan, r.walk, <<>>)
      BY <1>2, <1>5, <1>6, <1>7, <1>9, OpenTells
    <2>2. r.pos \in Nat /\ (r.res = "Io" => faults > 0)
      BY <2>1 DEF Sound
    <2>3. CASE r.res # "ok"
      BY <1>1, <1>6, <2>2, <2>3, BeginFails
    <2>4. CASE r.res = "ok"
      <3> DEFINE q == Began(Plan, None, r.walk)
      <3>1. Begins("ok", q)
        BY <1>6, <2>4
      <3>2. /\ None \in Option(Seq(Byte)) /\ r.walk \in WalkType /\ r.walk.index <= PairCount(Plan)
            /\ HeldUnderCap(Plan, r.walk) /\ WholeUnderCap(Plan, None)
        BY <2>1 DEF Option, Standing, WholeUnderCap
      <3>3. /\ Sits(q) /\ q.plan = Plan /\ q.selected = selected_channel
            /\ q.walk = r.walk /\ q.raw = <<>> /\ q.stream_row = 0
        BY <1>2, <1>3, <3>2, BeganSits
      <3> HIDE DEF q
      <3>4. Told(q, "next_chunk", <<>>)
        <4>1. <<>> \o q.raw = <<>> /\ Len(<<>>) = 0 /\ "next_chunk" \notin Filling
          BY <3>3 DEF Filling
        <4>2. q.stream_row * RowLength(q.plan) = 0
          <5>1. RowLength(q.plan) \in Nat
            BY <1>3, <3>3 DEF Fits, Sized
          <5> QED  BY <3>3, <5>1
        <4>3. Tells(q.plan, q.walk, <<>>)
          BY <2>1, <2>4, <3>3
        <4> QED  BY <4>1, <4>2, <4>3 DEF Told, Filling
      <3>5. <<>> \in Seq(Byte)
        OBVIOUS
      <3> QED  BY <1>1, <1>3, <1>6, <2>2, <2>4, <3>1, <3>3, <3>4, <3>5, BeginSucceeds
    <2> QED  BY <2>3, <2>4
  <1> QED  BY <1>8, <1>9

\* begin_pixels reads a block it will hold whole.
LEMMA BeginWholeKeeps ==
    ASSUME RInv, BeginWhole
    PROVE  RInv'
  <1>1. /\ pc \in Beginning /\ BeginRefusal(Plan) = "ok" /\ ~IsStreamable(Plan) /\ UNCHANGED walkVars
    BY DEF BeginWhole, Beginning
  <1>2. PixelRefusal = "ok" /\ Limits.materialized_bytes \in Nat /\ Grounded /\ Disciplined
    BY <1>1, BeginFacts DEF RInv
  <1>3. /\ Plan # None /\ Fits(Plan) /\ PackedAs(Plan)
        /\ Planned(occurrences[current]) /\ Plan = occurrences[current].plan
        /\ Stands(unit, occurrences[current])
    BY <1>1, <1>2, BeginFits DEF Planned
  <1>4. PICK m \in Materialize(Plan) : Moves(m) /\ Begins(m.res, Began(Plan, m.dst, Unopened))
    BY DEF BeginWhole
  <1>5. /\ m.pos \in Nat /\ (m.res = "Io" => faults > 0)
        /\ m.res = "ok" => /\ m.dst \in Seq(Byte) /\ Len(m.dst) = Plan.implied_bytes
                           /\ Clean(m.dst) /\ Vouched(Plan)
    BY <1>2, <1>3, MaterializeFits
  <1>8. m.res = "ok" => WholeUnderCap(Plan, m.dst)
    <2>1. Plan.implied_bytes <= Limits.materialized_bytes
      BY <1>1, <1>3 DEF Fits
    <2>2. m.res = "ok" /\ Plan.location.mode = "attachment" =>
             ~(Plan.location.size > Limits.materialized_bytes)
      BY <1>4 DEF Materialize, Decoded, Resident, Outcome
    <2>3. Plan.location.mode = "attachment" => Plan.location.size \in Nat
      BY <1>2, <1>3, GroundFacts, PlacesRead, MaxUAssumption DEF Planned, U
    <2> QED  BY <1>2, <1>5, <2>1, <2>2, <2>3 DEF WholeUnderCap
  <1>6. CASE m.res # "ok"
    BY <1>1, <1>4, <1>5, <1>6, BeginFails
  <1>7. CASE m.res = "ok"
    <2> DEFINE q == Began(Plan, m.dst, Unopened)
    <2>1. Begins("ok", q)
      BY <1>4, <1>7
    <2>2. /\ m.dst \in Option(Seq(Byte)) /\ m.dst # None
      BY <1>5, <1>7, NoBytesAssumption DEF Option
    <2>3. /\ Unopened \in WalkType /\ Unopened.index <= PairCount(Plan)
          /\ HeldUnderCap(Plan, Unopened)
      <3>1. PairCount(Plan) \in Nat
        BY <1>3, PairsCount
      <3>2. Unopened \in WalkType /\ Unopened.index = 0 /\ Unopened.buf = <<>>
        BY DEF Unopened, WalkType
      <3>3. Unopened.current = "Ended"
        BY DEF Unopened
      <3> QED  BY <1>2, <3>1, <3>2, <3>3 DEF HeldUnderCap
    <2>4. Sits(q) /\ q.plan = Plan /\ q.selected = selected_channel /\ q.whole = m.dst
      BY <1>1, <1>2, <1>3, <1>5, <1>7, <1>8, <2>2, <2>3, BeganSits
    <2> HIDE DEF q
    <2> QED  BY <1>1, <1>3, <1>4, <1>5, <1>7, <2>1, <2>2, <2>4, BeginSucceeds
  <1> QED  BY <1>6, <1>7

-----------------------------------------------------------------------------
(* A step of next_chunk.                                                   *)

\* The step leaves decode q of the same image, and moves the source or does not.
Leaves(q) ==
    /\ UNCHANGED walkVars /\ pixels' = q /\ pixels_read' \in BOOLEAN
    /\ Sits(q) /\ q.plan = Plan /\ q.selected = selected_channel
    /\ UNCHANGED sourceVars \/ \E o : Moves(o) /\ o.pos \in Nat /\ (o.res = "Io" => faults > 0)

\* A decode that sits, left by a step, sits over the same image.
LEMMA LeavesFacts ==
    ASSUME RInv, NEW q, Leaves(q)
    PROVE  /\ Grounded' /\ PixelsHeld' /\ length' = length
           /\ UNCHANGED <<unit, occurrences, next, current, header>>
  <1>1. UNCHANGED <<unit, occurrences, next, current, header>>
    BY DEF Leaves, walkVars
  <1>2. Grounded' /\ length' = length
    <2>1. CASE UNCHANGED sourceVars
      BY <1>1, <2>1, GroundStays DEF RInv, sourceVars, Leaves
    <2>2. ASSUME NEW o, Moves(o), o.pos \in Nat, o.res = "Io" => faults > 0
          PROVE  Grounded' /\ length' = length
      BY <1>1, <2>2, GroundMoves DEF RInv, Leaves
    <2> QED  BY <2>1, <2>2 DEF Leaves
  <1>3. PixelsHeld'
    BY <1>1, <1>2, SitsStill DEF Leaves
  <1> QED  BY <1>1, <1>2, <1>3

\* The decode as next_chunk finds it.
LEMMA ChunkFacts ==
    ASSUME RInv, pc \in Chunking
    PROVE  /\ pixels_started /\ ~pixels_failed /\ cursor # "none" /\ SourceType
           /\ pixels # None /\ Sits(pixels) /\ pixels.plan = Plan
           /\ pixels.selected = selected_channel /\ pixels_read \in BOOLEAN
           /\ pixels \in PixelStates(Plan) /\ Plan # None /\ Fits(Plan) /\ PairCount(Plan) \in Nat
           /\ Planned(occurrences[current]) /\ Plan = occurrences[current].plan
           /\ RowBytes = RowLength(Plan) /\ RowLength(Plan) \in Nat \ {0}
           /\ Compressed <=> Plan.compression # None
           /\ pc \in Filling => Compressed /\ pixels.whole = None
           /\ Compressed /\ pixels.whole = None =>
                 /\ ConformingPlan(Plan) /\ \E b \in Seq(Byte) : Told(pixels, pc, b)
           /\ pixels.whole = None => /\ PREAMBLE + unit.declared <= Plan.location.position
                                     /\ Plan.location.position \in Nat
                                     /\ PREAMBLE + unit.declared \in Nat
  <1>1. Grounded /\ Disciplined /\ PixelsHeld /\ Underway
    BY DEF RInv
  <1>2. pixels_started /\ ~pixels_failed /\ cursor # "none"
    BY <1>1 DEF Disciplined
  <1>3. /\ pixels # None /\ pixels.plan = Plan /\ pixels.selected = selected_channel
        /\ pc \in Filling => Compressed /\ pixels.whole = None
        /\ Compressed /\ pixels.whole = None => \E b \in Seq(Byte) : Told(pixels, pc, b)
    BY <1>1, <1>2 DEF Underway
  <1>4. SourceType /\ unit.declared \in Nat /\ PREAMBLE \in Nat /\ pixels_read \in BOOLEAN
    BY <1>1, GroundFacts, HeaderAssumption DEF Grounded
  <1>5. Sits(pixels) /\ PixelRefusal = "ok" /\ Plan # None /\ Fits(Plan)
    BY <1>1, <1>2, <1>3 DEF PixelsHeld, Disciplined
  <1>6. pixels \in PixelStates(Plan)
    BY <1>3, <1>5 DEF Sits
  <1>7. Planned(occurrences[current]) /\ Plan = occurrences[current].plan
    BY <1>1, <1>5, RefusalFacts
  <1>8. PairCount(Plan) \in Nat
    BY <1>7, PairsCount DEF Planned
  <1>9. RowBytes = RowLength(Plan) /\ RowLength(Plan) \in Nat \ {0}
    BY <1>3, <1>5 DEF RowBytes, Fits, Sized
  <1>10. Compressed <=> Plan.compression # None
    BY <1>3 DEF Compressed
  <1>11. pixels.whole = None =>
            /\ PREAMBLE + unit.declared <= Plan.location.position
            /\ Plan.location.position \in Nat
            /\ Plan.compression # None => ConformingPlan(Plan)
    <2>1. pixels.whole = None => IsStreamable(Plan)
      BY <1>3, <1>5 DEF Sits
    <2> QED  BY <1>1, <1>3, <1>5, <2>1, SittingFacts
  <1>12. PREAMBLE + unit.declared \in Nat
    BY <1>4
  <1> QED  BY <1>2, <1>3, <1>4, <1>5, <1>6, <1>7, <1>8, <1>9, <1>10, <1>11, <1>12

\* The step fails the chunk.
LEMMA StepFails ==
    ASSUME RInv, pc \in Chunking, NEW q, Leaves(q), NEW res, ChunkFails(res)
    PROVE  RInv'
  <1>1. cursor # "none"
    BY ChunkFacts
  <1> QED  BY <1>1, LeavesFacts, FailKeeps

\* The step goes on to another point.
LEMMA StepGoes ==
    ASSUME RInv, pc \in Chunking, NEW q, Leaves(q), pc' \in Chunking,
           UNCHANGED <<readerVars, cursor, stream>>,
           pc' \in Filling => q.plan.compression # None /\ q.whole = None,
           q.plan.compression # None /\ q.whole = None => \E b \in Seq(Byte) : Told(q, pc', b)
    PROVE  RInv'
  <1>1. /\ Grounded' /\ PixelsHeld' /\ length' = length
        /\ UNCHANGED <<unit, occurrences, next, current, header>>
    BY LeavesFacts
  <1>2. Disciplined' /\ UNCHANGED <<pixels_started, pixels_failed, selected_channel>>
    BY <1>1, MoveDisciplined DEF RInv
  <1>3. Underway'
    BY <1>1, <1>2, UnderwayLeads DEF RInv, Leaves
  <1>4. Delivered'
    BY <1>1, StreamStays DEF RInv
  <1> QED  BY <1>1, <1>2, <1>3, <1>4 DEF RInv

\* The step ends the call, with a chunk or at the end of the image.
LEMMA StepReturns ==
    ASSUME RInv, pc \in Chunking, NEW q, Leaves(q),
           q.plan.compression # None /\ q.whole = None =>
              \E b \in Seq(Byte) : Told(q, "next_chunk", b),
           ImageEnds \/ \E chunk : ChunkReturns(chunk) /\ CleanRun(chunk.from)
    PROVE  RInv'
  <1>1. /\ Grounded' /\ PixelsHeld' /\ length' = length
        /\ UNCHANGED <<unit, occurrences, next, current, header>>
    BY LeavesFacts
  <1>2. /\ UNCHANGED readerVars /\ cursor' \in {cursor, "none"} /\ pc' \in {"idle", "next_chunk"}
        /\ pc' = "next_chunk" => cursor' = cursor
        /\ \/ stream' = stream
           \/ \E chunk : stream' = Append(stream, chunk) /\ CleanRun(chunk.from)
    BY DEF ImageEnds, ChunkReturns, Returns
  <1>3. Disciplined' /\ UNCHANGED <<pixels_started, pixels_failed, selected_channel>>
    <2>1. PixelRefusal' = PixelRefusal /\ Plan' = Plan
      BY <1>1, VerdictsStand
    <2>2. UNCHANGED <<phase, selected_channel, pixels_started, pixels_failed>>
      BY <1>2 DEF readerVars
    <2>3. /\ OverOutputCap(header.bytes)' = OverOutputCap(header.bytes)
          /\ OverOutputCap(4)' = OverOutputCap(4)
      BY <1>1, <2>2, VerdictsStand
    <2>4. pixels_started /\ ~pixels_failed /\ cursor # "none"
      BY ChunkFacts
    <2>5. Disciplined
      BY DEF RInv
    <2>6. pc' \notin Apart /\ pc' \notin Beginning /\ pc' \notin Filling
          /\ (pc' \in Chunking => pc' = "next_chunk")
      BY <1>2 DEF Apart, Beginning, Chunking, Filling
    <2> QED  BY <1>1, <1>2, <2>1, <2>2, <2>3, <2>4, <2>5, <2>6
             DEF Disciplined, Apart, Beginning, Chunking, Filling
  <1>4. Underway'
    <2>1. "next_chunk" \notin Filling /\ pc' \notin Filling
      BY <1>2 DEF Filling
    <2>2. \A b : Told(q, "next_chunk", b) => Told(q, pc', b)
      BY <2>1, ToldOutside
    <2> QED  BY <1>1, <1>3, <2>1, <2>2, UnderwayLeads DEF RInv, Leaves
  <1>5. Delivered'
    <2>1. CASE stream' = stream
      BY <1>1, <2>1, StreamStays DEF RInv
    <2>2. ASSUME NEW chunk, stream' = Append(stream, chunk), CleanRun(chunk.from)
          PROVE  Delivered'
      <3>1. PICK T : stream \in Seq(T) /\ \A t \in T : CleanRun(t.from)
        BY DEF RInv, Delivered
      <3>2. stream' \in Seq(T \cup {chunk})
        BY <2>2, <3>1
      <3>3. \A from : CleanRun(from) => CleanRun(from)'
        BY <1>1 DEF CleanRun, Clean
      <3>4. \A t \in T \cup {chunk} : CleanRun(t.from)'
        BY <2>2, <3>1, <3>3
      <3> QED  BY <3>2, <3>4 DEF Delivered
    <2> QED  BY <1>2, <2>1, <2>2
  <1> QED  BY <1>1, <1>3, <1>4, <1>5 DEF RInv

-----------------------------------------------------------------------------
(* The row in hand, and the chunk cut from it.                             *)

\* A chunk stands at a channel, a row and an input row.
LEMMA CursorStands ==
    ASSUME NEW o, Planned(o), NEW p \in PixelStates(o.plan), NEW i \in Nat
    PROVE  /\ CursorAt(p, i).channel \in Nat /\ CursorAt(p, i).row \in Nat
           /\ CursorAt(p, i).input_row \in Nat
  <1> DEFINE g == p.plan.geometry
             h == g.height
             n == g.channels
             planar == p.plan.storage = "Planar"
             channel == IF p.selected # None THEN p.selected
                        ELSE IF planar THEN i \div h ELSE i % n
             row == IF p.selected # None THEN i ELSE IF planar THEN i % h ELSE i \div n
             input == IF planar THEN channel * h + row ELSE row
  <1>1. h \in Nat \ {0} /\ n \in Nat \ {0}
    BY MaxUAssumption DEF Planned, PixelStates, Geometry, U
  <1>2. p.selected \in Option(Nat)
    BY DEF PixelStates
  <1>3. CursorAt(p, i).channel = channel /\ CursorAt(p, i).row = row
        /\ CursorAt(p, i).input_row = input
    BY DEF CursorAt
  <1> HIDE DEF h, n
  <1>4. i \div h \in Nat /\ i % h \in Nat /\ i \div n \in Nat /\ i % n \in Nat
    BY <1>1, Division
  <1>5. channel \in Nat /\ row \in Nat
    BY <1>2, <1>4 DEF Option
  <1> HIDE DEF channel, row, planar
  <1>6. input \in Nat
    BY <1>1, <1>5
  <1> QED  BY <1>3, <1>5, <1>6

\* What a row decodes to is told by the plan and what is resident.
LEMMA SameRow ==
    ASSUME NEW p, NEW q, q.plan = p.plan, q.whole = p.whole, q.raw = p.raw, NEW channel, NEW row
    PROVE  DecodeRow(q, channel, row) = DecodeRow(p, channel, row)
  <1>1. Held(q) = Held(p)
    BY DEF Held
  <1>2. RunOf(q, channel, row) = RunOf(p, channel, row)
    BY DEF RunOf
  <1>3. \A run, base : RowInRange(q, run, base) = RowInRange(p, run, base)
    BY <1>1 DEF RowInRange
  <1>4. \A at : ByteAt(q, at) = ByteAt(p, at)
    BY <1>1 DEF ByteAt
  <1> QED  BY <1>2, <1>3, <1>4 DEF DecodeRow

\* A chunk is where a row stands, whatever else the decode holds.
LEMMA SameCursor ==
    ASSUME NEW p, NEW q, q.plan = p.plan, q.selected = p.selected, NEW i
    PROVE  CursorAt(q, i) = CursorAt(p, i)
  BY DEF CursorAt

\* What is resident of a decode that sits is clean.
LEMMA HeldIsClean ==
    ASSUME NEW p, Sits(p)
    PROVE  Clean(Held(p))
  BY DEF Sits, Held

\* The state past one more chunk.
LEMMA CountedSits ==
    ASSUME NEW p, Sits(p), p.chunks_done < p.chunks_total,
           NEW done, done = [p EXCEPT !.chunks_done = @ + 1]
    PROVE  /\ Sits(done) /\ done.chunks_done = p.chunks_done + 1
           /\ done.plan = p.plan /\ done.selected = p.selected /\ done.whole = p.whole
           /\ done.raw = p.raw /\ done.walk = p.walk /\ done.stream_row = p.stream_row
           /\ done.chunks_total = p.chunks_total
  <1>1. p \in PixelStates(p.plan)
    BY DEF Sits
  <1>2. p.chunks_done \in Nat /\ p.chunks_total \in Nat
    BY <1>1 DEF PixelStates
  <1>3. /\ done.chunks_done = p.chunks_done + 1
        /\ done.plan = p.plan /\ done.selected = p.selected /\ done.whole = p.whole
        /\ done.raw = p.raw /\ done.walk = p.walk /\ done.stream_row = p.stream_row
        /\ done.chunks_total = p.chunks_total
    BY <1>1 DEF PixelStates
  <1>4. done \in PixelStates(p.plan)
    BY <1>1, <1>2 DEF PixelStates
  <1> QED  BY <1>2, <1>3, <1>4 DEF Sits

\* A stream that has yielded every row of the block has told it all.
LEMMA AllRowsTold ==
    ASSUME SourceType, NEW p, Sits(p), ConformingPlan(p.plan), NEW done,
           Tells(p.plan, p.walk, done), Len(done) = p.stream_row * RowLength(p.plan),
           p.stream_row >= RowsIn(p.plan)
    PROVE  Len(done) = p.plan.implied_bytes /\ p.walk.owed = 0
  <1> DEFINE size == RowLength(p.plan)
             rows == RowsIn(p.plan)
             implied == p.plan.implied_bytes
  <1>1. size \in Nat /\ rows \in Nat /\ implied = rows * size
    BY DEF Sits, Fits, Sized
  <1>2. p.stream_row \in Nat
    BY DEF Sits, PixelStates
  <1>3. /\ p.walk.owed \in Nat /\ Len(done) + p.walk.owed = Owes(p.plan, p.walk.index)
        /\ Owes(p.plan, p.walk.index) \in 0 .. implied /\ done \in Seq(Byte)
    BY ToldSoFar
  <1>4. Len(done) = p.stream_row * size
    OBVIOUS
  <1>5. Len(done) \in Nat
    BY <1>3
  <1> HIDE DEF size, rows, implied
  <1>6. rows * size <= p.stream_row * size
    <2>1. rows <= p.stream_row
      BY <1>1, <1>2 DEF rows
    <2> QED  BY <1>1, <1>2, <2>1, TimesMore
  <1>7. implied \in Nat /\ p.stream_row * size \in Nat
    BY <1>1, <1>2
  <1>8. implied <= Len(done)
    BY <1>1, <1>4, <1>6
  <1>9. Len(done) = implied /\ p.walk.owed = 0
    BY <1>3, <1>5, <1>7, <1>8
  <1> QED  BY <1>9 DEF implied

\* The chunk the step hands over, out of a decode p that has its row.
LEMMA DeliversKeeps ==
    ASSUME RInv, pc = "next_chunk", NEW p, Sits(p), p.plan = Plan, p.selected = selected_channel,
           p.chunks_done < p.chunks_total,
           p.plan.compression # None /\ p.whole = None =>
              ConformingPlan(p.plan) /\ \E b \in Seq(Byte) : Told(p, "next_chunk", b),
           Delivers(p), UNCHANGED <<walkVars, pixels_read>>,
           UNCHANGED sourceVars \/ \E o : Moves(o) /\ o.pos \in Nat /\ (o.res = "Io" => faults > 0)
    PROVE  RInv'
  <1> DEFINE c == CursorAt(p, p.chunks_done)
             run == DecodeRow(p, c.channel, c.row)
             done == [p EXCEPT !.chunks_done = @ + 1]
             chunk == ChunkOf(p, c, run.value)
  <1>1. pc \in Chunking
    BY DEF Chunking
  <1>2. /\ SourceType /\ pixels_read \in BOOLEAN /\ PairCount(Plan) \in Nat
        /\ Planned(occurrences[current]) /\ Plan = occurrences[current].plan
    BY <1>1, ChunkFacts
  <1>3. /\ UNCHANGED walkVars /\ pixels_read' \in BOOLEAN
        /\ UNCHANGED sourceVars \/ \E o : Moves(o) /\ o.pos \in Nat /\ (o.res = "Io" => faults > 0)
    BY <1>2
  <1>4. p \in PixelStates(Plan) /\ p.chunks_done \in Nat /\ p.chunks_total \in Nat
    BY DEF Sits, PixelStates
  <1>5. c.channel \in Nat /\ c.row \in Nat
    BY <1>2, <1>4, CursorStands
  <1>6. /\ run.res # "ok" => pixels' = p /\ ChunkFails(run.res)
        /\ run.res = "ok" =>
              /\ pixels' = done
              /\ ~NeedsFinish(done) => ChunkReturns(chunk)
              /\ NeedsFinish(done) =>
                    /\ pc' = (IF p.walk.index < PairCount(p.plan) THEN "end_pair" ELSE "finish")
                    /\ UNCHANGED <<readerVars, cursor, stream>>
    BY DEF Delivers
  <1>7. chunk.from = run.value
    BY DEF ChunkOf
  <1> HIDE DEF c, run, done, chunk
  <1>8. CASE run.res # "ok"
    <2>1. Leaves(p)
      BY <1>3, <1>6, <1>8 DEF Leaves
    <2> QED  BY <1>1, <1>6, <1>8, <2>1, StepFails
  <1>9. CASE run.res = "ok"
    <2>1. /\ Sits(done) /\ done.chunks_done = p.chunks_done + 1
          /\ done.plan = p.plan /\ done.selected = p.selected /\ done.whole = p.whole
          /\ done.raw = p.raw /\ done.walk = p.walk /\ done.stream_row = p.stream_row
          /\ done.chunks_total = p.chunks_total
      BY CountedSits DEF done
    <2>2. Leaves(done)
      BY <1>3, <1>6, <1>9, <2>1 DEF Leaves
    <2>3. CleanRun(run.value)
      BY <1>2, <1>4, <1>5, <1>9, HeldIsClean, DecodedClean DEF run
    <2>4. ASSUME NEW b, Told(p, "next_chunk", b)
          PROVE  /\ Tells(p.plan, p.walk, b \o p.raw)
                 /\ Len(b \o p.raw) = p.stream_row * RowLength(p.plan)
                 /\ Told(done, "next_chunk", b)
      <3>1. /\ Tells(p.plan, p.walk, b \o p.raw)
            /\ Len(b \o p.raw) = p.stream_row * RowLength(p.plan)
        BY <2>4 DEF Told, Filling
      <3> QED  BY <2>1, <3>1 DEF Told, Filling
    <2>5. CASE ~NeedsFinish(done)
      <3>1. ChunkReturns(chunk) /\ CleanRun(chunk.from)
        BY <1>6, <1>7, <1>9, <2>3, <2>5
      <3>2. done.plan.compression # None /\ done.whole = None =>
               \E b \in Seq(Byte) : Told(done, "next_chunk", b)
        BY <2>1, <2>4
      <3> QED  BY <1>1, <2>2, <3>1, <3>2, StepReturns
    <2>6. CASE NeedsFinish(done)
      <3>1. /\ p.plan.compression # None /\ p.whole = None /\ p.stream_row >= RowsIn(p.plan)
            /\ done.chunks_done >= done.chunks_total
        BY <2>1, <2>6 DEF NeedsFinish, RowsIn
      <3>2. PICK b \in Seq(Byte) : Told(p, "next_chunk", b)
        BY <3>1
      <3>3. /\ Tells(p.plan, p.walk, b \o p.raw)
            /\ Len(b \o p.raw) = p.stream_row * RowLength(p.plan)
        BY <2>4, <3>2
      <3>4. Len(b \o p.raw) = p.plan.implied_bytes /\ p.walk.owed = 0
        BY <1>2, <3>1, <3>3, AllRowsTold
      <3>5. ~ (done.chunks_done < done.chunks_total)
        BY <1>4, <2>1, <3>1
      <3>6. InHand(done)
        <4>1. done.chunks_done # 0 /\ done.chunks_done - 1 = p.chunks_done
          BY <1>4, <2>1
        <4>2. CursorAt(done, done.chunks_done - 1) = c
          BY <2>1, <4>1, SameCursor DEF c
        <4>3. DecodeRow(done, c.channel, c.row).res = "ok"
          BY <1>9, <2>1, SameRow DEF run
        <4> QED  BY <4>1, <4>2, <4>3 DEF InHand
      <3>7. pc' \in {"end_pair", "finish"} /\ UNCHANGED <<readerVars, cursor, stream>>
        BY <1>6, <1>9, <2>6
      <3>8. Told(done, pc', b)
        BY <2>1, <3>3, <3>4, <3>5, <3>6, <3>7 DEF Told, Filling
      <3>9. pc' \in Chunking
        BY <3>7 DEF Chunking, Filling
      <3> QED  BY <1>1, <2>1, <2>2, <3>1, <3>7, <3>8, <3>9, StepGoes
    <2> QED  BY <2>5, <2>6
  <1> QED  BY <1>8, <1>9

\* The cursor comes to the end of an image.
LEMMA FinishImageKeeps ==
    ASSUME RInv, FinishImage
    PROVE  RInv'
  <1>1. /\ pc = "next_chunk" /\ pc \in Chunking /\ UNCHANGED <<sourceVars, walkVars>>
        /\ pixels' = pixels /\ pixels_read' \in BOOLEAN /\ ImageEnds
    BY DEF FinishImage, Chunking
  <1>2. /\ Sits(pixels) /\ pixels.plan = Plan /\ pixels.selected = selected_channel
        /\ pixels.plan.compression # None /\ pixels.whole = None =>
              \E b \in Seq(Byte) : Told(pixels, "next_chunk", b)
    BY <1>1, ChunkFacts
  <1>3. Leaves(pixels)
    BY <1>1, <1>2 DEF Leaves
  <1> QED  BY <1>1, <1>2, <1>3, StepReturns

\* A row in hand is cut and handed over.
LEMMA DeliverRowKeeps ==
    ASSUME RInv, DeliverRow
    PROVE  RInv'
  <1>1. /\ pc = "next_chunk" /\ pc \in Chunking /\ pixels.chunks_done < pixels.chunks_total
        /\ UNCHANGED <<sourceVars, walkVars, pixels_read>>
    BY DEF DeliverRow, Chunking, MoreChunks
  <1>2. /\ Sits(pixels) /\ pixels.plan = Plan /\ pixels.selected = selected_channel
        /\ pixels \in PixelStates(Plan)
        /\ Planned(occurrences[current]) /\ Plan = occurrences[current].plan
        /\ pixels.plan.compression # None /\ pixels.whole = None =>
              ConformingPlan(pixels.plan) /\ \E b \in Seq(Byte) : Told(pixels, "next_chunk", b)
    BY <1>1, ChunkFacts
  <1>3. CASE pixels.whole # None
    <2>1. Delivers(pixels)
      BY <1>3 DEF DeliverRow
    <2> QED  BY <1>1, <1>2, <2>1, DeliversKeeps
  <1>4. CASE pixels.whole = None
    <2> DEFINE at == Here.input_row
               p == [pixels EXCEPT !.raw_row = at]
    <2>1. Delivers(p)
      BY <1>4 DEF DeliverRow
    <2>2. at \in Nat /\ at \in Option(Nat)
      <3>1. pixels.chunks_done \in Nat
        BY <1>2 DEF PixelStates
      <3> QED  BY <1>2, <3>1, CursorStands DEF Here, Option
    <2> HIDE DEF at
    <2>3. /\ p \in PixelStates(Plan) /\ p.plan = pixels.plan /\ p.selected = pixels.selected
          /\ p.chunks_done = pixels.chunks_done /\ p.chunks_total = pixels.chunks_total
          /\ p.whole = pixels.whole /\ p.raw = pixels.raw /\ p.walk = pixels.walk
          /\ p.stream_row = pixels.stream_row
      BY <1>2, <2>2 DEF PixelStates
    <2> HIDE DEF p
    <2>4. Sits(p)
      BY <1>2, <2>3 DEF Sits
    <2>5. \A b : Told(pixels, "next_chunk", b) => Told(p, "next_chunk", b)
      BY <2>3 DEF Told, Filling
    <2> QED  BY <1>1, <1>2, <2>1, <2>3, <2>4, <2>5, DeliversKeeps
  <1> QED  BY <1>3, <1>4

-----------------------------------------------------------------------------
(* Reading a row, and streaming up to one.                                 *)

\* What is streamed from a block that lies past the header is clean.
LEMMA StreamedIsClean ==
    ASSUME SourceType, NEW p, p.location.position \in Nat, PREAMBLE + unit.declared \in Nat,
           PREAMBLE + unit.declared <= p.location.position,
           NEW bytes, Within(p, bytes)
    PROVE  Clean(bytes)
  <1>1. \A x : x \in p.location.position .. length - 1 => x \in PREAMBLE + unit.declared .. length - 1
    BY DEF SourceType
  <1> QED  BY <1>1 DEF Within, Clean

\* An uncompressed row is read where the plan says, and handed over.
LEMMA ReadRowKeeps ==
    ASSUME RInv, ReadRow
    PROVE  RInv'
  <1> DEFINE at == Here.input_row
             size == RowLength(Plan)
             from == Plan.location.position
  <1>1. /\ pc = "next_chunk" /\ pc \in Chunking /\ pixels.chunks_done < pixels.chunks_total
        /\ UNCHANGED <<walkVars, pixels_read>> /\ ~Compressed /\ pixels.whole = None
    BY DEF ReadRow, Chunking, MoreChunks
  <1>2. /\ Sits(pixels) /\ pixels.plan = Plan /\ pixels.selected = selected_channel
        /\ pixels \in PixelStates(Plan) /\ SourceType /\ pixels_read \in BOOLEAN
        /\ Planned(occurrences[current]) /\ Plan = occurrences[current].plan
        /\ Plan.compression = None /\ RowBytes = size /\ size \in Nat
        /\ PREAMBLE + unit.declared <= from /\ from \in Nat /\ PREAMBLE + unit.declared \in Nat
    BY <1>1, ChunkFacts
  <1>3. at \in Nat
    <2>1. pixels.chunks_done \in Nat
      BY <1>2 DEF PixelStates
    <2> QED  BY <1>2, <2>1, CursorStands DEF Here
  <1>4. RowOffset(pixels) = CheckedAdd(from, CheckedMul(at, size))
    BY <1>2 DEF RowOffset, Here
  <1>5. PICK o \in IF RowOffset(pixels) = None THEN {Outcome("LimitExceeded", pos)}
                   ELSE ReadAt(RowOffset(pixels), RowBytes) :
          /\ Moves(o)
          /\ IF o.res # "ok" THEN ChunkFails(o.res) /\ UNCHANGED pixels
             ELSE Delivers([pixels EXCEPT !.raw = FileBytes(o.pos - size, size), !.raw_row = at])
    BY <1>2 DEF ReadRow
  <1> HIDE DEF at, size, from
  <1>6. RowOffset(pixels) # None => RowOffset(pixels) \in Nat /\ RowOffset(pixels) >= from
    <2>1. CASE CheckedMul(at, size) = None
      BY <1>4, <2>1 DEF CheckedAdd
    <2>2. CASE CheckedMul(at, size) # None
      <3>1. at * size \in Nat
        BY <1>2, <1>3
      <3>2. CheckedMul(at, size) = at * size
        BY <2>2 DEF CheckedMul, Fit
      <3>3. CheckedAdd(from, at * size) \in {None, from + at * size}
        BY DEF CheckedAdd, Fit
      <3> HIDE DEF size
      <3>4. from + at * size \in Nat /\ from + at * size >= from
        BY <1>2, <3>1
      <3> QED  BY <1>4, <3>2, <3>3, <3>4
    <2> QED  BY <2>1, <2>2
  <1>7. /\ o.pos \in Nat /\ (o.res = "Io" => faults > 0)
        /\ o.res = "ok" => o.pos - size \in Nat /\ o.pos - size >= from /\ o.pos <= length
    <2>1. CASE RowOffset(pixels) = None
      BY <1>2, <1>5, <2>1 DEF Outcome, SourceType
    <2>2. CASE RowOffset(pixels) # None
      <3>1. Lands(o, RowOffset(pixels) + size, TRUE)
        BY <1>2, <1>5, <1>6, <2>2, ReadAtLands
      <3> QED  BY <1>2, <1>6, <2>2, <3>1 DEF Lands
    <2> QED  BY <2>1, <2>2
  <1>8. CASE o.res # "ok"
    <2>1. Leaves(pixels)
      BY <1>1, <1>2, <1>5, <1>7, <1>8 DEF Leaves
    <2> QED  BY <1>1, <1>5, <1>8, <2>1, StepFails
  <1>9. CASE o.res = "ok"
    <2> DEFINE row == FileBytes(o.pos - size, size)
               p == [pixels EXCEPT !.raw = row, !.raw_row = at]
    <2>1. Delivers(p)
      BY <1>5, <1>9
    <2>2. /\ row \in Seq(Byte) /\ Len(row) = size /\ DOMAIN row = 1 .. size
          /\ \A k \in 1 .. size : row[k] = <<"file", (o.pos - size) + k - 1>>
      BY <1>2, <1>7, <1>9, FileBytesRun DEF FileBytes
    <2> HIDE DEF row
    <2>3. Clean(row)
      <3>1. \A k \in 1 .. size : (o.pos - size) + k - 1 \in PREAMBLE + unit.declared .. length - 1
        BY <1>2, <1>7, <1>9 DEF SourceType
      <3> QED  BY <2>2, <3>1 DEF Clean
    <2>4. at \in Option(Nat)
      BY <1>3 DEF Option
    <2>5. /\ p \in PixelStates(Plan) /\ p.plan = pixels.plan /\ p.selected = pixels.selected
          /\ p.chunks_done = pixels.chunks_done /\ p.chunks_total = pixels.chunks_total
          /\ p.whole = pixels.whole /\ p.raw = row /\ p.walk = pixels.walk
      BY <1>2, <2>2, <2>4 DEF PixelStates
    <2> HIDE DEF p
    <2>6. Sits(p)
      <3>1. Len(p.raw) <= RowLength(p.plan)
        BY <1>2, <2>2, <2>5 DEF size
      <3> QED  BY <1>2, <2>3, <2>5, <3>1 DEF Sits
    <2> QED  BY <1>1, <1>2, <1>5, <1>7, <1>9, <2>1, <2>5, <2>6, DeliversKeeps
  <1> QED  BY <1>8, <1>9

\* A compressed stream sets out to fill a row.
LEMMA WantRowKeeps ==
    ASSUME RInv, WantRow
    PROVE  RInv'
  <1> DEFINE q == [pixels EXCEPT !.raw = <<>>]
  <1>1. /\ pc = "next_chunk" /\ pc \in Chunking /\ pixels.chunks_done < pixels.chunks_total
        /\ Compressed /\ pixels.whole = None /\ pixels' = q /\ pc' = "fill"
        /\ UNCHANGED sourceVars /\ UNCHANGED walkVars /\ UNCHANGED pixels_read
        /\ UNCHANGED <<readerVars, cursor, stream>>
    BY DEF WantRow, Chunking, MoreChunks
  <1>2. /\ Sits(pixels) /\ pixels.plan = Plan /\ pixels.selected = selected_channel
        /\ pixels \in PixelStates(Plan) /\ Plan.compression # None /\ pixels_read \in BOOLEAN
        /\ RowLength(Plan) \in Nat \ {0}
        /\ \E b \in Seq(Byte) : Told(pixels, "next_chunk", b)
    BY <1>1, ChunkFacts
  <1>3. PICK b \in Seq(Byte) : Told(pixels, "next_chunk", b)
    BY <1>2
  <1> DEFINE done == b \o pixels.raw
  <1>4. /\ Tells(Plan, pixels.walk, done) /\ Len(done) = pixels.stream_row * RowLength(Plan)
    BY <1>1, <1>2, <1>3 DEF Told, Filling
  <1>5. done \in Seq(Byte) /\ done \o <<>> = done
    BY <1>2, <1>3 DEF PixelStates
  <1> HIDE DEF done
  <1>6. <<>> \in Seq(Byte) /\ Len(<<>>) = 0
    OBVIOUS
  <1>7. /\ q \in PixelStates(Plan) /\ q.plan = pixels.plan /\ q.selected = pixels.selected
        /\ q.chunks_done = pixels.chunks_done /\ q.chunks_total = pixels.chunks_total
        /\ q.whole = pixels.whole /\ q.raw = <<>> /\ q.walk = pixels.walk
        /\ q.stream_row = pixels.stream_row
    BY <1>2, <1>6 DEF PixelStates
  <1> HIDE DEF q
  <1>8. Sits(q)
    <2>1. Len(q.raw) <= RowLength(q.plan) /\ Clean(q.raw)
      BY <1>2, <1>6, <1>7 DEF Clean
    <2> QED  BY <1>2, <1>7, <2>1 DEF Sits
  <1>9. Leaves(q)
    BY <1>1, <1>2, <1>7, <1>8 DEF Leaves
  <1>10. Told(q, "fill", done)
    <2>1. done \o q.raw = done /\ Len(q.raw) < RowLength(q.plan) /\ q.chunks_done < q.chunks_total
      BY <1>1, <1>2, <1>5, <1>6, <1>7
    <2> QED  BY <1>2, <1>4, <1>7, <2>1 DEF Told, Filling
  <1>11. pc' \in Chunking
    BY <1>1 DEF Chunking, Filling
  <1> QED  BY <1>1, <1>2, <1>5, <1>7, <1>9, <1>10, <1>11, StepGoes

-----------------------------------------------------------------------------
(* The steps of the walk under a row.                                      *)

\* Bytes are joined in any grouping.
LEMMA JoinedOnce ==
    \A x, y, z \in Seq(Byte) : (x \o y) \o z = x \o (y \o z)
  OBVIOUS

\* The walk alone has moved on.
LEMMA WalkedSits ==
    ASSUME NEW p, Sits(p), NEW w, Standing(p.plan, w), NEW q, q = [p EXCEPT !.walk = w]
    PROVE  /\ Sits(q) /\ q.plan = p.plan /\ q.selected = p.selected /\ q.whole = p.whole
           /\ q.chunks_done = p.chunks_done /\ q.chunks_total = p.chunks_total
           /\ q.raw = p.raw /\ q.walk = w /\ q.stream_row = p.stream_row
  <1>1. p \in PixelStates(p.plan) /\ w \in WalkType
    BY DEF Sits, Standing
  <1>2. /\ q \in PixelStates(p.plan) /\ q.plan = p.plan /\ q.selected = p.selected
        /\ q.whole = p.whole
        /\ q.chunks_done = p.chunks_done /\ q.chunks_total = p.chunks_total
        /\ q.raw = p.raw /\ q.walk = w /\ q.stream_row = p.stream_row
    BY <1>1 DEF PixelStates
  <1> QED  BY <1>1, <1>2 DEF Sits, Standing

\* What is in hand stays in hand while the walk moves.
LEMMA HandStays ==
    ASSUME NEW p, NEW q, InHand(p), q.plan = p.plan, q.selected = p.selected, q.whole = p.whole,
           q.raw = p.raw, q.chunks_done = p.chunks_done
    PROVE  InHand(q)
  <1> DEFINE c == CursorAt(p, p.chunks_done - 1)
  <1>1. CursorAt(q, q.chunks_done - 1) = c
    BY SameCursor
  <1>2. DecodeRow(q, c.channel, c.row) = DecodeRow(p, c.channel, c.row)
    BY SameRow
  <1> QED  BY <1>1, <1>2 DEF InHand

\* A point of the walk, as a step finds it.
LEMMA FillFacts ==
    ASSUME RInv, pc \in Filling
    PROVE  /\ pc \in Chunking /\ SourceType /\ Sits(pixels) /\ pixels.plan = Plan
           /\ pixels.selected = selected_channel /\ pixels_read \in BOOLEAN
           /\ pixels \in PixelStates(Plan) /\ ConformingPlan(Plan) /\ PairCount(Plan) \in Nat
           /\ Plan.compression # None /\ pixels.whole = None
           /\ RowBytes = RowLength(Plan) /\ RowLength(Plan) \in Nat \ {0}
           /\ Planned(occurrences[current]) /\ Plan = occurrences[current].plan
           /\ PREAMBLE + unit.declared <= Plan.location.position
           /\ Plan.location.position \in Nat /\ PREAMBLE + unit.declared \in Nat
           /\ \E b \in Seq(Byte) : Told(pixels, pc, b)
  <1>1. pc \in Chunking
    BY DEF Chunking
  <1> QED  BY <1>1, ChunkFacts

\* A result of the walk that leaves decode q, failing the chunk or going on.
LEMMA WalksKeeps ==
    ASSUME RInv, pc \in Filling, NEW r, Sound(r), NEW point \in Chunking, Walks(r, point),
           NEW q, pixels' = q, Sits(q), q.plan = Plan, q.selected = selected_channel,
           q.whole = None,
           r.res = "ok" => \E b \in Seq(Byte) : Told(q, point, b)
    PROVE  RInv'
  <1>1. pc \in Chunking /\ pixels_read \in BOOLEAN /\ Plan.compression # None
    BY FillFacts
  <1>2. UNCHANGED walkVars /\ pixels_read' \in BOOLEAN /\ Moves(r)
    BY <1>1 DEF Walks
  <1>3. r.pos \in Nat /\ (r.res = "Io" => faults > 0)
    BY DEF Sound
  <1>4. Leaves(q)
    BY <1>2, <1>3 DEF Leaves
  <1>5. CASE r.res # "ok"
    BY <1>1, <1>4, <1>5, StepFails DEF Walks
  <1>6. CASE r.res = "ok"
    BY <1>1, <1>4, <1>6, StepGoes DEF Walks
  <1> QED  BY <1>5, <1>6

\* The open pair owes nothing more.
LEMMA LeavePairKeeps ==
    ASSUME RInv, LeavePair
    PROVE  RInv'
  <1>1. /\ pc = "fill" /\ pc \in Filling /\ pixels.walk.owed = 0 /\ pc' = "end_pair"
        /\ UNCHANGED <<sourceVars, readerVars, cursor, stream, decoderVars, header>>
    BY DEF LeavePair, Filling
  <1>2. /\ pc \in Chunking /\ Sits(pixels) /\ pixels.plan = Plan
        /\ pixels.selected = selected_channel /\ pixels_read \in BOOLEAN
        /\ Plan.compression # None /\ pixels.whole = None
    BY <1>1, FillFacts
  <1>3. PICK b \in Seq(Byte) : Told(pixels, "fill", b)
    BY <1>1, FillFacts
  <1>4. UNCHANGED sourceVars /\ UNCHANGED walkVars /\ UNCHANGED <<pixels, pixels_read>>
    BY <1>1 DEF decoderVars, walkVars
  <1>5. Leaves(pixels)
    BY <1>2, <1>4 DEF Leaves
  <1>6. Told(pixels, "end_pair", b)
    BY <1>1, <1>3 DEF Told, Filling
  <1>7. pc' \in Chunking /\ UNCHANGED <<readerVars, cursor, stream>>
    BY <1>1 DEF Chunking, Filling
  <1> QED  BY <1>1, <1>2, <1>5, <1>6, <1>7, StepGoes

\* The end of a pair is required.
LEMMA EndPairKeeps ==
    ASSUME RInv, EndPair
    PROVE  RInv'
  <1>1. pc = "end_pair" /\ pc \in Filling
    BY DEF EndPair, Filling
  <1>2. /\ SourceType /\ Sits(pixels) /\ pixels.plan = Plan /\ ConformingPlan(Plan)
        /\ pixels.selected = selected_channel /\ pixels.whole = None
    BY <1>1, FillFacts
  <1>3. PICK b \in Seq(Byte) : Told(pixels, "end_pair", b)
    BY <1>1, FillFacts
  <1> DEFINE done == b \o pixels.raw
  <1>4. Tells(Plan, pixels.walk, done) /\ pixels.walk.owed = 0
    BY <1>2, <1>3 DEF Told
  <1>5. PICK r \in RequireEnd(Plan, pixels.walk) :
            pixels' = [pixels EXCEPT !.walk = r.walk] /\ Walks(r, "open_pair")
    BY <1>2 DEF EndPair
  <1>6. /\ Sound(r) /\ Standing(Plan, r.walk)
        /\ r.res = "ok" => Between(Plan, r.walk, done)
    BY <1>2, <1>4, <1>5, EndTells
  <1> DEFINE q == [pixels EXCEPT !.walk = r.walk]
  <1>7. /\ Sits(q) /\ q.plan = pixels.plan /\ q.selected = pixels.selected /\ q.whole = pixels.whole
        /\ q.chunks_done = pixels.chunks_done /\ q.chunks_total = pixels.chunks_total
        /\ q.raw = pixels.raw /\ q.walk = r.walk /\ q.stream_row = pixels.stream_row
    BY <1>2, <1>6, WalkedSits
  <1>8. pixels' = q
    BY <1>5
  <1> HIDE DEF q
  <1>9. InHand(pixels) => InHand(q)
    BY <1>7, HandStays
  <1>10. r.res = "ok" => Told(q, "open_pair", b)
    BY <1>2, <1>3, <1>6, <1>7, <1>9 DEF Told, Filling
  <1>11. "open_pair" \in Chunking
    BY DEF Chunking, Filling
  <1> QED  BY <1>1, <1>2, <1>5, <1>6, <1>7, <1>8, <1>10, <1>11, WalksKeeps

\* The pair after is opened, to fill the row or to be checked after the last one.
LEMMA OpenPairKeeps ==
    ASSUME RInv, OpenPair
    PROVE  RInv'
  <1>1. pc = "open_pair" /\ pc \in Filling
    BY DEF OpenPair, Filling
  <1>2. /\ SourceType /\ Sits(pixels) /\ pixels.plan = Plan /\ ConformingPlan(Plan)
        /\ pixels.selected = selected_channel /\ pixels.whole = None /\ PairCount(Plan) \in Nat
    BY <1>1, FillFacts
  <1>3. PICK b \in Seq(Byte) : Told(pixels, "open_pair", b)
    BY <1>1, FillFacts
  <1> DEFINE done == b \o pixels.raw
             more == pixels.chunks_done < pixels.chunks_total
  <1>4. Between(Plan, pixels.walk, done)
    BY <1>2, <1>3 DEF Told
  <1>5. MoreChunks <=> more
    <2>1. pixels # None
      BY <1>2, SittingIsSome DEF RInv
    <2> QED  BY <2>1 DEF MoreChunks
  <1>6. PICK r \in Open(Plan, pixels.walk) :
            /\ pixels' = [pixels EXCEPT !.walk = r.walk]
            /\ Walks(r, IF MoreChunks THEN "fill"
                        ELSE IF r.walk.index < PairCount(Plan) THEN "end_pair" ELSE "finish")
    BY <1>2 DEF OpenPair
  <1> DEFINE point == IF MoreChunks THEN "fill"
                      ELSE IF r.walk.index < PairCount(Plan) THEN "end_pair" ELSE "finish"
             q == [pixels EXCEPT !.walk = r.walk]
  <1>7. point \in {"fill", "end_pair", "finish"} /\ point \in Chunking /\ point \in Filling
    BY DEF Chunking, Filling
  <1>8. /\ Sound(r) /\ Standing(Plan, r.walk)
        /\ r.res = "ok" => Tells(Plan, r.walk, done)
    <2>1. CASE pixels.walk.index = PairCount(Plan)
      <3>1. Sound(r) /\ r.res = "Malformed" /\ r.walk = pixels.walk
        BY <1>2, <1>6, <2>1, OpenPast
      <3> QED  BY <1>4, <3>1 DEF Between
    <2>2. CASE pixels.walk.index # PairCount(Plan)
      <3>1. pixels.walk.index < PairCount(Plan)
        BY <1>2, <1>4, <2>2, ToldBetween
      <3> QED  BY <1>2, <1>4, <1>6, <3>1, OpenTells
    <2> QED  BY <2>1, <2>2
  <1>9. /\ Sits(q) /\ q.plan = pixels.plan /\ q.selected = pixels.selected /\ q.whole = pixels.whole
        /\ q.chunks_done = pixels.chunks_done /\ q.chunks_total = pixels.chunks_total
        /\ q.raw = pixels.raw /\ q.walk = r.walk /\ q.stream_row = pixels.stream_row
    BY <1>2, <1>8, WalkedSits
  <1>10. pixels' = q /\ Walks(r, point)
    BY <1>6
  <1>11. point = "fill" <=> more
    BY <1>5
  <1> HIDE DEF q, point
  <1>12. InHand(pixels) => InHand(q)
    BY <1>9, HandStays
  <1>13. ASSUME r.res = "ok" PROVE Told(q, point, b)
    <2>1. /\ more => Len(b) = pixels.stream_row * RowLength(Plan) /\ Len(pixels.raw) < RowLength(Plan)
          /\ ~more => InHand(pixels) /\ Len(done) = Plan.implied_bytes
      BY <1>2, <1>3 DEF Told, Filling
    <2>2. Tells(Plan, r.walk, done)
      BY <1>8, <1>13
    <2>3. ~more => r.walk.owed = 0
      <3>1. /\ r.walk.owed \in Nat /\ Len(done) + r.walk.owed = Owes(Plan, r.walk.index)
            /\ Owes(Plan, r.walk.index) \in 0 .. Plan.implied_bytes
        BY <1>2, <2>2, ToldSoFar
      <3>2. Plan.implied_bytes \in Nat
        BY <1>2 DEF ConformingPlan
      <3> QED  BY <2>1, <3>1, <3>2
    <2>4. b \o q.raw = done
      BY <1>9
    <2> HIDE DEF done, more
    <2>5. (q.chunks_done < q.chunks_total) = more
      BY <1>9 DEF more
    <2> QED  BY <1>2, <1>7, <1>9, <1>11, <1>12, <2>1, <2>2, <2>3, <2>4, <2>5 DEF Told
  <1> QED  BY <1>1, <1>2, <1>7, <1>8, <1>9, <1>10, <1>13, WalksKeeps

\* The open pair gives what it owes of the row.
LEMMA FillRowKeeps ==
    ASSUME RInv, FillRow
    PROVE  RInv'
  <1> DEFINE size == RowLength(Plan)
             old == pixels.raw
             n == pixels.stream_row
  <1>1. pc = "fill" /\ pc \in Filling
    BY DEF FillRow, Filling
  <1>2. /\ SourceType /\ Sits(pixels) /\ pixels.plan = Plan /\ ConformingPlan(Plan)
        /\ pixels.selected = selected_channel /\ pixels.whole = None
        /\ pixels \in PixelStates(Plan) /\ RowBytes = size /\ size \in Nat \ {0}
        /\ PREAMBLE + unit.declared <= Plan.location.position
        /\ Plan.location.position \in Nat /\ PREAMBLE + unit.declared \in Nat
    BY <1>1, FillFacts
  <1>3. PICK b \in Seq(Byte) : Told(pixels, "fill", b)
    BY <1>1, FillFacts
  <1> DEFINE done == b \o old
  <1>4. /\ Tells(Plan, pixels.walk, done) /\ Len(b) = n * size /\ Len(old) < size
        /\ pixels.chunks_done < pixels.chunks_total
    BY <1>2, <1>3 DEF Told, Filling
  <1>5. old \in Seq(Byte) /\ Len(old) \in Nat /\ n \in Nat /\ Clean(old)
    BY <1>2 DEF PixelStates, Sits
  <1>6. PICK r \in Take(Plan, pixels.walk, size - Len(old)) :
          LET raw == IF r.res = "ok" THEN old \o r.out ELSE old IN
          /\ pixels' = [pixels EXCEPT !.walk = r.walk, !.raw = raw,
                                      !.stream_row = IF Len(raw) = size THEN @ + 1 ELSE @]
          /\ Walks(r, IF Len(raw) = size THEN "next_chunk" ELSE "fill")
    BY <1>2 DEF FillRow
  <1>7. size - Len(old) \in Nat
    BY <1>2, <1>4, <1>5
  <1>8. pixels.walk.owed \in Nat
    BY <1>2, <1>4, ToldSoFar
  <1> HIDE DEF size, old, n
  <1>9. /\ Sound(r) /\ Standing(Plan, r.walk)
        /\ r.res = "ok" =>
              /\ Tells(Plan, r.walk, done \o r.out)
              /\ r.out \in Seq(Byte) /\ Within(Plan, r.out)
              /\ Len(r.out) = Least(size - Len(old), pixels.walk.owed)
    BY <1>2, <1>4, <1>6, <1>7, TakeTells
  <1> DEFINE raw == IF r.res = "ok" THEN old \o r.out ELSE old
             m == IF Len(raw) = size THEN n + 1 ELSE n
             q == [pixels EXCEPT !.walk = r.walk, !.raw = raw, !.stream_row = m]
             point == IF Len(raw) = size THEN "next_chunk" ELSE "fill"
  <1>10. pixels' = q /\ Walks(r, point)
    BY <1>6 DEF n
  <1>11. raw \in Seq(Byte) /\ Len(raw) <= size /\ Clean(raw) /\ Len(raw) \in Nat
    <2>1. CASE r.res # "ok"
      BY <1>2, <1>4, <1>5, <2>1
    <2>2. CASE r.res = "ok"
      <3>1. raw = old \o r.out /\ raw \in Seq(Byte) /\ Len(raw) = Len(old) + Len(r.out)
        BY <1>5, <1>9, <2>2, Joined
      <3>2. Len(r.out) \in Nat /\ Len(r.out) <= size - Len(old)
        BY <1>7, <1>8, <1>9, <2>2 DEF Least
      <3>3. Clean(r.out)
        BY <1>2, <1>9, <2>2, StreamedIsClean
      <3>4. Clean(old \o r.out)
        BY <1>5, <1>9, <2>2, <3>3 DEF Clean
      <3> QED  BY <1>2, <1>5, <3>1, <3>2, <3>4
    <2> QED  BY <2>1, <2>2
  <1>12. m \in Nat
    BY <1>5
  <1>13. point \in Chunking
    BY DEF Chunking, Filling
  <1> HIDE DEF raw, m
  <1>14. /\ Sits(q) /\ q.plan = pixels.plan /\ q.selected = pixels.selected
         /\ q.whole = pixels.whole
         /\ q.chunks_done = pixels.chunks_done /\ q.chunks_total = pixels.chunks_total
         /\ q.raw = raw /\ q.walk = r.walk /\ q.stream_row = m
    <2>1. Standing(pixels.plan, r.walk) /\ Len(raw) <= RowLength(pixels.plan)
      BY <1>2, <1>9, <1>11 DEF size
    <2>2. Sits(pixels) /\ raw \in Seq(Byte) /\ Clean(raw) /\ m \in Nat
      BY <1>2, <1>11, <1>12
    <2>3. r.walk \in WalkType
      BY <2>1 DEF Standing
    <2>4. /\ q \in PixelStates(pixels.plan) /\ q.plan = pixels.plan
          /\ q.selected = pixels.selected /\ q.whole = pixels.whole
          /\ q.chunks_done = pixels.chunks_done /\ q.chunks_total = pixels.chunks_total
          /\ q.raw = raw /\ q.walk = r.walk /\ q.stream_row = m
      BY <1>2, <2>2, <2>3 DEF PixelStates
    <2> HIDE DEF q
    <2> QED  BY <2>1, <2>2, <2>4 DEF Sits, Standing
  <1> HIDE DEF q
  <1>15. ASSUME r.res = "ok" PROVE Told(q, point, b)
    <2>1. raw = old \o r.out /\ r.out \in Seq(Byte)
      BY <1>9, <1>15 DEF raw
    <2>2. b \o raw = done \o r.out
      BY <1>3, <1>5, <2>1, JoinedOnce
    <2>3. Tells(Plan, q.walk, b \o q.raw)
      BY <1>9, <1>14, <1>15, <2>2
    <2>4. CASE Len(raw) = size
      <3>1. Len(b \o raw) = n * size + size
        BY <1>3, <1>4, <1>11, <2>4, Joined
      <3>2. n * size + size = (n + 1) * size
        BY <1>2, <1>5
      <3>3. Len(b \o q.raw) = q.stream_row * size
        BY <1>14, <2>4, <3>1, <3>2 DEF m
      <3>4. point = "next_chunk"
        BY <2>4
      <3> QED  BY <1>2, <1>14, <2>3, <3>3, <3>4 DEF Told, Filling, size
    <2>5. CASE Len(raw) # size
      <3>1. point = "fill" /\ q.stream_row = n /\ Len(q.raw) < size
        BY <1>2, <1>11, <1>14, <2>5 DEF m
      <3> QED  BY <1>2, <1>4, <1>14, <2>3, <3>1 DEF Told, Filling, size
    <2> QED  BY <2>4, <2>5
  <1> QED  BY <1>1, <1>2, <1>3, <1>9, <1>10, <1>13, <1>14, <1>15, WalksKeeps

\* The end of the last pair is required, and the chunk kept back handed over.
LEMMA FinishKeeps ==
    ASSUME RInv, Finish
    PROVE  RInv'
  <1>1. pc = "finish" /\ pc \in Filling
    BY DEF Finish, Filling
  <1>2. /\ pc \in Chunking /\ SourceType /\ Sits(pixels) /\ pixels.plan = Plan
        /\ ConformingPlan(Plan)
        /\ pixels.selected = selected_channel /\ pixels.whole = None /\ pixels_read \in BOOLEAN
        /\ pixels \in PixelStates(Plan)
        /\ Planned(occurrences[current]) /\ Plan = occurrences[current].plan
    BY <1>1, FillFacts
  <1>3. PICK b \in Seq(Byte) : Told(pixels, "finish", b)
    BY <1>1, FillFacts
  <1> DEFINE done == b \o pixels.raw
             c == CursorAt(pixels, pixels.chunks_done - 1)
             run == DecodeRow(pixels, c.channel, c.row)
             chunk == ChunkOf(pixels, c, run.value)
  <1>4. /\ Tells(Plan, pixels.walk, done) /\ pixels.walk.owed = 0 /\ InHand(pixels)
        /\ ~ (pixels.chunks_done < pixels.chunks_total)
    BY <1>2, <1>3 DEF Told, Filling
  <1>5. PICK r \in RequireEnd(Plan, pixels.walk) :
          /\ Moves(r)
          /\ pixels' = [pixels EXCEPT !.walk = r.walk]
          /\ IF r.res # "ok" THEN ChunkFails(r.res) ELSE ChunkReturns(chunk)
    BY <1>2 DEF Finish
  <1>6. Sound(r) /\ Standing(Plan, r.walk)
    BY <1>2, <1>4, <1>5, EndTells
  <1> DEFINE q == [pixels EXCEPT !.walk = r.walk]
  <1>7. /\ Sits(q) /\ q.plan = pixels.plan /\ q.selected = pixels.selected /\ q.whole = pixels.whole
        /\ q.chunks_done = pixels.chunks_done /\ q.chunks_total = pixels.chunks_total
    BY <1>2, <1>6, WalkedSits
  <1>8. pixels' = q
    BY <1>5
  <1> HIDE DEF q
  <1>9. Leaves(q)
    <2>1. UNCHANGED walkVars /\ UNCHANGED pixels_read
      BY DEF Finish
    <2>2. r.pos \in Nat /\ (r.res = "Io" => faults > 0)
      BY <1>6 DEF Sound
    <2> QED  BY <1>2, <1>5, <1>7, <1>8, <2>1, <2>2 DEF Leaves
  <1>10. CASE r.res # "ok"
    BY <1>2, <1>5, <1>9, <1>10, StepFails
  <1>11. CASE r.res = "ok"
    <2>1. pixels.chunks_done # 0 /\ run.res = "ok"
      BY <1>4 DEF InHand
    <2>2. pixels.chunks_done - 1 \in Nat
      BY <1>2, <2>1 DEF PixelStates
    <2>3. c.channel \in Nat /\ c.row \in Nat
      BY <1>2, <2>2, CursorStands
    <2>4. CleanRun(run.value)
      BY <1>2, <2>1, <2>3, HeldIsClean, DecodedClean
    <2>5. ChunkReturns(chunk) /\ chunk.from = run.value
      BY <1>5, <1>11 DEF ChunkOf
    <2>6. Told(q, "next_chunk", b)
      BY <1>4, <1>7 DEF Told, Filling
    <2> HIDE DEF chunk, run
    <2> QED  BY <1>2, <1>9, <2>4, <2>5, <2>6, StepReturns
  <1> QED  BY <1>10, <1>11

-----------------------------------------------------------------------------
(* The invariant is kept.                                                  *)

\* Reader::build starts from a state of the invariant: nothing read, decoded or delivered.
LEMMA InitRInv ==
    Init => RInv
  <1> SUFFICES ASSUME Init PROVE RInv
    OBVIOUS
  <1>1. Grounded
    <2>1. Len(occurrences) = 0 /\ occurrences = <<>>
      BY DEF Init
    <2>2. /\ unit \in Units /\ length \in unit.lengths /\ pos = 0 /\ faults = MaxFaults
          /\ next = 0 /\ current = None /\ header = None /\ pixels_read = FALSE
      BY DEF Init
    <2>3. pos \in Nat /\ faults \in 0 .. MaxFaults /\ next \in 0 .. Len(occurrences)
      BY <2>1, <2>2, MaxFaultsAssumption
    <2>4. current \in Option(1 .. next)
      BY <2>2 DEF Option
    <2>5. occurrences \in {<<>>, Construct(unit).out}
      BY <2>1
    <2> QED  BY <2>1, <2>2, <2>3, <2>4, <2>5 DEF Grounded
  <1>2. Disciplined
    BY DEF Init, Disciplined, Option, Apart, Beginning, Chunking, Filling
  <1>3. PixelsHeld /\ Underway
    BY DEF Init, PixelsHeld, Underway
  <1>4. Delivered
    <2>1. stream \in Seq({}) /\ \A t \in {} : CleanRun(t.from)
      BY DEF Init
    <2> QED  BY <2>1 DEF Delivered
  <1> QED  BY <1>1, <1>2, <1>3, <1>4 DEF RInv

\* A state in which nothing happens stays one of the invariant.
LEMMA StutterKeeps ==
    ASSUME RInv, UNCHANGED vars
    PROVE  RInv'
  <1>1. UNCHANGED <<sourceVars, readerVars, callVars, header, decoderVars>>
    BY DEF vars
  <1>2. /\ UNCHANGED <<seekable, length, pos, faults, header, unit, occurrences, current, next,
                       pixels, pixels_read>>
        /\ UNCHANGED <<phase, selected_channel, pixels_started, pixels_failed>>
        /\ UNCHANGED <<cursor, pc, stream>>
    BY <1>1 DEF sourceVars, readerVars, callVars, decoderVars
  <1>3. Grounded' /\ PixelsHeld' /\ Delivered'
    <2>1. pixels_read' \in BOOLEAN
      BY <1>2 DEF RInv, Grounded
    <2> QED  BY <1>2, <2>1, GroundStays, PixelsStay, StreamStays DEF RInv
  <1>4. PixelRefusal' = PixelRefusal /\ Plan' = Plan
    BY <1>2, VerdictsStand
  <1>5. Disciplined'
    <2>1. /\ OverOutputCap(header.bytes)' = OverOutputCap(header.bytes)
          /\ OverOutputCap(4)' = OverOutputCap(4)
      BY <1>2, VerdictsStand
    <2>2. Disciplined
      BY DEF RInv
    <2> QED  BY <1>2, <1>4, <2>1, <2>2 DEF Disciplined
  <1>6. Underway'
    <2>1. Compressed' = Compressed
      BY <1>2 DEF Compressed
    <2>2. \A b : Told(pixels, pc, b) => Told(pixels, pc, b)'
      BY <1>2, ToldStays
    <2> QED  BY <1>2, <1>4, <2>1, <2>2 DEF Underway, RInv
  <1> QED  BY <1>3, <1>5, <1>6 DEF RInv

\* A step the decoder takes inside a call.
LEMMA DecoderStepKeeps ==
    ASSUME RInv, DecoderStep
    PROVE  RInv'
  <1>1. CASE Build
    BY <1>1, BuildKeeps
  <1>2. CASE Abandon
    BY <1>2, AbandonKeeps
  <1>3. CASE AfterTheLast \/ ToTheNext
    BY <1>3, AdvanceKeeps
  <1>4. CASE BeginRefused
    BY <1>4, BeginRefusedKeeps
  <1>5. CASE BeginStream
    BY <1>5, BeginStreamKeeps
  <1>6. CASE BeginWalk
    BY <1>6, BeginWalkKeeps
  <1>7. CASE BeginWhole
    BY <1>7, BeginWholeKeeps
  <1>8. CASE FinishImage
    BY <1>8, FinishImageKeeps
  <1>9. CASE ReadRow
    BY <1>9, ReadRowKeeps
  <1>10. CASE WantRow
    BY <1>10, WantRowKeeps
  <1>11. CASE DeliverRow
    BY <1>11, DeliverRowKeeps
  <1>12. CASE FillRow
    BY <1>12, FillRowKeeps
  <1>13. CASE LeavePair
    BY <1>13, LeavePairKeeps
  <1>14. CASE EndPair
    BY <1>14, EndPairKeeps
  <1>15. CASE OpenPair
    BY <1>15, OpenPairKeeps
  <1>16. CASE Finish
    BY <1>16, FinishKeeps
  <1> QED  BY <1>1, <1>2, <1>3, <1>4, <1>5, <1>6, <1>7, <1>8, <1>9, <1>10, <1>11, <1>12, <1>13,
              <1>14, <1>15, <1>16 DEF DecoderStep

\* Whatever the caller calls and however the source answers.
LEMMA NextKeeps ==
    ASSUME RInv, [Next]_vars
    PROVE  RInv'
  <1>1. CASE Calls(NextImage)
    BY <1>1, NextImageKeeps
  <1>2. CASE \E valid \in BOOLEAN : Calls(SetBounds(valid))
    <2>1. 0 \in 0 .. MaxChannel
      BY MaxChannelAssumption
    <2> QED  BY <1>2, <2>1, SettingsKeep
  <1>3. CASE \E k \in 0 .. MaxChannel : Calls(SelectChannel(k))
    BY <1>3, SettingsKeep
  <1>4. CASE Calls(Chunks) \/ Calls(ForEachChunk)
    <2>1. "refused" # "ok"
      OBVIOUS
    <2> QED  BY <1>4, <2>1, CursorKeeps
  <1>5. CASE Calls(DropChunks) \/ Calls(NextChunk)
    BY <1>5, PullKeeps
  <1>6. CASE \/ \E len \in Destinations, variant \in BOOLEAN : Calls(ReadSamples(len, variant))
             \/ \E len \in Destinations : Calls(ReadImage(len))
    BY <1>6, DecodesKeeps
  <1>7. CASE DecoderStep
    BY <1>7, DecoderStepKeeps
  <1>8. CASE Refused \/ UNCHANGED vars
    BY <1>8, StutterKeeps DEF Refused
  <1> QED  BY <1>1, <1>2, <1>3, <1>4, <1>5, <1>6, <1>7, <1>8 DEF Next

\* Every state a session comes to is one of the invariant.
THEOREM RInvariance == Spec => []RInv
  BY InitRInv, NextKeeps, PTL DEF Spec

-----------------------------------------------------------------------------
(* What it shows.                                                          *)

\* Every variable holds a value of its type, and a decode in progress, or one a failure left
\* behind, stays inside its plan.
THEOREM TypeCorrectness == Spec => []TypeOK
  <1>1. RInv => TypeOK
    <2> SUFFICES ASSUME RInv PROVE TypeOK
      OBVIOUS
    <2>1. Grounded /\ Disciplined /\ PixelsHeld
      BY DEF RInv
    <2>2. /\ unit \in Units /\ length \in unit.lengths /\ pos \in Nat /\ faults \in 0 .. MaxFaults
          /\ next \in 0 .. Len(occurrences) /\ current \in Option(1 .. next)
          /\ pixels_read \in BOOLEAN
      BY <2>1 DEF Grounded
    <2>3. /\ phase \in {"header", "pixel"} /\ cursor \in {"none", "pull", "push", "samples", "image"}
          /\ selected_channel \in Option(0 .. MaxChannel)
          /\ pc \in {"build", "refused", "idle", "abandon", "next_image", "begin_pixels",
                     "begin_walk", "next_chunk", "fill", "end_pair", "open_pair", "finish"}
      BY <2>1 DEF Disciplined, Apart, Beginning, Chunking, Filling
    <2>4. ASSUME pixels # None
          PROVE  /\ pixels.chunks_done \in 0 .. pixels.chunks_total
                 /\ pixels.whole = None => Len(pixels.raw) <= RowBytes
                 /\ pixels.whole # None => Len(pixels.whole) = pixels.plan.implied_bytes
                 /\ pixels.walk.index \in 0 .. PairCount(pixels.plan) /\ pixels.walk.owed \in Nat
      <3>1. Sits(pixels)
        BY <2>1, <2>4 DEF PixelsHeld
      <3>2. PairCount(pixels.plan) \in Nat
        BY <2>1, <3>1, SittingFacts, PairsCount DEF Planned
      <3>3. /\ pixels.chunks_done \in Nat /\ pixels.chunks_total \in Nat
            /\ pixels.walk \in WalkType
        BY <3>1 DEF Sits, PixelStates
      <3>4. pixels.walk.index \in Nat /\ pixels.walk.owed \in Nat
        BY <3>3 DEF WalkType
      <3>5. /\ pixels.chunks_done <= pixels.chunks_total /\ Len(pixels.raw) <= RowLength(pixels.plan)
            /\ pixels.whole # None => Len(pixels.whole) = pixels.plan.implied_bytes
            /\ pixels.walk.index <= PairCount(pixels.plan)
        BY <3>1 DEF Sits
      <3> QED  BY <3>2, <3>3, <3>4, <3>5 DEF RowBytes
    <2> QED  BY <2>2, <2>3, <2>4 DEF TypeOK
  <1> QED  BY <1>1, RInvariance, PTL

\* No sample handed over is a byte of the preamble or of the header, or from past the end of
\* the source: attachments inside the header are refused, and a read lands where it asked.
THEOREM SamplesAreNeverTheHeader == Spec => []HeaderIsNeverPixels
  <1>1. RInv => HeaderIsNeverPixels
    <2> SUFFICES ASSUME RInv, NEW n \in DOMAIN stream, NEW x \in DOMAIN stream[n].from,
                        NEW k \in DOMAIN stream[n].from[x],
                        stream[n].from[x][k][1] = "file"
                 PROVE  stream[n].from[x][k][2] \in PREAMBLE + unit.declared .. length - 1
      BY DEF HeaderIsNeverPixels
    <2>1. PICK T : stream \in Seq(T) /\ \A t \in T : CleanRun(t.from)
      BY DEF RInv, Delivered
    <2>2. CleanRun(stream[n].from)
      BY <2>1
    <2> QED  BY <2>2 DEF CleanRun, Clean
  <1> QED  BY <1>1, RInvariance, PTL

\* A tier-2 decode past the output cap was never begun.
LEMMA OutputIsCapped ==
    ASSUME DestinationLen \in Nat, NEW w \in Nat, ~OverOutputCap(w)
    PROVE  DestinationLen * w <= Limits.decoded_output_bytes
  <1> DEFINE d == DestinationLen
  <1>1. CheckedMul(d, w) # None /\ ~ (CheckedMul(d, w) > Limits.decoded_output_bytes)
    BY DEF OverOutputCap
  <1>2. CheckedMul(d, w) = d * w
    BY <1>1 DEF CheckedMul, Fit
  <1>3. d * w \in Nat /\ Limits.decoded_output_bytes \in Nat
    BY LimitsAssumption
  <1> QED  BY <1>1, <1>2, <1>3

\* Whatever lengths a file declares, no row, subblock or block past its cap is ever held, in its
\* stored bytes or in what they decode to; nothing is delivered of an image past the
\* total-samples cap, and nothing by a tier-2 decode past the output cap, read_samples in samples
\* of the file's width and read_image in f32.
THEOREM CapsAreKept == Spec => []CapsHold
  <1>1. RInv => CapsHold
    <2> SUFFICES ASSUME RInv PROVE CapsHold
      OBVIOUS
    <2>1. Grounded /\ Disciplined /\ PixelsHeld
      BY DEF RInv
    <2>2. ASSUME pixels # None
          PROVE  /\ Len(pixels.raw) <= Limits.materialized_bytes
                 /\ HeldUnderCap(pixels.plan, pixels.walk)
                 /\ WholeUnderCap(pixels.plan, pixels.whole)
      <3>1. Sits(pixels)
        BY <2>1, <2>2 DEF PixelsHeld
      <3>2. /\ pixels.raw \in Seq(Byte) /\ Limits.materialized_bytes \in Nat
            /\ RowLength(pixels.plan) \in Nat
        BY <3>1, LimitsAssumption DEF Sits, PixelStates, Fits, Sized
      <3>3. Len(pixels.raw) <= RowLength(pixels.plan) /\ RowLength(pixels.plan) <= Limits.materialized_bytes
        BY <3>1 DEF Sits, Fits
      <3>4. /\ HeldUnderCap(pixels.plan, pixels.walk)
            /\ WholeUnderCap(pixels.plan, pixels.whole)
        BY <3>1 DEF Sits
      <3> QED  BY <3>2, <3>3, <3>4
    <2>3. ASSUME stream # <<>>
          PROVE  /\ TotalSamples(header.geometry) <= Limits.total_samples
                 /\ cursor = "samples" =>
                       DestinationLen * header.bytes <= Limits.decoded_output_bytes
                 /\ cursor = "image" =>
                       DestinationLen * 4 <= Limits.decoded_output_bytes
      <3>1. PixelRefusal = "ok" /\ Plan # None
        BY <2>1, <2>3 DEF Disciplined
      <3>2. /\ TotalSamples(header.geometry) <= Limits.total_samples
            /\ header.bytes \in {1, 2, 4, 8} /\ header.geometry \in Geometry
        BY <2>1, <3>1, RefusalFacts
      <3>3. DestinationLen \in Nat
        <4>1. \A y, z \in Nat : SaturatingMul(y, z) \in Nat
          BY MaxUAssumption DEF SaturatingMul, U
        <4>2. /\ header.geometry.width \in Nat /\ header.geometry.height \in Nat
              /\ header.geometry.channels \in Nat
          BY <3>2, MaxUAssumption DEF Geometry, U
        <4> QED  BY <4>1, <4>2 DEF DestinationLen, TotalSamples
      <3>4. /\ cursor = "samples" => ~OverOutputCap(header.bytes)
            /\ cursor = "image" => ~OverOutputCap(4)
        BY <2>1 DEF Disciplined
      <3> QED  BY <3>2, <3>3, <3>4, OutputIsCapped
    <2>4. Len(occurrences) <= Limits.images_per_source + 1
      BY <2>1, GroundFacts, LimitsAssumption
    <2>5. occurrences # <<>> => unit.declared <= XisfLimits.xml_header_bytes
      BY <2>1 DEF Grounded
    <2> QED  BY <2>2, <2>3, <2>4, <2>5 DEF CapsHold
  <1> QED  BY <1>1, RInvariance, PTL

\* What is said of the image a decode is of is what its block holds.
LEMMA CurrentIsPictured ==
    ASSUME RInv, pixels_started
    PROVE  /\ current \in DOMAIN occurrences /\ current # None
           /\ Show # None /\ Show = Pictured(Plan)
           /\ Planned(occurrences[current]) /\ Plan = occurrences[current].plan
           /\ Fits(Plan) /\ Vouched(Plan) /\ header.geometry = Plan.geometry
  <1>1. Grounded /\ PixelRefusal = "ok" /\ Plan # None /\ Vouched(Plan) /\ Fits(Plan)
    BY DEF RInv, Disciplined
  <1>2. /\ current \in DOMAIN occurrences /\ Stands(unit, occurrences[current])
        /\ Plan = occurrences[current].plan /\ unit \in Units
        /\ Planned(occurrences[current]) /\ header.geometry = Plan.geometry
    BY <1>1, RefusalFacts, GroundFacts
  <1>3. occurrences = Construct(unit).out
    BY <1>2 DEF Grounded, RInv
  <1>4. Plan.location.mode = "attachment" => PREAMBLE + unit.declared <= Plan.location.position
    BY <1>1, <1>2 DEF Stands
  <1>5. current # None
    <2>1. DOMAIN occurrences = 1 .. Len(occurrences)
      BY <1>1, GroundFacts
    <2> QED  BY <1>2, <2>1, NoneAssumption
  <1>6. SizesAgree(Plan)
    BY <1>1 DEF Vouched
  <1> DEFINE plan == Construct(unit).out[current].plan
  <1>7. plan = Plan
    BY <1>2, <1>3
  <1> HIDE DEF plan
  <1>8. unit.shows[current] # None /\ unit.shows[current] = Pictured(plan)
    BY <1>1, <1>2, <1>3, <1>4, <1>6, <1>7, ShowsAssumption DEF plan
  <1> QED  BY <1>1, <1>2, <1>5, <1>7, <1>8 DEF Show

\* No sample of a block with a digest is handed over before its digest was found to be that of
\* its bytes, whichever way it comes: a block with a digest is never streamed, and one held whole
\* was verified.
THEOREM SamplesAreAlwaysVerified == Spec => []UnverifiedNeverDelivered
  <1>1. RInv => UnverifiedNeverDelivered
    <2> SUFFICES ASSUME RInv, stream # <<>> PROVE Show.trusted
      BY DEF UnverifiedNeverDelivered
    <2>1. pixels_started
      BY DEF RInv, Disciplined
    <2>2. Show = Pictured(Plan) /\ Vouched(Plan)
      BY <2>1, CurrentIsPictured
    <2> QED  BY <2>2 DEF Vouched, Pictured
  <1> QED  BY <1>1, RInvariance, PTL

-----------------------------------------------------------------------------
(* The picture of a plan: the lines of its block, and the rows they carry. *)

\* The line of the block that carries row r of channel c.
LineAt(plan, c, r) == IF plan.storage = "Planar" THEN c * plan.geometry.height + r ELSE r

\* A picture has the shape of its plan's geometry, and its rows are what the block's lines hold.
LEMMA PictureFacts ==
    ASSUME NEW o, Planned(o)
    PROVE  LET g    == o.plan.geometry
               show == Pictured(o.plan)
           IN  /\ g.width \in Nat \ {0} /\ g.height \in Nat \ {0} /\ g.channels \in Nat \ {0}
               /\ show.width = g.width /\ show.storage = o.plan.storage
               /\ DOMAIN show.planes = 1 .. g.channels /\ Len(show.planes) = g.channels
               /\ \A c \in 1 .. g.channels :
                     /\ DOMAIN show.planes[c] = 1 .. g.height /\ Len(show.planes[c]) = g.height
                     /\ \A r \in 1 .. g.height :
                           show.planes[c][r] = RowShown(o.plan, BlockBytes(o.plan), c - 1, r - 1)
  <1> DEFINE g == o.plan.geometry
             n == g.channels
             h == g.height
             Row(c, r) == RowShown(o.plan, BlockBytes(o.plan), c - 1, r - 1)
             planes == [c \in 1 .. n |-> [r \in 1 .. h |-> Row(c, r)]]
             show == Pictured(o.plan)
  <1>1. g.width \in Nat \ {0} /\ h \in Nat \ {0} /\ n \in Nat \ {0}
    BY MaxUAssumption DEF Planned, Geometry, U
  <1>2. show.planes = planes /\ show.width = g.width /\ show.storage = o.plan.storage
    BY DEF Pictured
  <1> HIDE DEF show, n, h, Row
  <1>3. /\ DOMAIN planes = 1 .. n /\ Len(planes) = n
        /\ \A c \in 1 .. n : /\ DOMAIN planes[c] = 1 .. h /\ Len(planes[c]) = h
                             /\ \A r \in 1 .. h : planes[c][r] = Row(c, r)
    BY <1>1
  <1> HIDE DEF planes
  <1> QED  BY <1>1, <1>2, <1>3 DEF n, h, Row, show

\* A quotient is no less for a number that is no less, nor past what the number is a multiple of.
LEMMA QuotientsClimb ==
    ASSUME NEW d \in Nat \ {0}, NEW a \in Nat, NEW b \in Nat, a <= b
    PROVE  a \div d <= b \div d
  <1> DEFINE p == a \div d
             q == b \div d
  <1>1. /\ p \in Nat /\ a % d \in 0 .. d - 1 /\ a = p * d + (a % d)
        /\ q \in Nat /\ b % d \in 0 .. d - 1 /\ b = q * d + (b % d)
    BY Division
  <1> DEFINE r == a % d
             s == b % d
  <1> HIDE DEF p, q, r, s
  <1>2. SUFFICES ASSUME q + 1 <= p PROVE FALSE
    BY <1>1 DEF p, q
  <1>3. (q + 1) * d <= p * d
    BY <1>1, <1>2, TimesMore
  <1>4. (q + 1) * d = q * d + d
    BY <1>1
  <1>5. p * d \in Nat /\ q * d \in Nat /\ r \in 0 .. d - 1 /\ s \in 0 .. d - 1
        /\ a = p * d + r /\ b = q * d + s
    BY <1>1 DEF r, s
  <1> DEFINE x == p * d
             y == q * d
  <1> HIDE DEF x, y
  <1>6. x \in Nat /\ y \in Nat /\ y + d <= x /\ a = x + r /\ b = y + s
    BY <1>3, <1>4, <1>5 DEF x, y
  <1> QED  BY <1>5, <1>6

\* A quotient by a part of a product is inside the other part.
LEMMA QuotientInside ==
    ASSUME NEW d \in Nat \ {0}, NEW m \in Nat \ {0}, NEW a \in 0 .. m * d - 1
    PROVE  a \div d \in 0 .. m - 1
  <1> DEFINE p == a \div d
             r == a % d
  <1>1. p \in Nat /\ r \in 0 .. d - 1 /\ a = p * d + r
    <2>1. m * d \in Nat
      OBVIOUS
    <2>2. a \in Nat
      BY <2>1
    <2> QED  BY <2>2, Division
  <1> HIDE DEF p, r
  <1>2. SUFFICES ASSUME m <= p PROVE FALSE
    BY <1>1 DEF p
  <1>3. m * d <= p * d
    BY <1>1, <1>2, TimesMore
  <1> DEFINE x == p * d
             y == m * d
  <1>4. x \in Nat /\ y \in Nat /\ a \in 0 .. y - 1 /\ a = x + r /\ y <= x
    BY <1>1, <1>3
  <1> HIDE DEF x, y
  <1> QED  BY <1>1, <1>4

\* The last of m times d numbers is in the last of its quotients.
LEMMA QuotientLast ==
    ASSUME NEW d \in Nat \ {0}, NEW m \in Nat \ {0}
    PROVE  (m * d - 1) \div d = m - 1
  <1> DEFINE a == m * d - 1
  <1>1. a \in Nat /\ a \in 0 .. m * d - 1
    <2>1. d <= m * d
      BY TimesPositive
    <2>2. m * d \in Nat
      OBVIOUS
    <2> DEFINE y == m * d
    <2>3. y \in Nat /\ d <= y
      BY <2>1, <2>2
    <2> HIDE DEF y
    <2>4. y - 1 \in Nat /\ y - 1 \in 0 .. y - 1
      BY <2>3
    <2> QED  BY <2>4 DEF y
  <1>2. /\ a \div d \in Nat /\ a % d \in 0 .. d - 1 /\ a = (a \div d) * d + (a % d)
    BY <1>1, Division
  <1>3. a = (m - 1) * d + (d - 1) /\ m - 1 \in Nat /\ d - 1 \in 0 .. d - 1
    OBVIOUS
  <1> DEFINE q == a \div d
             r == a % d
             k == m - 1
  <1>4. q \in Nat /\ k \in Nat /\ r \in 0 .. d - 1 /\ q * d + r = k * d + (d - 1)
    BY <1>2, <1>3
  <1> HIDE DEF q, r, k
  <1>5. q = k
    BY <1>3, <1>4, DivisionIsUnique
  <1> QED  BY <1>5 DEF q, k

\* The line of the block that carries chunk i.
LineOf(p, i) == CursorAt(p, i).input_row

\* A decode delivers every channel, or one its image has.
Selects(plan, selected) == selected = None \/ selected \in 0 .. plan.geometry.channels - 1

\* The numbers a chunk's place is told from.
LEMMA PlaceFacts ==
    ASSUME NEW o, Planned(o), NEW selected, Selects(o.plan, selected)
    PROVE  LET g == o.plan.geometry IN
           /\ g.height \in Nat \ {0} /\ g.channels \in Nat \ {0}
           /\ o.plan.storage \in {"Planar", "Normal"}
           /\ selected = None => ChunksTotal(o.plan, selected) = g.height * g.channels
           /\ selected # None => ChunksTotal(o.plan, selected) = g.height
                                 /\ selected \in 0 .. g.channels - 1
           /\ ChunksTotal(o.plan, selected) \in Nat \ {0}
           /\ o.plan.storage = "Planar" => RowsIn(o.plan) = g.height * g.channels
           /\ o.plan.storage = "Normal" => RowsIn(o.plan) = g.height
  <1>1. /\ o.plan.geometry.height \in Nat \ {0} /\ o.plan.geometry.channels \in Nat \ {0}
        /\ o.plan.storage \in {"Planar", "Normal"}
    BY MaxUAssumption DEF Planned, Geometry, U
  <1> QED  BY <1>1 DEF ChunksTotal, Selects, RowsIn

\* A chunk is of a row and a channel the image has, carried by a line of the block.
LEMMA CursorFacts ==
    ASSUME NEW o, Planned(o), NEW p, p.plan = o.plan, Selects(p.plan, p.selected),
           NEW i \in 0 .. ChunksTotal(p.plan, p.selected) - 1
    PROVE  LET g == p.plan.geometry
               c == CursorAt(p, i)
           IN  /\ c.channel \in 0 .. g.channels - 1 /\ c.row \in 0 .. g.height - 1
               /\ c.input_row = LineAt(p.plan, c.channel, c.row)
               /\ c.input_row \in 0 .. RowsIn(p.plan) - 1
               /\ p.selected \in {None, c.channel}
  <1> DEFINE h == p.plan.geometry.height
             n == p.plan.geometry.channels
             planar == p.plan.storage = "Planar"
             c == CursorAt(p, i)
             total == ChunksTotal(p.plan, p.selected)
  <1>1. /\ h \in Nat \ {0} /\ n \in Nat \ {0}
        /\ p.selected = None => total = h * n
        /\ p.selected # None => total = h /\ p.selected \in 0 .. n - 1
        /\ planar => RowsIn(p.plan) = h * n
        /\ ~planar => RowsIn(p.plan) = h
    BY PlaceFacts
  <1>2. /\ c.channel = (IF p.selected # None THEN p.selected
                        ELSE IF planar THEN i \div h ELSE i % n)
        /\ c.row = (IF p.selected # None THEN i ELSE IF planar THEN i % h ELSE i \div n)
        /\ c.input_row = IF planar THEN c.channel * h + c.row ELSE c.row
    BY DEF CursorAt
  <1>3. i \in 0 .. total - 1
    OBVIOUS
  <1> HIDE DEF h, n, planar, c, total
  <1>4. c.channel \in 0 .. n - 1 /\ c.row \in 0 .. h - 1 /\ p.selected \in {None, c.channel}
    <2>1. CASE p.selected # None
      BY <1>1, <1>2, <1>3, <2>1
    <2>2. CASE p.selected = None /\ planar
      <3>1. i \in 0 .. n * h - 1 /\ i \in Nat
        <4>1. h * n = n * h /\ h * n \in Nat
          BY <1>1
        <4> QED  BY <1>1, <1>3, <2>2, <4>1
      <3>2. i \div h \in 0 .. n - 1 /\ i % h \in 0 .. h - 1
        BY <1>1, <3>1, QuotientInside, Division
      <3> QED  BY <1>2, <2>2, <3>2
    <2>3. CASE p.selected = None /\ ~planar
      <3>1. i \in 0 .. h * n - 1 /\ i \in Nat
        <4>1. h * n \in Nat
          BY <1>1
        <4> QED  BY <1>1, <1>3, <2>3, <4>1
      <3>2. i \div n \in 0 .. h - 1 /\ i % n \in 0 .. n - 1
        BY <1>1, <3>1, QuotientInside, Division
      <3> QED  BY <1>2, <2>3, <3>2
    <2> QED  BY <2>1, <2>2, <2>3
  <1>5. c.input_row \in 0 .. RowsIn(p.plan) - 1
    <2>1. CASE ~planar
      BY <1>1, <1>2, <1>4, <2>1
    <2>2. CASE planar
      <3> DEFINE k == c.channel
                 r == c.row
      <3>1. k \in 0 .. n - 1 /\ r \in 0 .. h - 1
        BY <1>4
      <3> HIDE DEF k, r
      <3>2. k * h <= (n - 1) * h /\ k * h \in Nat
        <4>1. k \in Nat /\ n - 1 \in Nat /\ h \in Nat /\ k <= n - 1
          BY <1>1, <3>1
        <4> QED  BY <4>1, TimesMore
      <3>3. (n - 1) * h = h * n - h /\ h * n \in Nat
        BY <1>1
      <3> DEFINE x == k * h
                 y == h * n
      <3> HIDE DEF x, y
      <3>4. x \in Nat /\ y \in Nat /\ x <= y - h
        BY <3>2, <3>3 DEF x, y
      <3>5. x + r \in 0 .. y - 1
        BY <1>1, <3>1, <3>4
      <3> QED  BY <1>1, <1>2, <2>2, <3>5 DEF x, y, k, r
    <2> QED  BY <2>1, <2>2
  <1>6. c.input_row = LineAt(p.plan, c.channel, c.row)
    BY <1>2 DEF LineAt, planar, h
  <1> QED  BY <1>4, <1>5, <1>6 DEF h, n, c

\* The lines that carry the chunks come in the order of the block, up to its last when every
\* channel is delivered or the last of a planar one.
LEMMA LinesClimb ==
    ASSUME NEW o, Planned(o), NEW p, p.plan = o.plan, Selects(p.plan, p.selected),
           NEW i \in 0 .. ChunksTotal(p.plan, p.selected) - 1
    PROVE  /\ i + 1 < ChunksTotal(p.plan, p.selected) => LineOf(p, i) <= LineOf(p, i + 1)
           /\ /\ i + 1 = ChunksTotal(p.plan, p.selected)
              /\ \/ p.plan.storage = "Normal"
                 \/ p.selected \in {None, p.plan.geometry.channels - 1}
              => LineOf(p, i) + 1 = RowsIn(p.plan)
  <1> DEFINE h == p.plan.geometry.height
             n == p.plan.geometry.channels
             planar == p.plan.storage = "Planar"
             total == ChunksTotal(p.plan, p.selected)
  <1>1. /\ h \in Nat \ {0} /\ n \in Nat \ {0} /\ total \in Nat
        /\ p.plan.storage \in {"Planar", "Normal"}
        /\ p.selected = None => total = h * n
        /\ p.selected # None => total = h /\ p.selected \in 0 .. n - 1
        /\ planar => RowsIn(p.plan) = h * n
        /\ ~planar => RowsIn(p.plan) = h
    BY PlaceFacts
  <1>2. i \in Nat /\ i + 1 <= total
    BY <1>1
  <1>3. \A j : LineOf(p, j) = IF p.selected # None
                              THEN IF planar THEN p.selected * h + j ELSE j
                              ELSE IF planar THEN (j \div h) * h + (j % h) ELSE j \div n
    BY DEF LineOf, CursorAt
  <1>4. (p.plan.storage = "Normal") <=> ~planar
    BY <1>1
  <1> SUFFICES /\ i + 1 < total => LineOf(p, i) <= LineOf(p, i + 1)
               /\ i + 1 = total /\ (~planar \/ p.selected \in {None, n - 1})
                     => LineOf(p, i) + 1 = RowsIn(p.plan)
    BY <1>4
  <1> HIDE DEF h, n, planar, total
  <1>5. CASE p.selected # None /\ planar
    <2> DEFINE k == p.selected
    <2>1. k \in 0 .. n - 1 /\ LineOf(p, i) = k * h + i /\ LineOf(p, i + 1) = k * h + (i + 1)
      BY <1>1, <1>3, <1>5
    <2>2. n - 1 # None
      BY <1>1, NoneAssumption
    <2> HIDE DEF k
    <2>3. k * h \in Nat /\ (n - 1) * h + h = h * n
      BY <1>1, <2>1
    <2>4. LineOf(p, i) <= LineOf(p, i + 1)
      BY <1>2, <2>1, <2>3
    <2>5. ASSUME i + 1 = total, p.selected \in {None, n - 1} PROVE LineOf(p, i) + 1 = RowsIn(p.plan)
      <3>1. k = n - 1 /\ i + 1 = h
        BY <1>1, <1>5, <2>5 DEF k
      <3>2. LineOf(p, i) + 1 = k * h + h
        BY <1>1, <1>2, <2>1, <2>3, <3>1
      <3> QED  BY <1>1, <1>5, <2>3, <3>1, <3>2
    <2> QED  BY <1>5, <2>4, <2>5
  <1>6. CASE p.selected # None /\ ~planar
    BY <1>1, <1>2, <1>3, <1>6
  <1>7. CASE p.selected = None /\ planar
    <2>1. ASSUME NEW j \in Nat PROVE LineOf(p, j) = j
      <3>1. LineOf(p, j) = (j \div h) * h + (j % h)
        BY <1>3, <1>7
      <3> QED  BY <1>1, <3>1, Division
    <2> QED  BY <1>1, <1>2, <1>7, <2>1
  <1>8. CASE p.selected = None /\ ~planar
    <2>1. LineOf(p, i) = i \div n /\ LineOf(p, i + 1) = (i + 1) \div n
      BY <1>3, <1>8
    <2>2. i \div n <= (i + 1) \div n
      BY <1>1, <1>2, QuotientsClimb
    <2>3. ASSUME i + 1 = total PROVE LineOf(p, i) + 1 = RowsIn(p.plan)
      <3>1. i = h * n - 1
        <4>1. h * n \in Nat
          BY <1>1
        <4> QED  BY <1>1, <1>2, <1>8, <2>3, <4>1
      <3>2. i \div n = h - 1
        BY <1>1, <3>1, QuotientLast
      <3> QED  BY <1>1, <1>8, <2>1, <3>2
    <2> QED  BY <2>1, <2>2, <2>3
  <1> QED  BY <1>5, <1>6, <1>7, <1>8

\* The rows a selection delivers are those the cursor stands at, one after the other.
LEMMA RowsAreThere ==
    ASSUME NEW o, Planned(o), NEW p, p.plan = o.plan, Selects(p.plan, p.selected)
    PROVE  LET rows  == RowsOf(Pictured(p.plan), p.selected)
               total == ChunksTotal(p.plan, p.selected)
           IN  /\ total \in Nat \ {0} /\ DOMAIN rows = 1 .. total /\ Len(rows) = total
               /\ \A i \in 0 .. total - 1 :
                     rows[i + 1] = <<CursorAt(p, i).channel, CursorAt(p, i).row>>
  <1> DEFINE h == p.plan.geometry.height
             n == p.plan.geometry.channels
             planar == p.plan.storage = "Planar"
             show == Pictured(p.plan)
             rows == RowsOf(show, p.selected)
             total == ChunksTotal(p.plan, p.selected)
             Chan(i) == IF p.selected # None THEN p.selected ELSE IF planar THEN i \div h ELSE i % n
             Row(i) == IF p.selected # None THEN i ELSE IF planar THEN i % h ELSE i \div n
  <1>1. /\ h \in Nat \ {0} /\ n \in Nat \ {0} /\ total \in Nat \ {0}
        /\ p.selected = None => total = h * n
        /\ p.selected # None => total = h
    BY PlaceFacts
  <1>2. Len(show.planes) = n /\ Len(show.planes[1]) = h /\ show.storage = p.plan.storage
    <2>1. 1 \in 1 .. n
      BY <1>1
    <2> QED  BY <2>1, PictureFacts
  <1>3. \A i : CursorAt(p, i).channel = Chan(i) /\ CursorAt(p, i).row = Row(i)
    BY DEF CursorAt
  <1> HIDE DEF show, h, n, total
  <1>4. rows = [j \in 1 .. total |-> <<Chan(j - 1), Row(j - 1)>>]
    <2>1. CASE p.selected # None
      BY <1>1, <1>2, <2>1 DEF RowsOf
    <2>2. CASE p.selected = None /\ planar
      BY <1>1, <1>2, <2>2 DEF RowsOf
    <2>3. CASE p.selected = None /\ ~planar
      BY <1>1, <1>2, <2>3 DEF RowsOf
    <2> QED  BY <2>1, <2>2, <2>3
  <1> HIDE DEF rows, Chan, Row
  <1>5. DOMAIN rows = 1 .. total /\ Len(rows) = total
    BY <1>1, <1>4
  <1>6. \A i \in 0 .. total - 1 : i + 1 \in 1 .. total /\ (i + 1) - 1 = i
    BY <1>1
  <1>7. \A i \in 0 .. total - 1 : rows[i + 1] = <<Chan(i), Row(i)>>
    BY <1>4, <1>6
  <1> QED  BY <1>1, <1>3, <1>5, <1>7 DEF rows, total, show

\* The staging row holds this line of the block.
HoldsLine(p, line) ==
    LET size  == RowLength(p.plan)
        bytes == BlockBytes(p.plan)
    IN  /\ Len(p.raw) = size /\ (line + 1) * size <= Len(bytes)
        /\ \A k \in 1 .. size : p.raw[k] = bytes[line * size + k]

\* A decode has this line of its block in hand, by itself or in the block held whole.
HasLine(p, line) ==
    /\ p.whole = None => /\ HoldsLine(p, line)
                         /\ p.plan.compression # None => ~p.plan.compression.shuffled
    /\ p.whole # None => p.whole = BlockBytes(p.plan) /\ Len(p.whole) = p.plan.implied_bytes

\* A sample made of bytes is made of bytes, whatever their order.
LEMMA SampleBytes ==
    ASSUME NEW plan, NEW n \in Nat, NEW b, b \in Seq(Byte), Len(b) = n
    PROVE  Sample(plan, b) \in Seq(Byte)
  <1>1. Reverse(b) \in Seq(Byte)
    BY DEF Reverse
  <1> QED  BY <1>1 DEF Sample

\* Where the runs of a row and the line that carries it begin, in bytes of the block.
LEMMA LineIsPlaced ==
    ASSUME NEW o, Planned(o), Sized(o.plan), NEW p, p.plan = o.plan,
           NEW channel \in Nat, NEW row \in Nat, NEW x \in Nat
    PROVE  LET g      == p.plan.geometry
               planar == p.plan.storage = "Planar"
               line   == LineAt(p.plan, channel, row)
               run    == RunOf(p, channel, row)
           IN  /\ g.width * (IF planar THEN 1 ELSE g.channels) * p.plan.bytes = RowLength(p.plan)
               /\ run.row_base = line * RowLength(p.plan) /\ line \in Nat
               /\ (run.first + x * run.stride) * p.plan.bytes =
                     (IF planar THEN line * g.width + x
                      ELSE (line * g.width + x) * g.channels + channel) * p.plan.bytes
               /\ (run.first + x * run.stride) * p.plan.bytes \in Nat
  <1> DEFINE g == p.plan.geometry
             w == g.width
             h == g.height
             n == g.channels
             b == p.plan.bytes
             planar == p.plan.storage = "Planar"
             line == LineAt(p.plan, channel, row)
             run == RunOf(p, channel, row)
             size == RowLength(p.plan)
  <1>1. w \in Nat /\ h \in Nat /\ n \in Nat /\ b \in Nat /\ p.plan.storage \in {"Planar", "Normal"}
    BY MaxUAssumption DEF Planned, Geometry, U
  <1>2. run = IF planar
              THEN [first |-> (channel * h + row) * w, stride |-> 1,
                    row_base |-> (channel * h + row) * w * b]
              ELSE [first |-> row * w * n + channel, stride |-> n, row_base |-> row * w * n * b]
    BY DEF RunOf
  <1>3. size = w * (IF planar THEN 1 ELSE n) * b
    BY <1>1 DEF Sized, RowSamples
  <1>4. line = IF planar THEN channel * h + row ELSE row
    BY DEF LineAt
  <1> HIDE DEF w, h, n, b, line, run, size, planar
  <1>5. CASE planar
    <2>1. line \in Nat /\ line = channel * h + row
      BY <1>1, <1>4, <1>5
    <2>2. run.first = line * w /\ run.stride = 1 /\ run.row_base = line * w * b
      BY <1>2, <1>5, <2>1
    <2>3. size = w * b
      BY <1>1, <1>3, <1>5
    <2>4. line * w * b = line * (w * b)
      BY <1>1, <2>1
    <2>5. run.first + x * run.stride = line * w + x /\ (line * w + x) * b \in Nat
      BY <1>1, <2>1, <2>2
    <2> QED  BY <1>3, <1>5, <2>1, <2>2, <2>3, <2>4, <2>5 DEF w, n, b, line, run, size, planar
  <1>6. CASE ~planar
    <2>1. line \in Nat /\ line = row
      BY <1>4, <1>6
    <2>2. run.first = row * w * n + channel /\ run.stride = n /\ run.row_base = row * w * n * b
      BY <1>2, <1>6
    <2>3. size = w * n * b
      BY <1>3, <1>6
    <2>4. row * w * n * b = row * (w * n * b)
      BY <1>1
    <2>5. run.first + x * run.stride = (line * w + x) * n + channel
      <3>1. (row * w + x) * n = row * w * n + x * n
        BY <1>1
      <3> DEFINE s == row * w * n
                 t == x * n
      <3>2. s \in Nat /\ t \in Nat /\ (row * w + x) * n = s + t
        BY <1>1, <3>1
      <3>3. run.first + x * run.stride = (s + channel) + t
        BY <2>2
      <3> HIDE DEF s, t
      <3>4. (s + channel) + t = (s + t) + channel
        BY <3>2
      <3> QED  BY <2>1, <3>2, <3>3, <3>4
    <2>6. ((line * w + x) * n + channel) * b \in Nat
      BY <1>1, <2>1
    <2> QED  BY <1>3, <1>6, <2>1, <2>2, <2>3, <2>4, <2>5, <2>6 DEF w, n, b, line, run, size, planar
  <1> QED  BY <1>5, <1>6

\* What a row cut out of the line in hand holds is what the block's image shows there.
LEMMA CutIsShown ==
    ASSUME NEW o, Planned(o), Sized(o.plan), NEW p \in PixelStates(o.plan),
           NEW channel \in 0 .. o.plan.geometry.channels - 1,
           NEW row \in 0 .. o.plan.geometry.height - 1,
           BlockBytes(p.plan) \in Seq(Byte), HasLine(p, LineAt(p.plan, channel, row)),
           LineAt(p.plan, channel, row) + 1 <= RowsIn(p.plan),
           DecodeRow(p, channel, row).res = "ok"
    PROVE  /\ DecodeRow(p, channel, row).value =
                 RowShown(p.plan, BlockBytes(p.plan), channel, row)
           /\ DecodeRow(p, channel, row).value # None
  <1> DEFINE plan == p.plan
             g == plan.geometry
             w == g.width
             b == plan.bytes
             planar == plan.storage = "Planar"
             line == LineAt(plan, channel, row)
             size == RowLength(plan)
             bytes == BlockBytes(plan)
             held == Held(p)
             run == RunOf(p, channel, row)
             At(x) == (IF planar THEN line * g.width + x
                       ELSE (line * g.width + x) * g.channels + channel) * b
             shuffled == plan.compression # None /\ plan.compression.shuffled
             ByteOf(at) == bytes[1 + IF shuffled
                                     THEN UnshuffledIndex(Len(bytes), plan.compression.item_size, at)
                                     ELSE at]
             Byte1(x, k) == ByteAt(p, ByteIn(p, channel, row, x, k))
             value == [x \in 1 .. w |-> Sample(plan, [k \in 1 .. b |-> Byte1(x, k)])]
             shown == [x \in 1 .. w |-> Sample(plan, [k \in 1 .. b |-> ByteOf(At(x - 1) + k - 1)])]
  <1>1. p.plan = o.plan /\ plan = o.plan
    BY DEF PixelStates
  <1>2. w \in Nat /\ b \in Nat /\ channel \in Nat /\ row \in Nat
    BY <1>1, MaxUAssumption DEF Planned, Geometry, U
  <1>3. /\ held \in Seq(Byte) /\ DecodeRow(p, channel, row).value = value
        /\ \A x \in 1 .. w : \A k \in 1 .. b :
              /\ ByteIn(p, channel, row, x, k) \in 0 .. Len(held) - 1
              /\ \E j \in DOMAIN held : Byte1(x, k) = held[j]
    BY <1>2, RowDecodes
  <1>4. \A x \in Nat :
           /\ w * (IF planar THEN 1 ELSE g.channels) * b = size
           /\ run.row_base = line * size /\ line \in Nat
           /\ (run.first + x * run.stride) * b = At(x) /\ At(x) \in Nat
    <2> SUFFICES ASSUME NEW x \in Nat
                 PROVE  /\ w * (IF planar THEN 1 ELSE g.channels) * b = size
                        /\ run.row_base = line * size /\ line \in Nat
                        /\ (run.first + x * run.stride) * b = At(x)
                        /\ (run.first + x * run.stride) * b \in Nat
      BY Zenon
    <2> QED  BY <1>1, <1>2, LineIsPlaced
  <1>5. size \in Nat \ {0} /\ plan.implied_bytes = RowsIn(plan) * size /\ RowsIn(plan) \in Nat
    BY <1>1 DEF Sized
  <1>6. line \in Nat /\ w * (IF planar THEN 1 ELSE g.channels) * b = size /\ run.row_base = line * size
    BY <1>4
  <1>7. Len(bytes) \in Nat /\ (line + 1) * size \in Nat /\ (line + 1) * size <= Len(bytes)
    <2>1. Len(bytes) \in Nat /\ line + 1 \in Nat /\ line + 1 <= RowsIn(plan)
      BY <1>6
    <2>2. (line + 1) * size \in Nat
      BY <1>5, <2>1
    <2>3. CASE p.whole = None
      BY <2>1, <2>2, <2>3 DEF HasLine, HoldsLine
    <2>4. CASE p.whole # None
      <3>1. Len(bytes) = RowsIn(plan) * size
        BY <1>5, <2>4 DEF HasLine
      <3>2. (line + 1) * size <= RowsIn(plan) * size
        <4>1. line + 1 \in Nat /\ RowsIn(plan) \in Nat /\ size \in Nat
          BY <1>5, <2>1
        <4> QED  BY <2>1, <4>1, TimesMore
      <3> QED  BY <2>1, <2>2, <3>1, <3>2
    <2> QED  BY <2>3, <2>4
  <1>8. RowShown(plan, bytes, channel, row) = shown
    <2>1. ~ (Len(bytes) < (line + 1) * size)
      BY <1>7
    <2>2. RowShown(plan, bytes, channel, row) =
             IF Len(bytes) < (line + 1) * (w * (IF planar THEN 1 ELSE g.channels) * b) THEN None
             ELSE shown
      BY Zenon DEF RowShown, LineAt
    <2> QED  BY <1>6, <2>1, <2>2
  <1>9. ASSUME NEW x \in 1 .. w, NEW k \in 1 .. b
        PROVE  Byte1(x, k) = ByteOf(At(x - 1) + k - 1)
    <2> DEFINE at == ByteIn(p, channel, row, x, k)
               a == At(x - 1)
    <2>0. x - 1 \in Nat
      BY <1>2
    <2>1. (run.first + (x - 1) * run.stride) * b = a /\ a \in Nat
      BY <1>4, <2>0
    <2>2. at = a - (IF p.whole = None THEN run.row_base ELSE 0) + k - 1 /\ at \in 0 .. Len(held) - 1
      BY <1>3, <2>1 DEF ByteIn
    <2>3. k \in Nat
      BY <1>2
    <2>4. CASE p.whole = None
      <3>1. held = p.raw /\ Len(p.raw) = size /\ ~shuffled
            /\ \A j \in 1 .. size : p.raw[j] = bytes[line * size + j]
        BY <2>4 DEF Held, HasLine, HoldsLine
      <3>2. Byte1(x, k) = held[1 + at]
        BY <3>1 DEF ByteAt
      <3> DEFINE base == line * size
      <3>3. base \in Nat
        BY <1>5, <1>6
      <3>4. at = a - base + k - 1
        BY <1>6, <2>2, <2>4
      <3>8. at \in 0 .. size - 1 /\ size \in Nat /\ a \in Nat
        BY <1>5, <2>1, <2>2, <3>1
      <3>9. \A j \in 1 .. size : held[j] = bytes[base + j]
        BY <3>1
      <3> HIDE DEF at, a, base, size
      <3>5. 1 + at \in 1 .. size /\ base + (1 + at) = 1 + (a + k - 1)
        BY <2>3, <3>3, <3>4, <3>8
      <3>6. held[1 + at] = bytes[base + (1 + at)]
        BY <3>5, <3>9
      <3>7. ByteOf(a + k - 1) = bytes[1 + (a + k - 1)]
        BY <3>1
      <3> QED  BY <3>2, <3>5, <3>6, <3>7 DEF at, a
    <2>5. CASE p.whole # None
      <3>1. held = bytes
        BY <2>5 DEF Held, HasLine
      <3>2. at = a + k - 1
        <4> HIDE DEF a, at
        <4> QED  BY <2>1, <2>2, <2>3, <2>5
      <3>3. Byte1(x, k) = ByteOf(at)
        BY <3>1 DEF ByteAt
      <3> QED  BY <3>2, <3>3
    <2> QED  BY <2>4, <2>5
  <1>10. value = shown
    BY <1>9
  <1>11. value \in Seq(Seq(Byte))
    <2> SUFFICES ASSUME NEW x \in 1 .. w
                 PROVE  Sample(plan, [k \in 1 .. b |-> Byte1(x, k)]) \in Seq(Byte)
      <3> DEFINE S(x) == Sample(plan, [k \in 1 .. b |-> Byte1(x, k)])
      <3>1. \A x \in 1 .. w : S(x) \in Seq(Byte)
        OBVIOUS
      <3> HIDE DEF S, w
      <3>2. [x \in 1 .. w |-> S(x)] \in Seq(Seq(Byte))
        BY <1>2, <3>1
      <3> QED  BY <3>2 DEF S, w
    <2> DEFINE s == [k \in 1 .. b |-> Byte1(x, k)]
    <2>1. \A k \in 1 .. b : Byte1(x, k) \in Byte
      BY <1>3
    <2> HIDE DEF Byte1
    <2>2. s \in Seq(Byte) /\ Len(s) = b
      BY <1>2, <2>1
    <2> QED  BY <1>2, <2>2, SampleBytes
  <1>12. value # None
    BY <1>11, NoRunAssumption
  <1> QED  BY <1>3, <1>8, <1>10, <1>12

\* The chunk an image shows at the place of a cursor, the one a decode makes of what its block
\* holds there.
LEMMA ChunksAgree ==
    ASSUME NEW o, Planned(o), NEW p, p.plan = o.plan, Selects(p.plan, p.selected),
           NEW i \in 0 .. ChunksTotal(p.plan, p.selected) - 1
    PROVE  LET c    == CursorAt(p, i)
               show == Pictured(p.plan)
               row  == RowShown(p.plan, BlockBytes(p.plan), c.channel, c.row)
           IN  /\ show.planes[c.channel + 1][c.row + 1] = row
               /\ ChunkFor(show, p.selected, <<c.channel, c.row>>) = ChunkOf(p, c, row)
  <1> DEFINE c == CursorAt(p, i)
             g == p.plan.geometry
             show == Pictured(p.plan)
             row == RowShown(p.plan, BlockBytes(p.plan), c.channel, c.row)
  <1>1. c.channel \in 0 .. g.channels - 1 /\ c.row \in 0 .. g.height - 1
    BY CursorFacts
  <1>2. /\ show.width = g.width /\ g.channels \in Nat \ {0} /\ g.height \in Nat \ {0}
        /\ \A ch \in 1 .. g.channels :
              /\ Len(show.planes[ch]) = g.height
              /\ \A r \in 1 .. g.height :
                    show.planes[ch][r] = RowShown(p.plan, BlockBytes(p.plan), ch - 1, r - 1)
    BY PictureFacts
  <1> HIDE DEF c, g, show
  <1>3. /\ c.channel + 1 \in 1 .. g.channels /\ c.row + 1 \in 1 .. g.height
        /\ (c.channel + 1) - 1 = c.channel /\ (c.row + 1) - 1 = c.row
    BY <1>1, <1>2
  <1>4. show.planes[c.channel + 1][c.row + 1] = row
    BY <1>2, <1>3
  <1>5. 1 \in 1 .. g.channels
    BY <1>2
  <1>6. Len(show.planes[1]) = g.height
    BY <1>2, <1>5
  <1>7. ChunkFor(show, p.selected, <<c.channel, c.row>>) =
           [channel |-> c.channel,
            start   |-> show.width * (IF p.selected = None
                                      THEN c.channel * Len(show.planes[1]) + c.row ELSE c.row),
            from    |-> show.planes[c.channel + 1][c.row + 1]]
    BY Zenon DEF ChunkFor
  <1>8. ChunkOf(p, c, row) =
           [channel |-> c.channel,
            start   |-> g.width * (IF p.selected = None THEN c.channel * g.height + c.row ELSE c.row),
            from    |-> row]
    BY Zenon DEF ChunkOf, g
  <1>9. ChunkFor(show, p.selected, <<c.channel, c.row>>) = ChunkOf(p, c, row)
    BY <1>2, <1>4, <1>6, <1>7, <1>8
  <1> QED  BY <1>4, <1>9 DEF c, show

\* Past the chunks an image has given, the one it shows next is the one its cursor stands at, if
\* its block holds it.
LEMMA NextIsPromised ==
    ASSUME NEW o, Planned(o), NEW p, p.plan = o.plan, Selects(p.plan, p.selected),
           NEW i \in 0 .. ChunksTotal(p.plan, p.selected) - 1,
           i # 0 => i \in DOMAIN ChunksIn(Pictured(p.plan), p.selected),
           LET c == CursorAt(p, i)
           IN  RowShown(p.plan, BlockBytes(p.plan), c.channel, c.row) # None
    PROVE  LET c      == CursorAt(p, i)
               chunks == ChunksIn(Pictured(p.plan), p.selected)
           IN  /\ i + 1 \in DOMAIN chunks
               /\ chunks[i + 1] =
                     ChunkOf(p, c, RowShown(p.plan, BlockBytes(p.plan), c.channel, c.row))
  <1> DEFINE c == CursorAt(p, i)
             show == Pictured(p.plan)
             row == RowShown(p.plan, BlockBytes(p.plan), c.channel, c.row)
             rows == RowsOf(show, p.selected)
             total == ChunksTotal(p.plan, p.selected)
             lost == {n \in DOMAIN rows : show.planes[rows[n][1] + 1][rows[n][2] + 1] = None}
             good == IF lost = {} THEN Len(rows) ELSE Min(lost) - 1
             chunks == ChunksIn(show, p.selected)
  <1>1. /\ total \in Nat \ {0} /\ DOMAIN rows = 1 .. total /\ Len(rows) = total
        /\ rows[i + 1] = <<c.channel, c.row>>
    BY RowsAreThere
  <1>2. chunks = [n \in 1 .. good |-> ChunkFor(show, p.selected, rows[n])]
    BY Zenon DEF ChunksIn
  <1>3. /\ show.planes[c.channel + 1][c.row + 1] = row
        /\ ChunkFor(show, p.selected, <<c.channel, c.row>>) = ChunkOf(p, c, row)
    BY ChunksAgree
  <1>4. i + 1 \notin lost
    BY <1>1, <1>3
  <1>5. lost \subseteq 1 .. total /\ lost \in SUBSET Nat
    <2>1. lost \subseteq DOMAIN rows
      OBVIOUS
    <2> HIDE DEF lost, rows, total
    <2>2. lost \subseteq 1 .. total
      BY <1>1, <2>1
    <2>3. \A n \in 1 .. total : n \in Nat
      BY <1>1
    <2> QED  BY <2>2, <2>3
  <1>6. i # 0 => i \in 1 .. good
    BY <1>2
  <1>7. lost # {} => Min(lost) \in lost
    BY <1>5, MinOf
  <1> HIDE DEF lost, rows, total, chunks, show, row, c
  <1>8. i + 1 \in 1 .. good
    <2>1. CASE lost = {}
      BY <1>1, <2>1 DEF total
    <2>2. CASE lost # {}
      <3>1. Min(lost) \in 1 .. total /\ Min(lost) # i + 1 /\ Min(lost) \in Nat
        BY <1>1, <1>4, <1>5, <1>7, <2>2
      <3> QED  BY <1>6, <2>2, <3>1
    <2> QED  BY <2>1, <2>2
  <1>9. i + 1 \in DOMAIN chunks /\ chunks[i + 1] = ChunkFor(show, p.selected, rows[i + 1])
    BY <1>2, <1>8
  <1> QED  BY <1>1, <1>3, <1>9 DEF chunks, show, c, row

-----------------------------------------------------------------------------
(* Exactness: the rows a decode hands over are those of the image.         *)

\* Not every chunk was counted yet.
Wanting(p) == p.chunks_done < p.chunks_total

\* A decode holds what it is thought to hold: the block, or a line of it.
HoldsItsBlock(p) ==
    /\ p.whole # None => p.whole = BlockBytes(p.plan) /\ Pictured(p.plan).sound
    /\ p.whole = None /\ p.plan.compression = None /\ p.raw_row # None => HoldsLine(p, p.raw_row)

\* A compressed stream has yielded the lines up to the one wanted, and no further.
InStep(p, at) ==
    LET ready == at \notin Filling IN
    /\ (ready \/ ~Wanting(p)) /\ p.stream_row # 0 => HoldsLine(p, p.stream_row - 1)
    /\ p.raw_row # None => p.raw_row < p.stream_row
    /\ p.chunks_done # 0 => LineOf(p, p.chunks_done - 1) < p.stream_row
    /\ p.stream_row <= LineOf(p, IF Wanting(p) THEN p.chunks_done ELSE p.chunks_done - 1) + 1
    /\ ~ready /\ Wanting(p) => p.stream_row <= LineOf(p, p.chunks_done)
    /\ ~ready /\ ~Wanting(p) => p.stream_row = RowsIn(p.plan)
    /\ at = "finish" => p.walk.index = PairCount(p.plan)
    /\ ready /\ ~Wanting(p) /\ p.stream_row = RowsIn(p.plan) => Pictured(p.plan).sound

\* How many chunks were handed over: those counted, but for one kept back.
Handed(p, at) == IF at \in Filling /\ ~Wanting(p) THEN p.chunks_done - 1 ELSE p.chunks_done

\* A decode at a point, once n chunks were handed over.
Stays(p, at, n) ==
    /\ p.chunks_total = ChunksTotal(p.plan, p.selected)
    /\ HoldsItsBlock(p) /\ n = Handed(p, at)
    /\ p.whole = None /\ p.plan.compression # None => InStep(p, at)

Exactly == pixels_started /\ ~pixels_failed => Stays(pixels, pc, Len(stream))

\* The chunks a stream holds are the first the image shows.
Shows(plan, selected, chunks) ==
    \A n \in DOMAIN chunks : /\ n \in DOMAIN ChunksIn(Pictured(plan), selected)
                             /\ chunks[n] = ChunksIn(Pictured(plan), selected)[n]

Promised == stream # <<>> => Shows(Plan, selected_channel, stream)

ExactInv == Exactly /\ Promised

\* A block in an attachment is made of bytes.
LEMMA BlockIsBytes ==
    ASSUME NEW o, Planned(o), o.plan.location.mode = "attachment"
    PROVE  BlockBytes(o.plan) \in Seq(Byte)
  <1>1. CASE o.plan.compression # None
    <2>1. ConformingPlan(o.plan)
      BY <1>1, AttachmentsConform
    <2>2. 0 \in 0 .. PairCount(o.plan)
      BY <2>1, PairsOf
    <2>3. AllHold(o.plan, 0)
      BY DEF AllHold
    <2>4. Stated(o.plan) \in Seq(Byte)
      BY <2>1, <2>2, <2>3, StatedBegins
    <2> QED  BY <1>1, <2>4 DEF BlockBytes
  <1>2. CASE o.plan.compression = None
    <2>1. U \subseteq Nat
      BY MaxUAssumption DEF U
    <2>2. o.plan.location.position \in Nat /\ o.plan.location.size \in Nat
      BY <2>1, PlacesRead DEF Planned
    <2>3. FileBytes(o.plan.location.position, o.plan.location.size) \in Seq(Byte)
      BY <2>2, FileBytesRun
    <2> QED  BY <1>2, <2>3 DEF BlockBytes
  <1> QED  BY <1>1, <1>2

\* A block held whole is what its pairs, or its stored bytes, hold, and every pair was exact.
LEMMA MaterializeIsBlock ==
    ASSUME Grounded, NEW o, Planned(o), Stands(unit, o), o.plan # None, Fits(o.plan),
           NEW m \in Materialize(o.plan), m.res = "ok"
    PROVE  m.dst = BlockBytes(o.plan) /\ Pictured(o.plan).sound
  <1> DEFINE p == o.plan
             place == p.location
             stored == FileBytes(place.position, place.size)
  <1>1. place.mode \in {"attachment", "embedded"}
    BY PlacesRead DEF Planned
  <1>2. \A a, d : Resident(a, d).res = d.res /\ Resident(a, d).dst = d.dst
    BY DEF Resident
  <1>3. \A r, d : Decoded(r, d).res = r /\ Decoded(r, d).dst = d
    BY DEF Decoded
  <1>4. ASSUME NEW s, Pipeline(p, s).res = "ok"
        PROVE  /\ p.compression = None => Pipeline(p, s).dst = s
               /\ p.compression # None => /\ Decompress(p, s).res = "ok"
                                          /\ Pipeline(p, s).dst = Decompress(p, s).dst
    BY <1>3, <1>4 DEF Pipeline
  <1>5. CASE place.mode = "attachment"
    <2>1. PICK a : m = Resident(a, Decoded("LimitExceeded", <<>>))
                   \/ (a.res # "ok" /\ m = Resident(a, Decoded(a.res, <<>>)))
                   \/ m = Resident(a, Pipeline(p, stored))
      BY <1>5 DEF Materialize
    <2>2. Pipeline(p, stored).res = "ok" /\ m.dst = Pipeline(p, stored).dst
      BY <1>2, <1>3, <2>1
    <2>3. CASE p.compression = None
      BY <1>4, <1>5, <2>2, <2>3 DEF BlockBytes, Pictured
    <2>4. CASE p.compression # None
      <3>1. ConformingPlan(p)
        BY <1>5, <2>4, AttachmentsConform
      <3>2. Decompress(p, stored).res = "ok" /\ m.dst = Decompress(p, stored).dst
        BY <1>4, <2>2, <2>4
      <3>3. Decompress(p, stored).dst = Stated(p) /\ AllHold(p, PairCount(p))
        BY <3>1, <3>2, DecompressedIsStated DEF Materialized
      <3> QED  BY <1>5, <2>4, <3>2, <3>3 DEF BlockBytes, Pictured, AllHold
    <2> QED  BY <2>3, <2>4
  <1>6. CASE place.mode = "embedded"
    <2>1. PICK a : m = Resident(a, Decoded("Malformed", <<>>)) \/ m = Resident(a, Pipeline(p, p.materialized))
      BY <1>6 DEF Materialize
    <2>2. Pipeline(p, p.materialized).res = "ok" /\ m.dst = Pipeline(p, p.materialized).dst
      BY <1>2, <1>3, <2>1
    <2> QED  BY <1>4, <1>6, <2>2 DEF BlockBytes, Pictured
  <1> QED  BY <1>1, <1>5, <1>6

\* A step that opens a cursor or leaves the image has nothing under way.
LEMMA ExactEmpties ==
    ASSUME stream' = <<>>, ~pixels_started'
    PROVE  ExactInv'
  BY DEF ExactInv, Exactly, Promised

\* A step that fails the chunk leaves what was handed over.
LEMMA ExactFails ==
    ASSUME ExactInv, UNCHANGED <<stream, current, occurrences, selected_channel>>, pixels_failed'
    PROVE  ExactInv'
  BY DEF ExactInv, Exactly, Promised, Plan

\* A step that touches neither the decode nor what was handed over.
LEMMA ExactRests ==
    ASSUME ExactInv, stream' = stream,
           stream # <<>> => UNCHANGED <<current, occurrences, selected_channel>>,
           pixels_started' /\ ~pixels_failed' =>
              /\ pixels_started /\ ~pixels_failed /\ pixels' = pixels
              /\ pc \notin Filling /\ pc' \notin Filling
    PROVE  ExactInv'
  <1>1. Promised'
    BY DEF ExactInv, Promised, Plan
  <1>2. ASSUME NEW p, NEW n, NEW at, NEW to, at \notin Filling, to \notin Filling, Stays(p, at, n)
        PROVE  Stays(p, to, n)
    BY <1>2 DEF Stays, Handed, InStep, Filling
  <1>3. Exactly'
    BY <1>2 DEF ExactInv, Exactly
  <1> QED  BY <1>1, <1>3 DEF ExactInv

\* A step that leaves decode q of the same image.
LEMMA ExactLeads ==
    ASSUME ExactInv, UNCHANGED <<current, occurrences, selected_channel>>, NEW q, pixels' = q,
           Stays(q, pc', Len(stream')),
           stream' = stream \/ Shows(Plan, selected_channel, stream')
    PROVE  ExactInv'
  BY DEF ExactInv, Exactly, Promised, Plan

\* The channel selected is one the image decoded has.
LEMMA SelectedIsThere ==
    ASSUME RInv, PixelRefusal = "ok", Plan # None
    PROVE  Selects(Plan, selected_channel)
  <1>1. /\ header.geometry = Plan.geometry /\ Planned(occurrences[current])
        /\ Plan = occurrences[current].plan
    BY RefusalFacts DEF RInv
  <1>2. Plan.geometry.channels \in Nat
    BY <1>1, MaxUAssumption DEF Planned, Geometry, U
  <1>3. /\ selected_channel \in Option(0 .. MaxChannel)
        /\ selected_channel # None => ~ (selected_channel >= header.geometry.channels)
    BY DEF RInv, Disciplined
  <1>4. selected_channel # None => selected_channel \in Nat
    BY <1>3, MaxChannelAssumption DEF Option
  <1> QED  BY <1>1, <1>2, <1>3, <1>4 DEF Selects

\* The calls a caller makes, before the decoder steps.
LEMMA ExactCalls ==
    ASSUME RInv, ExactInv, NEW k, NEW valid, NEW driver, NEW refusal,
           \/ Calls(NextImage) \/ Calls(SetBounds(valid)) \/ Calls(SelectChannel(k))
           \/ Calls(Chunks) \/ Calls(DropChunks) \/ Calls(NextChunk)
           \/ Calls(ForEachChunk) \/ Calls(Decodes(driver, refusal))
    PROVE  ExactInv'
  <1>1. UNCHANGED <<current, occurrences, pixels>>
    BY DEF Calls, decoderVars
  <1>2. /\ stream # <<>> => pixels_started
        /\ pixels_started => phase = "pixel"
    BY DEF RInv, Disciplined
  <1>3. "idle" \notin Filling /\ "abandon" \notin Filling /\ "begin_pixels" \notin Filling
        /\ "next_chunk" \notin Filling
    BY DEF Filling
  <1>4. CASE Calls(NextImage)
    <2>1. CASE pixels_started
      <3>1. pc = "idle" /\ pc' = "abandon" /\ UNCHANGED <<readerVars, stream>>
        BY <1>4, <2>1 DEF Calls, NextImage
      <3> QED  BY <1>1, <1>3, <3>1, ExactRests DEF readerVars
    <2>2. CASE ~pixels_started
      <3>1. stream' = <<>> /\ ~pixels_started'
        BY <1>4, <2>2 DEF Calls, NextImage, ResetForNextImage
      <3> QED  BY <3>1, ExactEmpties
    <2> QED  BY <2>1, <2>2
  <1>5. CASE Calls(SetBounds(valid))
    <2>1. pc = "idle" /\ pc' = "idle" /\ UNCHANGED <<pixels_started, pixels_failed, selected_channel, stream>>
      BY <1>5 DEF Calls, SetBounds, Answers, Returns, readerVars
    <2> QED  BY <1>1, <1>3, <2>1, ExactRests
  <1>6. CASE Calls(SelectChannel(k))
    <2>1. /\ pc = "idle" /\ pc' = "idle" /\ UNCHANGED <<pixels_started, pixels_failed, stream>>
          /\ phase = "pixel" => UNCHANGED selected_channel
      BY <1>6 DEF Calls, SelectChannel, Answers, Returns, readerVars
    <2>2. stream # <<>> => UNCHANGED selected_channel
      BY <1>2, <2>1
    <2> QED  BY <1>1, <1>3, <2>1, <2>2, ExactRests
  <1>7. CASE Calls(Chunks)
    <2>1. stream' = <<>> /\ ~pixels_started'
      BY <1>7 DEF Calls, Chunks, Opens
    <2> QED  BY <2>1, ExactEmpties
  <1>8. CASE Calls(DropChunks)
    <2>1. pc = "idle" /\ pc' = pc /\ UNCHANGED <<readerVars, stream>>
      BY <1>8 DEF Calls, DropChunks
    <2> QED  BY <1>1, <1>3, <2>1, ExactRests DEF readerVars
  <1>9. CASE Calls(NextChunk)
    <2>1. \/ ChunkFails(PixelRefusal)
          \/ /\ pc = "idle" /\ pc' \in {"idle", "next_chunk", "begin_pixels"}
             /\ UNCHANGED <<readerVars, stream>>
      BY <1>9 DEF Calls, NextChunk, Answers, Returns
    <2>2. CASE ChunkFails(PixelRefusal)
      <3>1. pixels_failed' /\ UNCHANGED <<stream, selected_channel>>
        BY <2>2 DEF ChunkFails
      <3> QED  BY <1>1, <3>1, ExactFails
    <2>3. CASE /\ pc = "idle" /\ pc' \in {"idle", "next_chunk", "begin_pixels"}
               /\ UNCHANGED <<readerVars, stream>>
      BY <1>1, <1>3, <2>3, ExactRests DEF readerVars
    <2> QED  BY <2>1, <2>2, <2>3
  <1>10. CASE Calls(ForEachChunk)
    <2>1. stream' = <<>> /\ ~pixels_started'
      BY <1>10 DEF Calls, ForEachChunk, Opens
    <2> QED  BY <2>1, ExactEmpties
  <1>11. CASE Calls(Decodes(driver, refusal))
    <2>1. CASE refusal = "ok"
      <3>1. stream' = <<>> /\ ~pixels_started'
        BY <1>11, <2>1 DEF Calls, Decodes, Opens
      <3> QED  BY <3>1, ExactEmpties
    <2>2. CASE refusal # "ok"
      <3>1. pc = "idle" /\ pc' = "idle" /\ UNCHANGED <<readerVars, stream>>
        BY <1>11, <2>2 DEF Calls, Decodes, Answers, Returns
      <3> QED  BY <1>1, <1>3, <3>1, ExactRests DEF readerVars
    <2> QED  BY <2>1, <2>2
  <1> QED  BY <1>4, <1>5, <1>6, <1>7, <1>8, <1>9, <1>10, <1>11

\* The constructor, and the walk from image to image.
LEMMA ExactWalks ==
    ASSUME RInv, ExactInv, Build \/ Abandon \/ AfterTheLast \/ ToTheNext
    PROVE  ExactInv'
  <1>1. /\ stream # <<>> => pixels_started
        /\ pc \in {"build", "next_image"} => ~pixels_started
    BY DEF RInv, Disciplined
  <1>2. CASE Build
    <2>1. pc = "build" /\ UNCHANGED <<pixels_started, stream>>
      BY <1>2 DEF Build, readerVars
    <2> QED  BY <1>1, <2>1, ExactRests
  <1>3. CASE Abandon
    <2>1. stream' = <<>> /\ ~pixels_started'
      BY <1>3 DEF Abandon, AbandonReturns, ResetForNextImage
    <2> QED  BY <2>1, ExactEmpties
  <1>4. CASE AfterTheLast \/ ToTheNext
    <2>1. pc = "next_image" /\ UNCHANGED <<pixels_started, stream>>
      BY <1>4 DEF AfterTheLast, ToTheNext, NextImageReturns
    <2> QED  BY <1>1, <2>1, ExactRests
  <1> QED  BY <1>2, <1>3, <1>4

\* begin_pixels: it fails, goes on to open the first pair, or leaves decode q.
LEMMA ExactBegins ==
    ASSUME RInv, ExactInv, pc \in Beginning, UNCHANGED walkVars, NEW res, NEW q, Begins(res, q),
           res = "ok" => /\ Plan # None /\ Fits(Plan) /\ PixelRefusal = "ok"
                         /\ q.plan = Plan /\ q.selected = selected_channel
                         /\ q.raw_row = None /\ q.stream_row = 0
                         /\ q.chunks_done = 0 /\ q.chunks_total = ChunksTotal(Plan, selected_channel)
                         /\ q.whole # None => q.whole = BlockBytes(Plan) /\ Pictured(Plan).sound
    PROVE  ExactInv'
  <1>1. stream = <<>> /\ UNCHANGED <<current, occurrences>>
    BY DEF RInv, Disciplined, walkVars
  <1>2. CASE res # "ok"
    <2>1. pixels_failed' /\ UNCHANGED <<stream, selected_channel>>
      BY <1>2 DEF Begins, BeginPixelsReturns, ChunkFails
    <2> QED  BY <1>1, <2>1, ExactFails
  <1>3. CASE res = "ok"
    <2>1. pixels' = q /\ pc' = "next_chunk" /\ UNCHANGED <<selected_channel, stream>>
      BY <1>3 DEF Begins, BeginPixelsReturns
    <2>2. Planned(occurrences[current]) /\ Plan = occurrences[current].plan
      BY <1>3, RefusalFacts DEF RInv
    <2>3. Selects(Plan, selected_channel)
      BY <1>3, <2>2, SelectedIsThere DEF RInv
    <2>4. ChunksTotal(Plan, selected_channel) \in Nat \ {0}
      BY <2>2, <2>3, PlaceFacts
    <2>5. LineOf(q, 0) \in Nat
      <3>1. q.plan = occurrences[current].plan /\ Selects(q.plan, q.selected)
            /\ 0 \in 0 .. ChunksTotal(q.plan, q.selected) - 1
        BY <1>3, <2>2, <2>3, <2>4
      <3>2. LineOf(q, 0) \in 0 .. RowsIn(q.plan) - 1
        BY <2>2, <3>1, CursorFacts DEF LineOf
      <3> QED  BY <3>2
    <2>6. Wanting(q) /\ "next_chunk" \notin Filling
      BY <1>3, <2>4 DEF Wanting, Filling
    <2>7. InStep(q, "next_chunk")
      BY <1>3, <2>5, <2>6 DEF InStep
    <2>8. Stays(q, "next_chunk", 0)
      BY <1>3, <2>6, <2>7 DEF Stays, HoldsItsBlock, Handed
    <2>9. Len(stream') = 0
      BY <1>1, <2>1
    <2> QED  BY <1>1, <2>1, <2>8, <2>9, ExactLeads
  <1> QED  BY <1>2, <1>3

\* What a decode begins with.
LEMMA BeganIs ==
    ASSUME NEW plan, NEW whole, NEW w
    PROVE  LET q == Began(plan, whole, w) IN
           /\ q.plan = plan /\ q.selected = selected_channel /\ q.whole = whole /\ q.raw_row = None
           /\ q.stream_row = 0 /\ q.chunks_done = 0
           /\ q.chunks_total = ChunksTotal(plan, selected_channel)
  BY DEF Began

\* The steps of begin_pixels.
LEMMA ExactBeginSteps ==
    ASSUME RInv, ExactInv, BeginRefused \/ BeginStream \/ BeginWalk \/ BeginWhole
    PROVE  ExactInv'
  <1>1. CASE BeginRefused
    <2>1. /\ pc \in Beginning /\ UNCHANGED walkVars /\ BeginRefusal(Plan) # "ok"
          /\ Begins(BeginRefusal(Plan), None)
      BY <1>1 DEF BeginRefused, Beginning
    <2> DEFINE res == BeginRefusal(Plan)
    <2> HIDE DEF res
    <2>2. Begins(res, None) /\ res # "ok"
      BY <2>1 DEF res
    <2> QED  BY <2>1, <2>2, ExactBegins
  <1>2. CASE BeginStream
    <2>1. /\ pc \in Beginning /\ UNCHANGED walkVars /\ BeginRefusal(Plan) = "ok"
      BY <1>2 DEF BeginStream, Beginning
    <2>2. PixelRefusal = "ok" /\ Plan # None /\ Fits(Plan) /\ ~pixels_started
      BY <2>1, BeginFits, BeginFacts DEF RInv
    <2>3. PICK o : \/ UNCHANGED <<readerVars, stream>>
                   \/ Begins(o.res, Began(Plan, None, AtBlock(Plan)))
      BY <1>2 DEF BeginStream
    <2>4. CASE UNCHANGED <<readerVars, stream>>
      BY <2>1, <2>2, <2>4, ExactRests DEF readerVars, walkVars
    <2>5. CASE Begins(o.res, Began(Plan, None, AtBlock(Plan)))
      <3> DEFINE q == Began(Plan, None, AtBlock(Plan))
      <3>1. /\ q.plan = Plan /\ q.selected = selected_channel /\ q.whole = None /\ q.raw_row = None
            /\ q.stream_row = 0 /\ q.chunks_done = 0
            /\ q.chunks_total = ChunksTotal(Plan, selected_channel)
        BY BeganIs
      <3> HIDE DEF q
      <3>2. Begins(o.res, q)
        BY <2>5 DEF q
      <3> QED  BY <2>1, <2>2, <3>1, <3>2, ExactBegins
    <2> QED  BY <2>3, <2>4, <2>5
  <1>3. CASE BeginWalk
    <2>1. pc \in Beginning /\ pc = "begin_walk" /\ UNCHANGED walkVars
      BY <1>3 DEF BeginWalk, Beginning
    <2>2. PixelRefusal = "ok" /\ Plan # None /\ Fits(Plan)
      BY <2>1, BeginFacts DEF RInv, Disciplined
    <2>3. PICK r : Begins(r.res, Began(Plan, None, r.walk))
      BY <1>3 DEF BeginWalk
    <2> DEFINE q == Began(Plan, None, r.walk)
    <2>4. /\ q.plan = Plan /\ q.selected = selected_channel /\ q.whole = None /\ q.raw_row = None
          /\ q.stream_row = 0 /\ q.chunks_done = 0
          /\ q.chunks_total = ChunksTotal(Plan, selected_channel)
      BY BeganIs
    <2> HIDE DEF q
    <2>5. Begins(r.res, q)
      BY <2>3 DEF q
    <2> QED  BY <2>1, <2>2, <2>4, <2>5, ExactBegins
  <1>4. CASE BeginWhole
    <2>1. pc \in Beginning /\ BeginRefusal(Plan) = "ok" /\ UNCHANGED walkVars
      BY <1>4 DEF BeginWhole, Beginning
    <2>2. /\ PixelRefusal = "ok" /\ Grounded
      BY <2>1, BeginFacts DEF RInv
    <2>3. /\ Plan # None /\ Fits(Plan) /\ Planned(occurrences[current])
          /\ Plan = occurrences[current].plan /\ Stands(unit, occurrences[current])
      BY <2>1, <2>2, BeginFits
    <2>4. PICK m \in Materialize(Plan) : Begins(m.res, Began(Plan, m.dst, Unopened))
      BY <1>4 DEF BeginWhole
    <2>5. m.res = "ok" => m.dst = BlockBytes(Plan) /\ Pictured(Plan).sound
      BY <2>2, <2>3, MaterializeIsBlock
    <2> DEFINE q == Began(Plan, m.dst, Unopened)
    <2>6. /\ q.plan = Plan /\ q.selected = selected_channel /\ q.whole = m.dst /\ q.raw_row = None
          /\ q.stream_row = 0 /\ q.chunks_done = 0
          /\ q.chunks_total = ChunksTotal(Plan, selected_channel)
      BY BeganIs
    <2> HIDE DEF q
    <2>7. Begins(m.res, q)
      BY <2>4 DEF q
    <2> QED  BY <2>1, <2>2, <2>3, <2>5, <2>6, <2>7, ExactBegins
  <1> QED  BY <1>1, <1>2, <1>3, <1>4

\* The decode as next_chunk finds it, and the place of the chunk it is at.
LEMMA ExactChunkFacts ==
    ASSUME RInv, ExactInv, pc \in Chunking
    PROVE  /\ Stays(pixels, pc, Len(stream)) /\ Selects(Plan, selected_channel)
           /\ Sits(pixels) /\ pixels \in PixelStates(Plan) /\ pixels.plan = Plan
           /\ pixels.selected = selected_channel
           /\ Planned(occurrences[current]) /\ Plan = occurrences[current].plan
           /\ Fits(Plan) /\ Plan # None
           /\ pixels.chunks_total \in Nat \ {0} /\ pixels.chunks_done \in 0 .. pixels.chunks_total
           /\ pixels.stream_row \in Nat /\ pixels.raw_row \in Option(Nat)
           /\ \A i \in 0 .. pixels.chunks_total - 1 : LineOf(pixels, i) \in 0 .. RowsIn(Plan) - 1
           /\ RowsIn(Plan) \in Nat \ {0} /\ RowLength(Plan) \in Nat \ {0} /\ RowBytes = RowLength(Plan)
           /\ (Compressed <=> Plan.compression # None) /\ pixels # None
  <1>1. /\ pixels_started /\ ~pixels_failed /\ pixels # None /\ Sits(pixels) /\ pixels.plan = Plan
        /\ pixels.selected = selected_channel /\ pixels \in PixelStates(Plan) /\ Plan # None /\ Fits(Plan)
        /\ Planned(occurrences[current]) /\ Plan = occurrences[current].plan
        /\ RowBytes = RowLength(Plan) /\ RowLength(Plan) \in Nat \ {0}
        /\ Compressed <=> Plan.compression # None
    BY ChunkFacts
  <1>2. Stays(pixels, pc, Len(stream))
    BY <1>1 DEF ExactInv, Exactly
  <1>3. PixelRefusal = "ok"
    BY <1>1 DEF RInv, Disciplined
  <1>4. Selects(Plan, selected_channel)
    BY <1>1, <1>3, SelectedIsThere
  <1>5. RowsIn(Plan) \in Nat \ {0}
    BY <1>1 DEF Fits, Sized
  <1>6. pixels.chunks_total = ChunksTotal(Plan, selected_channel)
    BY <1>1, <1>2 DEF Stays
  <1>7. pixels.chunks_total \in Nat \ {0}
    <2>1. Selects(occurrences[current].plan, selected_channel)
      BY <1>1, <1>4
    <2>2. ChunksTotal(occurrences[current].plan, selected_channel) \in Nat \ {0}
      BY <1>1, <2>1, PlaceFacts
    <2> QED  BY <1>1, <1>6, <2>2
  <1>8. /\ pixels.stream_row \in Nat /\ pixels.raw_row \in Option(Nat) /\ pixels.chunks_done \in Nat
        /\ pixels.chunks_done <= pixels.chunks_total
    BY <1>1 DEF PixelStates, Sits
  <1>9. \A i \in 0 .. pixels.chunks_total - 1 : LineOf(pixels, i) \in 0 .. RowsIn(Plan) - 1
    <2> SUFFICES ASSUME NEW i \in 0 .. pixels.chunks_total - 1
                 PROVE  LineOf(pixels, i) \in 0 .. RowsIn(Plan) - 1
      OBVIOUS
    <2>1. i \in 0 .. ChunksTotal(pixels.plan, pixels.selected) - 1 /\ Selects(pixels.plan, pixels.selected)
          /\ pixels.plan = occurrences[current].plan
      BY <1>1, <1>4, <1>6
    <2>2. CursorAt(pixels, i).input_row \in 0 .. RowsIn(pixels.plan) - 1
      BY <1>1, <2>1, CursorFacts
    <2> QED  BY <1>1, <2>2 DEF LineOf
  <1> QED  BY <1>1, <1>2, <1>4, <1>5, <1>7, <1>8, <1>9

\* A line in hand is told by the plan and the staging row.
LEMMA SameLine ==
    ASSUME NEW p, NEW q, q.plan = p.plan, q.raw = p.raw, NEW line, HoldsLine(p, line)
    PROVE  HoldsLine(q, line)
  BY DEF HoldsLine

\* A stream of chunks as the image shows them, with the next one after it.
LEMMA ShowsMore ==
    ASSUME NEW plan, NEW selected, NEW chunks, NEW T, chunks \in Seq(T), Shows(plan, selected, chunks),
           NEW chunk, Len(chunks) + 1 \in DOMAIN ChunksIn(Pictured(plan), selected),
           chunk = ChunksIn(Pictured(plan), selected)[Len(chunks) + 1]
    PROVE  Shows(plan, selected, Append(chunks, chunk)) /\ Len(Append(chunks, chunk)) = Len(chunks) + 1
  <1> DEFINE more == Append(chunks, chunk)
             shown == ChunksIn(Pictured(plan), selected)
  <1>1. /\ Len(chunks) \in Nat /\ DOMAIN chunks = 1 .. Len(chunks)
        /\ Len(more) = Len(chunks) + 1 /\ DOMAIN more = 1 .. Len(chunks) + 1
        /\ more[Len(chunks) + 1] = chunk /\ \A n \in 1 .. Len(chunks) : more[n] = chunks[n]
    OBVIOUS
  <1>2. \A n \in DOMAIN chunks : n \in DOMAIN shown /\ chunks[n] = shown[n]
    BY Zenon DEF Shows
  <1> HIDE DEF more, shown
  <1>3. \A n \in DOMAIN more : n \in DOMAIN shown /\ more[n] = shown[n]
    <2> SUFFICES ASSUME NEW n \in DOMAIN more
                 PROVE  n \in DOMAIN shown /\ more[n] = shown[n]
      OBVIOUS
    <2>1. n \in 1 .. Len(chunks) \/ n = Len(chunks) + 1
      BY <1>1
    <2> QED  BY <1>1, <1>2, <2>1 DEF shown
  <1> QED  BY <1>1, <1>3 DEF Shows, more, shown

\* The chunk cut out of the line in hand is the next the image shows.
LEMMA ExactHandsOver ==
    ASSUME RInv, ExactInv, pc \in Chunking, NEW p, p \in PixelStates(Plan),
           p.selected = selected_channel, NEW i \in 0 .. ChunksTotal(Plan, selected_channel) - 1,
           Len(stream) = i, HasLine(p, LineOf(p, i)),
           p.whole = None => IsStreamable(Plan),
           p.whole # None => p.whole = BlockBytes(Plan),
           DecodeRow(p, CursorAt(p, i).channel, CursorAt(p, i).row).res = "ok"
    PROVE  LET c == CursorAt(p, i)
               chunk == ChunkOf(p, c, DecodeRow(p, c.channel, c.row).value)
           IN  /\ Shows(Plan, selected_channel, Append(stream, chunk))
               /\ Len(Append(stream, chunk)) = i + 1
  <1> DEFINE c == CursorAt(p, i)
             value == DecodeRow(p, c.channel, c.row).value
             chunk == ChunkOf(p, c, value)
             o == occurrences[current]
             shown == ChunksIn(Pictured(Plan), selected_channel)
  <1>1. Planned(o) /\ Plan = o.plan /\ Fits(Plan) /\ Selects(Plan, selected_channel)
    BY ExactChunkFacts
  <1>2. p.plan = Plan /\ p.plan = o.plan /\ p \in PixelStates(o.plan) /\ Selects(p.plan, p.selected)
        /\ i \in 0 .. ChunksTotal(p.plan, p.selected) - 1 /\ Sized(o.plan)
    BY <1>1 DEF PixelStates, Fits
  <1>3. /\ c.channel \in 0 .. o.plan.geometry.channels - 1
        /\ c.row \in 0 .. o.plan.geometry.height - 1
        /\ c.input_row = LineAt(p.plan, c.channel, c.row)
        /\ c.input_row \in 0 .. RowsIn(p.plan) - 1
    BY <1>1, <1>2, CursorFacts
  <1>4. BlockBytes(p.plan) \in Seq(Byte)
    <2>1. CASE p.whole = None
      <3>1. o.plan.location.mode = "attachment"
        BY <1>1, <2>1 DEF IsStreamable
      <3> QED  BY <1>1, <1>2, <3>1, BlockIsBytes
    <2>2. CASE p.whole # None
      <3>1. p.whole \in Seq(Byte)
        BY <1>2, <2>2 DEF PixelStates, Option
      <3> QED  BY <1>2, <2>2, <3>1
    <2> QED  BY <2>1, <2>2
  <1>5. HasLine(p, LineAt(p.plan, c.channel, c.row))
    BY <1>3 DEF LineOf
  <1>6. LineAt(p.plan, c.channel, c.row) + 1 <= RowsIn(p.plan)
    <2>1. RowsIn(p.plan) \in Nat
      BY <1>2 DEF Sized
    <2> QED  BY <1>3, <2>1
  <1>7. DecodeRow(p, c.channel, c.row).res = "ok"
    OBVIOUS
  <1> DEFINE row == RowShown(p.plan, BlockBytes(p.plan), c.channel, c.row)
  <1> HIDE DEF c
  <1>8. value = row /\ row # None
    BY <1>1, <1>2, <1>3, <1>4, <1>5, <1>6, <1>7, CutIsShown
  <1>9. PICK T : stream \in Seq(T)
    BY DEF RInv, Delivered
  <1>10. stream # <<>> => Shows(Plan, selected_channel, stream)
    BY DEF ExactInv, Promised
  <1>11. Shows(Plan, selected_channel, stream)
    BY <1>9, <1>10 DEF Shows
  <1>12. i # 0 => i \in DOMAIN ChunksIn(Pictured(p.plan), p.selected)
    <2>1. i # 0 => i \in DOMAIN stream
      BY <1>9
    <2> QED  BY <1>2, <1>11, <2>1 DEF Shows
  <1>13. i + 1 \in DOMAIN shown /\ shown[i + 1] = ChunkOf(p, c, row)
    BY <1>1, <1>2, <1>8, <1>12, NextIsPromised DEF c
  <1> QED  BY <1>8, <1>9, <1>11, <1>13, ShowsMore DEF c

\* A decode whose line is in hand, as next_chunk comes to cut the chunk out of it.
Ready(p) ==
    /\ p.chunks_total = ChunksTotal(p.plan, p.selected)
    /\ HoldsItsBlock(p) /\ HasLine(p, LineOf(p, p.chunks_done))
    /\ p.whole = None /\ p.plan.compression # None =>
          /\ p.stream_row = LineOf(p, p.chunks_done) + 1
          /\ p.raw_row # None => p.raw_row < p.stream_row

\* The state past one more chunk, ready for the next or kept for the end of the block.
LEMMA CountedStays ==
    ASSUME NEW o, Planned(o), Sized(o.plan), NEW p \in PixelStates(o.plan),
           Selects(p.plan, p.selected), p.chunks_done < p.chunks_total, Ready(p),
           p.walk.index <= PairCount(p.plan), PairCount(p.plan) \in Nat,
           NEW done, done = [p EXCEPT !.chunks_done = @ + 1]
    PROVE  /\ ~NeedsFinish(done) => \A at : at \notin Filling => Stays(done, at, p.chunks_done + 1)
           /\ NeedsFinish(done) =>
                 /\ p.walk.index < PairCount(p.plan) => Stays(done, "end_pair", p.chunks_done)
                 /\ ~ (p.walk.index < PairCount(p.plan)) => Stays(done, "finish", p.chunks_done)
  <1> DEFINE d == p.chunks_done
             total == p.chunks_total
             line == LineOf(p, d)
             rows == RowsIn(p.plan)
  <1>1. /\ p.plan = o.plan /\ d \in Nat /\ total \in Nat /\ p.stream_row \in Nat
        /\ p.raw_row \in Option(Nat) /\ p.walk.index \in Nat
    BY DEF PixelStates, WalkType
  <1>2. /\ done.chunks_done = d + 1 /\ done.plan = p.plan /\ done.selected = p.selected
        /\ done.whole = p.whole /\ done.raw = p.raw /\ done.walk = p.walk
        /\ done.stream_row = p.stream_row /\ done.chunks_total = total /\ done.raw_row = p.raw_row
    BY DEF PixelStates
  <1> HIDE DEF d, total
  <1>3. d < total /\ total = ChunksTotal(p.plan, p.selected)
    BY DEF Ready, d, total
  <1>4. d \in 0 .. ChunksTotal(p.plan, p.selected) - 1
    BY <1>1, <1>3
  <1>5. line \in 0 .. rows - 1 /\ rows \in Nat
    <2>1. CursorAt(p, d).input_row \in 0 .. RowsIn(p.plan) - 1
      BY <1>1, <1>4, CursorFacts
    <2>2. RowsIn(p.plan) \in Nat
      BY <1>1 DEF Sized
    <2> QED  BY <2>1, <2>2 DEF LineOf
  <1>6. d + 1 < total => line <= LineOf(p, d + 1) /\ LineOf(p, d + 1) \in 0 .. rows - 1
    <2> SUFFICES ASSUME d + 1 < total PROVE line <= LineOf(p, d + 1) /\ LineOf(p, d + 1) \in 0 .. rows - 1
      OBVIOUS
    <2>1. d + 1 \in 0 .. ChunksTotal(p.plan, p.selected) - 1
      BY <1>1, <1>3
    <2>2. CursorAt(p, d + 1).input_row \in 0 .. RowsIn(p.plan) - 1
      BY <1>1, <2>1, CursorFacts
    <2>3. LineOf(p, d) <= LineOf(p, d + 1)
      BY <1>1, <1>3, <1>4, LinesClimb
    <2> QED  BY <2>2, <2>3 DEF LineOf
  <1>7. \A i : LineOf(done, i) = LineOf(p, i)
    BY <1>2, SameCursor DEF LineOf
  <1>8. HoldsItsBlock(done)
    BY <1>2, SameLine DEF HoldsItsBlock, Ready
  <1>9. Wanting(done) <=> d + 1 < total
    BY <1>2 DEF Wanting
  <1> HIDE DEF line, rows
  <1>10. ASSUME p.whole = None, p.plan.compression # None
         PROVE  /\ HoldsLine(done, done.stream_row - 1) /\ done.stream_row = line + 1
                /\ done.raw_row # None => done.raw_row < done.stream_row
                /\ LineOf(done, done.chunks_done - 1) = line
                /\ done.stream_row <=
                      LineOf(done, IF Wanting(done) THEN done.chunks_done ELSE done.chunks_done - 1) + 1
    <2>1. p.stream_row = line + 1 /\ HoldsLine(p, line) /\ (p.raw_row # None => p.raw_row < p.stream_row)
      BY <1>10 DEF Ready, HasLine, line, d
    <2>2. (line + 1) - 1 = line /\ (d + 1) - 1 = d
      BY <1>1, <1>5
    <2>3. HoldsLine(done, done.stream_row - 1)
      <3>1. HoldsLine(done, line)
        BY <1>2, <2>1, SameLine
      <3>2. done.stream_row - 1 = line
        BY <1>2, <2>1, <2>2
      <3> QED  BY <3>1, <3>2
    <2>4. LineOf(done, done.chunks_done - 1) = line
      BY <1>2, <1>7, <2>2 DEF line
    <2>5. line + 1 <= LineOf(done, IF Wanting(done) THEN done.chunks_done ELSE done.chunks_done - 1) + 1
      <3>1. CASE Wanting(done)
        <4>1. line <= LineOf(p, d + 1) /\ LineOf(p, d + 1) \in 0 .. rows - 1
          BY <1>6, <1>9, <3>1
        <4> QED  BY <1>2, <1>5, <1>7, <3>1, <4>1
      <3>2. CASE ~Wanting(done)
        BY <1>5, <2>4, <3>2
      <3> QED  BY <3>1, <3>2
    <2> QED  BY <1>2, <2>1, <2>3, <2>4, <2>5
  <1>11. NeedsFinish(done) <=>
            ~Wanting(done) /\ p.whole = None /\ p.plan.compression # None /\ ~ (done.stream_row < rows)
    BY <1>1, <1>2, <1>5, <1>9 DEF NeedsFinish, rows, RowsIn
  <1>12. ASSUME ~NeedsFinish(done), NEW at, at \notin Filling
         PROVE  Stays(done, at, d + 1)
    <2>1. Handed(done, at) = d + 1
      BY <1>2, <1>12 DEF Handed
    <2>2. ASSUME p.whole = None, p.plan.compression # None PROVE InStep(done, at)
      <3>1. at # "finish"
        BY <1>12 DEF Filling
      <3>2. done.chunks_done # 0 => LineOf(done, done.chunks_done - 1) < done.stream_row
        BY <1>5, <1>10, <2>2
      <3>3. ~Wanting(done) => done.stream_row # RowsIn(done.plan)
        <4>1. ~Wanting(done) => done.stream_row < rows
          BY <1>11, <1>12, <2>2
        <4>2. done.stream_row \in Nat
          BY <1>1, <1>2
        <4> QED  BY <1>2, <1>5, <4>1, <4>2 DEF rows
      <3> QED  BY <1>10, <1>12, <2>2, <3>1, <3>2, <3>3 DEF InStep
    <2> QED  BY <1>2, <1>3, <1>8, <2>1, <2>2 DEF Stays
  <1>13. ASSUME NeedsFinish(done), NEW at \in {"end_pair", "finish"},
                at = "finish" => ~ (p.walk.index < PairCount(p.plan))
         PROVE  Stays(done, at, d)
    <2>1. at \in Filling /\ ~Wanting(done) /\ p.whole = None /\ p.plan.compression # None
      BY <1>11, <1>13 DEF Filling
    <2>2. Handed(done, at) = d
      <3>1. (d + 1) - 1 = d
        BY <1>1
      <3> QED  BY <1>2, <2>1, <3>1 DEF Handed
    <2>3. done.stream_row = RowsIn(done.plan)
      <3>1. done.stream_row \in Nat /\ ~ (done.stream_row < rows) /\ done.stream_row = line + 1
        BY <1>1, <1>2, <1>10, <1>11, <1>13, <2>1
      <3> QED  BY <1>2, <1>5, <3>1 DEF rows
    <2>4. at = "finish" => done.walk.index = PairCount(done.plan)
      BY <1>1, <1>2, <1>13
    <2>5. LineOf(done, done.chunks_done - 1) < done.stream_row
      BY <1>5, <1>10, <2>1
    <2>6. InStep(done, at)
      BY <1>10, <2>1, <2>3, <2>4, <2>5 DEF InStep
    <2> QED  BY <1>2, <1>3, <1>8, <2>2, <2>6 DEF Stays
  <1>14. ~NeedsFinish(done) => \A at : at \notin Filling => Stays(done, at, d + 1)
    BY <1>12
  <1>15. NeedsFinish(done) =>
            /\ p.walk.index < PairCount(p.plan) => Stays(done, "end_pair", d)
            /\ ~ (p.walk.index < PairCount(p.plan)) => Stays(done, "finish", d)
    <2> HIDE DEF d
    <2> QED  BY <1>13
  <1> QED  BY <1>14, <1>15 DEF d

\* next_chunk, once the line wanted is in hand.
LEMMA ExactDelivers ==
    ASSUME RInv, ExactInv, pc = "next_chunk", UNCHANGED walkVars, NEW p, p \in PixelStates(Plan),
           p.selected = selected_channel, p.chunks_done < p.chunks_total, Ready(p),
           Len(stream) = p.chunks_done,
           p.walk.index <= PairCount(Plan), PairCount(Plan) \in Nat,
           p.whole = None => IsStreamable(Plan),
           Delivers(p)
    PROVE  ExactInv'
  <1> DEFINE d == p.chunks_done
             c == CursorAt(p, d)
             run == DecodeRow(p, c.channel, c.row)
             done == [p EXCEPT !.chunks_done = @ + 1]
             chunk == ChunkOf(p, c, run.value)
             o == occurrences[current]
  <1>1. /\ Planned(o) /\ Plan = o.plan /\ Fits(Plan) /\ Selects(Plan, selected_channel)
        /\ UNCHANGED <<current, occurrences>> /\ pc \in Chunking
    BY ExactChunkFacts DEF walkVars, Chunking
  <1>2. /\ p.plan = Plan /\ p \in PixelStates(o.plan) /\ Sized(o.plan) /\ Selects(p.plan, p.selected)
        /\ d \in Nat /\ p.chunks_total \in Nat
    BY <1>1 DEF PixelStates, Fits
  <1>3. d \in 0 .. ChunksTotal(Plan, selected_channel) - 1
    BY <1>2 DEF Ready
  <1>4. /\ ~NeedsFinish(done) => \A at : at \notin Filling => Stays(done, at, d + 1)
        /\ NeedsFinish(done) =>
              /\ p.walk.index < PairCount(p.plan) => Stays(done, "end_pair", d)
              /\ ~ (p.walk.index < PairCount(p.plan)) => Stays(done, "finish", d)
    BY <1>1, <1>2, CountedStays
  <1>5. IF run.res # "ok" THEN pixels' = p /\ ChunkFails(run.res)
        ELSE /\ pixels' = done
             /\ IF ~NeedsFinish(done) THEN ChunkReturns(chunk)
                ELSE /\ pc' = IF p.walk.index < PairCount(p.plan) THEN "end_pair" ELSE "finish"
                     /\ UNCHANGED <<readerVars, cursor, ret, stream>>
    BY Zenon DEF Delivers
  <1> HIDE DEF done
  <1>6. CASE run.res # "ok"
    <2>1. pixels_failed' /\ UNCHANGED <<stream, selected_channel>>
      BY <1>5, <1>6 DEF ChunkFails
    <2> QED  BY <1>1, <2>1, ExactFails
  <1>7. CASE run.res = "ok" /\ NeedsFinish(done)
    <2>1. /\ pixels' = done /\ stream' = stream /\ UNCHANGED selected_channel
          /\ pc' = IF p.walk.index < PairCount(p.plan) THEN "end_pair" ELSE "finish"
      BY <1>5, <1>7 DEF readerVars
    <2>2. Stays(done, pc', Len(stream'))
      BY <1>4, <1>7, <2>1
    <2> QED  BY <1>1, <2>1, <2>2, ExactLeads
  <1>8. CASE run.res = "ok" /\ ~NeedsFinish(done)
    <2>1. pixels' = done /\ ChunkReturns(chunk)
      BY <1>5, <1>8
    <2>2. stream' = Append(stream, chunk) /\ UNCHANGED selected_channel /\ pc' \notin Filling
      BY <2>1 DEF ChunkReturns, Returns, readerVars, Filling
    <2>3. HasLine(p, LineOf(p, d)) /\ (p.whole # None => p.whole = BlockBytes(Plan))
      BY <1>2 DEF Ready, HoldsItsBlock
    <2>4. Shows(Plan, selected_channel, Append(stream, chunk)) /\ Len(Append(stream, chunk)) = d + 1
      BY <1>1, <1>3, <1>8, <2>3, ExactHandsOver
    <2>5. Stays(done, pc', Len(stream'))
      BY <1>4, <1>8, <2>2, <2>4
    <2> QED  BY <1>1, <2>1, <2>2, <2>4, <2>5, ExactLeads
  <1> QED  BY <1>6, <1>7, <1>8

\* The image as next_chunk finds it, with more of it wanted.
LEMMA ExactNextChunk ==
    ASSUME RInv, ExactInv, pc = "next_chunk", MoreChunks
    PROVE  /\ pixels.chunks_done < pixels.chunks_total /\ Wanting(pixels)
           /\ Len(stream) = pixels.chunks_done
           /\ pixels.chunks_total = ChunksTotal(pixels.plan, pixels.selected)
           /\ HoldsItsBlock(pixels)
           /\ Here.input_row = LineOf(pixels, pixels.chunks_done)
           /\ Here.input_row \in 0 .. RowsIn(Plan) - 1
           /\ pixels.walk.index <= PairCount(Plan) /\ PairCount(Plan) \in Nat
           /\ pixels.whole = None => IsStreamable(Plan)
           /\ pixels.whole # None => ~IsStreamable(Plan) /\ Len(pixels.whole) = Plan.implied_bytes
           /\ pixels.whole = None /\ Plan.compression # None =>
                 /\ pixels.stream_row # 0 => HoldsLine(pixels, pixels.stream_row - 1)
                 /\ pixels.raw_row # None => pixels.raw_row < pixels.stream_row
                 /\ pixels.stream_row <= Here.input_row + 1
                 /\ pixels.chunks_done # 0 =>
                       LineOf(pixels, pixels.chunks_done - 1) < pixels.stream_row
  <1>1. pc \in Chunking /\ pc \notin Filling /\ pixels.chunks_done < pixels.chunks_total
    BY DEF Chunking, Filling, MoreChunks
  <1>2. /\ Stays(pixels, pc, Len(stream)) /\ pixels.plan = Plan /\ Sits(pixels)
        /\ pixels.chunks_total \in Nat \ {0} /\ pixels.chunks_done \in 0 .. pixels.chunks_total
        /\ \A i \in 0 .. pixels.chunks_total - 1 : LineOf(pixels, i) \in 0 .. RowsIn(Plan) - 1
    BY <1>1, ExactChunkFacts
  <1>3. PairCount(Plan) \in Nat
    BY <1>1, ChunkFacts
  <1>4. Wanting(pixels)
    BY <1>1 DEF Wanting
  <1>5. Here.input_row = LineOf(pixels, pixels.chunks_done)
    BY DEF Here, LineOf
  <1>6. pixels.chunks_done \in 0 .. pixels.chunks_total - 1
    BY <1>1, <1>2
  <1>7. pixels.whole = None /\ Plan.compression # None => InStep(pixels, pc)
    BY <1>2 DEF Stays
  <1> QED  BY <1>1, <1>2, <1>3, <1>4, <1>5, <1>6, <1>7 DEF Stays, Sits, Handed, InStep

\* The cursor comes to the end of an image.
LEMMA ExactFinishImage ==
    ASSUME RInv, ExactInv, FinishImage
    PROVE  ExactInv'
  <1>1. /\ pc = "next_chunk" /\ pc' = "idle" /\ UNCHANGED <<readerVars, stream, pixels>>
        /\ UNCHANGED <<current, occurrences>>
    BY DEF FinishImage, ImageEnds, Returns, walkVars
  <1> QED  BY <1>1, ExactRests DEF Filling, readerVars

\* A row in hand is cut and handed over.
LEMMA ExactDeliverRow ==
    ASSUME RInv, ExactInv, DeliverRow
    PROVE  ExactInv'
  <1>1. pc = "next_chunk" /\ MoreChunks /\ UNCHANGED walkVars /\ pc \in Chunking
    BY DEF DeliverRow, Chunking
  <1>2. /\ pixels.plan = Plan /\ pixels.selected = selected_channel /\ pixels \in PixelStates(Plan)
        /\ Compressed <=> Plan.compression # None
        /\ pixels.stream_row \in Nat /\ pixels.raw_row \in Option(Nat) /\ RowsIn(Plan) \in Nat
    BY <1>1, ExactChunkFacts
  <1> DEFINE d == pixels.chunks_done
             line == Here.input_row
  <1>3. /\ d < pixels.chunks_total /\ Len(stream) = d
        /\ pixels.chunks_total = ChunksTotal(pixels.plan, pixels.selected)
        /\ HoldsItsBlock(pixels) /\ line = LineOf(pixels, d) /\ line \in 0 .. RowsIn(Plan) - 1
        /\ pixels.walk.index <= PairCount(Plan) /\ PairCount(Plan) \in Nat
        /\ pixels.whole = None => IsStreamable(Plan)
        /\ pixels.whole # None => ~IsStreamable(Plan) /\ Len(pixels.whole) = Plan.implied_bytes
        /\ pixels.whole = None /\ Plan.compression # None =>
              /\ pixels.stream_row # 0 => HoldsLine(pixels, pixels.stream_row - 1)
              /\ pixels.raw_row # None => pixels.raw_row < pixels.stream_row
              /\ pixels.stream_row <= line + 1
    BY <1>1, ExactNextChunk
  <1>4. CASE pixels.whole # None
    <2>1. Delivers(pixels)
      BY <1>4 DEF DeliverRow
    <2>2. HasLine(pixels, LineOf(pixels, d))
      BY <1>2, <1>3, <1>4 DEF HasLine, HoldsItsBlock
    <2>3. Ready(pixels)
      BY <1>3, <1>4, <2>2 DEF Ready
    <2> QED  BY <1>1, <1>2, <1>3, <1>4, <2>1, <2>3, ExactDelivers
  <1>5. CASE pixels.whole = None
    <2> DEFINE p == [pixels EXCEPT !.raw_row = line]
    <2>1. Delivers(p) /\ (pixels.raw_row = line \/ (Compressed /\ pixels.stream_row > line))
      BY <1>5 DEF DeliverRow
    <2>2. line \in Nat /\ line \in Option(Nat) /\ line # None
      BY <1>2, <1>3, NoneAssumption DEF Option
    <2> HIDE DEF line
    <2>3. /\ p \in PixelStates(Plan) /\ p.plan = pixels.plan /\ p.selected = pixels.selected
          /\ p.chunks_done = d /\ p.chunks_total = pixels.chunks_total
          /\ p.whole = None /\ p.raw = pixels.raw /\ p.walk = pixels.walk
          /\ p.stream_row = pixels.stream_row /\ p.raw_row = line
      BY <1>2, <1>5, <2>2 DEF PixelStates
    <2> HIDE DEF p
    <2>4. LineOf(p, p.chunks_done) = line
      <3>1. CursorAt(p, d) = CursorAt(pixels, d)
        BY <2>3, SameCursor
      <3> QED  BY <1>3, <2>3, <3>1 DEF LineOf
    <2>5. /\ HoldsLine(pixels, line)
          /\ Plan.compression # None => pixels.stream_row = line + 1
      <3>1. CASE Plan.compression = None
        BY <1>2, <1>3, <1>5, <2>1, <2>2, <3>1 DEF HoldsItsBlock
      <3>2. CASE Plan.compression # None
        <4>1. pixels.stream_row > line
          <5>1. CASE pixels.raw_row = line
            BY <1>2, <1>3, <1>5, <2>2, <3>2, <5>1
          <5> QED  BY <2>1, <5>1
        <4>2. pixels.stream_row = line + 1
          BY <1>2, <1>3, <1>5, <2>2, <3>2, <4>1
        <4>3. pixels.stream_row # 0 /\ pixels.stream_row - 1 = line
          BY <2>2, <4>2
        <4>4. HoldsLine(pixels, pixels.stream_row - 1)
          BY <1>3, <1>5, <3>2, <4>3
        <4> QED  BY <4>2, <4>3, <4>4
      <3> QED  BY <3>1, <3>2
    <2>6. HoldsLine(p, line)
      BY <2>3, <2>5, SameLine
    <2>7. HasLine(p, LineOf(p, p.chunks_done))
      BY <1>2, <1>3, <1>5, <2>3, <2>4, <2>6 DEF HasLine, IsStreamable
    <2>8. Ready(p)
      <3>1. HoldsItsBlock(p)
        BY <2>3, <2>6 DEF HoldsItsBlock
      <3>2. p.plan.compression # None =>
               p.stream_row = line + 1 /\ (p.raw_row # None => p.raw_row < p.stream_row)
        BY <1>2, <2>2, <2>3, <2>5
      <3> QED  BY <1>3, <2>3, <2>4, <2>7, <3>1, <3>2 DEF Ready
    <2> QED  BY <1>1, <1>2, <1>3, <1>5, <2>1, <2>3, <2>8, ExactDelivers
  <1> QED  BY <1>4, <1>5

\* A row read from the block where its line begins is that line.
LEMMA ReadIsLine ==
    ASSUME NEW o, Planned(o), Sized(o.plan), o.plan.compression = None,
           o.plan.location.mode = "attachment", SizesAgree(o.plan),
           NEW line \in 0 .. RowsIn(o.plan) - 1, NEW p, p.plan = o.plan,
           p.raw = FileBytes(o.plan.location.position + line * RowLength(o.plan), RowLength(o.plan))
    PROVE  HoldsLine(p, line)
  <1> DEFINE size == RowLength(o.plan)
             rows == RowsIn(o.plan)
             from == o.plan.location.position
             all == o.plan.location.size
             base == line * size
             bytes == BlockBytes(o.plan)
             last == (line + 1) * size
  <1>1. from \in Nat /\ all \in Nat
    <2>1. U \subseteq Nat
      BY MaxUAssumption DEF U
    <2> QED  BY <2>1, PlacesRead DEF Planned
  <1>2. size \in Nat \ {0} /\ rows \in Nat /\ all = rows * size
    BY DEF Sized, SizesAgree
  <1>3. bytes = FileBytes(from, all)
    BY DEF BlockBytes
  <1>4. line + 1 \in Nat /\ line + 1 <= rows /\ line \in Nat
    BY <1>2
  <1>5. last <= all
    <2>1. line + 1 \in Nat /\ rows \in Nat /\ size \in Nat
      BY <1>2, <1>4
    <2> QED  BY <1>2, <1>4, <2>1, TimesMore
  <1>6. base \in Nat /\ last \in Nat /\ last = base + size
    <2>1. size \in Nat /\ line \in Nat
      BY <1>2, <1>4
    <2> HIDE DEF size
    <2> QED  BY <2>1
  <1> HIDE DEF base, last, size, from, all, bytes
  <1>7. from + base \in Nat /\ size \in Nat
    BY <1>1, <1>2, <1>6
  <1>8. /\ Len(p.raw) = size /\ \A k \in 1 .. size : p.raw[k] = <<"file", (from + base) + k - 1>>
    <2>1. p.raw = FileBytes(from + base, size)
      BY DEF from, base, size
    <2> DEFINE at == from + base
    <2> HIDE DEF at
    <2>2. at \in Nat /\ p.raw = FileBytes(at, size)
      BY <1>7, <2>1 DEF at
    <2>3. Len(FileBytes(at, size)) = size
          /\ \A k \in 1 .. size : FileBytes(at, size)[k] = <<"file", at + k - 1>>
      BY <1>7, <2>2, FileBytesRun
    <2> QED  BY <2>2, <2>3 DEF at
  <1>9. Len(bytes) = all /\ \A k \in 1 .. all : bytes[k] = <<"file", from + k - 1>>
    BY <1>1, <1>3, FileBytesRun
  <1>10. ASSUME NEW k \in 1 .. size PROVE p.raw[k] = bytes[base + k]
    <2>1. base + k \in 1 .. all /\ from + (base + k) - 1 = (from + base) + k - 1
      BY <1>1, <1>2, <1>5, <1>6
    <2> QED  BY <1>8, <1>9, <2>1
  <1> QED  BY <1>5, <1>8, <1>9, <1>10 DEF HoldsLine, base, last, size, bytes

\* An uncompressed row is read where the plan says, and handed over.
LEMMA ExactReadRow ==
    ASSUME RInv, ExactInv, ReadRow
    PROVE  ExactInv'
  <1>1. /\ pc = "next_chunk" /\ MoreChunks /\ UNCHANGED walkVars /\ pc \in Chunking
        /\ ~Compressed /\ pixels.whole = None
    BY DEF ReadRow, Chunking
  <1>2. /\ pixels.plan = Plan /\ pixels.selected = selected_channel /\ pixels \in PixelStates(Plan)
        /\ Compressed <=> Plan.compression # None
        /\ Planned(occurrences[current]) /\ Plan = occurrences[current].plan /\ Fits(Plan)
        /\ RowsIn(Plan) \in Nat /\ RowBytes = RowLength(Plan) /\ RowLength(Plan) \in Nat \ {0}
    BY <1>1, ExactChunkFacts
  <1> DEFINE d == pixels.chunks_done
             line == Here.input_row
             size == RowLength(Plan)
             from == Plan.location.position
  <1>3. /\ d < pixels.chunks_total /\ Len(stream) = d
        /\ pixels.chunks_total = ChunksTotal(pixels.plan, pixels.selected)
        /\ line = LineOf(pixels, d) /\ line \in 0 .. RowsIn(Plan) - 1
        /\ pixels.walk.index <= PairCount(Plan) /\ PairCount(Plan) \in Nat
        /\ IsStreamable(Plan)
    BY <1>1, ExactNextChunk
  <1>4. SourceType /\ from \in Nat /\ pixels_started
    BY <1>1, ChunkFacts
  <1>5. Vouched(Plan)
    BY <1>4 DEF RInv, Disciplined
  <1>6. RowOffset(pixels) = CheckedAdd(from, CheckedMul(line, size))
    BY <1>2 DEF RowOffset, Here
  <1>7. PICK o \in IF RowOffset(pixels) = None THEN {Outcome("LimitExceeded", pos)}
                   ELSE ReadAt(RowOffset(pixels), RowBytes) :
          IF o.res # "ok" THEN ChunkFails(o.res)
          ELSE Delivers([pixels EXCEPT !.raw = FileBytes(o.pos - RowBytes, RowBytes), !.raw_row = line])
    BY DEF ReadRow
  <1>8. CASE o.res # "ok"
    <2>1. pixels_failed' /\ UNCHANGED <<stream, selected_channel, current, occurrences>>
      BY <1>1, <1>7, <1>8 DEF ChunkFails, walkVars
    <2> QED  BY <2>1, ExactFails
  <1>9. CASE o.res = "ok"
    <2> DEFINE raw == FileBytes(from + line * size, size)
               p == [pixels EXCEPT !.raw = raw, !.raw_row = line]
               base == line * size
    <2>0. line \in Nat /\ base \in Nat
      BY <1>2, <1>3
    <2>1. o.pos - RowBytes = from + base
      <3>1. RowOffset(pixels) # None
        BY <1>7, <1>9 DEF Outcome
      <3>2. RowOffset(pixels) = from + base
        <4>1. CheckedMul(line, size) # None
          BY <1>6, <3>1 DEF CheckedAdd
        <4>2. CheckedMul(line, size) = base
          BY <4>1 DEF CheckedMul, Fit
        <4>3. CheckedAdd(from, base) \in {None, from + base}
          BY DEF CheckedAdd, Fit
        <4> QED  BY <1>6, <3>1, <4>2, <4>3
      <3> HIDE DEF base
      <3>3. from + base \in Nat /\ size \in Nat
        BY <1>2, <1>4, <2>0
      <3>4. Lands(o, (from + base) + size, TRUE)
        BY <1>2, <1>4, <1>7, <3>1, <3>2, <3>3, ReadAtLands
      <3>5. o.pos = (from + base) + size
        BY <1>9, <3>4 DEF Lands
      <3> QED  BY <1>2, <3>3, <3>5
    <2>2. Delivers(p)
      BY <1>2, <1>7, <1>9, <2>1
    <2>3. raw \in Seq(Byte) /\ line \in Option(Nat)
      <3>1. from + base \in Nat /\ size \in Nat
        BY <1>2, <1>4, <2>0
      <3> QED  BY <2>0, <3>1, FileBytesRun DEF Option
    <2> HIDE DEF raw, line
    <2>4. /\ p \in PixelStates(Plan) /\ p.plan = pixels.plan /\ p.selected = pixels.selected
          /\ p.chunks_done = d /\ p.chunks_total = pixels.chunks_total
          /\ p.whole = None /\ p.raw = raw /\ p.walk = pixels.walk /\ p.raw_row = line
      BY <1>1, <1>2, <2>3 DEF PixelStates
    <2> HIDE DEF p
    <2>5. LineOf(p, p.chunks_done) = line
      <3>1. CursorAt(p, d) = CursorAt(pixels, d)
        BY <2>4, SameCursor
      <3> QED  BY <1>3, <2>4, <3>1 DEF LineOf
    <2>6. HoldsLine(p, line)
      <3>1. /\ Sized(Plan) /\ Plan.compression = None /\ Plan.location.mode = "attachment"
            /\ SizesAgree(Plan)
        BY <1>1, <1>2, <1>3, <1>5 DEF Fits, Vouched, IsStreamable
      <3>2. p.plan = Plan /\ p.raw = FileBytes(Plan.location.position + line * RowLength(Plan), RowLength(Plan))
        BY <1>2, <2>4 DEF raw
      <3> QED  BY <1>2, <1>3, <3>1, <3>2, ReadIsLine
    <2>7. HoldsItsBlock(p)
      BY <2>4, <2>6 DEF HoldsItsBlock
    <2>8. Plan.compression = None
      BY <1>1, <1>2
    <2>9. Ready(p)
      BY <1>2, <1>3, <2>4, <2>5, <2>6, <2>7, <2>8 DEF Ready, HasLine
    <2> QED  BY <1>1, <1>2, <1>3, <2>2, <2>4, <2>9, ExactDelivers
  <1> QED  BY <1>8, <1>9

\* A decode in which the walk alone moved, from one point of filling to another.
LEMMA WalkStays ==
    ASSUME NEW p, NEW q, q.plan = p.plan, q.selected = p.selected, q.whole = p.whole, q.raw = p.raw,
           q.raw_row = p.raw_row, q.chunks_done = p.chunks_done, q.chunks_total = p.chunks_total,
           q.stream_row = p.stream_row,
           NEW at \in Filling, NEW to \in Filling, to = "finish" => q.walk.index = PairCount(q.plan),
           NEW n, Stays(p, at, n)
    PROVE  Stays(q, to, n)
  <1>1. \A i : LineOf(q, i) = LineOf(p, i)
    BY SameCursor DEF LineOf
  <1>2. \A line : HoldsLine(p, line) => HoldsLine(q, line)
    BY SameLine
  <1>3. Wanting(q) <=> Wanting(p)
    BY DEF Wanting
  <1>4. HoldsItsBlock(q)
    BY <1>2 DEF Stays, HoldsItsBlock
  <1>5. Handed(q, to) = Handed(p, at)
    BY <1>3 DEF Handed
  <1>6. InStep(p, at) => InStep(q, to)
    BY <1>1, <1>2, <1>3 DEF InStep
  <1> QED  BY <1>4, <1>5, <1>6 DEF Stays

\* What follows the beginning of a block, in the terms of the block.
LEMMA TailOfPrefix ==
    ASSUME NEW S, NEW b \in Seq(S), NEW r \in Seq(S), NEW t \in Seq(S), IsPrefix(b \o r, t)
    PROVE  /\ Len(b) + Len(r) <= Len(t)
           /\ \A k \in 1 .. Len(r) : r[k] = t[Len(b) + k]
  <1>1. /\ Len(b \o r) = Len(b) + Len(r) /\ b \o r \in Seq(S)
        /\ \A k \in 1 .. Len(r) : (b \o r)[Len(b) + k] = r[k]
    OBVIOUS
  <1>2. /\ Len(b \o r) <= Len(t)
        /\ SubSeq(b \o r, 1, Len(b \o r)) = SubSeq(t, 1, Len(b \o r))
    BY DEF IsPrefix
  <1> DEFINE all == b \o r
             n == Len(all)
  <1>3. n \in Nat /\ n = Len(b) + Len(r) /\ n <= Len(t) /\ all \in Seq(S)
    BY <1>1, <1>2
  <1>4. \A k \in 1 .. n : SubSeq(all, 1, n)[k] = all[k] /\ SubSeq(t, 1, n)[k] = t[k]
    <2> HIDE DEF all
    <2> QED  BY <1>3
  <1>5. ASSUME NEW k \in 1 .. Len(r) PROVE r[k] = t[Len(b) + k]
    <2>1. Len(b) + k \in 1 .. n
      BY <1>3
    <2>2. all[Len(b) + k] = t[Len(b) + k]
      BY <1>2, <1>4, <2>1
    <2> QED  BY <1>1, <2>2
  <1> QED  BY <1>3, <1>5

\* A row a stream has filled is the line that follows those it gave before.
LEMMA FilledIsLine ==
    ASSUME SourceType, NEW o, Planned(o), Sized(o.plan), o.plan.compression # None,
           ConformingPlan(o.plan), NEW n \in Nat, NEW b \in Seq(Byte), NEW raw \in Seq(Byte), NEW w,
           Tells(o.plan, w, b \o raw), Len(b) = n * RowLength(o.plan), Len(raw) = RowLength(o.plan),
           NEW p, p.plan = o.plan, p.raw = raw
    PROVE  HoldsLine(p, n)
  <1> DEFINE size == RowLength(o.plan)
             bytes == BlockBytes(o.plan)
             base == n * size
             last == (n + 1) * size
  <1>1. bytes \in Seq(Byte) /\ bytes = Stated(o.plan)
    <2>1. o.plan.location.mode = "attachment"
      BY DEF ConformingPlan
    <2> QED  BY <2>1, BlockIsBytes DEF BlockBytes
  <1>2. IsPrefix(b \o raw, bytes)
    BY <1>1, ToldSoFar
  <1>3. size \in Nat
    BY DEF Sized
  <1>4. last = base + size /\ base \in Nat
    <2> HIDE DEF size
    <2> QED  BY <1>3
  <1> HIDE DEF size, bytes, base, last
  <1>5. base + size <= Len(bytes) /\ \A k \in 1 .. size : raw[k] = bytes[base + k]
    <2>1. Len(b) = base /\ Len(raw) = size
      BY DEF base, size
    <2>2. /\ Len(b) + Len(raw) <= Len(bytes)
          /\ \A k \in 1 .. Len(raw) : raw[k] = bytes[Len(b) + k]
      BY <1>1, <1>2, TailOfPrefix
    <2> QED  BY <2>1, <2>2
  <1> QED  BY <1>4, <1>5 DEF HoldsLine, size, bytes, base, last

\* A compressed stream sets out to fill a row.
LEMMA ExactWantRow ==
    ASSUME RInv, ExactInv, WantRow
    PROVE  ExactInv'
  <1>1. /\ pc = "next_chunk" /\ pc \in Chunking /\ MoreChunks /\ Compressed /\ pixels.whole = None
        /\ pixels.stream_row <= Here.input_row /\ pixels' = [pixels EXCEPT !.raw = <<>>]
        /\ pc' = "fill" /\ UNCHANGED <<readerVars, stream, walkVars>>
    BY DEF WantRow, Chunking
  <1>2. /\ pixels.plan = Plan /\ pixels \in PixelStates(Plan) /\ Stays(pixels, pc, Len(stream))
        /\ Compressed <=> Plan.compression # None
    BY <1>1, ExactChunkFacts
  <1>3. /\ Wanting(pixels) /\ Here.input_row = LineOf(pixels, pixels.chunks_done)
        /\ pixels.raw_row # None => pixels.raw_row < pixels.stream_row
        /\ pixels.stream_row <= Here.input_row + 1
        /\ pixels.chunks_done # 0 => LineOf(pixels, pixels.chunks_done - 1) < pixels.stream_row
    BY <1>1, <1>2, ExactNextChunk
  <1> DEFINE q == [pixels EXCEPT !.raw = <<>>]
  <1>4. /\ q.plan = pixels.plan /\ q.selected = pixels.selected /\ q.whole = None
        /\ q.raw_row = pixels.raw_row /\ q.chunks_done = pixels.chunks_done
        /\ q.chunks_total = pixels.chunks_total /\ q.stream_row = pixels.stream_row
    BY <1>1, <1>2 DEF PixelStates
  <1> HIDE DEF q
  <1>5. \A i : LineOf(q, i) = LineOf(pixels, i)
    BY <1>4, SameCursor DEF LineOf
  <1>6. Wanting(q) /\ "fill" \in Filling /\ pc \notin Filling
    BY <1>1, <1>3, <1>4 DEF Wanting, Filling
  <1>7. InStep(q, "fill")
    BY <1>1, <1>3, <1>4, <1>5, <1>6 DEF InStep
  <1>8. HoldsItsBlock(q)
    BY <1>1, <1>2, <1>4 DEF HoldsItsBlock
  <1>9. Stays(q, "fill", Len(stream))
    BY <1>2, <1>3, <1>4, <1>6, <1>7, <1>8 DEF Stays, Handed
  <1> QED  BY <1>1, <1>9, ExactLeads DEF readerVars, walkVars, q

\* The walk of a decode moves, the decode stays.
LEMMA WalkChanges ==
    ASSUME NEW p \in PixelStates(Plan), NEW w
    PROVE  LET q == [p EXCEPT !.walk = w] IN
           /\ q.plan = p.plan /\ q.selected = p.selected /\ q.whole = p.whole /\ q.raw = p.raw
           /\ q.raw_row = p.raw_row /\ q.chunks_done = p.chunks_done
           /\ q.chunks_total = p.chunks_total /\ q.stream_row = p.stream_row /\ q.walk = w
  BY DEF PixelStates

\* A result of the walk that fails the chunk, or goes on with the walk it leaves.
LEMMA ExactWalksOn ==
    ASSUME RInv, ExactInv, pc \in Filling, NEW r, NEW point, Walks(r, point),
           pixels' = [pixels EXCEPT !.walk = r.walk],
           r.res = "ok" => /\ point \in Filling
                           /\ point = "finish" => r.walk.index = PairCount(Plan)
    PROVE  ExactInv'
  <1>1. pc \in Chunking /\ UNCHANGED <<current, occurrences>>
    BY DEF Chunking, Walks, walkVars
  <1>2. pixels.plan = Plan /\ pixels \in PixelStates(Plan) /\ Stays(pixels, pc, Len(stream))
    BY <1>1, ExactChunkFacts
  <1>3. CASE r.res # "ok"
    <2>1. pixels_failed' /\ UNCHANGED <<stream, selected_channel>>
      BY <1>3 DEF Walks, ChunkFails
    <2> QED  BY <1>1, <2>1, ExactFails
  <1>4. CASE r.res = "ok"
    <2>1. pc' = point /\ UNCHANGED <<readerVars, stream>>
      BY <1>4 DEF Walks
    <2> DEFINE q == [pixels EXCEPT !.walk = r.walk]
    <2>2. /\ q.plan = pixels.plan /\ q.selected = pixels.selected /\ q.whole = pixels.whole
          /\ q.raw = pixels.raw /\ q.raw_row = pixels.raw_row /\ q.chunks_done = pixels.chunks_done
          /\ q.chunks_total = pixels.chunks_total /\ q.stream_row = pixels.stream_row
          /\ q.walk = r.walk
      BY <1>2, WalkChanges
    <2>3. pixels' = q
      OBVIOUS
    <2> HIDE DEF q
    <2>4. Stays(q, point, Len(stream))
      BY <1>2, <1>4, <2>2, WalkStays
    <2> QED  BY <1>1, <2>1, <2>3, <2>4, ExactLeads DEF readerVars
  <1> QED  BY <1>3, <1>4

\* The pairs of a compressed block, left, ended and opened.
LEMMA ExactPairs ==
    ASSUME RInv, ExactInv, LeavePair \/ EndPair \/ OpenPair, Sits(pixels)'
    PROVE  ExactInv'
  <1>1. pc \in Filling /\ pc \in Chunking
    BY DEF LeavePair, EndPair, OpenPair, Filling, Chunking
  <1>2. pixels.plan = Plan /\ Stays(pixels, pc, Len(stream)) /\ pixels \in PixelStates(Plan)
    BY <1>1, ExactChunkFacts
  <1>3. CASE LeavePair
    <2>1. pc' = "end_pair" /\ UNCHANGED <<readerVars, stream, decoderVars>>
      BY <1>3 DEF LeavePair
    <2>2. Stays(pixels, "end_pair", Len(stream))
      <3>1. "end_pair" \in Filling
        BY DEF Filling
      <3> QED  BY <1>1, <1>2, <3>1, WalkStays
    <2> QED  BY <2>1, <2>2, ExactLeads DEF readerVars, decoderVars
  <1>4. CASE EndPair
    <2>1. PICK r : pixels' = [pixels EXCEPT !.walk = r.walk] /\ Walks(r, "open_pair")
      BY <1>4 DEF EndPair
    <2> QED  BY <1>1, <2>1, ExactWalksOn DEF Filling
  <1>5. CASE OpenPair
    <2>1. PICK r : /\ pixels' = [pixels EXCEPT !.walk = r.walk]
                   /\ Walks(r, IF MoreChunks THEN "fill"
                               ELSE IF r.walk.index < PairCount(Plan) THEN "end_pair" ELSE "finish")
      BY <1>2, <1>5 DEF OpenPair
    <2> DEFINE point == IF MoreChunks THEN "fill"
                        ELSE IF r.walk.index < PairCount(Plan) THEN "end_pair" ELSE "finish"
               q == [pixels EXCEPT !.walk = r.walk]
    <2>2. q.plan = Plan /\ q.walk = r.walk
      BY <1>2, WalkChanges
    <2>3. Sits(q)'
      BY <2>1
    <2>4. q.walk.index <= PairCount(q.plan) /\ q \in PixelStates(q.plan)
      <3>1. pixels'.walk.index <= PairCount(pixels'.plan) /\ pixels' \in PixelStates(pixels'.plan)
        BY DEF Sits
      <3> QED  BY <2>1, <3>1
    <2>5. r.walk.index <= PairCount(Plan) /\ r.walk.index \in Nat
      BY <2>2, <2>4 DEF PixelStates, WalkType
    <2>6. PairCount(Plan) \in Nat
      BY <1>1, ChunkFacts
    <2>7. point = "finish" => r.walk.index = PairCount(Plan)
      BY <2>5, <2>6
    <2>8. point \in Filling
      BY DEF Filling
    <2>9. Walks(r, point)
      BY <2>1
    <2> HIDE DEF point
    <2> QED  BY <1>1, <2>1, <2>7, <2>8, <2>9, ExactWalksOn
  <1> QED  BY <1>3, <1>4, <1>5

\* A stream gives what the open pair owes of a row, and perhaps the whole of it.
LEMMA ExactFillRow ==
    ASSUME RInv, ExactInv, FillRow
    PROVE  ExactInv'
  <1> DEFINE size == RowLength(Plan)
             old == pixels.raw
             n == pixels.stream_row
             d == pixels.chunks_done
  <1>1. pc = "fill" /\ pc \in Filling
    BY DEF FillRow, Filling
  <1>2. /\ pc \in Chunking /\ SourceType /\ Sits(pixels) /\ pixels.plan = Plan
        /\ ConformingPlan(Plan) /\ Plan.compression # None /\ pixels.whole = None
        /\ pixels \in PixelStates(Plan) /\ RowBytes = size /\ size \in Nat \ {0}
        /\ Planned(occurrences[current]) /\ Plan = occurrences[current].plan
    BY <1>1, FillFacts
  <1>3. /\ Stays(pixels, "fill", Len(stream)) /\ n \in Nat /\ d \in Nat /\ Fits(Plan)
        /\ pixels.raw_row \in Option(Nat)
        /\ \A i \in 0 .. pixels.chunks_total - 1 : LineOf(pixels, i) \in 0 .. RowsIn(Plan) - 1
        /\ RowsIn(Plan) \in Nat /\ pixels.chunks_total \in Nat
    BY <1>1, <1>2, ExactChunkFacts
  <1>4. PICK b \in Seq(Byte) : Told(pixels, "fill", b)
    BY <1>1, FillFacts
  <1> DEFINE done == b \o old
  <1>5. /\ Tells(Plan, pixels.walk, done) /\ Len(b) = n * size /\ Len(old) < size
        /\ d < pixels.chunks_total
    BY <1>2, <1>4 DEF Told, Filling
  <1>6. InStep(pixels, "fill") /\ Wanting(pixels)
    BY <1>2, <1>3, <1>5 DEF Stays, Wanting
  <1>7. /\ n <= LineOf(pixels, d) /\ (pixels.raw_row # None => pixels.raw_row < n)
        /\ d # 0 => LineOf(pixels, d - 1) < n
    BY <1>6 DEF InStep, Filling
  <1>8. PICK r \in Take(Plan, pixels.walk, size - Len(old)) :
          LET raw == IF r.res = "ok" THEN old \o r.out ELSE old IN
          /\ pixels' = [pixels EXCEPT !.walk = r.walk, !.raw = raw,
                                      !.stream_row = IF Len(raw) = size THEN @ + 1 ELSE @]
          /\ Walks(r, IF Len(raw) = size THEN "next_chunk" ELSE "fill")
    BY <1>2 DEF FillRow
  <1>9. old \in Seq(Byte) /\ size - Len(old) \in Nat
    BY <1>2, <1>5 DEF PixelStates
  <1>10. LineOf(pixels, d) \in Nat /\ (d # 0 => LineOf(pixels, d - 1) \in Nat)
    <2>1. d \in 0 .. pixels.chunks_total - 1 /\ (d # 0 => d - 1 \in 0 .. pixels.chunks_total - 1)
      BY <1>3, <1>5
    <2>2. LineOf(pixels, d) \in 0 .. RowsIn(Plan) - 1
      BY <1>3, <2>1
    <2>3. d # 0 => LineOf(pixels, d - 1) \in 0 .. RowsIn(Plan) - 1
      BY <1>3, <2>1
    <2> QED  BY <1>3, <2>2, <2>3
  <1> HIDE DEF size, old, n, d
  <1>11. UNCHANGED <<current, occurrences>>
    BY <1>8 DEF Walks, walkVars
  <1>12. CASE r.res # "ok"
    <2>1. pixels_failed' /\ UNCHANGED <<stream, selected_channel>>
      BY <1>8, <1>12 DEF Walks, ChunkFails
    <2> QED  BY <1>11, <2>1, ExactFails
  <1>13. CASE r.res = "ok"
    <2> DEFINE raw == old \o r.out
               full == Len(raw) = size
               m == IF full THEN n + 1 ELSE n
               q == [pixels EXCEPT !.walk = r.walk, !.raw = raw, !.stream_row = m]
               point == IF full THEN "next_chunk" ELSE "fill"
    <2>1. pixels' = q /\ Walks(r, point)
      BY <1>8, <1>13 DEF n
    <2>2. Tells(Plan, r.walk, done \o r.out) /\ r.out \in Seq(Byte)
      BY <1>2, <1>5, <1>8, <1>9, <1>13, TakeTells
    <2>3. raw \in Seq(Byte) /\ b \o raw = done \o r.out
      BY <1>4, <1>9, <2>2, Joined, JoinedOnce
    <2> HIDE DEF raw, m, full
    <2>4. /\ q.plan = pixels.plan /\ q.selected = pixels.selected /\ q.whole = None /\ q.raw = raw
          /\ q.raw_row = pixels.raw_row /\ q.chunks_done = pixels.chunks_done
          /\ q.chunks_total = pixels.chunks_total /\ q.stream_row = m /\ q.walk = r.walk
      BY <1>2 DEF PixelStates
    <2>5. /\ pc' = point /\ UNCHANGED <<readerVars, stream>>
      BY <1>13, <2>1 DEF Walks
    <2> HIDE DEF q
    <2>6. \A i : LineOf(q, i) = LineOf(pixels, i)
      BY <2>4, SameCursor DEF LineOf
    <2>7. HoldsItsBlock(q) /\ Wanting(q)
      BY <1>2, <1>6, <2>4 DEF HoldsItsBlock, Wanting
    <2>8. InStep(q, point)
      <3>1. CASE full
        <4>1. HoldsLine(q, n)
          <5>1. Tells(Plan, r.walk, b \o raw) /\ Len(raw) = RowLength(Plan)
                /\ Len(b) = n * RowLength(Plan)
            BY <1>5, <2>2, <2>3, <3>1 DEF full, size
          <5>2. Sized(Plan) /\ q.plan = Plan /\ n \in Nat
            BY <1>2, <1>3, <2>4 DEF Fits, n
          <5> QED  BY <1>2, <1>4, <2>3, <2>4, <5>1, <5>2, FilledIsLine
        <4>2. m = n + 1 /\ m - 1 = n /\ point = "next_chunk" /\ point \notin Filling /\ point # "finish"
          BY <1>3, <3>1 DEF m, Filling, n
        <4>3. q.raw_row # None => q.raw_row < m
          BY <1>3, <1>7, <2>4, <4>2 DEF Option, n
        <4>4. /\ m <= LineOf(q, d) + 1 /\ (d # 0 => LineOf(q, d - 1) < m)
          BY <1>3, <1>7, <1>10, <2>6, <4>2 DEF n
        <4> QED  BY <2>4, <2>7, <4>1, <4>2, <4>3, <4>4 DEF InStep, d
      <3>2. CASE ~full
        <4>1. m = n /\ point = "fill" /\ point \in Filling
          BY <3>2 DEF m, Filling
        <4>2. m <= LineOf(q, d) + 1
          BY <1>3, <1>7, <1>10, <2>6, <4>1 DEF n
        <4> QED  BY <1>7, <2>4, <2>6, <2>7, <4>1, <4>2 DEF InStep, d
      <3> QED  BY <3>1, <3>2
    <2>9. Stays(q, point, Len(stream))
      BY <1>3, <1>6, <2>4, <2>7, <2>8 DEF Stays, Handed
    <2> QED  BY <1>11, <2>1, <2>5, <2>9, ExactLeads DEF readerVars
  <1> QED  BY <1>12, <1>13

\* The end of the last pair is required, and the chunk kept back handed over.
LEMMA ExactFinish ==
    ASSUME RInv, ExactInv, Finish
    PROVE  ExactInv'
  <1> DEFINE d == pixels.chunks_done
             i == d - 1
  <1>1. pc = "finish" /\ pc \in Filling /\ UNCHANGED <<current, occurrences>>
    BY DEF Finish, Filling, walkVars
  <1>2. /\ pc \in Chunking /\ SourceType /\ pixels.plan = Plan /\ pixels.selected = selected_channel
        /\ ConformingPlan(Plan) /\ Plan.compression # None /\ pixels.whole = None
        /\ pixels \in PixelStates(Plan) /\ Sits(pixels)
    BY <1>1, FillFacts
  <1>3. /\ Stays(pixels, "finish", Len(stream)) /\ pixels.stream_row \in Nat
        /\ d \in 0 .. pixels.chunks_total /\ pixels.chunks_total \in Nat \ {0}
        /\ \A k \in 0 .. pixels.chunks_total - 1 : LineOf(pixels, k) \in 0 .. RowsIn(Plan) - 1
        /\ RowsIn(Plan) \in Nat \ {0}
    BY <1>1, <1>2, ExactChunkFacts
  <1>4. PICK b \in Seq(Byte) : Told(pixels, "finish", b)
    BY <1>1, FillFacts
  <1> DEFINE done == b \o pixels.raw
             c == CursorAt(pixels, i)
             run == DecodeRow(pixels, c.channel, c.row)
             chunk == ChunkOf(pixels, c, run.value)
  <1>5. /\ Tells(Plan, pixels.walk, done) /\ pixels.walk.owed = 0 /\ d # 0 /\ run.res = "ok"
        /\ ~ (d < pixels.chunks_total)
    BY <1>2, <1>4 DEF Told, Filling, InHand
  <1>6. InStep(pixels, "finish") /\ ~Wanting(pixels) /\ Len(stream) = i
        /\ pixels.chunks_total = ChunksTotal(pixels.plan, pixels.selected) /\ d = pixels.chunks_total
    BY <1>1, <1>2, <1>3, <1>5 DEF Stays, Wanting, Handed
  <1>7. PICK r \in RequireEnd(Plan, pixels.walk) :
          /\ pixels' = [pixels EXCEPT !.walk = r.walk]
          /\ IF r.res # "ok" THEN ChunkFails(r.res) ELSE ChunkReturns(chunk)
    BY <1>2 DEF Finish
  <1> HIDE DEF chunk, run
  <1>8. CASE r.res # "ok"
    <2>1. pixels_failed' /\ UNCHANGED <<stream, selected_channel>>
      BY <1>7, <1>8 DEF ChunkFails
    <2> QED  BY <1>1, <2>1, ExactFails
  <1>9. CASE r.res = "ok"
    <2> DEFINE q == [pixels EXCEPT !.walk = r.walk]
               line == LineOf(pixels, i)
    <2>1. i \in 0 .. pixels.chunks_total - 1 /\ line \in 0 .. RowsIn(Plan) - 1
      <3>1. i \in 0 .. pixels.chunks_total - 1
        BY <1>3, <1>5, <1>6
      <3> QED  BY <1>3, <3>1
    <2>2. /\ pixels.stream_row = RowsIn(Plan) /\ pixels.stream_row # 0
          /\ HoldsLine(pixels, pixels.stream_row - 1) /\ line < pixels.stream_row
          /\ pixels.stream_row <= line + 1 /\ pixels.walk.index = PairCount(Plan)
          /\ pixels.raw_row # None => pixels.raw_row < pixels.stream_row
      BY <1>2, <1>3, <1>5, <1>6 DEF InStep, Filling
    <2> HIDE DEF line
    <2>3. pixels.stream_row - 1 = line
      BY <1>3, <2>1, <2>2
    <2>4. IsStreamable(Plan)
      BY <1>2 DEF Sits
    <2>5. HasLine(pixels, line)
      BY <1>2, <2>2, <2>3, <2>4 DEF HasLine, IsStreamable
    <2>6. i \in 0 .. ChunksTotal(Plan, selected_channel) - 1
      BY <1>2, <1>6, <2>1
    <2>7. Shows(Plan, selected_channel, Append(stream, chunk)) /\ Len(Append(stream, chunk)) = i + 1
      BY <1>2, <1>5, <1>6, <2>4, <2>5, <2>6, ExactHandsOver DEF line, chunk, run
    <2>8. Pictured(Plan).sound
      <3>1. Between(Plan, r.walk, done) /\ r.walk.index = pixels.walk.index
        BY <1>2, <1>5, <1>7, <1>9, EndTells
      <3>2. AllHold(Plan, PairCount(Plan))
        BY <2>2, <3>1 DEF Between
      <3>3. Plan.location.mode = "attachment"
        BY <1>2 DEF ConformingPlan
      <3> QED  BY <1>2, <3>2, <3>3 DEF Pictured, AllHold
    <2>9. /\ q.plan = pixels.plan /\ q.selected = pixels.selected /\ q.whole = pixels.whole
          /\ q.raw = pixels.raw
          /\ q.raw_row = pixels.raw_row /\ q.chunks_done = pixels.chunks_done
          /\ q.chunks_total = pixels.chunks_total /\ q.stream_row = pixels.stream_row /\ q.walk = r.walk
      BY <1>2, WalkChanges
    <2>10. pixels' = q /\ ChunkReturns(chunk)
      BY <1>7, <1>9
    <2>11. /\ pc' \notin Filling /\ stream' = Append(stream, chunk) /\ UNCHANGED selected_channel
      BY <2>10 DEF ChunkReturns, Returns, readerVars, Filling
    <2> HIDE DEF q
    <2>12. \A k : LineOf(q, k) = LineOf(pixels, k)
      BY <2>9, SameCursor DEF LineOf
    <2>13. ~Wanting(q) /\ HoldsItsBlock(q)
      BY <1>2, <1>6, <2>9 DEF Wanting, HoldsItsBlock
    <2>14. i + 1 = d
      BY <1>3
    <2>15. InStep(q, pc')
      <3>1. HoldsLine(q, q.stream_row - 1)
        BY <2>2, <2>9, SameLine
      <3>2. pc' # "finish"
        BY <2>11 DEF Filling
      <3> QED  BY <1>2, <2>2, <2>8, <2>9, <2>11, <2>12, <2>13, <3>1, <3>2 DEF InStep, line
    <2>16. Stays(q, pc', Len(stream'))
      BY <1>6, <2>7, <2>9, <2>11, <2>13, <2>14, <2>15 DEF Stays, Handed
    <2> QED  BY <1>1, <2>7, <2>10, <2>11, <2>16, ExactLeads
  <1> QED  BY <1>8, <1>9

\* Nothing is under way and nothing was handed over when a reader is built.
LEMMA InitExactInv ==
    Init => ExactInv
  BY DEF Init, ExactInv, Exactly, Promised

\* A state in which nothing happens shows what it showed.
LEMMA ExactStutters ==
    ASSUME ExactInv, UNCHANGED vars
    PROVE  ExactInv'
  BY DEF ExactInv, Exactly, Promised, Plan, vars, readerVars, callVars, decoderVars

\* A step the decoder takes inside a call.
LEMMA ExactDecoderStep ==
    ASSUME RInv, RInv', ExactInv, DecoderStep
    PROVE  ExactInv'
  <1>1. CASE Build \/ Abandon \/ AfterTheLast \/ ToTheNext
    BY <1>1, ExactWalks
  <1>2. CASE BeginRefused \/ BeginStream \/ BeginWalk \/ BeginWhole
    BY <1>2, ExactBeginSteps
  <1>3. CASE FinishImage
    BY <1>3, ExactFinishImage
  <1>4. CASE ReadRow
    BY <1>4, ExactReadRow
  <1>5. CASE WantRow
    BY <1>5, ExactWantRow
  <1>6. CASE DeliverRow
    BY <1>6, ExactDeliverRow
  <1>7. CASE FillRow
    BY <1>7, ExactFillRow
  <1>8. CASE LeavePair \/ EndPair \/ OpenPair
    <2>1. CASE Sits(pixels)'
      BY <1>8, <2>1, ExactPairs
    <2>2. CASE ~Sits(pixels)'
      <3>1. pixels' = None
        BY <2>2 DEF RInv, PixelsHeld
      <3>2. pc \in Filling
        BY <1>8 DEF LeavePair, EndPair, OpenPair, Filling
      <3>3. pixels \in PixelStates(Plan) /\ Sits(pixels) /\ pixels.plan = Plan
        BY <3>2, FillFacts
      <3>4. CASE LeavePair
        <4>1. pixels' = pixels
          BY <3>4 DEF LeavePair, decoderVars
        <4>2. pixels # None
          BY <3>3, SittingIsSome DEF RInv
        <4> QED  BY <3>1, <4>1, <4>2
      <3>5. CASE EndPair \/ OpenPair
        <4>1. PICK r, point : pixels' = [pixels EXCEPT !.walk = r.walk] /\ Walks(r, point)
          BY <3>5 DEF EndPair, OpenPair
        <4>2. CASE r.res # "ok"
          <5>1. pixels_failed' /\ UNCHANGED <<stream, current, occurrences, selected_channel>>
            BY <4>1, <4>2 DEF Walks, ChunkFails, walkVars
          <5> QED  BY <5>1, ExactFails
        <4>3. CASE r.res = "ok"
          <5>1. pixels_started /\ ~pixels_failed
            BY <3>2 DEF RInv, Disciplined, Chunking
          <5>2. pixels_started' /\ ~pixels_failed'
            BY <4>1, <4>3, <5>1 DEF Walks, readerVars
          <5>3. (pixels # None)'
            BY <5>2 DEF RInv, Underway
          <5> QED  BY <3>1, <5>3
        <4> QED  BY <4>2, <4>3
      <3> QED  BY <1>8, <3>4, <3>5
    <2> QED  BY <2>1, <2>2
  <1>9. CASE Finish
    BY <1>9, ExactFinish
  <1> QED  BY <1>1, <1>2, <1>3, <1>4, <1>5, <1>6, <1>7, <1>8, <1>9 DEF DecoderStep

\* Whatever the caller calls and however the source answers.
LEMMA ExactNext ==
    ASSUME RInv, RInv', ExactInv, [Next]_vars
    PROVE  ExactInv'
  <1>1. CASE \/ Calls(NextImage) \/ Calls(Chunks) \/ Calls(DropChunks) \/ Calls(NextChunk)
             \/ Calls(ForEachChunk)
    BY <1>1, ExactCalls
  <1>2. CASE \E valid \in BOOLEAN : Calls(SetBounds(valid))
    BY <1>2, ExactCalls
  <1>3. CASE \E k \in 0 .. MaxChannel : Calls(SelectChannel(k))
    BY <1>3, ExactCalls
  <1>4. CASE \/ \E len \in Destinations, variant \in BOOLEAN : Calls(ReadSamples(len, variant))
             \/ \E len \in Destinations : Calls(ReadImage(len))
    <2>1. PICK driver, refusal : Calls(Decodes(driver, refusal))
      BY <1>4 DEF ReadSamples, ReadImage
    <2> QED  BY <2>1, ExactCalls
  <1>5. CASE DecoderStep
    BY <1>5, ExactDecoderStep
  <1>6. CASE Refused \/ UNCHANGED vars
    BY <1>6, ExactStutters DEF Refused
  <1> QED  BY <1>1, <1>2, <1>3, <1>4, <1>5, <1>6 DEF Next

\* In every state, what a decode holds is the block's, and what was handed over is the image's.
THEOREM ExactInvariance == Spec => []ExactInv
  <1>1. Init => RInv /\ ExactInv
    BY InitRInv, InitExactInv
  <1>2. RInv /\ ExactInv /\ [Next]_vars => RInv' /\ ExactInv'
    BY NextKeeps, ExactNext
  <1> QED  BY <1>1, <1>2, PTL DEF Spec

-----------------------------------------------------------------------------
(* The end of an image, and the position a reader sits on.                 *)

\* An error of the source is not the end of an image.
LEMMA SourceNeverEnds ==
    ASSUME NEW at, NEW n, NEW o, o \in SeekTo(at) \/ o \in ReadExact(at, n) \/ o \in ReadAt(at, n)
    PROVE  o.res # "end"
  <1>1. \A res, q : Outcome(res, q).res = res
    BY DEF Outcome
  <1>2. \A k, m : \A x \in ReadExact(k, m) : x.res # "end"
    BY <1>1 DEF ReadExact, IoWhileReading
  <1>3. \A k : \A x \in SeekTo(k) : x.res # "end"
    BY <1>1, <1>2 DEF SeekTo, SeekAbsolute, SkipByReading
  <1> QED  BY <1>2, <1>3 DEF ReadAt

\* A result of the walk that is not the end of an image.
Endless(r) == r = Result(r.res, r.pos, r.walk, r.out) /\ r.res # "end"

\* What a result is made of.
LEMMA EndlessResult ==
    ASSUME NEW res, res # "end", NEW at, NEW w, NEW out
    PROVE  /\ Endless(Result(res, at, w, out))
           /\ Result(res, at, w, out).res = res /\ Result(res, at, w, out).pos = at
  BY DEF Endless, Result

\* A failure of another kind, or another walk, in its place.
LEMMA EndlessInstead ==
    ASSUME NEW r, Endless(r), NEW t
    PROVE  Endless([r EXCEPT !.res = "Malformed"]) /\ Endless([r EXCEPT !.walk.owed = t])
  BY DEF Endless, Result

\* Reading stored bytes of a pair never ends an image.
LEMMA StoredNeverEnds ==
    ASSUME NEW w, NEW n, NEW r \in ReadStored(w, n)
    PROVE  Endless(r)
  <1>1. PICK o \in IF n = 0 THEN {Outcome("ok", pos)} ELSE ReadAt(w.stored_at, n) :
           \/ o.res # "ok" /\ r = Result(o.res, o.pos, w, <<>>)
           \/ r = Result("ok", o.pos, [w EXCEPT !.stored_left = @ - n, !.stored_at = @ + n],
                         FileBytes(w.stored_at, n))
    BY DEF ReadStored
  <1>2. o.res # "end"
    BY <1>1, SourceNeverEnds DEF Outcome
  <1> QED  BY <1>1, <1>2, EndlessResult

\* Nor does what a pair gives.
LEMMA UptoNeverEnds ==
    ASSUME NEW p, NEW w, NEW n, NEW r \in FillUpto(p, w, n)
    PROVE  Endless(r)
  <1>1. ASSUME NEW q \in PullFramed(p, w, n) PROVE Endless(q)
    <2>1. CASE n = 0
      BY <1>1, <2>1, EndlessResult DEF PullFramed
    <2>2. CASE n # 0
      <3>1. PICK s, res, x, y :
               /\ (\E m : s \in ReadStored(w, m)) /\ res # "end"
               /\ (s.res # "ok" /\ q = s) \/ q = Result(res, s.pos, x, y)
        <4> DEFINE content == p.contents[w.index]
                   take == Least(n, Len(content.output) - w.given)
                   consumed == PairOf(p, w.index)[1] - w.stored_left
                   least == IF w.given + n < Len(content.output) THEN 0
                            ELSE Greatest(0, content.needs - consumed)
                   res == IF take < n /\ ~content.ends /\ ~content.kept THEN "Malformed"
                          ELSE "ok"
                   part == SubSeq(content.output, w.given + 1, w.given + take)
                   Give(s) == IF s.res # "ok" THEN s
                              ELSE Result(res, s.pos, [s.walk EXCEPT !.given = @ + take], part)
        <4>1. q \in {Give(s) : s \in UNION {ReadStored(w, m) : m \in least .. w.stored_left}}
          BY <1>1, <2>2, Zenon DEF PullFramed
        <4>2. PICK s \in UNION {ReadStored(w, m) : m \in least .. w.stored_left} : q = Give(s)
          BY <4>1, Zenon
        <4>3. PICK m : s \in ReadStored(w, m)
          BY <4>2, Zenon
        <4>4. res # "end"
          OBVIOUS
        <4>5. (s.res # "ok" /\ q = s) \/ q = Result(res, s.pos, [s.walk EXCEPT !.given = @ + take], part)
          BY <4>2, Zenon
        <4> QED  BY <4>3, <4>4, <4>5, Zenon
      <3>2. Endless(s)
        BY <3>1, StoredNeverEnds
      <3> QED  BY <3>1, <3>2, EndlessResult
    <2> QED  BY <2>1, <2>2
  <1>2. CASE w.current = "Ended"
    BY <1>2, EndlessResult DEF FillUpto
  <1>3. CASE w.current = "Raw"
    BY <1>3, StoredNeverEnds DEF FillUpto
  <1>4. CASE w.current = "Held"
    BY <1>4, EndlessResult DEF FillUpto
  <1>5. CASE w.current \notin {"Ended", "Raw", "Held"}
    BY <1>1, <1>5 DEF FillUpto
  <1> QED  BY <1>2, <1>3, <1>4, <1>5

\* Nor does taking from a pair, or requiring its end.
LEMMA TakenNeverEnds ==
    ASSUME NEW p, NEW w, NEW n, NEW r, r \in Take(p, w, n) \/ r \in RequireEnd(p, w)
    PROVE  r.res # "end"
  <1>1. CASE r \in RequireEnd(p, w)
    <2>1. PICK s \in FillUpto(p, w, 1) : r = s \/ r = [s EXCEPT !.res = "Malformed"]
      BY <1>1 DEF RequireEnd
    <2>2. Endless(r)
      BY <2>1, UptoNeverEnds, EndlessInstead
    <2> QED  BY <2>2 DEF Endless
  <1>2. CASE r \in Take(p, w, n)
    <2> DEFINE take == Least(n, w.owed)
    <2>1. PICK s \in Fill(p, w, take) : r = s \/ r = [s EXCEPT !.walk.owed = @ - take]
      BY <1>2 DEF Take
    <2>2. PICK t \in FillUpto(p, w, take) : s = t \/ s = [t EXCEPT !.res = "Malformed"]
      BY <2>1 DEF Fill
    <2>3. Endless(s)
      BY <2>2, UptoNeverEnds, EndlessInstead
    <2> DEFINE left == s.walk.owed - take
    <2>4. r = s \/ r = [s EXCEPT !.walk.owed = left]
      BY <2>1
    <2> HIDE DEF left
    <2>5. Endless([s EXCEPT !.walk.owed = left])
      BY <2>3, EndlessInstead
    <2>6. Endless(r)
      BY <2>3, <2>4, <2>5
    <2> QED  BY <2>6 DEF Endless
  <1> QED  BY <1>1, <1>2

\* Nor does opening one.
LEMMA OpenedNeverEnds ==
    ASSUME NEW p, NEW w, NEW r \in Open(p, w)
    PROVE  r.res # "end"
  <1>1. ASSUME NEW v, NEW i, NEW q \in OpenFramed(p, v, i) PROVE q.res # "end"
    <2> DEFINE content == p.contents[i]
               opened  == [v EXCEPT !.current = IF p.compression.codec = "zlib" THEN "Zlib" ELSE "Zstd"]
    <2>1. CASE p.compression.codec = "zlib"
      BY <1>1, <2>1, EndlessResult DEF OpenFramed
    <2>2. CASE p.compression.codec # "zlib"
      <3>1. PICK s, x : /\ \E n : s \in ReadStored(v, n)
                        /\ \/ q = s
                           \/ q = Result("LimitExceeded", s.pos, s.walk, <<>>)
                           \/ q = Result("ok", s.pos, x, <<>>)
                           \/ q = Result("Malformed", s.pos, s.walk, <<>>)
        <4> DEFINE Header(s) ==
                     IF s.res # "ok" THEN {s}
                     ELSE IF content.window THEN {Result("LimitExceeded", s.pos, s.walk, <<>>)}
                     ELSE {Result("ok", s.pos, [s.walk EXCEPT !.current = opened.current], <<>>)}
                          \cup (IF content.output = <<>> /\ ~content.ends /\ ~content.kept
                                THEN {Result("Malformed", s.pos, s.walk, <<>>)} ELSE {})
        <4>1. q \in UNION {Header(s) : s \in UNION {ReadStored(v, n) : n \in 0 .. v.stored_left}}
          BY <1>1, <2>2, Zenon DEF OpenFramed
        <4>2. PICK s \in UNION {ReadStored(v, n) : n \in 0 .. v.stored_left} : q \in Header(s)
          BY <4>1, Zenon
        <4>3. PICK n : s \in ReadStored(v, n)
          BY <4>2, Zenon
        <4>4. \/ q = s
              \/ q = Result("LimitExceeded", s.pos, s.walk, <<>>)
              \/ q = Result("ok", s.pos, [s.walk EXCEPT !.current = opened.current], <<>>)
              \/ q = Result("Malformed", s.pos, s.walk, <<>>)
          BY <4>2, Zenon
        <4> QED  BY <4>3, <4>4, Zenon
      <3>2. Endless(s)
        BY <3>1, StoredNeverEnds
      <3> QED  BY <3>1, <3>2, EndlessResult DEF Endless
    <2> QED  BY <2>1, <2>2
  <1>2. ASSUME NEW v, NEW i, NEW kind, NEW q \in OpenHeld(p, v, i, kind) PROVE q.res # "end"
    <2>1. \/ q = Result("LimitExceeded", pos, v, <<>>)
          \/ \E s \in ReadStored(v, v.stored_left) : \E one, x :
                \/ q = s
                \/ /\ one = DecodePair(kind, p.contents[i], s.out, v.owed)
                   /\ q = Result(one.res, s.pos, x, <<>>)
      BY <1>2 DEF OpenHeld
    <2>2. \A s, len : DecodePair(kind, p.contents[i], s, len).res # "end"
      BY DEF DecodePair, Decoded
    <2> QED  BY <2>1, <2>2, StoredNeverEnds, EndlessResult DEF Endless
  <1>3. ASSUME NEW v, NEW kind, NEW q \in OpenStream(p, v, kind) PROVE q.res # "end"
    <2>1. CASE kind = "Raw"
      BY <1>3, <2>1, EndlessResult DEF OpenStream
    <2>2. CASE kind # "Raw"
      BY <1>1, <1>2, <1>3, <2>2 DEF OpenStream
    <2> QED  BY <2>1, <2>2
  <1>4. \/ r = Result("Malformed", pos, w, <<>>)
        \/ \E v, kind : r \in OpenStream(p, v, kind)
    BY DEF Open
  <1> QED  BY <1>3, <1>4, EndlessResult

\* The fold of decompress, with what it never answers.
EndlessClaim(c, k, s) == s = [res |-> s.res, at |-> s.at, dst |-> s.dst] /\ s.res # "end"
Answering == INSTANCE Folding WITH Step <- DecodeStep, Claim <- EndlessClaim

\* Decompressing a block never ends an image.
LEMMA DecompressNeverEnds ==
    ASSUME NEW p, PairCount(p) \in Nat, NEW stored
    PROVE  Decompress(p, stored).res # "end"
  <1> DEFINE c == <<p, stored>>
             n == PairCount(p)
             numbers == [i \in 1 .. n |-> i]
             none == [res |-> "ok", at |-> 0, dst |-> <<>>]
  <1>1. c[1] = p /\ c[2] = stored
    OBVIOUS
  <1> HIDE DEF c
  <1>2. EndlessClaim(c, 0, none)
    BY DEF EndlessClaim
  <1>3. ASSUME NEW i, NEW s, EndlessClaim(c, i - 1, s) PROVE EndlessClaim(c, i, DecodeStep(c, s, i))
    <2>1. s = [res |-> s.res, at |-> s.at, dst |-> s.dst] /\ s.res # "end"
      BY <1>3 DEF EndlessClaim
    <2>2. \A kind, content, piece, len : DecodePair(kind, content, piece, len).res # "end"
      BY DEF DecodePair, Decoded
    <2>3. \/ DecodeStep(c, s, i) = s
          \/ DecodeStep(c, s, i) = [s EXCEPT !.res = "Malformed"]
          \/ \E kind, content, piece, len, x, y :
                DecodeStep(c, s, i) = [res |-> DecodePair(kind, content, piece, len).res,
                                       at |-> x, dst |-> y]
      BY DEF DecodeStep, DecodeNext
    <2>4. [s EXCEPT !.res = "Malformed"] = [res |-> "Malformed", at |-> s.at, dst |-> s.dst]
      BY <2>1
    <2> QED  BY <2>1, <2>2, <2>3, <2>4 DEF EndlessClaim
  <1>4. DOMAIN numbers = 1 .. n /\ \A i \in 1 .. n : numbers[i] = i
    OBVIOUS
  <1>5. Decompress(p, stored) = Answering!Fold(c, none, numbers)
    <2>1. Decompress(c[1], c[2]) = Answering!Fold(c, none, [i \in 1 .. PairCount(c[1]) |-> i])
      BY Zenon DEF Decompress, DecodeStep, FoldLeft, MapThenFoldSet, Max,
                Answering!Fold, Answering!Iterates, Answering!Largest
    <2> QED  BY <1>1, <2>1
  <1>6. \A i \in 1 .. n : \A s : EndlessClaim(c, i - 1, s) => EndlessClaim(c, i, DecodeStep(c, s, numbers[i]))
    BY <1>3, <1>4
  <1> HIDE DEF n, numbers, none
  <1>7. n \in Nat
    BY DEF n
  <1>8. EndlessClaim(c, n, Answering!Fold(c, none, numbers))
    BY <1>2, <1>4, <1>6, <1>7, Answering!FoldKeeps
  <1> QED  BY <1>5, <1>8 DEF EndlessClaim

\* Nor does making it resident, or refusing to begin.
LEMMA BeginNeverEnds ==
    ASSUME NEW p, PairCount(p) \in Nat
    PROVE  /\ \A m \in Materialize(p) : m.res # "end"
           /\ BeginRefusal(p) # "end"
  <1>1. \A s : Pipeline(p, s).res # "end"
    <2> SUFFICES ASSUME NEW s PROVE Pipeline(p, s).res # "end"
      OBVIOUS
    <2>1. \A x, y : Decoded(x, y).res = x
      BY DEF Decoded
    <2>2. Verify(p.checksum) # "end" /\ \A x, y, z : CheckSubblockSums(x, y, z) # "end"
      BY DEF Verify, CheckSubblockSums
    <2> QED  BY <2>1, <2>2, DecompressNeverEnds DEF Pipeline
  <1>2. \A o, d : Resident(o, d).res = d.res
    BY DEF Resident
  <1>3. \A x, y : Decoded(x, y).res = x
    BY DEF Decoded
  <1>4. ASSUME NEW m \in Materialize(p) PROVE m.res # "end"
    <2>1. \/ \E o \in ReadAt(p.location.position, p.location.size) :
                m = Resident(o, Decoded(o.res, <<>>))
          \/ \E o, s : m = Resident(o, Pipeline(p, s))
          \/ \E o, x : x \in {"LimitExceeded", "Malformed"} /\ m = Resident(o, Decoded(x, <<>>))
      BY DEF Materialize
    <2> QED  BY <1>1, <1>2, <1>3, <2>1, SourceNeverEnds
  <1>5. BeginRefusal(p) # "end"
    BY DEF BeginRefusal, AttachmentRefusal, StagingRefusal
  <1> QED  BY <1>4, <1>5

\* Nor does any refusal of the reader's own.
LEMMA RefusalNeverEnds ==
    ASSUME Grounded
    PROVE  PixelRefusal # "end" /\ (\A len, variant : SamplesRefusal(len, variant) # "end")
           /\ \A len : ImageRefusal(len) # "end"
  <1>1. ASSUME header # None PROVE header.decline # "end"
    <2>1. current # None /\ header = occurrences[current].header
      BY <1>1 DEF Grounded
    <2>2. current \in DOMAIN occurrences /\ unit \in Units
      BY <2>1, GroundFacts
    <2>3. occurrences = Construct(unit).out
      BY <2>2 DEF Grounded
    <2>4. occurrences[current] \in Range(Construct(unit).out)
      BY <2>2, <2>3 DEF Range
    <2> QED  BY <2>1, <2>2, <2>4, DeclineAssumption
  <1>2. PixelRefusal # "end"
    BY <1>1 DEF PixelRefusal
  <1>3. NormalizerRefusal # "end"
    BY DEF NormalizerRefusal
  <1> QED  BY <1>2, <1>3 DEF SamplesRefusal, ImageRefusal

-----------------------------------------------------------------------------
(* The invariant of the end and of the position.                           *)

\* A cursor said to have ended was not stopped by a failure, and has no chunk left to give.
Ended == pc = "idle" /\ ret.res = "end" => pixels_started /\ ~pixels_failed /\ ~Wanting(pixels)

\* The reader and the decoder count alike, and only the walk past the last leaves a position.
Counted ==
    /\ advances = next
    /\ current # None => current = next
    /\ current = None /\ next # 0 => next = Len(occurrences)
    /\ pc = "next_image" => phase = "header" /\ ~pixels_failed

\* A call that fails, or is answered at once, ends nothing.
LEMMA FailureEndsNothing ==
    ASSUME NEW res, res # "end", NEW op,
           ChunkFails(res) \/ Returns(op, res) \/ Answers(op, res) \/ pc' # "idle"
    PROVE  Ended'
  BY DEF Ended, ChunkFails, Returns, Answers

\* The calls a caller makes, before the decoder steps.
LEMMA CallsEndNothing ==
    ASSUME RInv, Ended,
           NEW valid, NEW k, NEW driver, NEW refusal, refusal # "end",
           \/ Calls(NextImage) \/ Calls(SetBounds(valid)) \/ Calls(SelectChannel(k))
           \/ Calls(Chunks) \/ Calls(DropChunks) \/ Calls(NextChunk)
           \/ Calls(ForEachChunk) \/ Calls(Decodes(driver, refusal))
    PROVE  Ended'
  <1>1. PixelRefusal # "end"
    BY RefusalNeverEnds DEF RInv
  <1>2. CASE Calls(NextImage)
    BY <1>2 DEF Calls, NextImage, ResetForNextImage, Ended
  <1>3. CASE Calls(SetBounds(valid)) \/ Calls(SelectChannel(k))
    BY <1>3, FailureEndsNothing DEF Calls, SetBounds, SelectChannel
  <1>4. CASE Calls(Chunks)
    BY <1>4, FailureEndsNothing DEF Calls, Chunks
  <1>5. CASE Calls(DropChunks)
    BY <1>5 DEF Calls, DropChunks, Ended, readerVars, decoderVars
  <1>6. CASE Calls(NextChunk)
    <2>1. \/ Answers("next_chunk", "InvalidRequest") \/ ChunkFails(PixelRefusal)
          \/ pc' \in {"next_chunk", "begin_pixels"}
      BY <1>6 DEF Calls, NextChunk
    <2> QED  BY <1>1, <2>1, FailureEndsNothing
  <1>7. CASE Calls(ForEachChunk)
    <2>1. pc' = "begin_pixels" \/ Returns("push", PixelRefusal)
      BY <1>7 DEF Calls, ForEachChunk
    <2> QED  BY <1>1, <2>1, FailureEndsNothing
  <1>8. CASE Calls(Decodes(driver, refusal))
    <2>1. pc' = "begin_pixels" \/ Answers(driver, refusal)
      BY <1>8 DEF Calls, Decodes
    <2> QED  BY <2>1, FailureEndsNothing
  <1> QED  BY <1>2, <1>3, <1>4, <1>5, <1>6, <1>7, <1>8

\* The step that delivers, or keeps back, a row.
LEMMA DeliveryEndsNothing ==
    ASSUME NEW p, Delivers(p)
    PROVE  Ended'
  <1> DEFINE c == CursorAt(p, p.chunks_done)
             run == DecodeRow(p, c.channel, c.row)
             done == [p EXCEPT !.chunks_done = @ + 1]
  <1>1. run.res # "end"
    BY DEF DecodeRow, Refuse, Accept
  <1> HIDE DEF run
  <1>2. \/ ChunkFails(run.res)
        \/ ChunkReturns(ChunkOf(p, c, run.value))
        \/ pc' \in {"end_pair", "finish"}
    BY Zenon DEF Delivers, run
  <1>3. ASSUME NEW chunk, ChunkReturns(chunk) PROVE Ended'
    BY <1>3 DEF ChunkReturns, Returns, Ended
  <1> QED  BY <1>1, <1>2, <1>3, FailureEndsNothing

\* A step the decoder takes inside a call: only the cursor's coming to its end is one.
LEMMA DecoderEndsOnce ==
    ASSUME RInv, ExactInv, DecoderStep
    PROVE  Ended'
  <1>1. CASE Build
    BY <1>1 DEF Build, BuildReturns, Ended
  <1>2. CASE Abandon
    BY <1>2 DEF Abandon, AbandonReturns, ResetForNextImage, Ended
  <1>3. CASE AfterTheLast \/ ToTheNext
    BY <1>3 DEF AfterTheLast, ToTheNext, NextImageReturns, Returns, Ended
  <1>4. CASE BeginRefused \/ BeginStream \/ BeginWalk \/ BeginWhole
    <2>1. pc \in Beginning
      BY <1>4 DEF BeginRefused, BeginStream, BeginWalk, BeginWhole, Beginning
    <2>2. ASSUME NEW res, res # "end", NEW q, Begins(res, q) PROVE Ended'
      BY <2>2, FailureEndsNothing DEF Begins, BeginPixelsReturns
    <2>3. ASSUME Plan # None PROVE PairCount(Plan) \in Nat
      <3>1. PixelRefusal = "ok"
        BY <2>1 DEF RInv, Disciplined
      <3>2. Planned(occurrences[current]) /\ Plan = occurrences[current].plan
        BY <2>3, <3>1, RefusalFacts DEF RInv
      <3> QED  BY <3>2, PairsCount DEF Planned
    <2>4. CASE BeginRefused
      <3>1. BeginRefusal(Plan) # "end"
        BY DEF BeginRefusal, AttachmentRefusal, StagingRefusal
      <3> QED  BY <2>2, <2>4, <3>1 DEF BeginRefused
    <2>5. CASE BeginStream
      <3>1. PICK o \in SeekTo(Plan.location.position) :
               pc' = "begin_walk" \/ Begins(o.res, Began(Plan, None, AtBlock(Plan)))
        BY <2>5 DEF BeginStream
      <3>2. o.res # "end"
        BY SourceNeverEnds
      <3> QED  BY <2>2, <3>1, <3>2, FailureEndsNothing
    <2>6. CASE BeginWalk
      BY <2>2, <2>6, OpenedNeverEnds DEF BeginWalk
    <2>7. CASE BeginWhole
      <3>1. Plan # None
        BY <2>7 DEF BeginWhole, BeginRefusal
      <3>2. PICK m \in Materialize(Plan) : Begins(m.res, Began(Plan, m.dst, Unopened))
        BY <2>7 DEF BeginWhole
      <3>3. m.res # "end"
        BY <2>3, <3>1, BeginNeverEnds
      <3> QED  BY <2>2, <3>2, <3>3
    <2> QED  BY <1>4, <2>4, <2>5, <2>6, <2>7
  <1>5. CASE FinishImage
    <2>1. /\ pc = "next_chunk" /\ pixels # None /\ ~MoreChunks
          /\ UNCHANGED <<pixels_started, pixels_failed, pixels>>
      BY <1>5 DEF FinishImage, ImageEnds, readerVars
    <2>2. pixels_started /\ ~pixels_failed
      BY <2>1 DEF RInv, Disciplined, Chunking
    <2>3. ~Wanting(pixels)
      BY <2>1 DEF MoreChunks, Wanting
    <2> QED  BY <2>1, <2>2, <2>3 DEF Ended
  <1>6. CASE ReadRow
    <2>1. PICK o \in IF RowOffset(pixels) = None THEN {Outcome("LimitExceeded", pos)}
                     ELSE ReadAt(RowOffset(pixels), RowBytes) :
             ChunkFails(o.res) \/ \E p : Delivers(p)
      BY <1>6 DEF ReadRow
    <2>2. o.res # "end"
      BY <2>1, SourceNeverEnds DEF Outcome
    <2> QED  BY <2>1, <2>2, FailureEndsNothing, DeliveryEndsNothing
  <1>7. CASE DeliverRow
    BY <1>7, DeliveryEndsNothing DEF DeliverRow
  <1>8. CASE WantRow \/ LeavePair
    BY <1>8 DEF WantRow, LeavePair, Ended
  <1>9. ASSUME NEW r, NEW point, Walks(r, point), r.res # "end", point # "idle" PROVE Ended'
    BY <1>9, FailureEndsNothing DEF Walks
  <1>10. CASE FillRow
    <2> DEFINE rest == RowBytes - Len(pixels.raw)
    <2>1. PICK r \in Take(pixels.plan, pixels.walk, rest) :
             Walks(r, "next_chunk") \/ Walks(r, "fill")
      BY <1>10, Zenon DEF FillRow
    <2> HIDE DEF rest
    <2>2. r.res # "end"
      BY TakenNeverEnds
    <2> QED  BY <1>9, <2>1, <2>2
  <1>11. CASE EndPair
    BY <1>9, <1>11, TakenNeverEnds DEF EndPair
  <1>12. CASE OpenPair
    <2>1. PICK r \in Open(pixels.plan, pixels.walk) : \E point : Walks(r, point) /\ point # "idle"
      BY <1>12 DEF OpenPair
    <2> QED  BY <1>9, <2>1, OpenedNeverEnds
  <1>13. CASE Finish
    <2>1. PICK r \in RequireEnd(pixels.plan, pixels.walk) :
             ChunkFails(r.res) \/ \E chunk : ChunkReturns(chunk)
      BY <1>13 DEF Finish
    <2>2. r.res # "end"
      BY TakenNeverEnds
    <2>3. ASSUME NEW chunk, ChunkReturns(chunk) PROVE Ended'
      BY <2>3 DEF ChunkReturns, Returns, Ended
    <2> QED  BY <2>1, <2>2, <2>3, FailureEndsNothing
  <1> QED  BY <1>1, <1>2, <1>3, <1>4, <1>5, <1>6, <1>7, <1>8, <1>10, <1>11, <1>12, <1>13 DEF DecoderStep

\* A step that leaves the position alone, and does not go on to the next image.
LEMMA CountedStill ==
    ASSUME Counted, UNCHANGED <<advances, next, current, occurrences>>, pc' # "next_image"
    PROVE  Counted'
  BY DEF Counted

\* The calls a caller makes, before the decoder steps.
LEMMA CallsCount ==
    ASSUME RInv, Counted,
           NEW valid, NEW k, NEW driver, NEW refusal,
           \/ Calls(NextImage) \/ Calls(SetBounds(valid)) \/ Calls(SelectChannel(k))
           \/ Calls(Chunks) \/ Calls(DropChunks) \/ Calls(NextChunk)
           \/ Calls(ForEachChunk) \/ Calls(Decodes(driver, refusal))
    PROVE  Counted'
  <1>1. UNCHANGED <<next, current, occurrences>>
    BY DEF Calls, decoderVars
  <1>2. CASE Calls(NextImage)
    BY <1>1, <1>2 DEF Calls, NextImage, ResetForNextImage, readerVars, Counted
  <1>3. CASE Calls(SetBounds(valid)) \/ Calls(SelectChannel(k))
    BY <1>1, <1>3, CountedStill
       DEF Calls, SetBounds, SelectChannel, Answers, Returns, readerVars
  <1>4. CASE Calls(Chunks) \/ Calls(ForEachChunk)
    BY <1>1, <1>4, CountedStill DEF Calls, Chunks, ForEachChunk, Opens, Returns
  <1>5. CASE Calls(DropChunks)
    BY <1>1, <1>5, CountedStill DEF Calls, DropChunks, readerVars
  <1>6. CASE Calls(NextChunk)
    BY <1>1, <1>6, CountedStill DEF Calls, NextChunk, Answers, ChunkFails, Returns, readerVars
  <1>7. CASE Calls(Decodes(driver, refusal))
    BY <1>1, <1>7, CountedStill DEF Calls, Decodes, Answers, Opens, Returns, readerVars
  <1> QED  BY <1>2, <1>3, <1>4, <1>5, <1>6, <1>7

\* The decoder counts a position when the reader does.
LEMMA WalkCounts ==
    ASSUME RInv, Counted, Build \/ Abandon \/ AfterTheLast \/ ToTheNext
    PROVE  Counted'
  <1>1. Len(occurrences) \in Nat /\ next \in 0 .. Len(occurrences)
    BY GroundFacts DEF RInv, Grounded
  <1>2. CASE Build
    <2>1. next = 0 /\ current = None /\ pc' # "next_image"
      BY <1>2 DEF Build, BuildReturns, RInv, Disciplined
    <2>2. UNCHANGED <<advances, next, current>>
      BY <1>2 DEF Build, readerVars
    <2> QED  BY <2>1, <2>2 DEF Counted
  <1>3. CASE Abandon
    BY <1>3 DEF Abandon, AbandonReturns, ResetForNextImage, walkVars, Counted
  <1>4. CASE AfterTheLast
    <2>1. /\ next >= Len(occurrences) /\ current' = None /\ pc' = "idle"
          /\ UNCHANGED <<advances, next, occurrences>>
      BY <1>4 DEF AfterTheLast, NextImageReturns, Returns
    <2>2. next = Len(occurrences)
      BY <1>1, <2>1
    <2> QED  BY <2>1, <2>2 DEF Counted
  <1>5. CASE ToTheNext
    <2>1. /\ current' = next + 1 /\ next' = next + 1 /\ pc' = "idle"
          /\ advances' = advances + 1 /\ UNCHANGED occurrences
      BY <1>5 DEF ToTheNext, NextImageReturns, Returns
    <2>2. next + 1 # None
      BY <1>1, NoneAssumption
    <2> QED  BY <2>1, <2>2 DEF Counted
  <1> QED  BY <1>2, <1>3, <1>4, <1>5

\* No other step of the decoder moves.
LEMMA DeliveryStays ==
    ASSUME RInv, Counted,
           \/ BeginRefused \/ BeginStream \/ BeginWalk \/ BeginWhole \/ FinishImage \/ ReadRow
           \/ WantRow \/ DeliverRow \/ FillRow \/ LeavePair \/ EndPair \/ OpenPair \/ Finish
    PROVE  Counted'
  <1>1. UNCHANGED walkVars
    BY DEF BeginRefused, BeginStream, BeginWalk, BeginWhole, FinishImage, ReadRow, WantRow,
           DeliverRow, FillRow, LeavePair, EndPair, OpenPair, Finish, Walks, walkVars, decoderVars
  <1>2. ASSUME NEW res, ChunkFails(res) PROVE Counted'
    BY <1>1, <1>2, CountedStill DEF ChunkFails, Returns, walkVars
  <1>3. ASSUME NEW chunk, ChunkReturns(chunk) PROVE Counted'
    <2>1. pc' # "next_image" /\ UNCHANGED advances
      BY <1>3 DEF ChunkReturns, Returns, readerVars
    <2> QED  BY <1>1, <2>1, CountedStill DEF walkVars
  <1>4. ASSUME NEW point, point # "next_image", pc' = point, UNCHANGED readerVars PROVE Counted'
    BY <1>1, <1>4, CountedStill DEF walkVars, readerVars
  <1>5. ASSUME NEW res, NEW q, Begins(res, q) PROVE Counted'
    <2>1. CASE res # "ok"
      BY <1>2, <1>5, <2>1 DEF Begins, BeginPixelsReturns
    <2>2. CASE res = "ok"
      BY <1>1, <1>5, <2>2, CountedStill DEF Begins, BeginPixelsReturns, walkVars
    <2> QED  BY <2>1, <2>2
  <1>6. ASSUME NEW p, Delivers(p) PROVE Counted'
    <2>1. \/ \E res : ChunkFails(res)
          \/ \E chunk : ChunkReturns(chunk)
          \/ \E point : point # "next_image" /\ pc' = point /\ UNCHANGED readerVars
      BY <1>6 DEF Delivers
    <2> QED  BY <1>2, <1>3, <1>4, <2>1
  <1>7. ASSUME NEW r, NEW point, Walks(r, point), point # "next_image" PROVE Counted'
    BY <1>2, <1>4, <1>7 DEF Walks
  <1>8. CASE BeginRefused \/ BeginStream \/ BeginWalk \/ BeginWhole
    <2>1. (\E res, q : Begins(res, q)) \/ (pc' = "begin_walk" /\ UNCHANGED readerVars)
      BY <1>8 DEF BeginRefused, BeginStream, BeginWalk, BeginWhole
    <2> QED  BY <1>4, <1>5, <2>1
  <1>9. CASE FinishImage
    BY <1>4, <1>9 DEF FinishImage, ImageEnds, Returns
  <1>10. CASE ReadRow \/ DeliverRow
    <2>1. (\E res : ChunkFails(res)) \/ (\E p : Delivers(p))
      BY <1>10 DEF ReadRow, DeliverRow
    <2> QED  BY <1>2, <1>6, <2>1
  <1>11. CASE WantRow \/ LeavePair
    BY <1>4, <1>11 DEF WantRow, LeavePair
  <1>12. CASE FillRow \/ EndPair \/ OpenPair
    <2>1. \E r : \E point \in Filling \cup {"next_chunk"} : Walks(r, point)
      <3>1. CASE FillRow
        <4>1. \E r : Walks(r, "next_chunk") \/ Walks(r, "fill")
          BY <3>1, Zenon DEF FillRow
        <4> QED  BY <4>1 DEF Filling
      <3>2. CASE EndPair
        BY <3>2 DEF EndPair, Filling
      <3>3. CASE OpenPair
        <4>1. \E r : Walks(r, "fill") \/ Walks(r, "end_pair") \/ Walks(r, "finish")
          BY <3>3, Zenon DEF OpenPair
        <4> QED  BY <4>1 DEF Filling
      <3> QED  BY <1>12, <3>1, <3>2, <3>3
    <2> QED  BY <1>7, <2>1 DEF Filling
  <1>13. CASE Finish
    <2>1. (\E res : ChunkFails(res)) \/ (\E chunk : ChunkReturns(chunk))
      BY <1>13 DEF Finish
    <2> QED  BY <1>2, <1>3, <2>1
  <1> QED  BY <1>8, <1>9, <1>10, <1>11, <1>12, <1>13

\* Whatever the caller calls and however the source answers.
LEMMA NextEndsAndCounts ==
    ASSUME RInv, ExactInv, Ended, Counted, [Next]_vars
    PROVE  Ended' /\ Counted'
  <1>1. CASE \/ Calls(NextImage) \/ Calls(Chunks) \/ Calls(DropChunks) \/ Calls(NextChunk)
             \/ Calls(ForEachChunk)
    <2>1. "ok" # "end"
      OBVIOUS
    <2> QED  BY <1>1, <2>1, CallsEndNothing, CallsCount
  <1>2. CASE \/ \E valid \in BOOLEAN : Calls(SetBounds(valid))
             \/ \E k \in 0 .. MaxChannel : Calls(SelectChannel(k))
    <2>1. "ok" # "end"
      OBVIOUS
    <2> QED  BY <1>2, <2>1, CallsEndNothing, CallsCount
  <1>3. CASE \/ \E len \in Destinations, variant \in BOOLEAN : Calls(ReadSamples(len, variant))
             \/ \E len \in Destinations : Calls(ReadImage(len))
    <2>1. PICK driver, refusal :
             refusal # "end" /\ Calls(Decodes(driver, refusal))
      BY <1>3, RefusalNeverEnds DEF RInv, ReadSamples, ReadImage
    <2> QED  BY <2>1, CallsEndNothing, CallsCount
  <1>4. CASE DecoderStep
    <2>1. Counted'
      BY <1>4, WalkCounts, DeliveryStays DEF DecoderStep
    <2> QED  BY <1>4, <2>1, DecoderEndsOnce
  <1>5. CASE Refused \/ UNCHANGED vars
    BY <1>5 DEF Refused, vars, readerVars, callVars, decoderVars, Ended, Counted
  <1> QED  BY <1>1, <1>2, <1>3, <1>4, <1>5 DEF Next

\* In every state an end was really reached, and the reader and the decoder count alike.
THEOREM EndsAndCounts == Spec => [](Ended /\ Counted)
  <1>1. Init => RInv /\ ExactInv /\ Ended /\ Counted
    BY InitRInv, InitExactInv DEF Init, Ended, Counted
  <1>2. RInv /\ ExactInv /\ Ended /\ Counted /\ [Next]_vars => RInv' /\ ExactInv' /\ Ended' /\ Counted'
    BY NextKeeps, ExactNext, NextEndsAndCounts
  <1> QED  BY <1>1, <1>2, PTL DEF Spec

-----------------------------------------------------------------------------
(* What exactness shows.                                                   *)

\* Numbers with one quotient and one remainder are one.
LEMMA SameNumber ==
    ASSUME NEW d \in Nat \ {0}, NEW i \in Nat, NEW j \in Nat
    PROVE  i \div d = j \div d /\ i % d = j % d => i = j
  <1> DEFINE From(q, r) == q * d + r
             q(k) == k \div d
             r(k) == k % d
  <1>1. i = From(q(i), r(i)) /\ j = From(q(j), r(j))
    BY Division
  <1> HIDE DEF From, q, r
  <1>2. q(i) = q(j) /\ r(i) = r(j) => i = j
    BY <1>1
  <1> QED  BY <1>2 DEF q, r

\* No two chunks of a selection begin at one sample of the destination.
LEMMA StartsDiffer ==
    ASSUME NEW o, Planned(o), NEW p, p.plan = o.plan, Selects(p.plan, p.selected),
           NEW i \in 0 .. ChunksTotal(p.plan, p.selected) - 1,
           NEW j \in 0 .. ChunksTotal(p.plan, p.selected) - 1, i # j, NEW a, NEW b
    PROVE  ChunkOf(p, CursorAt(p, i), a).start # ChunkOf(p, CursorAt(p, j), b).start
  <1> DEFINE h == p.plan.geometry.height
             n == p.plan.geometry.channels
             w == p.plan.geometry.width
             planar == p.plan.storage = "Planar"
             none == p.selected = None
             C(k) == CursorAt(p, k).channel
             R(k) == CursorAt(p, k).row
             Place(k) == IF none THEN C(k) * h + R(k) ELSE R(k)
  <1>1. /\ h \in Nat \ {0} /\ n \in Nat \ {0} /\ w \in Nat \ {0} /\ i \in Nat /\ j \in Nat
    <2>1. ChunksTotal(p.plan, p.selected) \in Nat
      BY PlaceFacts
    <2> QED  BY <2>1, PictureFacts
  <1>2. /\ C(i) \in 0 .. n - 1 /\ R(i) \in 0 .. h - 1 /\ C(j) \in 0 .. n - 1 /\ R(j) \in 0 .. h - 1
    BY CursorFacts
  <1>3. \A k : /\ ~none => R(k) = k
               /\ none /\ planar => C(k) = k \div h /\ R(k) = k % h
               /\ none /\ ~planar => C(k) = k % n /\ R(k) = k \div n
    BY DEF CursorAt
  <1>4. /\ ChunkOf(p, CursorAt(p, i), a).start = w * Place(i)
        /\ ChunkOf(p, CursorAt(p, j), b).start = w * Place(j)
    BY DEF ChunkOf
  <1> HIDE DEF h, n, w, planar, none, C, R
  <1>6. C(i) * h \in Nat /\ C(j) * h \in Nat
    <2>1. C(i) \in Nat /\ C(j) \in Nat /\ h \in Nat
      BY <1>1, <1>2
    <2> QED  BY <2>1
  <1>7. Place(i) \in Nat /\ Place(j) \in Nat
    BY <1>1, <1>2, <1>6
  <1>8. Place(i) # Place(j)
    <2> SUFFICES ASSUME Place(i) = Place(j) PROVE i = j
      OBVIOUS
    <2>1. CASE ~none
      BY <1>3, <2>1
    <2>2. CASE none /\ planar
      <3>1. C(i) * h + R(i) = C(j) * h + R(j)
        BY <2>2
      <3>2. C(i) = C(j) /\ R(i) = R(j)
        BY <1>1, <1>2, <3>1, DivisionIsUnique
      <3>3. i \div h = j \div h /\ i % h = j % h
        BY <1>3, <2>2, <3>2
      <3> QED  BY <1>1, <3>3, SameNumber
    <2>3. CASE none /\ ~planar
      <3>1. C(i) * h + R(i) = C(j) * h + R(j)
        BY <2>3
      <3>2. C(i) = C(j) /\ R(i) = R(j)
        BY <1>1, <1>2, <3>1, DivisionIsUnique
      <3>3. i % n = j % n /\ i \div n = j \div n
        BY <1>3, <2>3, <3>2
      <3> QED  BY <1>1, <3>3, SameNumber
    <2> QED  BY <2>1, <2>2, <2>3
  <1> HIDE DEF Place
  <1>9. w * Place(i) # w * Place(j)
    <2> SUFFICES ASSUME w * Place(i) = w * Place(j) PROVE FALSE
      OBVIOUS
    <2>1. Place(i) * w + 0 = Place(j) * w + 0 /\ 0 \in 0 .. w - 1
      BY <1>1, <1>7
    <2>2. Place(i) = Place(j)
      BY <1>1, <1>7, <2>1, DivisionIsUnique
    <2> QED  BY <1>8, <2>2
  <1> QED  BY <1>4, <1>9

\* A decode of the image sat on, as far as its chunks' places go.
LEMMA HereSelects ==
    ASSUME RInv, pixels_started
    PROVE  LET p == Began(Plan, None, Unopened) IN
           /\ p.plan = Plan /\ p.selected = selected_channel
           /\ Planned(occurrences[current]) /\ Plan = occurrences[current].plan
           /\ Selects(Plan, selected_channel) /\ Show = Pictured(Plan) /\ Show # None
           /\ current # None
  <1>1. PixelRefusal = "ok" /\ Plan # None
    BY DEF RInv, Disciplined
  <1> QED  BY <1>1, CurrentIsPictured, SelectedIsThere, BeganIs

\* The chunk an image promises at a place is its cursor's there.
LEMMA PromisedIsThere ==
    ASSUME NEW o, Planned(o), NEW p, p.plan = o.plan, Selects(p.plan, p.selected),
           NEW n \in DOMAIN ChunksIn(Pictured(p.plan), p.selected)
    PROVE  /\ n - 1 \in 0 .. ChunksTotal(p.plan, p.selected) - 1
           /\ n <= Len(ChunksIn(Pictured(p.plan), p.selected))
           /\ Len(ChunksIn(Pictured(p.plan), p.selected)) \in Nat
           /\ \E row : LET c == CursorAt(p, n - 1) IN
                 /\ ChunksIn(Pictured(p.plan), p.selected)[n] = ChunkOf(p, c, row)
                 /\ ChunkOf(p, c, row) = ChunkFor(Pictured(p.plan), p.selected, <<c.channel, c.row>>)
  <1> DEFINE show == Pictured(p.plan)
             rows == RowsOf(show, p.selected)
             lost == {i \in DOMAIN rows : show.planes[rows[i][1] + 1][rows[i][2] + 1] = None}
             good == IF lost = {} THEN Len(rows) ELSE Min(lost) - 1
             total == ChunksTotal(p.plan, p.selected)
             c == CursorAt(p, n - 1)
  <1>1. /\ total \in Nat \ {0} /\ DOMAIN rows = 1 .. total /\ Len(rows) = total
        /\ \A i \in 0 .. total - 1 : rows[i + 1] = <<CursorAt(p, i).channel, CursorAt(p, i).row>>
    BY RowsAreThere
  <1>2. good <= total /\ good \in Int
    <2>1. CASE lost = {}
      BY <1>1, <2>1
    <2>2. CASE lost # {}
      <3>1. lost \subseteq DOMAIN rows
        OBVIOUS
      <3> HIDE DEF lost, rows, total
      <3>2. lost \subseteq 1 .. total /\ lost \in SUBSET Nat
        BY <1>1, <3>1
      <3>3. Min(lost) \in 1 .. total /\ good = Min(lost) - 1
        BY <2>2, <3>2, MinOf
      <3> HIDE DEF good
      <3> QED  BY <1>1, <3>3 DEF total
    <2> QED  BY <2>1, <2>2
  <1>3. /\ ChunksIn(show, p.selected) = [i \in 1 .. good |-> ChunkFor(show, p.selected, rows[i])]
    BY DEF ChunksIn
  <1> HIDE DEF good, rows, total
  <1>4. n \in 1 .. good /\ ChunksIn(show, p.selected)[n] = ChunkFor(show, p.selected, rows[n])
    BY <1>3
  <1>5. n - 1 \in 0 .. total - 1 /\ (n - 1) + 1 = n
    BY <1>1, <1>2, <1>4
  <1>8. n <= Len(ChunksIn(show, p.selected)) /\ Len(ChunksIn(show, p.selected)) \in Nat
    <2>1. good \in Nat /\ n <= good
      BY <1>2, <1>4
    <2>2. Len(ChunksIn(show, p.selected)) = good
      BY <1>3, <2>1
    <2> QED  BY <2>1, <2>2
  <1>6. rows[n] = <<c.channel, c.row>>
    BY <1>1, <1>5
  <1>7. ChunkFor(show, p.selected, <<c.channel, c.row>>) =
           ChunkOf(p, c, RowShown(p.plan, BlockBytes(p.plan), c.channel, c.row))
    BY <1>5, ChunksAgree DEF total
  <1> QED  BY <1>4, <1>5, <1>6, <1>7, <1>8 DEF total

-----------------------------------------------------------------------------
(* What exactness means for the caller.                                    *)

\* What a decode that is under way is of.
LEMMA UnderwayFacts ==
    ASSUME RInv, pixels_started, ~pixels_failed
    PROVE  /\ pixels # None /\ pixels.plan = Plan /\ pixels.selected = selected_channel
           /\ pixels.chunks_done \in Nat /\ pixels.chunks_total \in Nat
           /\ pixels.stream_row \in Nat /\ pixels.chunks_done <= pixels.chunks_total
           /\ Sits(pixels) /\ Planned(occurrences[current]) /\ Plan = occurrences[current].plan
           /\ Selects(Plan, selected_channel) /\ Show = Pictured(Plan)
           /\ pc \in Filling => Plan.compression # None /\ pixels.whole = None
  <1>1. /\ pixels # None /\ pixels.plan = Plan /\ pixels.selected = selected_channel
        /\ pc \in Filling => Plan.compression # None /\ pixels.whole = None
    BY DEF RInv, Underway, Compressed
  <1>2. Sits(pixels)
    BY <1>1 DEF RInv, PixelsHeld
  <1>3. pixels \in PixelStates(pixels.plan) /\ pixels.chunks_done <= pixels.chunks_total
    BY <1>2 DEF Sits
  <1>4. /\ pixels.chunks_done \in Nat /\ pixels.chunks_total \in Nat /\ pixels.stream_row \in Nat
    BY <1>3 DEF PixelStates
  <1>5. /\ Planned(occurrences[current]) /\ Plan = occurrences[current].plan
        /\ Show = Pictured(Plan) /\ Selects(Plan, selected_channel)
    <2>1. PixelRefusal = "ok" /\ Plan # None
      BY DEF RInv, Disciplined
    <2> QED  BY <2>1, CurrentIsPictured, SelectedIsThere
  <1> QED  BY <1>1, <1>2, <1>3, <1>4, <1>5

\* Whatever was read, dropped, retried or narrowed before, each chunk holds its own row of the
\* image sat on, once, and is of the channel selected.
THEOREM StreamIsAlwaysExact == Spec => []StreamIsExact
  <1>1. RInv /\ ExactInv => StreamIsExact
    <2> SUFFICES ASSUME RInv, ExactInv, stream # <<>>
                 PROVE  /\ current # None /\ Show # None
                        /\ \A n \in DOMAIN stream :
                              \E c \in DOMAIN Show.planes : \E r \in DOMAIN Show.planes[c] :
                                 /\ stream[n] = ChunkFor(Show, selected_channel, <<c - 1, r - 1>>)
                                 /\ selected_channel \in {None, c - 1}
                        /\ \A m, n \in DOMAIN stream : m # n => stream[m].start # stream[n].start
      BY DEF StreamIsExact
    <2> DEFINE o == occurrences[current]
               p == Began(Plan, None, Unopened)
               total == ChunksTotal(p.plan, p.selected)
               C(n) == CursorAt(p, n - 1)
    <2>1. pixels_started
      BY DEF RInv, Disciplined
    <2>2. /\ p.plan = o.plan /\ p.plan = Plan /\ p.selected = selected_channel
          /\ Planned(o) /\ Selects(p.plan, p.selected) /\ Show = Pictured(p.plan)
          /\ Show # None /\ current # None
      BY <2>1, HereSelects
    <2>3. Shows(Plan, selected_channel, stream)
      BY DEF ExactInv, Promised
    <2>4. \A n \in DOMAIN stream :
             /\ n \in DOMAIN ChunksIn(Pictured(p.plan), p.selected)
             /\ stream[n] = ChunksIn(Pictured(p.plan), p.selected)[n]
      BY <2>2, <2>3 DEF Shows
    <2> HIDE DEF p, o
    <2>5. ASSUME NEW n \in DOMAIN stream
          PROVE  /\ n - 1 \in 0 .. total - 1
                 /\ \E row : stream[n] = ChunkOf(p, C(n), row)
                 /\ stream[n] = ChunkFor(Show, selected_channel, <<C(n).channel, C(n).row>>)
      <3>1. n \in DOMAIN ChunksIn(Pictured(p.plan), p.selected)
        BY <2>4
      <3> HIDE DEF C
      <3>2. /\ n - 1 \in 0 .. total - 1
            /\ \E row :
                  /\ ChunksIn(Pictured(p.plan), p.selected)[n] = ChunkOf(p, C(n), row)
                  /\ ChunkOf(p, C(n), row) =
                        ChunkFor(Pictured(p.plan), p.selected, <<C(n).channel, C(n).row>>)
        BY <2>2, <3>1, PromisedIsThere DEF C
      <3> QED  BY <2>2, <2>4, <3>2
    <2>6. ASSUME NEW n \in DOMAIN stream
          PROVE  \E c \in DOMAIN Show.planes : \E r \in DOMAIN Show.planes[c] :
                    /\ stream[n] = ChunkFor(Show, selected_channel, <<c - 1, r - 1>>)
                    /\ selected_channel \in {None, c - 1}
      <3> DEFINE c == C(n).channel + 1
                 r == C(n).row + 1
                 g == o.plan.geometry
      <3>1. n - 1 \in 0 .. total - 1
        BY <2>5
      <3>2. /\ C(n).channel \in 0 .. g.channels - 1 /\ C(n).row \in 0 .. g.height - 1
            /\ selected_channel \in {None, C(n).channel}
        BY <2>2, <3>1, CursorFacts
      <3>3. /\ g.height \in Nat \ {0} /\ g.channels \in Nat \ {0}
            /\ DOMAIN Show.planes = 1 .. g.channels
            /\ \A k \in 1 .. g.channels : DOMAIN Show.planes[k] = 1 .. g.height
        BY <2>2, PictureFacts
      <3> HIDE DEF C, g
      <3>4. /\ c \in 1 .. g.channels /\ r \in 1 .. g.height
            /\ c - 1 = C(n).channel /\ r - 1 = C(n).row
        BY <3>2, <3>3
      <3> HIDE DEF c, r
      <3>5. c \in DOMAIN Show.planes /\ r \in DOMAIN Show.planes[c]
        BY <3>3, <3>4
      <3>6. stream[n] = ChunkFor(Show, selected_channel, <<c - 1, r - 1>>)
        BY <2>5, <3>4
      <3> QED  BY <3>2, <3>4, <3>5, <3>6
    <2>7. ASSUME NEW m \in DOMAIN stream, NEW n \in DOMAIN stream, m # n
          PROVE  stream[m].start # stream[n].start
      <3>1. m - 1 \in 0 .. total - 1 /\ n - 1 \in 0 .. total - 1
        BY <2>5
      <3>2. PICK a : stream[m] = ChunkOf(p, C(m), a)
        BY <2>5
      <3>3. PICK b : stream[n] = ChunkOf(p, C(n), b)
        BY <2>5
      <3>4. DOMAIN stream \subseteq Int
        <4>1. PICK T : stream \in Seq(T)
          BY DEF RInv, Delivered
        <4> QED  BY <4>1
      <3>5. m - 1 # n - 1
        <4>1. m \in Int /\ n \in Int
          BY <3>4
        <4> QED  BY <2>7, <4>1
      <3> DEFINE i == m - 1
                 j == n - 1
      <3>6. i \in 0 .. total - 1 /\ j \in 0 .. total - 1 /\ i # j
        BY <3>1, <3>5
      <3> HIDE DEF i, j, total
      <3>7. ChunkOf(p, CursorAt(p, i), a).start # ChunkOf(p, CursorAt(p, j), b).start
        BY <2>2, <3>6, StartsDiffer DEF total
      <3> QED  BY <3>2, <3>3, <3>7 DEF i, j
    <2> QED  BY <2>2, <2>6, <2>7
  <1> QED  BY <1>1, RInvariance, ExactInvariance, PTL

\* What a cursor that reached the end has given.
LEMMA EndFacts ==
    ASSUME RInv, ExactInv, Ended, pc = "idle", ret.res = "end"
    PROVE  /\ pixels_started /\ ~pixels_failed /\ pc \notin Filling /\ ~Wanting(pixels)
           /\ pixels.chunks_done = ChunksTotal(Plan, selected_channel)
           /\ Len(stream) = ChunksTotal(Plan, selected_channel)
           /\ HoldsItsBlock(pixels)
           /\ pixels.whole = None /\ Plan.compression # None => InStep(pixels, "idle")
  <1>1. pixels_started /\ ~pixels_failed /\ ~Wanting(pixels) /\ pc \notin Filling
    BY DEF Ended, Filling
  <1>2. Stays(pixels, "idle", Len(stream)) /\ "idle" \notin Filling
    BY <1>1 DEF ExactInv, Exactly
  <1>3. /\ pixels.plan = Plan /\ pixels.selected = selected_channel
        /\ pixels.chunks_done \in Nat /\ pixels.chunks_total \in Nat
        /\ pixels.chunks_done <= pixels.chunks_total
    BY <1>1, UnderwayFacts
  <1>4. /\ pixels.chunks_total = ChunksTotal(Plan, selected_channel)
        /\ Len(stream) = Handed(pixels, "idle") /\ HoldsItsBlock(pixels)
        /\ pixels.whole = None /\ Plan.compression # None => InStep(pixels, "idle")
    BY <1>2, <1>3 DEF Stays
  <1>5. pixels.chunks_done = pixels.chunks_total
    BY <1>1, <1>3 DEF Wanting
  <1>6. Len(stream) = pixels.chunks_done
    BY <1>2, <1>4 DEF Handed
  <1> QED  BY <1>1, <1>4, <1>5, <1>6

\* A cursor that ran to its end delivered every row of the selection.
THEOREM EndedImageIsWhole == Spec => []WholeImage
  <1>1. RInv /\ ExactInv /\ Ended => WholeImage
    <2> SUFFICES ASSUME RInv, ExactInv, Ended, pc = "idle", ret.res = "end"
                 PROVE  Len(stream) = Len(RowsOf(Show, selected_channel))
      BY DEF WholeImage
    <2> DEFINE o == occurrences[current]
               p == pixels
    <2>1. pixels_started /\ ~pixels_failed /\ Len(stream) = ChunksTotal(Plan, selected_channel)
      BY EndFacts
    <2>2. /\ p.plan = o.plan /\ p.plan = Plan /\ p.selected = selected_channel
          /\ Planned(o) /\ Selects(p.plan, p.selected) /\ Show = Pictured(p.plan)
      BY <2>1, UnderwayFacts
    <2> HIDE DEF o, p
    <2>3. Len(RowsOf(Pictured(p.plan), p.selected)) = ChunksTotal(p.plan, p.selected)
      BY <2>2, RowsAreThere
    <2> QED  BY <2>1, <2>2, <2>3
  <1> QED  BY <1>1, RInvariance, ExactInvariance, EndsAndCounts, PTL

\* The rows of a block are as many as the bytes its image implies make.
LEMMA RowsFillTheBlock ==
    ASSUME RInv, pixels_started
    PROVE  /\ RowsIn(Plan) \in Nat /\ RowLength(Plan) \in Nat \ {0}
           /\ Plan.implied_bytes \div RowLength(Plan) = RowsIn(Plan)
  <1> DEFINE rows == RowsIn(Plan)
             size == RowLength(Plan)
             bytes == Plan.implied_bytes
  <1>1. Sized(Plan)
    BY DEF RInv, Disciplined, Fits
  <1>2. rows \in Nat /\ size \in Nat \ {0} /\ bytes = rows * size
    BY <1>1 DEF Sized
  <1> HIDE DEF rows, size, bytes
  <1> DEFINE q == bytes \div size
             r == bytes % size
  <1>3. size \in Nat \ {0} /\ bytes \in Nat
    BY <1>2
  <1>4. q \in Nat /\ r \in 0 .. size - 1 /\ bytes = q * size + r
    BY <1>3, Division
  <1> HIDE DEF q, r
  <1>5. q * size + r = rows * size + 0 /\ 0 \in 0 .. size - 1
    BY <1>2, <1>4
  <1>6. q = rows
    BY <1>2, <1>4, <1>5, DivisionIsUnique
  <1> QED  BY <1>2, <1>6 DEF q, rows, size, bytes

\* A cursor that reached the end of a block it read all of has had every pair of it checked;
\* one narrowed to an earlier channel is refused nothing it did not ask for.
THEOREM EndsAreVerified == Spec => []EndMeansVerified
  <1>1. RInv /\ ExactInv /\ Ended => EndMeansVerified
    <2> SUFFICES ASSUME RInv, ExactInv, Ended PROVE EndMeansVerified
      OBVIOUS
    <2>1. ASSUME pc = "idle", ret.res = "end",
                 Show.storage = "Normal" \/ selected_channel \in {None, Len(Show.planes) - 1}
          PROVE  Show.sound
      <3> DEFINE o == occurrences[current]
                 p == pixels
                 i == p.chunks_done - 1
                 total == ChunksTotal(p.plan, p.selected)
      <3>1. /\ pixels_started /\ ~pixels_failed /\ ~Wanting(p)
            /\ p.chunks_done = ChunksTotal(Plan, selected_channel)
            /\ HoldsItsBlock(p)
            /\ p.whole = None /\ Plan.compression # None => InStep(p, "idle")
        BY <2>1, EndFacts
      <3>2. /\ p.plan = o.plan /\ p.plan = Plan /\ p.selected = selected_channel
            /\ Planned(o) /\ Selects(p.plan, p.selected) /\ Show = Pictured(p.plan)
            /\ p.stream_row \in Nat
        BY <3>1, UnderwayFacts
      <3> HIDE DEF p, o
      <3>3. CASE p.whole # None
        <4>1. Pictured(p.plan).sound
          BY <3>1, <3>3 DEF HoldsItsBlock
        <4> QED  BY <3>2, <4>1
      <3>4. CASE Plan.compression = None
        BY <3>2, <3>4 DEF Pictured
      <3>5. CASE p.whole = None /\ Plan.compression # None
        <4>1. /\ total \in Nat \ {0} /\ RowsIn(p.plan) \in Nat
              /\ Show.storage = p.plan.storage /\ Len(Show.planes) = p.plan.geometry.channels
          <5>1. RowsIn(p.plan) \in Nat
            BY <3>1, <3>2, RowsFillTheBlock
          <5>2. Show.storage = p.plan.storage /\ Len(Show.planes) = p.plan.geometry.channels
            BY <3>2, PictureFacts
          <5> QED  BY <3>2, <5>1, <5>2, PlaceFacts
        <4>2. p.chunks_done = total
          BY <3>1, <3>2
        <4> HIDE DEF total
        <4>3. i \in 0 .. total - 1 /\ i + 1 = total /\ p.chunks_done # 0
          BY <4>1, <4>2
        <4> HIDE DEF i
        <4>4. LineOf(p, i) + 1 = RowsIn(p.plan)
          <5>1. p.plan.storage = "Normal" \/ p.selected \in {None, p.plan.geometry.channels - 1}
            BY <2>1, <3>2, <4>1
          <5> QED  BY <3>2, <4>3, <5>1, LinesClimb DEF total
        <4>5. LineOf(p, i) \in Nat
          <5>1. CursorAt(p, i).input_row \in 0 .. RowsIn(p.plan) - 1
            BY <3>2, <4>3, CursorFacts DEF total
          <5> QED  BY <4>1, <5>1 DEF LineOf
        <4>6. LineOf(p, i) < p.stream_row /\ p.stream_row <= LineOf(p, i) + 1
          BY <3>1, <3>5, <4>3 DEF InStep, i
        <4>7. p.stream_row = RowsIn(p.plan)
          BY <3>2, <4>4, <4>5, <4>6
        <4>8. Pictured(p.plan).sound
          BY <3>1, <3>5, <4>7 DEF InStep, Filling
        <4> QED  BY <3>2, <4>8
      <3> QED  BY <3>3, <3>4, <3>5
    <2>2. ASSUME pc \in {"end_pair", "open_pair", "finish"}, ~MoreChunks
          PROVE  pixels.stream_row = pixels.plan.implied_bytes \div RowBytes
      <3>1. pc \in Filling /\ pixels_started /\ ~pixels_failed
        BY <2>2 DEF Filling, RInv, Disciplined, Chunking
      <3>2. /\ pixels # None /\ pixels.plan = Plan /\ Plan.compression # None
            /\ pixels.whole = None
        BY <3>1, UnderwayFacts
      <3>3. ~Wanting(pixels)
        BY <2>2, <3>2 DEF MoreChunks, Wanting
      <3>4. Stays(pixels, pc, Len(stream))
        BY <3>1 DEF ExactInv, Exactly
      <3>5. pixels.stream_row = RowsIn(pixels.plan)
        BY <3>1, <3>2, <3>3, <3>4 DEF Stays, InStep
      <3> QED  BY <3>1, <3>2, <3>5, RowsFillTheBlock DEF RowBytes
    <2> QED  BY <2>1, <2>2 DEF EndMeansVerified
  <1> QED  BY <1>1, RInvariance, ExactInvariance, EndsAndCounts, PTL

-----------------------------------------------------------------------------
(* The refinement: what each step of the session does to the promise.      *)

\* The walk over the occurrences has ended.
Over == current = None /\ next > 0

\* The promise sees nothing of a step that leaves these alone.
LEMMA PromiseStutters ==
    ASSUME UNCHANGED <<unit, advances, current, next, selected_channel, phase, pixels_failed, stream>>
    PROVE  UNCHANGED Session!vars
  BY DEF Session!vars

\* Going to the next image clears what the one before left: a step of the promise.
LEMMA PromiseLeaves ==
    ASSUME UNCHANGED <<unit, advances, current, next>>, selected_channel' = None,
           phase' = "header", pixels_failed' = FALSE, stream' = <<>>
    PROVE  Session!Next
  BY DEF Session!Next, Session!Leave

\* An occurrence advanced to is one frame further, with frames left to advance to.
LEMMA PromiseAdvances ==
    ASSUME UNCHANGED <<unit, selected_channel, phase, pixels_failed, stream>>,
           advances < Len(Frames[unit]), advances' = advances + 1,
           ~Over, ~Over', phase = "header"
    PROVE  Session!Next
  BY DEF Session!Next, Session!Advance, Over

\* Past the last occurrence is the end of the frames.
LEMMA PromiseEnds ==
    ASSUME UNCHANGED <<unit, advances, selected_channel, phase, pixels_failed, stream>>,
           ~Over, Over', phase = "header"
    PROVE  Session!Next
  BY DEF Session!Next, Session!End, Over

\* A channel is selected outside a pixel phase.
LEMMA PromiseSelects ==
    ASSUME UNCHANGED <<unit, advances, current, next, phase, pixels_failed, stream>>,
           selected_channel' \in Nat, phase # "pixel"
    PROVE  Session!Next
  BY DEF Session!Next, Session!Select

\* A cursor opens with nothing delivered.
LEMMA PromiseOpens ==
    ASSUME UNCHANGED <<unit, advances, current, next, selected_channel>>,
           phase' = "pixel", pixels_failed' \in BOOLEAN, stream' = <<>>
    PROVE  Session!Next
  BY DEF Session!Next, Session!Open

\* A cursor fails with what it delivered as it was.
LEMMA PromiseFails ==
    ASSUME UNCHANGED <<unit, advances, current, next, selected_channel, phase, stream>>,
           phase = "pixel", pixels_failed = FALSE, pixels_failed' = TRUE
    PROVE  Session!Next
  BY DEF Session!Next, Session!Fail

\* A chunk delivered is the next of the frame under the selection.
LEMMA PromiseDelivers ==
    ASSUME UNCHANGED <<unit, advances, current, next, selected_channel, phase, pixels_failed>>,
           phase = "pixel", pixels_failed = FALSE, advances > 0,
           selected_channel \in DOMAIN Frames[unit][advances],
           Len(stream) < Len(Frames[unit][advances][selected_channel]),
           stream' = Append(stream, Frames[unit][advances][selected_channel][Len(stream) + 1])
    PROVE  Session!Next
  BY DEF Session!Next, Session!Deliver

\* The frames of a unit are as many as what is said of its occurrences.
LEMMA FramesAreShows ==
    ASSUME unit \in Units
    PROVE  /\ Len(Frames[unit]) = Len(unit.shows) /\ Len(unit.shows) \in Nat
           /\ DOMAIN unit.shows = 1 .. Len(unit.shows)
           /\ DOMAIN Construct(unit).out \subseteq DOMAIN unit.shows
           /\ \A i \in DOMAIN unit.shows :
                 unit.shows[i] # None =>
                    Frames[unit][i] =
                       [s \in Option(0 .. Len(unit.shows[i].planes) - 1) |->
                           ChunksIn(unit.shows[i], s)]
  <1>1. /\ Len(unit.shows) \in Nat /\ DOMAIN unit.shows = 1 .. Len(unit.shows)
        /\ DOMAIN Construct(unit).out \subseteq DOMAIN unit.shows
    BY ShowsAssumption
  <1> DEFINE n == Len(unit.shows)
             F(i) == IF unit.shows[i] = None THEN <<>>
                     ELSE [s \in Option(0 .. Len(unit.shows[i].planes) - 1) |->
                              ChunksIn(unit.shows[i], s)]
  <1>2. Frames[unit] = [i \in 1 .. n |-> F(i)]
    BY <1>1 DEF Frames, FramesIn
  <1>3. n \in Nat
    BY <1>1
  <1> HIDE DEF n, F
  <1>4. Len(Frames[unit]) = n /\ \A i \in 1 .. n : Frames[unit][i] = F(i)
    BY <1>2, <1>3
  <1> QED  BY <1>1, <1>4 DEF n, F

\* The frame the promise has its caller sit on is the current image: its chunks, for the
\* selections it has.
LEMMA FrameOfCurrent ==
    ASSUME RInv, Counted, pixels_started
    PROVE  /\ advances > 0 /\ advances \in Nat
           /\ selected_channel \in DOMAIN Frames[unit][advances]
           /\ Frames[unit][advances][selected_channel] = ChunksIn(Pictured(Plan), selected_channel)
  <1> DEFINE o == occurrences[current]
  <1>1. /\ current \in DOMAIN occurrences /\ current # None /\ Show # None
        /\ Show = Pictured(Plan) /\ Planned(o) /\ Plan = o.plan
    BY CurrentIsPictured
  <1>2. unit \in Units /\ current \in Nat /\ current \in 1 .. Len(occurrences)
    BY <1>1, GroundFacts DEF RInv
  <1>3. advances = current /\ current > 0
    BY <1>1, <1>2 DEF Counted
  <1>4. current \in DOMAIN unit.shows
    <2>1. occurrences = Construct(unit).out
      BY <1>1 DEF Grounded, RInv
    <2> QED  BY <1>1, <1>2, <2>1, FramesAreShows
  <1>5. Frames[unit][current] =
           [s \in Option(0 .. Len(Show.planes) - 1) |-> ChunksIn(Show, s)]
    BY <1>1, <1>2, <1>4, FramesAreShows DEF Show
  <1>6. selected_channel \in Option(0 .. Len(Show.planes) - 1)
    <2>1. Selects(Plan, selected_channel)
      BY HereSelects
    <2> HIDE DEF o
    <2>2. Len(Show.planes) = Plan.geometry.channels
      BY <1>1, PictureFacts
    <2> QED  BY <2>1, <2>2 DEF Selects, Option
  <1> HIDE DEF o
  <1> QED  BY <1>1, <1>2, <1>3, <1>5, <1>6

\* What each public call is to the promise.
LEMMA CallsKeepThePromise ==
    ASSUME RInv,
           NEW valid, NEW k \in 0 .. MaxChannel, NEW driver, NEW refusal,
           \/ Calls(NextImage) \/ Calls(SetBounds(valid)) \/ Calls(SelectChannel(k))
           \/ Calls(Chunks) \/ Calls(DropChunks) \/ Calls(NextChunk)
           \/ Calls(ForEachChunk) \/ Calls(Decodes(driver, refusal))
    PROVE  [Session!Next]_(Session!vars)
  <1>1. /\ phase \in {"header", "pixel"} /\ pixels_failed \in BOOLEAN
        /\ cursor # "none" => phase = "pixel"
    BY DEF RInv, Disciplined
  <1>2. UNCHANGED <<unit, current, next>>
    BY DEF Calls, decoderVars
  <1>3. CASE Calls(NextImage)
    BY <1>2, <1>3, PromiseStutters, PromiseLeaves DEF Calls, NextImage, ResetForNextImage, readerVars
  <1>4. CASE Calls(SetBounds(valid))
    BY <1>2, <1>4, PromiseStutters DEF Calls, SetBounds, Answers, readerVars
  <1>5. CASE Calls(SelectChannel(k))
    <2>1. k \in Nat
      BY MaxChannelAssumption
    <2> QED  BY <1>2, <1>5, <2>1, PromiseStutters, PromiseSelects
                DEF Calls, SelectChannel, Answers, readerVars
  <1>6. CASE Calls(Chunks)
    BY <1>2, <1>6, PromiseOpens DEF Calls, Chunks, Opens
  <1>7. CASE Calls(DropChunks)
    BY <1>2, <1>7, PromiseStutters DEF Calls, DropChunks, readerVars
  <1>8. CASE Calls(NextChunk)
    <2>1. CASE pixels_failed \/ pixels_started \/ PixelRefusal = "ok"
      <3>1. UNCHANGED <<readerVars, stream>>
        BY <1>8, <2>1 DEF Calls, NextChunk, Answers
      <3> QED  BY <1>2, <3>1, PromiseStutters DEF readerVars
    <2>2. CASE ~pixels_failed /\ ~pixels_started /\ PixelRefusal # "ok"
      <3>1. phase = "pixel" /\ pixels_failed = FALSE /\ ChunkFails(PixelRefusal)
        BY <1>1, <1>8, <2>2 DEF Calls, NextChunk
      <3> QED  BY <1>2, <3>1, PromiseFails DEF ChunkFails
    <2> QED  BY <2>1, <2>2
  <1>9. CASE Calls(ForEachChunk)
    BY <1>2, <1>9, PromiseOpens DEF Calls, ForEachChunk, Opens
  <1>10. CASE Calls(Decodes(driver, refusal))
    BY <1>2, <1>10, PromiseStutters, PromiseOpens DEF Calls, Decodes, Answers, Opens, readerVars
  <1> QED  BY <1>3, <1>4, <1>5, <1>6, <1>7, <1>8, <1>9, <1>10

\* What each step of the walk is: a position sat on is an advance, one past the last the end.
LEMMA WalkKeepsThePromise ==
    ASSUME RInv, Counted, Build \/ Abandon \/ AfterTheLast \/ ToTheNext
    PROVE  [Session!Next]_(Session!vars)
  <1>1. /\ Len(occurrences) \in Nat /\ next \in 0 .. Len(occurrences) /\ unit \in Units
        /\ DOMAIN occurrences = 1 .. Len(occurrences)
    BY GroundFacts DEF RInv, Grounded
  <1>2. CASE Build
    BY <1>2, PromiseStutters DEF Build, readerVars
  <1>3. CASE Abandon
    BY <1>3, PromiseStutters, PromiseLeaves
       DEF Abandon, AbandonReturns, ResetForNextImage, Answers, walkVars, readerVars
  <1>4. CASE AfterTheLast
    <2>1. /\ UNCHANGED <<unit, advances, next, selected_channel, phase, pixels_failed, stream>>
          /\ current' = None /\ phase = "header"
      BY <1>4 DEF AfterTheLast, NextImageReturns, Counted
    <2>2. CASE Over \/ ~(next > 0)
      BY <2>1, <2>2 DEF Over, Session!vars
    <2>3. CASE ~Over /\ next > 0
      <3>1. Over'
        BY <2>1, <2>3 DEF Over
      <3> QED  BY <2>1, <2>3, <3>1, PromiseEnds
    <2> QED  BY <2>2, <2>3
  <1>5. CASE ToTheNext
    <2>1. /\ next < Len(occurrences) /\ current' = next + 1 /\ advances' = advances + 1
          /\ UNCHANGED <<unit, selected_channel, phase, pixels_failed, stream>>
          /\ phase = "header" /\ advances = next
      BY <1>5 DEF ToTheNext, NextImageReturns, Counted
    <2>2. next + 1 # None /\ next + 1 \in DOMAIN occurrences
      BY <1>1, <2>1, NoneAssumption
    <2>3. occurrences = Construct(unit).out
      BY <2>2 DEF Grounded, RInv
    <2>4. next + 1 \in 1 .. Len(unit.shows) /\ Len(Frames[unit]) = Len(unit.shows)
          /\ Len(unit.shows) \in Nat
      BY <1>1, <2>2, <2>3, FramesAreShows
    <2>5. advances < Len(Frames[unit])
      BY <1>1, <2>1, <2>4
    <2>6. ~Over
      <3>1. current = None /\ next # 0 => next = Len(occurrences)
        BY DEF Counted
      <3>2. next < Len(occurrences)
        BY <2>1
      <3>3. next # Len(occurrences) /\ (next > 0 => next # 0)
        <4> DEFINE total == Len(occurrences)
        <4>1. total \in Nat /\ next \in 0 .. total /\ next < total
          BY <1>1, <3>2
        <4> HIDE DEF total
        <4>2. next # total /\ (next > 0 => next # 0)
          BY <4>1
        <4> QED  BY <4>2 DEF total
      <3> QED  BY <3>1, <3>3 DEF Over
    <2>7. ~Over'
      BY <2>1, <2>2 DEF Over
    <2> QED  BY <2>1, <2>5, <2>6, <2>7, PromiseAdvances
  <1> QED  BY <1>2, <1>3, <1>4, <1>5

\* A chunk handed over is the next one promised.
LEMMA ChunksKeepThePromise ==
    ASSUME RInv, ExactInv', Counted, pc \in Chunking, UNCHANGED walkVars,
           NEW chunk, ChunkReturns(chunk)
    PROVE  Session!Next
  <1> DEFINE chunks == ChunksIn(Pictured(Plan), selected_channel)
             n == Len(stream) + 1
  <1>1. pixels_started /\ pixels_failed = FALSE /\ phase = "pixel"
    BY DEF RInv, Disciplined
  <1>2. /\ UNCHANGED <<unit, advances, current, next, selected_channel, phase, pixels_failed>>
        /\ Plan' = Plan /\ stream' = Append(stream, chunk)
    BY DEF ChunkReturns, walkVars, readerVars, Plan
  <1>3. PICK T : stream \in Seq(T)
    BY DEF RInv, Delivered
  <1>4. /\ n \in DOMAIN stream' /\ stream'[n] = chunk /\ stream' # <<>> /\ Len(stream) \in Nat
    <2>1. stream \in Seq(T \cup {chunk}) /\ chunk \in T \cup {chunk}
      BY <1>3
    <2> QED  BY <1>2, <2>1
  <1>5. Shows(Plan, selected_channel, stream')
    BY <1>2, <1>4 DEF ExactInv, Promised
  <1>6. n \in DOMAIN chunks /\ chunk = chunks[n]
    BY <1>4, <1>5 DEF Shows
  <1>7. n <= Len(chunks) /\ Len(chunks) \in Nat
    <2> DEFINE o == occurrences[current]
               p == Began(Plan, None, Unopened)
    <2>1. /\ p.plan = o.plan /\ p.plan = Plan /\ p.selected = selected_channel
          /\ Planned(o) /\ Selects(p.plan, p.selected)
      BY <1>1, HereSelects
    <2> HIDE DEF o, p, n
    <2> QED  BY <1>6, <2>1, PromisedIsThere
  <1>8. Len(stream) < Len(chunks)
    <2> HIDE DEF chunks
    <2> QED  BY <1>4, <1>7
  <1>9. /\ advances > 0 /\ selected_channel \in DOMAIN Frames[unit][advances]
        /\ Frames[unit][advances][selected_channel] = chunks
    BY <1>1, FrameOfCurrent
  <1> HIDE DEF chunks
  <1> QED  BY <1>1, <1>2, <1>6, <1>8, <1>9, PromiseDelivers

\* What each step within an image is: nothing the caller sees, a failure, or the next chunk.
LEMMA PixelsKeepThePromise ==
    ASSUME RInv, ExactInv', Counted,
           \/ BeginRefused \/ BeginStream \/ BeginWalk \/ BeginWhole \/ FinishImage \/ ReadRow
           \/ WantRow \/ DeliverRow \/ FillRow \/ LeavePair \/ EndPair \/ OpenPair \/ Finish
    PROVE  [Session!Next]_(Session!vars)
  <1>1. UNCHANGED walkVars
    BY DEF BeginRefused, BeginStream, BeginWalk, BeginWhole, FinishImage, ReadRow, WantRow,
           DeliverRow, FillRow, LeavePair, EndPair, OpenPair, Finish, Walks, walkVars, decoderVars
  <1>2. pc \in Beginning \cup Chunking /\ phase = "pixel" /\ pixels_failed = FALSE
    <2>1. pc \in Beginning \cup Chunking
      BY DEF BeginRefused, BeginStream, BeginWalk, BeginWhole, FinishImage, ReadRow, WantRow,
             DeliverRow, FillRow, LeavePair, EndPair, OpenPair, Finish, Beginning, Chunking, Filling
    <2> QED  BY <2>1 DEF RInv, Disciplined
  <1>3. ASSUME NEW res, ChunkFails(res) PROVE Session!Next
    BY <1>1, <1>2, <1>3, PromiseFails DEF ChunkFails, walkVars
  <1>4. ASSUME UNCHANGED <<readerVars, stream>> PROVE [Session!Next]_(Session!vars)
    BY <1>1, <1>4, PromiseStutters DEF walkVars, readerVars
  <1>5. ASSUME NEW chunk, ChunkReturns(chunk), pc \in Chunking PROVE Session!Next
    BY <1>1, <1>5, ChunksKeepThePromise
  <1>6. ASSUME NEW res, NEW q, Begins(res, q) PROVE [Session!Next]_(Session!vars)
    <2>1. CASE res # "ok"
      BY <1>3, <1>6, <2>1 DEF Begins, BeginPixelsReturns
    <2>2. CASE res = "ok"
      BY <1>1, <1>6, <2>2, PromiseStutters DEF Begins, BeginPixelsReturns, walkVars
    <2> QED  BY <2>1, <2>2
  <1>7. CASE BeginRefused \/ BeginStream \/ BeginWalk \/ BeginWhole
    <2>1. (\E res, q : Begins(res, q)) \/ UNCHANGED <<readerVars, stream>>
      BY <1>7 DEF BeginRefused, BeginStream, BeginWalk, BeginWhole
    <2> QED  BY <1>4, <1>6, <2>1
  <1>8. CASE FinishImage \/ WantRow \/ LeavePair
    BY <1>4, <1>8 DEF FinishImage, ImageEnds, WantRow, LeavePair
  <1>9. CASE ReadRow \/ DeliverRow
    <2>1. pc \in Chunking
      BY <1>9 DEF ReadRow, DeliverRow, Chunking
    <2>2. (\E res : ChunkFails(res)) \/ (\E p : Delivers(p))
      BY <1>9 DEF ReadRow, DeliverRow
    <2>3. ASSUME NEW p, Delivers(p) PROVE [Session!Next]_(Session!vars)
      <3>1. \/ \E res : ChunkFails(res)
            \/ \E chunk : ChunkReturns(chunk)
            \/ UNCHANGED <<readerVars, stream>>
        BY <2>3 DEF Delivers
      <3> QED  BY <1>3, <1>4, <1>5, <2>1, <3>1
    <2> QED  BY <1>3, <2>2, <2>3
  <1>10. CASE FillRow \/ EndPair \/ OpenPair
    <2>1. \E r, point : Walks(r, point)
      BY <1>10, Zenon DEF FillRow, EndPair, OpenPair
    <2> QED  BY <1>3, <1>4, <2>1 DEF Walks
  <1>11. CASE Finish
    <2>1. pc \in Chunking
      BY <1>11 DEF Finish, Chunking, Filling
    <2>2. (\E res : ChunkFails(res)) \/ (\E chunk : ChunkReturns(chunk))
      BY <1>11 DEF Finish
    <2> QED  BY <1>3, <1>5, <2>1, <2>2
  <1> QED  BY <1>7, <1>8, <1>9, <1>10, <1>11

\* The XISF reader keeps the promise: every session over an XISF source is one of FrameSession's,
\* frame for frame and chunk for chunk.
THEOREM ReaderKeepsThePromise == Spec => KeepsThePromise
  <1>1. Init => Session!Init
    BY DEF Init, Session!Init
  <1>2. ASSUME RInv, ExactInv', Counted, [Next]_vars
        PROVE  [Session!Next]_(Session!vars)
    <2>1. 0 \in 0 .. MaxChannel
      BY MaxChannelAssumption
    <2>2. CASE \/ Calls(NextImage) \/ Calls(Chunks) \/ Calls(DropChunks) \/ Calls(NextChunk)
               \/ Calls(ForEachChunk) \/ \E valid \in BOOLEAN : Calls(SetBounds(valid))
      BY <1>2, <2>1, <2>2, CallsKeepThePromise
    <2>3. CASE \E k \in 0 .. MaxChannel : Calls(SelectChannel(k))
      BY <1>2, <2>3, CallsKeepThePromise
    <2>4. CASE \/ \E len \in Destinations, variant \in BOOLEAN : Calls(ReadSamples(len, variant))
               \/ \E len \in Destinations : Calls(ReadImage(len))
      <3>1. PICK driver, refusal : Calls(Decodes(driver, refusal))
        BY <2>4 DEF ReadSamples, ReadImage
      <3> QED  BY <1>2, <2>1, <3>1, CallsKeepThePromise
    <2>5. CASE DecoderStep
      BY <1>2, <2>5, WalkKeepsThePromise, PixelsKeepThePromise DEF DecoderStep
    <2>6. CASE Refused \/ UNCHANGED vars
      BY <2>6, PromiseStutters DEF Refused, vars, readerVars, callVars, decoderVars
    <2> QED  BY <1>2, <2>2, <2>3, <2>4, <2>5, <2>6 DEF Next
  <1>3. RInv /\ ExactInv' /\ Counted /\ [Next]_vars => [Session!Next]_(Session!vars)
    BY <1>2
  <1> QED  BY <1>1, <1>3, RInvariance, ExactInvariance, EndsAndCounts, PTL
           DEF Spec, KeepsThePromise, Session!Spec
=============================================================================
