-------------------------- MODULE BlockStreamProofs --------------------------
(***************************************************************************)
(* A compressed block of any pairs, streamed in rows of any length from a  *)
(* source of any length that may fail anywhere: the rows are the block's   *)
(* own bytes, and the stream ends well only over a source that holds what  *)
(* they were decoded from.                                                 *)
(***************************************************************************)
EXTENDS BlockStream, XisfBlockProofs

-----------------------------------------------------------------------------
(* Why a walk fails.                                                       *)

\* A source that holds the whole of a block which no cap stops.
Calm(p) ==
    /\ Uncapped(p) /\ length >= p.location.position + p.location.size
    /\ p.location.position + p.location.size \in U
    /\ seekable => Origin + length \in U

\* A cursor at `at' is in the block and not past what walk w reads next.
InPlace(p, w, at) ==
    /\ p.location.position <= at /\ at <= w.next_at
    /\ w.index # 0 => at <= w.stored_at

\* The walk goes on in its place, its source failed, or it refused the first pair that holds
\* nothing for what that pair is.
Blamed(p, r) ==
    /\ r.res = "ok" => InPlace(p, r.walk, r.pos)
    /\ r.res \notin {"ok", "Io"} => \E i : FirstBad(p, i) /\ r.res = Refusal(p, i)

\* A read of the whole of what a source holds fails as the source does.
LEMMA CalmReadExact ==
    ASSUME SourceType, NEW at \in Nat, NEW n \in Nat, at + n <= length, NEW o \in ReadExact(at, n)
    PROVE  o.res \in {"ok", "Io"}
  <1>1. \A r, q : Outcome(r, q).res = r
    BY DEF Outcome
  <1>2. o = Outcome("ok", at + n) \/ \E q : o = Outcome("Io", q)
    BY DEF ReadExact, IoWhileReading
  <1> QED  BY <1>1, <1>2

\* A move forward within the block fails as the source does.
LEMMA CalmSeek ==
    ASSUME SourceType, NEW p, ConformingPlan(p), Calm(p), NEW at \in Nat,
           p.location.position <= pos, pos <= at, at <= p.location.position + p.location.size,
           NEW o \in SeekTo(at)
    PROVE  o.res \in {"ok", "Io"}
  <1>1. \A r, q : Outcome(r, q).res = r
    BY DEF Outcome
  <1>2. /\ pos \in Nat /\ length \in Nat /\ Limits.skipped_block_bytes \in Nat /\ Origin \in Nat
        /\ p.location.position \in Nat /\ p.location.size \in Nat
        /\ p.location.size <= Limits.skipped_block_bytes
        /\ p.location.position + p.location.size <= length
    <2>1. pos \in Nat /\ length \in Nat /\ Limits.skipped_block_bytes \in Nat /\ Origin \in Nat
      BY LimitsAssumption, OriginAssumption DEF SourceType
    <2>2. p.location.position \in Nat /\ p.location.size \in Nat
      BY DEF ConformingPlan
    <2>3. p.location.size <= Limits.skipped_block_bytes
      BY DEF Calm, Uncapped
    <2>4. length >= p.location.position + p.location.size
      BY DEF Calm
    <2>5. p.location.position + p.location.size <= length
      BY <2>1, <2>2, <2>4
    <2> QED  BY <2>1, <2>2, <2>3, <2>5
  <1> DEFINE low == p.location.position
             size == p.location.size
             cap == Limits.skipped_block_bytes
  <1>3. /\ low \in Nat /\ size \in Nat /\ cap \in Nat /\ size <= cap /\ low + size <= length
        /\ low <= pos /\ pos <= at /\ at <= low + size
    BY <1>2
  <1> HIDE DEF low, size, cap
  <1>4. at - pos \in Nat /\ at - pos <= cap /\ pos + (at - pos) <= length /\ at <= length
    BY <1>2, <1>3
  <1>5. CASE seekable
    <2>1. o \in SeekAbsolute(at)
      BY <1>5 DEF SeekTo
    <2>2. Origin + length \in U
      BY <1>5 DEF Calm
    <2>3. CheckedAdd(Origin, at) # None
      <3>1. Origin + at \in U
        BY <1>2, <1>4, <2>2, MaxUAssumption DEF U
      <3>2. Origin # None /\ at # None /\ Origin + at # None
        BY <1>2, NoneAssumption
      <3> QED  BY <3>1, <3>2 DEF CheckedAdd, Fit
    <2>4. \/ o = Outcome("ok", pos) \/ o = Outcome("ok", at) \/ o = Outcome("Io", pos)
      BY <2>1, <2>3 DEF SeekAbsolute
    <2> QED  BY <1>1, <2>4
  <1>6. CASE ~seekable
    <2>1. o \in SkipByReading(at - pos)
      BY <1>2, <1>3, <1>6 DEF SeekTo
    <2>2. o = Outcome("ok", pos) \/ o \in ReadExact(pos, at - pos)
      <3>1. ~ (at - pos > Limits.skipped_block_bytes)
        BY <1>2, <1>4 DEF cap
      <3> QED  BY <2>1, <3>1 DEF SkipByReading
    <2>3. ASSUME o \in ReadExact(pos, at - pos) PROVE o.res \in {"ok", "Io"}
      BY <1>2, <1>4, <2>3, CalmReadExact
    <2> QED  BY <1>1, <2>2, <2>3
  <1> QED  BY <1>5, <1>6

\* The stored bytes of a walk in its place are there to read, and leave it in its place.
LEMMA CalmRead ==
    ASSUME SourceType, NEW p, ConformingPlan(p), Calm(p), NEW w \in WalkType, w.index # 0,
           InPlace(p, w, pos), w.stored_at + w.stored_left = w.next_at,
           w.next_at <= p.location.position + p.location.size,
           NEW n \in 0 .. w.stored_left, NEW r \in ReadStored(w, n)
    PROVE  r.res \in {"ok", "Io"} /\ (r.res = "ok" => InPlace(p, r.walk, r.pos))
  <1>1. PICK o \in IF n = 0 THEN {Outcome("ok", pos)} ELSE ReadAt(w.stored_at, n) :
                r = IF o.res # "ok" THEN Result(o.res, o.pos, w, <<>>)
                    ELSE Result("ok", o.pos, Drawn(w, n), FileBytes(w.stored_at, n))
    BY DEF ReadStored, Drawn
  <1> DEFINE low == p.location.position
             size == p.location.size
             from == w.stored_at
             left == w.stored_left
             end == w.next_at
             v == Drawn(w, n)
  <1>2. /\ pos \in Nat /\ length \in Nat /\ low \in Nat /\ size \in Nat /\ n \in Nat
        /\ from \in Nat /\ left \in Nat /\ end \in Nat /\ n <= left
        /\ low <= pos /\ pos <= from /\ from + left = end /\ end <= low + size
        /\ length >= low + size
    <2>1. pos \in Nat /\ length \in Nat /\ low \in Nat /\ size \in Nat
      BY DEF SourceType, ConformingPlan
    <2>2. from \in Nat /\ left \in Nat /\ end \in Nat /\ n \in Nat /\ n <= left
      BY DEF WalkType
    <2>3. low <= pos /\ pos <= from
      BY DEF InPlace
    <2>4. length >= low + size
      BY DEF Calm
    <2> QED  BY <2>1, <2>2, <2>3, <2>4
  <1>3. v.index = w.index /\ v.stored_at = from + n /\ v.next_at = end
    BY DEF Drawn, WalkType
  <1>4. o.res \in {"ok", "Io"} /\ (o.res = "ok" => o.pos = IF n = 0 THEN pos ELSE from + n)
    <2>1. CASE n = 0
      BY <1>1, <2>1 DEF Outcome
    <2>2. CASE n # 0
      <3>1. o \in ReadAt(from, n)
        BY <1>1, <2>2
      <3>2. PICK s \in SeekTo(from) : o \in IF s.res = "ok" THEN ReadExact(s.pos, n) ELSE {s}
        BY <3>1 DEF ReadAt
      <3>3. s.res \in {"ok", "Io"}
        <4> HIDE DEF left, end
        <4>1. pos <= from /\ from <= low + size /\ low <= pos /\ from \in Nat
          <5> HIDE DEF low, size, from
          <5> QED  BY <1>2
        <4> QED  BY <4>1, CalmSeek
      <3>4. s.pos = from \/ s.res # "ok"
        BY <1>2, SeekLands DEF Lands
      <3>5. ASSUME s.res = "ok" PROVE o.res \in {"ok", "Io"}
        <4>1. o \in ReadExact(from, n)
          BY <3>2, <3>4, <3>5
        <4>2. from + n <= length
          <5> HIDE DEF low, size, from, left, end
          <5> QED  BY <1>2
        <4> QED  BY <1>2, <4>1, <4>2, CalmReadExact
      <3>6. o.res = "ok" => o.pos = from + n
        BY <1>2, <3>1, ReadAtLands DEF Lands
      <3> QED  BY <2>2, <3>2, <3>3, <3>5, <3>6
    <2> QED  BY <2>1, <2>2
  <1> HIDE DEF v
  <1>5. ASSUME o.res = "ok" PROVE InPlace(p, v, o.pos)
    <2>1. low <= o.pos /\ o.pos <= from + n /\ from + n <= end
      <3> HIDE DEF low, size, from, left, end
      <3> QED  BY <1>2, <1>4, <1>5
    <2>2. o.pos <= end
      <3>1. o.pos \in Nat
        BY <1>2, <1>4, <1>5
      <3> HIDE DEF low, size, from, left, end
      <3> QED  BY <1>2, <2>1, <3>1
    <2> QED  BY <1>3, <2>1, <2>2 DEF InPlace
  <1>6. /\ r.res = o.res /\ r.pos = o.pos
        /\ o.res = "ok" => r.walk = v
    BY <1>1, ResultFields DEF v
  <1> QED  BY <1>4, <1>5, <1>6

\* A pair that codec output does not fill exactly is the first that holds nothing.
LEMMA ShortIsBad ==
    ASSUME SourceType, NEW p, ConformingPlan(p), NEW w, NEW done, Tells(p, w, done),
           \/ Len(Gives(p, w.index)) # PairOf(p, w.index)[2]
           \/ /\ w.current \in {"Zlib", "Zstd"}
              /\ ~p.contents[w.index].ends /\ ~p.contents[w.index].kept
    PROVE  FirstBad(p, w.index) /\ Refusal(p, w.index) = "Malformed"
  <1> DEFINE i == w.index
             g == Gives(p, i)
             c == p.contents[i]
  <1>1. /\ w \in WalkType /\ i \in 1 .. PairCount(p)
        /\ w.current \in {"Raw", "Held"} => Len(g) = PairOf(p, i)[2]
        /\ w.current \in {"Zlib", "Zstd"} => g = c.output
        /\ w.current # "Ended"
    BY OpenedFacts
  <1>2. w.current \in {"Zlib", "Zstd"}
    BY <1>1 DEF WalkType
  <1>3. Classify(PairOf(p, i), p.reading) = "Compressed" /\ ~c.window
    BY <1>2 DEF Tells, Opened
  <1>4. ~Exact(c, PairOf(p, i)[2]) /\ ~Unended(p, i)
    <2>1. c.kept => c.output = <<>>
      BY <1>1 DEF ConformingPlan, ConformingContent
    <2> QED  BY <1>1, <1>2, <2>1 DEF Exact, Unended
  <1>5. Holds(p, i) = None
    BY <1>3, <1>4 DEF Holds
  <1>6. AllHold(p, i - 1)
    BY DEF Tells
  <1> QED  BY <1>1, <1>3, <1>5, <1>6 DEF FirstBad, Refusal

\* An open pair is inside its block.
LEMMA PairInBlock ==
    ASSUME NEW p, ConformingPlan(p), NEW i \in 1 .. PairCount(p)
    PROVE  /\ StartOf(p, i) + PairOf(p, i)[1] = StartOf(p, i + 1)
           /\ StartOf(p, i + 1) <= p.location.position + p.location.size
           /\ StartOf(p, i) >= p.location.position /\ StartOf(p, i) \in Nat
           /\ PairOf(p, i)[1] \in Nat /\ PairOf(p, i)[1] <= p.location.size
           /\ PairOf(p, i)[2] \in Nat /\ PairOf(p, i)[2] <= p.implied_bytes
  <1>1. /\ 0 \in 0 .. PairCount(p) /\ i - 1 \in 0 .. PairCount(p) /\ (i - 1) + 1 = i
        /\ i \in 0 .. PairCount(p) /\ PairCount(p) \in i .. PairCount(p)
        /\ i - 1 \in 0 .. PairCount(p)
    BY PairsOf
  <1>2. /\ StartOf(p, 0 + 1) <= StartOf(p, (i - 1) + 1)
        /\ StartOf(p, i + 1) <= StartOf(p, PairCount(p) + 1)
        /\ Owes(p, i) <= Owes(p, PairCount(p))
    BY <1>1, SumsClimb
  <1>3. /\ StartOf(p, 1) = p.location.position /\ StartOf(p, i) \in Nat
        /\ StartOf(p, i + 1) = StartOf(p, i) + PairOf(p, i)[1]
        /\ PairOf(p, i)[1] \in Nat /\ PairOf(p, i)[2] \in Nat
    BY PairsOf, PairsFollow
  <1>4. /\ StartOf(p, PairCount(p) + 1) = p.location.position + p.location.size
        /\ Owes(p, PairCount(p)) = p.implied_bytes
    BY PairsTile
  <1>5. Owes(p, i) = Owes(p, i - 1) + PairOf(p, i)[2] /\ Owes(p, i - 1) \in Nat
    BY <1>1, OwesGrows
  <1> DEFINE low == p.location.position
             size == p.location.size
             from == StartOf(p, i)
             end == StartOf(p, i + 1)
             stored == PairOf(p, i)[1]
             gives == PairOf(p, i)[2]
             all == p.implied_bytes
             past == Owes(p, i - 1)
  <1>6. /\ low \in Nat /\ size \in Nat /\ all \in Nat /\ from \in Nat /\ stored \in Nat
        /\ gives \in Nat /\ past \in Nat /\ low <= from /\ end <= low + size /\ end = from + stored
        /\ past + gives <= all
    BY <1>1, <1>2, <1>3, <1>4, <1>5 DEF ConformingPlan
  <1> HIDE DEF low, size, from, end, stored, gives, all, past
  <1>7. stored <= size /\ gives <= all /\ from >= low
    BY <1>6
  <1> QED  BY <1>6, <1>7 DEF low, size, from, end, stored, gives, all

\* A pull from the open pair goes on in its place, or fails as the source or as the pair does.
LEMMA PullsBlamed ==
    ASSUME SourceType, NEW p, ConformingPlan(p), Calm(p), NEW w, NEW done, Tells(p, w, done),
           InPlace(p, w, pos), NEW n \in Nat, NEW r \in FillUpto(p, w, n)
    PROVE  Blamed(p, r)
  <1> DEFINE i == w.index
             c == p.contents[i]
  <1>1. /\ w \in WalkType /\ i \in 1 .. PairCount(p) /\ w.current # "Ended" /\ i # 0
        /\ w.current \in {"Zlib", "Zstd"} => Gives(p, i) = c.output
    BY OpenedFacts
  <1>2. w.stored_at + w.stored_left = w.next_at /\ w.next_at <= p.location.position + p.location.size
    BY <1>1, PairInBlock DEF Tells, Standing
  <1>3. ASSUME NEW k \in 0 .. w.stored_left, NEW q \in ReadStored(w, k)
        PROVE  q.res \in {"ok", "Io"} /\ (q.res = "ok" => InPlace(p, q.walk, q.pos))
    BY <1>1, <1>2, <1>3, CalmRead
  <1>4. ASSUME r = Result("ok", pos, w, <<>>) PROVE Blamed(p, r)
    BY <1>4, ResultFields DEF Blamed
  <1>5. CASE w.current = "Raw"
    <2>1. Least(n, w.stored_left) \in 0 .. w.stored_left
      BY <1>1 DEF Least, WalkType
    <2>2. r \in ReadStored(w, Least(n, w.stored_left))
      BY <1>5 DEF FillUpto
    <2> QED  BY <1>3, <2>1, <2>2 DEF Blamed
  <1>6. CASE w.current = "Held"
    <2> DEFINE k == Least(n, Len(w.buf))
               v == [w EXCEPT !.buf = SubSeq(@, k + 1, Len(@))]
    <2>1. r = Result("ok", pos, v, SubSeq(w.buf, 1, k))
      BY <1>6 DEF FillUpto
    <2>2. v.index = w.index /\ v.next_at = w.next_at /\ v.stored_at = w.stored_at
      BY <1>1 DEF WalkType
    <2> HIDE DEF k, v
    <2>3. r.res = "ok" /\ r.pos = pos /\ r.walk = v
      BY <2>1, ResultFields
    <2>4. InPlace(p, v, pos)
      BY <2>2 DEF InPlace
    <2> QED  BY <2>3, <2>4 DEF Blamed
  <1>7. CASE w.current \in {"Zlib", "Zstd"} /\ n = 0
    <2>1. r = Result("ok", pos, w, <<>>)
      BY <1>7 DEF FillUpto, PullFramed
    <2> QED  BY <1>4, <2>1
  <1>8. CASE w.current \in {"Zlib", "Zstd"} /\ n # 0
    <2> DEFINE take == Least(n, Len(c.output) - w.given)
               consumed == PairOf(p, i)[1] - w.stored_left
               least == IF w.given + n < Len(c.output) THEN 0 ELSE Greatest(0, c.needs - consumed)
               Give(q) == IF q.res # "ok" THEN q
                          ELSE Result(IF take < n /\ ~c.ends /\ ~c.kept THEN "Malformed" ELSE "ok",
                                      q.pos, [q.walk EXCEPT !.given = @ + take],
                                      SubSeq(c.output, w.given + 1, w.given + take))
    <2>1. r \in {Give(q) : q \in UNION {ReadStored(w, m) : m \in least .. w.stored_left}}
      BY <1>8 DEF FillUpto, PullFramed
    <2>2. least \in Nat
      <3>1. consumed \in Int
        BY <1>1, PairsOf DEF WalkType
      <3>2. c.needs \in Nat
        BY <1>1 DEF ConformingPlan, ConformingContent
      <3> QED  BY <3>1, <3>2 DEF Greatest
    <2> HIDE DEF take, least
    <2>3. PICK m \in least .. w.stored_left : \E q \in ReadStored(w, m) : r = Give(q)
      BY <2>1
    <2>4. PICK q \in ReadStored(w, m) : r = Give(q)
      BY <2>3
    <2>5. m \in 0 .. w.stored_left
      BY <1>1, <2>2 DEF WalkType
    <2>6. q.res \in {"ok", "Io"} /\ (q.res = "ok" => InPlace(p, q.walk, q.pos))
      BY <1>3, <2>5
    <2>7. CASE q.res # "ok"
      BY <2>4, <2>6, <2>7 DEF Blamed
    <2>8. CASE q.res = "ok"
      <3> DEFINE v == [q.walk EXCEPT !.given = @ + take]
                 res == IF take < n /\ ~c.ends /\ ~c.kept THEN "Malformed" ELSE "ok"
                 out == SubSeq(c.output, w.given + 1, w.given + take)
      <3>1. r = Result(res, q.pos, v, out)
        BY <2>4, <2>8
      <3>2. q.walk \in WalkType
        <4>1. q.walk = Drawn(w, m)
          BY <1>1, <2>5, <2>8, StoredBytes
        <4>2. Standing(p, Drawn(w, m))
          BY <1>1, <2>5, DrawnStands DEF Follows, Tells
        <4> QED  BY <4>1, <4>2 DEF Standing
      <3>3. v.index = q.walk.index /\ v.next_at = q.walk.next_at /\ v.stored_at = q.walk.stored_at
        BY <3>2 DEF WalkType
      <3> HIDE DEF v, out
      <3>4. r.res = res /\ r.pos = q.pos /\ r.walk = v
        BY <3>1, ResultFields
      <3>5. InPlace(p, v, q.pos)
        BY <2>6, <2>8, <3>3 DEF InPlace
      <3>6. ASSUME res # "ok" PROVE FirstBad(p, i) /\ res = Refusal(p, i)
        <4>1. ~c.ends /\ ~c.kept /\ res = "Malformed"
          BY <3>6
        <4> QED  BY <1>8, <4>1, ShortIsBad
      <3> HIDE DEF res
      <3> QED  BY <3>4, <3>5, <3>6 DEF Blamed
    <2> QED  BY <2>7, <2>8
  <1> QED  BY <1>1, <1>5, <1>6, <1>7, <1>8 DEF WalkType

\* A turn of fill goes on, or fails as the source or as the pair does.
LEMMA TakeBlamed ==
    ASSUME SourceType, NEW p, ConformingPlan(p), Calm(p), NEW w, NEW done, Tells(p, w, done),
           InPlace(p, w, pos), NEW rest \in Nat, NEW r \in Take(p, w, rest)
    PROVE  Blamed(p, r)
  <1> DEFINE i == w.index
             take == Least(rest, w.owed)
             Short(q) == IF q.res = "ok" /\ Len(q.out) < take THEN [q EXCEPT !.res = "Malformed"]
                         ELSE q
  <1>1. PICK q \in FillUpto(p, w, take) :
            r = IF Short(q).res = "ok" THEN [Short(q) EXCEPT !.walk.owed = @ - take] ELSE Short(q)
    <2>1. PICK f \in Fill(p, w, take) :
              r = IF f.res = "ok" THEN [f EXCEPT !.walk.owed = @ - take] ELSE f
      BY DEF Take
    <2>2. PICK q \in FillUpto(p, w, take) : f = Short(q)
      BY DEF Fill
    <2> QED  BY <2>1, <2>2, Zenon
  <1>2. /\ w.owed \in Nat /\ take \in Nat /\ take <= w.owed
    <2>1. w.owed \in Nat
      BY ToldSoFar
    <2> QED  BY <2>1 DEF Least
  <1>3. /\ Sound(q) /\ Follows(p, w, q.walk)
        /\ q.res = "ok" /\ Len(q.out) < take => Len(Gives(p, i)) = Taken(p, w) + Len(q.out)
        /\ q.res = "ok" => Len(q.out) \in Nat
    BY <1>2, PullsYield DEF Yields
  <1>4. Blamed(p, q)
    BY <1>2, PullsBlamed
  <1>5. q = Result(q.res, q.pos, q.walk, q.out) /\ q.walk \in WalkType
    BY <1>3 DEF Sound, Follows, Standing
  <1> HIDE DEF take
  <1>6. CASE q.res # "ok"
    <2>1. r = q
      BY <1>1, <1>6
    <2> QED  BY <1>4, <2>1
  <1>7. CASE q.res = "ok" /\ Len(q.out) < take
    <2> DEFINE f == [q EXCEPT !.res = "Malformed"]
    <2>1. r = f /\ f = Result("Malformed", q.pos, q.walk, q.out)
      BY <1>1, <1>5, <1>7 DEF Result
    <2>2. r.res = "Malformed"
      BY <2>1, ResultFields
    <2>3. Len(Gives(p, i)) # PairOf(p, i)[2]
      <3> DEFINE a == Taken(p, w)
                 l == Len(q.out)
                 m == Len(Gives(p, i))
                 all == PairOf(p, i)[2]
                 owed == w.owed
      <3>1. a \in Nat /\ a + owed = all
        BY OpenedFacts
      <3>2. l \in Nat /\ l < take /\ m = a + l /\ take \in Nat /\ take <= owed /\ owed \in Nat
        BY <1>2, <1>3, <1>7
      <3> HIDE DEF a, l, m, all, owed
      <3>3. m # all
        BY <3>1, <3>2
      <3> QED  BY <3>3 DEF m, all
    <2>4. FirstBad(p, i) /\ Refusal(p, i) = "Malformed"
      BY <2>3, ShortIsBad
    <2> QED  BY <2>2, <2>4 DEF Blamed
  <1>8. CASE q.res = "ok" /\ ~ (Len(q.out) < take)
    <2> DEFINE v == [q.walk EXCEPT !.owed = @ - take]
    <2>1. r = Result("ok", q.pos, v, q.out)
      <3>1. r = [q EXCEPT !.walk.owed = @ - take]
        BY <1>1, <1>8
      <3>2. [q EXCEPT !.walk.owed = @ - take] = [q EXCEPT !.walk = v]
        OBVIOUS
      <3>3. [q EXCEPT !.walk = v] = Result("ok", q.pos, v, q.out)
        BY <1>5, <1>8 DEF Result
      <3> QED  BY <3>1, <3>2, <3>3
    <2>2. v.index = q.walk.index /\ v.next_at = q.walk.next_at /\ v.stored_at = q.walk.stored_at
      BY <1>5 DEF WalkType
    <2> HIDE DEF v
    <2>3. r.res = "ok" /\ r.pos = q.pos /\ r.walk = v
      BY <2>1, ResultFields
    <2>4. InPlace(p, v, q.pos)
      BY <1>4, <1>8, <2>2 DEF Blamed, InPlace
    <2> QED  BY <2>3, <2>4 DEF Blamed
  <1> QED  BY <1>6, <1>7, <1>8

\* A required end is one, or fails as the source or as the pair does.
LEMMA EndBlamed ==
    ASSUME SourceType, NEW p, ConformingPlan(p), Calm(p), NEW w, NEW done, Tells(p, w, done),
           InPlace(p, w, pos), w.owed = 0, NEW r \in RequireEnd(p, w)
    PROVE  Blamed(p, r)
  <1> DEFINE i == w.index
  <1>1. PICK q \in FillUpto(p, w, 1) :
            r = IF q.res = "ok" /\ q.out # <<>> THEN [q EXCEPT !.res = "Malformed"] ELSE q
    BY DEF RequireEnd
  <1>2. /\ Sound(q)
        /\ q.res = "ok" => q.out \in Seq(Byte) /\ Taken(p, w) + Len(q.out) <= Len(Gives(p, i))
    BY PullsYield DEF Yields
  <1>3. Blamed(p, q)
    BY PullsBlamed
  <1>4. CASE q.res = "ok" /\ q.out # <<>>
    <2> DEFINE f == [q EXCEPT !.res = "Malformed"]
    <2>1. r = f /\ f = Result("Malformed", q.pos, q.walk, q.out)
      BY <1>1, <1>2, <1>4 DEF Result, Sound
    <2>2. r.res = "Malformed"
      BY <2>1, ResultFields
    <2>3. Len(Gives(p, i)) # PairOf(p, i)[2]
      <3> DEFINE a == Taken(p, w)
                 l == Len(q.out)
                 m == Len(Gives(p, i))
                 all == PairOf(p, i)[2]
      <3>1. a \in Nat /\ a + 0 = all /\ Gives(p, i) \in Seq(Byte)
        BY OpenedFacts
      <3>2. l \in Nat /\ l # 0 /\ a + l <= m /\ m \in Nat
        BY <1>2, <1>4, <3>1
      <3> HIDE DEF a, l, m, all
      <3>3. m # all
        BY <3>1, <3>2
      <3> QED  BY <3>3 DEF m, all
    <2>4. FirstBad(p, i) /\ Refusal(p, i) = "Malformed"
      BY <2>3, ShortIsBad
    <2> QED  BY <2>2, <2>4 DEF Blamed
  <1>5. CASE ~ (q.res = "ok" /\ q.out # <<>>)
    <2>1. r = q
      BY <1>1, <1>5
    <2> QED  BY <1>3, <2>1
  <1> QED  BY <1>4, <1>5

\* Opening the next pair goes on from where it begins, or fails as the source or as the pair does.
LEMMA OpenBlamed ==
    ASSUME SourceType, NEW p, ConformingPlan(p), Calm(p), NEW w, NEW done, Between(p, w, done),
           InPlace(p, w, pos), w.index < PairCount(p), NEW r \in Open(p, w)
    PROVE  Blamed(p, r)
  <1> DEFINE i == w.index + 1
             pair == PairOf(p, i)
             kind == Classify(pair, p.reading)
             e == Entered(w, i, pair)
             c == p.contents[i]
             end == p.location.position + p.location.size
  <1>1. w \in WalkType /\ w.next_at = StartOf(p, i) /\ AllHold(p, w.index)
    BY DEF Between, Standing
  <1>2. /\ i \in 1 .. PairCount(p) /\ i - 1 = w.index /\ i # 0 /\ i \in Nat
    <2>1. w.index \in Nat
      BY <1>1 DEF WalkType
    <2> QED  BY <2>1, PairsOf
  <1>3. /\ StartOf(p, i) + pair[1] = StartOf(p, i + 1) /\ StartOf(p, i + 1) <= end
        /\ StartOf(p, i) \in Nat /\ pair[1] \in Nat /\ pair[2] \in Nat
        /\ pair[1] <= p.location.size /\ pair[2] <= p.implied_bytes
    BY <1>2, PairInBlock
  <1>4. pair # None
    BY <1>2, PairsOf
  <1> HIDE DEF pair, kind, e, i, c
  <1>5. /\ e \in WalkType /\ e.index = i /\ e.stored_left = pair[1] /\ e.stored_at = StartOf(p, i)
        /\ e.next_at = StartOf(p, i + 1) /\ e.owed = pair[2]
    <2>1. w.next_at + pair[1] \in Nat /\ <<>> \in Seq(Byte)
      BY <1>1, <1>3
    <2> QED  BY <1>1, <1>2, <1>3, <2>1 DEF e, Entered, Boundary, WalkType
  <1>6. InPlace(p, e, pos)
    <2>1. /\ p.location.position <= pos /\ pos <= StartOf(p, i)
      BY <1>1 DEF InPlace
    <2>2. pos \in Nat /\ pos <= StartOf(p, i + 1)
      BY <1>3, <2>1 DEF SourceType
    <2> QED  BY <1>5, <2>1, <2>2 DEF InPlace
  <1>7. CheckedAdd(w.next_at, pair[1]) # None
    <2> DEFINE sum == w.next_at + pair[1]
    <2>1. sum \in Nat /\ sum <= end
      BY <1>1, <1>3
    <2>2. end \in U
      BY DEF Calm
    <2> HIDE DEF end, sum
    <2>3. sum \in U
      BY <2>1, <2>2, MaxUAssumption DEF U
    <2>4. w.next_at # None /\ pair[1] # None /\ sum # None
      BY <1>1, <1>3, <2>1, NoneAssumption DEF WalkType
    <2> QED  BY <2>3, <2>4 DEF CheckedAdd, Fit, sum
  <1>8. r \in OpenStream(p, e, kind)
    BY <1>4, <1>7 DEF Open, i, pair, kind, e
  <1>9. ASSUME NEW n \in 0 .. e.stored_left, NEW q \in ReadStored(e, n)
        PROVE  q.res \in {"ok", "Io"} /\ (q.res = "ok" => InPlace(p, q.walk, q.pos))
    BY <1>2, <1>3, <1>5, <1>6, <1>9, CalmRead
  \* A walk that differs in none of its offsets is in the same place.
  <1>10. ASSUME NEW v \in WalkType, NEW at, InPlace(p, v, at), NEW f,
                f.index = v.index, f.next_at = v.next_at, f.stored_at = v.stored_at,
                r = Result("ok", at, f, <<>>)
         PROVE  Blamed(p, r)
    <2>1. r.res = "ok" /\ r.pos = at /\ r.walk = f
      BY <1>10, ResultFields
    <2>2. InPlace(p, f, at)
      BY <1>10 DEF InPlace
    <2> QED  BY <2>1, <2>2 DEF Blamed
  <1>11. ASSUME NEW res, NEW at, NEW v, r = Result(res, at, v, <<>>), res # "ok",
                Holds(p, i) = None, res = Refusal(p, i)
         PROVE  Blamed(p, r)
    <2>1. r.res = res
      BY <1>11, ResultFields
    <2>2. FirstBad(p, i)
      BY <1>1, <1>2, <1>11 DEF FirstBad
    <2> QED  BY <1>11, <2>1, <2>2 DEF Blamed
  <1>12. ASSUME NEW q, q.res \in {"ok", "Io"}, q.res # "ok", r = q PROVE Blamed(p, r)
    BY <1>12 DEF Blamed
  <1>13. CASE kind = "Raw"
    <2> DEFINE f == [e EXCEPT !.current = "Raw"]
    <2>1. r = Result("ok", pos, f, <<>>)
      BY <1>8, <1>13 DEF OpenStream
    <2>2. f.index = e.index /\ f.next_at = e.next_at /\ f.stored_at = e.stored_at
      BY <1>5 DEF WalkType
    <2> HIDE DEF f
    <2> QED  BY <1>5, <1>6, <1>10, <2>1, <2>2
  <1>14. CASE kind = "Compressed" /\ p.compression.codec \in {"zlib", "zstd"}
    <2>1. r \in OpenFramed(p, e, i)
      BY <1>5, <1>8, <1>14 DEF OpenStream
    <2>2. /\ Holds(p, i) = IF Exact(c, pair[2]) \/ Unended(p, i) THEN c.output ELSE None
          /\ Unended(p, i) => c.kept /\ ~c.window
      <3>1. c.kept => ~c.window
        BY <1>2 DEF ConformingPlan, ConformingContent, c
      <3> QED  BY <1>14, <3>1 DEF Holds, Unended, kind, pair, c
    <2>3. CASE p.compression.codec = "zlib"
      <3> DEFINE f == [e EXCEPT !.current = "Zlib"]
      <3>1. r = Result("ok", pos, f, <<>>)
        BY <2>1, <2>3 DEF OpenFramed
      <3>2. f.index = e.index /\ f.next_at = e.next_at /\ f.stored_at = e.stored_at
        BY <1>5 DEF WalkType
      <3> HIDE DEF f
      <3> QED  BY <1>5, <1>6, <1>10, <3>1, <3>2
    <2>4. CASE p.compression.codec # "zlib"
      <3> DEFINE Header(q) ==
            IF q.res # "ok" THEN {q}
            ELSE IF c.window THEN {Result("LimitExceeded", q.pos, q.walk, <<>>)}
            ELSE {Result("ok", q.pos, [q.walk EXCEPT !.current = "Zstd"], <<>>)}
                 \cup (IF c.output = <<>> /\ ~c.ends /\ ~c.kept
                       THEN {Result("Malformed", q.pos, q.walk, <<>>)} ELSE {})
      <3>1. r \in UNION {Header(q) : q \in UNION {ReadStored(e, n) : n \in 0 .. e.stored_left}}
        <4>1. p.compression.codec = "zstd"
          BY <1>14, <2>4
        <4>2. [e EXCEPT !.current = IF p.compression.codec = "zlib" THEN "Zlib" ELSE "Zstd"].current
                  = "Zstd"
          BY <1>5, <4>1 DEF WalkType
        <4> QED  BY <2>1, <2>4, <4>2, Zenon DEF OpenFramed, c
      <3>2. PICK n \in 0 .. e.stored_left : \E q \in ReadStored(e, n) : r \in Header(q)
        BY <3>1
      <3>3. PICK q \in ReadStored(e, n) : r \in Header(q)
        BY <3>2
      <3>4. q.res \in {"ok", "Io"} /\ (q.res = "ok" => InPlace(p, q.walk, q.pos))
        BY <1>9
      <3>5. CASE q.res # "ok"
        BY <1>12, <3>3, <3>4, <3>5
      <3>6. CASE q.res = "ok" /\ c.window
        <4>1. r = Result("LimitExceeded", q.pos, q.walk, <<>>)
          BY <3>3, <3>6
        <4>2. Holds(p, i) = None /\ Refusal(p, i) = "LimitExceeded"
          BY <2>2, <3>6 DEF Exact, Refusal, c
        <4> QED  BY <1>11, <4>1, <4>2
      <3>7. CASE q.res = "ok" /\ ~c.window
        <4>1. CASE r = Result("ok", q.pos, [q.walk EXCEPT !.current = "Zstd"], <<>>)
          <5> DEFINE f == [q.walk EXCEPT !.current = "Zstd"]
          <5>1. q.walk \in WalkType
            <6>1. q.walk = Drawn(e, n)
              BY <1>5, <3>7, StoredBytes
            <6>2. Drawn(e, n) \in WalkType
              <7>1. e.stored_left - n \in Nat /\ e.stored_at + n \in Nat
                BY <1>5 DEF WalkType
              <7> QED  BY <1>5, <7>1 DEF Drawn, WalkType
            <6> QED  BY <6>1, <6>2
          <5>2. f.index = q.walk.index /\ f.next_at = q.walk.next_at
                /\ f.stored_at = q.walk.stored_at
            BY <5>1 DEF WalkType
          <5> HIDE DEF f
          <5> QED  BY <1>10, <3>4, <3>7, <4>1, <5>1, <5>2 DEF f
        <4>2. CASE r = Result("Malformed", q.pos, q.walk, <<>>) /\ ~c.ends /\ ~c.kept
          <5>1. Holds(p, i) = None /\ Refusal(p, i) = "Malformed"
            BY <2>2, <3>7, <4>2 DEF Exact, Refusal, c
          <5> QED  BY <1>11, <4>2, <5>1
        <4> QED  BY <3>3, <3>7, <4>1, <4>2
      <3> QED  BY <3>5, <3>6, <3>7
    <2> QED  BY <2>3, <2>4
  <1>15. CASE kind # "Raw" /\ ~ (kind = "Compressed" /\ p.compression.codec \in {"zlib", "zstd"})
    <2>1. r \in OpenHeld(p, e, i, kind)
      BY <1>5, <1>8, <1>15 DEF OpenStream
    <2> DEFINE one(q) == DecodePair(kind, p.contents[i], q.out, e.owed)
               Decode(q) ==
                 IF q.res # "ok" THEN q
                 ELSE Result(one(q).res, q.pos,
                             IF one(q).res # "ok" THEN q.walk
                             ELSE [q.walk EXCEPT !.current = "Held", !.buf = one(q).dst], <<>>)
    <2>2. r \in {Decode(q) : q \in ReadStored(e, e.stored_left)}
      <3>1. ~ (\/ e.stored_left > Limits.materialized_bytes
               \/ e.owed > Limits.materialized_bytes)
        <4> DEFINE cap == Limits.materialized_bytes
                   size == p.location.size
                   all == p.implied_bytes
                   stored == pair[1]
                   gives == pair[2]
        <4>1. cap \in Nat /\ size \in Nat /\ all \in Nat /\ size <= cap /\ all <= cap
          BY LimitsAssumption DEF Calm, Uncapped, ConformingPlan
        <4>2. stored \in Nat /\ gives \in Nat /\ stored <= size /\ gives <= all
          BY <1>3
        <4> HIDE DEF cap, size, all, stored, gives
        <4>3. ~ (stored > cap \/ gives > cap)
          BY <4>1, <4>2
        <4> QED  BY <1>5, <4>3 DEF cap, stored, gives
      <3> QED  BY <2>1, <3>1, Zenon DEF OpenHeld
    <2>3. PICK q \in ReadStored(e, pair[1]) : r = Decode(q)
      BY <1>5, <2>2
    <2>4. pair[1] \in 0 .. e.stored_left
      BY <1>3, <1>5
    <2>5. q.res \in {"ok", "Io"} /\ (q.res = "ok" => InPlace(p, q.walk, q.pos))
      BY <1>9, <2>4
    <2>6. CASE q.res # "ok"
      BY <1>12, <2>3, <2>5, <2>6
    <2>7. CASE q.res = "ok"
      <3> DEFINE stored == FileBytes(StartOf(p, i), pair[1])
                 d == DecodePair(kind, c, stored, pair[2])
                 v == [q.walk EXCEPT !.current = "Held", !.buf = d.dst]
      <3>1. q.walk = Drawn(e, pair[1]) /\ q.out = stored
        BY <1>5, <2>4, <2>7, StoredBytes
      <3>2. q.walk \in WalkType
        <4>1. e.stored_left - pair[1] \in Nat /\ e.stored_at + pair[1] \in Nat
          BY <1>3, <1>5
        <4> QED  BY <1>5, <3>1, <4>1 DEF Drawn, WalkType
      <3>3. r = Result(d.res, q.pos, IF d.res # "ok" THEN q.walk ELSE v, <<>>)
        BY <1>5, <2>3, <2>7, <3>1 DEF c
      <3>4. d.res = (IF Holds(p, i) # None THEN "ok" ELSE Refusal(p, i))
        <4>1. d.res = (IF PairDecodes(p, i) THEN "ok" ELSE Refusal(p, i))
          BY <1>2, <1>15, DecodedHolds DEF kind, pair, c
        <4>2. ~Unended(p, i)
          <5>1. c.kept => p.compression.codec = "zstd"
            BY <1>2 DEF ConformingPlan, ConformingContent, c
          <5> QED  BY <1>15, <5>1 DEF Unended, kind, pair, c
        <4> QED  BY <4>1, <4>2 DEF PairDecodes
      <3>5. v.index = q.walk.index /\ v.next_at = q.walk.next_at /\ v.stored_at = q.walk.stored_at
        BY <3>2 DEF WalkType
      <3> HIDE DEF d, v, stored
      <3>6. CASE d.res = "ok"
        <4>1. r = Result("ok", q.pos, v, <<>>)
          BY <3>3, <3>6
        <4> QED  BY <1>10, <2>5, <2>7, <3>2, <3>5, <4>1
      <3>7. CASE d.res # "ok"
        <4>1. r = Result(d.res, q.pos, q.walk, <<>>)
          BY <3>3, <3>7
        <4> QED  BY <1>11, <3>4, <3>7, <4>1
      <3> QED  BY <3>6, <3>7
    <2> QED  BY <2>6, <2>7
  <1> QED  BY <1>13, <1>14, <1>15

-----------------------------------------------------------------------------
(* The invariant.                                                          *)

\* What was delivered, and what the staging row holds of the row after.
Read == delivered \o raw

\* The inductive invariant.  Typed: the staging row is never over its length, and what was
\* delivered is rows.
Typed ==
    /\ plan \in Plans /\ SourceType
    /\ row_bytes \in Nat \ {0}
    /\ \E m \in Nat : plan.implied_bytes = m * row_bytes
    /\ \E m \in Nat : Len(delivered) = m * row_bytes
    /\ delivered \in Seq(Byte) /\ raw \in Seq(Byte)
    /\ Len(raw) <= row_bytes /\ Len(delivered) <= plan.implied_bytes
    /\ point \in {"open", "fill", "require_end", "finish", "done"}

\* What was delivered is the block's, and out of the source.
Delivered ==
    /\ IsPrefix(delivered, Stated(plan))
    /\ Within(plan, delivered) /\ Within(plan, raw)

\* What was read is what the walk has told, and a point is only come to with more to do there.
AtOpen == Between(plan, walk, Read) /\ walk.index < PairCount(plan)
AtFill == Tells(plan, walk, Read) /\ Len(delivered) < plan.implied_bytes
AtRequireEnd == Tells(plan, walk, Read) /\ walk.owed = 0 /\ walk.index < PairCount(plan)
AtFinish == /\ Tells(plan, walk, Read) /\ walk.owed = 0 /\ walk.index = PairCount(plan)
            /\ raw = <<>>
AtDone == Between(plan, walk, Read) /\ walk.index = PairCount(plan) /\ raw = <<>>

Told ==
    /\ point = "open" => AtOpen
    /\ point = "fill" => AtFill
    /\ point = "require_end" => AtRequireEnd
    /\ point = "finish" => AtFinish
    /\ point = "done" /\ verdict = "ok" => AtDone

BInv == Typed /\ Delivered /\ Told

-----------------------------------------------------------------------------
(* The invariant is one.                                                   *)

\* A stream begins before its first pair, with nothing told.
LEMMA InitBInv == Init => BInv
  <1> SUFFICES ASSUME Init PROVE BInv
    OBVIOUS
  <1>1. /\ plan \in Plans /\ ConformingPlan(plan) /\ length \in Nat
    BY PlansAssumption DEF Init
  <1>2. plan.implied_bytes \in Nat /\ plan.location.position \in Nat
    BY <1>1 DEF ConformingPlan
  <1>3. row_bytes \in Nat \ {0} /\ plan.implied_bytes % row_bytes = 0
    BY <1>2 DEF Init
  <1>4. \E m \in Nat : plan.implied_bytes = m * row_bytes
    <2>1. /\ plan.implied_bytes \div row_bytes \in Nat
          /\ plan.implied_bytes = (plan.implied_bytes \div row_bytes) * row_bytes
      <3> DEFINE n == plan.implied_bytes
                 q == n \div row_bytes
      <3>1. q \in Nat /\ n = q * row_bytes + (n % row_bytes) /\ n % row_bytes = 0
        BY <1>2, <1>3, Division
      <3> HIDE DEF n, q
      <3>2. q \in Nat /\ n = q * row_bytes
        BY <1>3, <3>1
      <3> QED  BY <3>2 DEF n, q
    <2> QED  BY <2>1
  <1>5. /\ raw = <<>> /\ delivered = <<>> /\ point = "open" /\ verdict = "ok"
        /\ Len(raw) = 0 /\ Len(delivered) = 0 /\ raw \in Seq(Byte) /\ Read = <<>>
    BY DEF Init, Read
  <1>6. Typed
    <2>1. \E m \in Nat : Len(delivered) = m * row_bytes
      <3>1. 0 = 0 * row_bytes
        BY <1>3
      <3> QED  BY <1>5, <3>1
    <2>2. SourceType
      BY <1>1, <1>2, MaxFaultsAssumption DEF Init, SourceType
    <2> QED  BY <1>1, <1>2, <1>3, <1>4, <1>5, <2>1, <2>2 DEF Typed
  <1>7. Delivered
    <2>1. Stated(plan) \in Seq(Byte)
      <3>1. 0 \in 0 .. PairCount(plan) /\ AllHold(plan, 0)
        BY <1>1, PairsOf DEF AllHold
      <3> QED  BY <1>1, <3>1, StatedBegins
    <2>2. IsPrefix(<<>>, Stated(plan))
      BY <2>1 DEF IsPrefix
    <2> QED  BY <1>5, <2>2 DEF Delivered, Within
  <1>8. AtOpen
    <2>1. walk = [Unopened EXCEPT !.next_at = plan.location.position]
      BY DEF Init
    <2>2. Between(plan, walk, <<>>)
      BY <1>1, <2>1, UnopenedIsBetween
    <2>3. walk.index = 0
      BY <2>1 DEF Unopened
    <2>4. 0 < PairCount(plan)
      \* A block that holds a byte has a pair that does.
      <3>1. CASE PairCount(plan) = 0
        <4>1. Owes(plan, 0) = plan.implied_bytes /\ Owes(plan, 0) = 0
          BY <1>1, <3>1, PairsTile, OwesGrows
        <4>2. plan.implied_bytes # 0
          BY <1>2, <1>3 DEF Init
        <4> QED  BY <4>1, <4>2
      <3> QED  BY <1>1, <3>1, PairsOf
    <2> QED  BY <1>5, <2>2, <2>3, <2>4 DEF AtOpen
  <1> QED  BY <1>5, <1>6, <1>7, <1>8 DEF BInv, Told

\* What holds of every state that is not changed by a step.
LEMMA StandingFacts ==
    ASSUME Typed
    PROVE  /\ plan \in Plans /\ ConformingPlan(plan) /\ SourceType
           /\ plan.implied_bytes \in Nat /\ PairCount(plan) \in Nat
           /\ Len(delivered) \in Nat /\ Len(raw) \in Nat /\ row_bytes \in Nat \ {0}
           /\ Read \in Seq(Byte) /\ Len(Read) = Len(delivered) + Len(raw)
  <1>1. plan \in Plans /\ ConformingPlan(plan) /\ SourceType
    BY PlansAssumption DEF Typed
  <1>2. delivered \in Seq(Byte) /\ raw \in Seq(Byte)
    BY DEF Typed
  <1>3. Read \in Seq(Byte) /\ Len(Read) = Len(delivered) + Len(raw)
    BY <1>2 DEF Read
  <1>4. plan.implied_bytes \in Nat
    BY <1>1 DEF ConformingPlan
  <1>5. PairCount(plan) \in Nat
    BY <1>1, PairsOf
  <1> QED  BY <1>1, <1>2, <1>3, <1>4, <1>5 DEF Typed

\* A step of the source keeps its type and its length.
LEMMA MovesKeeps ==
    ASSUME SourceType, NEW o, Moves(o), o.pos \in Nat, o.res = "Io" => faults > 0
    PROVE  SourceType' /\ length' = length
  BY DEF Moves, SourceType

\* A result of the walk leaves the source a source of the same length.
LEMMA SoundMoves ==
    ASSUME SourceType, NEW r, Sound(r), Moves(r)
    PROVE  SourceType' /\ length' = length
  <1>1. r.pos \in Nat /\ (r.res = "Io" => faults > 0)
    BY DEF Sound
  <1> QED  BY <1>1, MovesKeeps

\* The operations that leave the rows alone.
LEMMA SameRows ==
    ASSUME BInv, SourceType', length' = length, UNCHANGED <<plan, row_bytes, delivered, raw>>,
           point' \in {"open", "fill", "require_end", "finish", "done"}
    PROVE  Typed' /\ Delivered' /\ Read' = Read
  <1>1. Typed'
    BY DEF BInv, Typed
  <1>2. Delivered'
    BY DEF BInv, Delivered, Within
  <1> QED  BY <1>1, <1>2 DEF Read

\* With every row delivered, nothing is owed and nothing is left over.
LEMMA WholeOwesNothing ==
    ASSUME Typed, NEW w, Tells(plan, w, Read), Whole
    PROVE  w.owed = 0 /\ raw = <<>>
  <1>1. /\ Len(Read) + w.owed = Owes(plan, w.index) /\ Owes(plan, w.index) \in 0 .. plan.implied_bytes
        /\ w.owed \in Nat
    BY StandingFacts, ToldSoFar
  <1>2. Len(Read) = Len(delivered) + Len(raw) /\ Len(delivered) = plan.implied_bytes
        /\ plan.implied_bytes \in Nat /\ Len(raw) \in Nat
    BY StandingFacts DEF Whole
  <1>3. w.owed = 0 /\ Len(raw) = 0
    BY <1>1, <1>2
  <1> QED  BY <1>3 DEF Typed

\* Opening a pair, open_pair.
LEMMA OpenNextKeeps ==
    ASSUME BInv, OpenNext
    PROVE  BInv'
  <1>1. Typed /\ AtOpen
    BY DEF BInv, Told, OpenNext
  <1>2. PICK r \in Open(plan, walk) :
            Goes(r, IF ~Whole THEN "fill"
                    ELSE IF r.walk.index < PairCount(plan) THEN "require_end" ELSE "finish")
    BY DEF OpenNext
  <1>3. /\ plan \in Plans /\ ConformingPlan(plan) /\ SourceType
        /\ Between(plan, walk, Read) /\ walk.index < PairCount(plan)
    BY <1>1, StandingFacts DEF AtOpen
  <1>4. /\ Sound(r) /\ Standing(plan, r.walk)
        /\ r.res = "ok" => Tells(plan, r.walk, Read)
    BY <1>3, OpenTells
  <1>5. /\ SourceType' /\ length' = length
    BY <1>2, <1>3, <1>4, SoundMoves DEF Goes
  <1>6. /\ walk' = r.walk /\ verdict' = r.res /\ UNCHANGED <<plan, row_bytes, delivered, raw>>
        /\ point' = (IF r.res = "ok" THEN IF ~Whole THEN "fill"
                        ELSE IF r.walk.index < PairCount(plan) THEN "require_end" ELSE "finish"
                     ELSE "done")
    BY <1>2 DEF Goes, OpenNext
  <1>7. Typed' /\ Delivered' /\ Read' = Read
    BY <1>5, <1>6, SameRows
  <1>8. ASSUME r.res = "ok" PROVE Tells(plan, walk, Read)'
    BY <1>4, <1>5, <1>6, <1>7, <1>8 DEF Tells, Within
  <1>9. CASE r.res # "ok"
    BY <1>6, <1>7, <1>9 DEF BInv, Told
  <1>10. CASE r.res = "ok" /\ ~Whole
    <2>1. Len(delivered)' < plan'.implied_bytes
      BY <1>1, <1>6, <1>10, StandingFacts DEF Typed, Whole
    <2> QED  BY <1>6, <1>7, <1>8, <1>10, <2>1 DEF BInv, Told, AtFill
  <1>11. CASE r.res = "ok" /\ Whole
    <2>1. r.walk.owed = 0 /\ raw = <<>>
      BY <1>1, <1>4, <1>11, WholeOwesNothing
    <2>2. r.walk.index \in Nat /\ r.walk.index <= PairCount(plan) /\ PairCount(plan) \in Nat
      BY <1>1, <1>4, StandingFacts DEF Standing, WalkType
    <2>3. ~ (r.walk.index < PairCount(plan)) => r.walk.index = PairCount(plan)
      BY <2>2
    <2> QED  BY <1>6, <1>7, <1>8, <1>11, <2>1, <2>3 DEF BInv, Told, AtRequireEnd, AtFinish
  <1> QED  BY <1>9, <1>10, <1>11

\* Rows are joined in any grouping.
LEMMA Regrouped ==
    \A x, y, z \in Seq(Byte) : (x \o y) \o z = x \o (y \o z)
  OBVIOUS

\* Filling a row from the open pair, fill.
LEMMA FillRowKeeps ==
    ASSUME BInv, FillRow
    PROVE  BInv'
  <1>1. Typed /\ Delivered /\ AtFill /\ Len(raw) < row_bytes
    BY DEF BInv, Told, FillRow
  <1>2. PICK r \in Take(plan, walk, row_bytes - Len(raw)) :
            Goes(r, "fill") /\ raw' = (IF r.res = "ok" THEN raw \o r.out ELSE raw)
    BY DEF FillRow
  <1>3. /\ ConformingPlan(plan) /\ SourceType /\ Tells(plan, walk, Read)
        /\ Len(raw) \in Nat /\ row_bytes \in Nat /\ row_bytes - Len(raw) \in Nat
    BY <1>1, StandingFacts DEF AtFill
  <1>4. /\ Sound(r)
        /\ r.res = "ok" =>
              /\ Tells(plan, r.walk, Read \o r.out)
              /\ r.out \in Seq(Byte) /\ Within(plan, r.out)
              /\ Len(r.out) = Least(row_bytes - Len(raw), walk.owed)
    BY <1>3, TakeTells
  <1>5. SourceType' /\ length' = length
    BY <1>2, <1>3, <1>4, SoundMoves DEF Goes
  <1>6. /\ walk' = r.walk /\ verdict' = r.res /\ UNCHANGED <<plan, row_bytes, delivered>>
        /\ point' = (IF r.res = "ok" THEN "fill" ELSE "done")
    BY <1>2 DEF Goes, FillRow
  <1>7. CASE r.res # "ok"
    <2>1. Typed' /\ Delivered'
      BY <1>2, <1>5, <1>6, <1>7, SameRows
    <2> QED  BY <1>6, <1>7, <2>1 DEF BInv, Told
  <1>8. CASE r.res = "ok"
    <2>1. /\ delivered \in Seq(Byte) /\ raw \in Seq(Byte) /\ r.out \in Seq(Byte)
          /\ raw' = raw \o r.out /\ raw' \in Seq(Byte)
      BY <1>1, <1>2, <1>4, <1>8 DEF Typed
    <2>2. Read' = Read \o r.out
      <3>1. (delivered \o raw) \o r.out = delivered \o (raw \o r.out)
        <4>1. delivered \in Seq(Byte) /\ raw \in Seq(Byte) /\ r.out \in Seq(Byte)
          BY <2>1
        <4> QED  BY <4>1, Regrouped, Zenon
      <3>2. delivered' = delivered
        BY <1>6
      <3> QED  BY <2>1, <3>1, <3>2 DEF Read
    <2>3. Len(raw') <= row_bytes
      <3>1. walk.owed \in Nat
        BY <1>3, ToldSoFar
      <3>2. Len(r.out) \in Nat /\ Len(r.out) <= row_bytes - Len(raw)
        BY <1>3, <1>4, <1>8, <3>1 DEF Least
      <3>3. Len(raw') = Len(raw) + Len(r.out)
        BY <2>1
      <3> QED  BY <1>3, <3>2, <3>3
    <2>4. Typed'
      BY <1>1, <1>5, <1>6, <1>8, <2>1, <2>3 DEF Typed
    <2>5. Within(plan, raw')
      BY <1>1, <1>4, <1>8, <2>1, WithinParts DEF Delivered
    <2>6. Delivered'
      BY <1>1, <1>5, <1>6, <2>5 DEF Delivered, Within
    <2>7. Tells(plan, walk, Read)'
      BY <1>4, <1>5, <1>6, <1>8, <2>2 DEF Tells, Within
    <2>8. AtFill'
      BY <1>1, <1>6, <2>7 DEF AtFill
    <2> QED  BY <1>6, <1>8, <2>4, <2>6, <2>8 DEF BInv, Told
  <1> QED  BY <1>7, <1>8

\* Handing a row over, and requiring the end after the last.
LEMMA DeliverRowKeeps ==
    ASSUME BInv, DeliverRow
    PROVE  BInv'
  <1>1. Typed /\ Delivered /\ AtFill /\ Len(raw) = row_bytes
    BY DEF BInv, Told, DeliverRow
  <1>2. /\ delivered' = Read /\ raw' = <<>> /\ UNCHANGED <<sourceVars, plan, row_bytes, walk, verdict>>
        /\ point' = (IF Len(delivered) + row_bytes < plan.implied_bytes THEN "fill"
                     ELSE IF walk.index < PairCount(plan) THEN "require_end" ELSE "finish")
    BY DEF DeliverRow, Read, AfterLastRow
  <1>3. length' = length /\ SourceType'
    BY <1>1, <1>2, StandingFacts DEF sourceVars, SourceType
  <1>4. /\ ConformingPlan(plan) /\ SourceType /\ plan.implied_bytes \in Nat /\ PairCount(plan) \in Nat
        /\ Len(delivered) \in Nat /\ row_bytes \in Nat \ {0}
        /\ Read \in Seq(Byte) /\ Len(Read) = Len(delivered) + row_bytes
    BY <1>1, StandingFacts
  <1>5. /\ Tells(plan, walk, Read) /\ walk.index \in 1 .. PairCount(plan) /\ walk.owed \in Nat
        /\ Len(Read) + walk.owed = Owes(plan, walk.index)
        /\ Owes(plan, walk.index) \in 0 .. plan.implied_bytes
        /\ IsPrefix(Read, Stated(plan))
    BY <1>1, <1>4, ToldSoFar DEF AtFill
  <1>6. Len(Read) <= plan.implied_bytes
    BY <1>4, <1>5
  <1>7. Read' = Read /\ raw' \in Seq(Byte) /\ Len(raw') = 0
    <2>1. raw' = <<>> /\ delivered' = Read
      BY <1>2
    <2> QED  BY <1>4, <2>1 DEF Read
  <1>8. \E m \in Nat : Len(delivered') = m * row_bytes
    <2>1. PICK m \in Nat : Len(delivered) = m * row_bytes
      BY <1>1 DEF Typed
    <2>2. (m + 1) * row_bytes = m * row_bytes + row_bytes
      BY <1>4
    <2>3. m + 1 \in Nat /\ Len(delivered') = (m + 1) * row_bytes
      BY <1>2, <1>4, <2>1, <2>2
    <2> QED  BY <2>3
  <1>9. Typed'
    <2>1. plan' = plan /\ row_bytes' = row_bytes
      BY <1>2
    <2>2. \E m \in Nat : plan'.implied_bytes = m * row_bytes'
      BY <1>1, <2>1 DEF Typed
    <2>3. \E m \in Nat : Len(delivered') = m * row_bytes'
      BY <1>8, <2>1
    <2>4. delivered' \in Seq(Byte) /\ Len(delivered') <= plan'.implied_bytes /\ Len(raw') <= row_bytes'
      BY <1>2, <1>4, <1>6, <1>7, <2>1
    <2>5. point' \in {"open", "fill", "require_end", "finish", "done"} /\ plan' \in Plans
          /\ row_bytes' \in Nat \ {0}
      BY <1>1, <1>2, <1>4, <2>1 DEF Typed
    <2> QED  BY <1>3, <1>7, <2>2, <2>3, <2>4, <2>5 DEF Typed
  <1>10. Delivered'
    <2>1. Within(plan, Read) /\ Within(plan, <<>>)
      <3>1. delivered \in Seq(Byte) /\ raw \in Seq(Byte)
        BY <1>1 DEF Typed
      <3>2. Within(plan, delivered) /\ Within(plan, raw)
        BY <1>1 DEF Delivered
      <3> QED  BY <3>1, <3>2, WithinParts DEF Read, Within
    <2> QED  BY <1>2, <1>3, <1>5, <2>1 DEF Delivered, Within
  <1>11. Tells(plan, walk, Read)'
    BY <1>2, <1>3, <1>5, <1>7 DEF Tells, Within
  <1>12. CASE Len(delivered) + row_bytes < plan.implied_bytes
    <2>1. AtFill'
      BY <1>2, <1>4, <1>11, <1>12 DEF AtFill
    <2> QED  BY <1>2, <1>9, <1>10, <1>12, <2>1 DEF BInv, Told
  <1>13. CASE ~ (Len(delivered) + row_bytes < plan.implied_bytes)
    <2>1. walk.owed = 0
      BY <1>4, <1>5, <1>13
    <2>2. ~ (walk.index < PairCount(plan)) => walk.index = PairCount(plan)
      BY <1>4, <1>5
    <2> QED  BY <1>2, <1>9, <1>10, <1>11, <1>13, <2>1, <2>2 DEF BInv, Told, AtRequireEnd, AtFinish
  <1> QED  BY <1>12, <1>13

\* Requiring the end of a pair that owes nothing more, advance.
LEMMA LeavePairKeeps ==
    ASSUME BInv, LeavePair
    PROVE  BInv'
  <1>1. Typed /\ AtFill /\ Len(raw) < row_bytes /\ walk.owed = 0
    BY DEF BInv, Told, LeavePair
  <1>2. /\ point' = "require_end"
        /\ UNCHANGED <<sourceVars, plan, row_bytes, walk, raw, delivered, verdict>>
    BY DEF LeavePair
  <1>3. length' = length /\ SourceType'
    BY <1>1, <1>2, StandingFacts DEF sourceVars, SourceType
  <1>4. Typed' /\ Delivered' /\ Read' = Read
    BY <1>2, <1>3, SameRows
  <1>5. Tells(plan, walk, Read)'
    BY <1>1, <1>2, <1>3, <1>4 DEF Tells, Within, AtFill
  <1>6. walk.index < PairCount(plan)
    \* Otherwise the rows and less than a row more would be the block, which is rows.
    <2>1. /\ ConformingPlan(plan) /\ SourceType /\ plan.implied_bytes \in Nat
          /\ PairCount(plan) \in Nat /\ Len(delivered) \in Nat /\ Len(raw) \in Nat
          /\ row_bytes \in Nat \ {0} /\ Len(Read) = Len(delivered) + Len(raw)
      BY <1>1, StandingFacts
    <2>2. /\ walk.index \in 1 .. PairCount(plan)
          /\ Len(Read) + walk.owed = Owes(plan, walk.index)
          /\ walk.index = PairCount(plan) => Owes(plan, walk.index) = plan.implied_bytes
      BY <1>1, <2>1, ToldSoFar DEF AtFill
    <2> SUFFICES ASSUME walk.index = PairCount(plan) PROVE FALSE
      BY <2>1, <2>2
    <2>3. plan.implied_bytes = Len(delivered) + Len(raw)
      BY <1>1, <2>1, <2>2
    <2>4. PICK m \in Nat : Len(delivered) = m * row_bytes
      BY <1>1 DEF Typed
    <2>5. PICK k \in Nat : plan.implied_bytes = k * row_bytes
      BY <1>1 DEF Typed
    <2>6. Len(raw) \in 0 .. row_bytes - 1 /\ 0 \in 0 .. row_bytes - 1
      BY <1>1, <2>1
    <2>7. k * row_bytes + 0 = m * row_bytes + Len(raw)
      BY <2>1, <2>3, <2>4, <2>5
    <2>8. Len(raw) = 0
      BY <2>1, <2>6, <2>7, DivisionIsUnique
    <2> QED  BY <1>1, <2>1, <2>3, <2>8 DEF AtFill
  <1> QED  BY <1>1, <1>2, <1>4, <1>5, <1>6 DEF BInv, Told, AtRequireEnd

\* A required end, on to `next'.
LEMMA EndKeeps ==
    ASSUME BInv, Tells(plan, walk, Read), walk.owed = 0, NEW next \in {"open", "done"},
           NEW r \in RequireEnd(plan, walk), Goes(r, next), UNCHANGED <<raw, delivered>>,
           next = "open" => walk.index < PairCount(plan),
           next = "done" => walk.index = PairCount(plan) /\ raw = <<>>
    PROVE  BInv'
  <1>1. Typed /\ ConformingPlan(plan) /\ SourceType
    BY StandingFacts DEF BInv
  <1>2. /\ Sound(r) /\ Standing(plan, r.walk) /\ r.walk.index = walk.index
        /\ r.res = "ok" => Between(plan, r.walk, Read)
    BY <1>1, EndTells
  <1>3. SourceType' /\ length' = length
    BY <1>1, <1>2, SoundMoves DEF Goes
  <1>4. /\ walk' = r.walk /\ verdict' = r.res /\ UNCHANGED <<plan, row_bytes, delivered, raw>>
        /\ point' = (IF r.res = "ok" THEN next ELSE "done")
    BY DEF Goes
  <1>5. Typed' /\ Delivered' /\ Read' = Read
    BY <1>3, <1>4, SameRows
  <1> QED  BY <1>2, <1>4, <1>5 DEF BInv, Told, AtOpen, AtDone

\* Every state of a stream is one of the invariant.
LEMMA BInvariance == Spec => []BInv
  <1>1. ASSUME BInv, [Next]_vars PROVE BInv'
    <2>1. CASE OpenNext
      BY <1>1, <2>1, OpenNextKeeps
    <2>2. CASE FillRow
      BY <1>1, <2>2, FillRowKeeps
    <2>3. CASE DeliverRow
      BY <1>1, <2>3, DeliverRowKeeps
    <2>4. CASE LeavePair
      BY <1>1, <2>4, LeavePairKeeps
    <2>5. CASE EndPair
      <3>1. AtRequireEnd
        BY <1>1, <2>5 DEF BInv, Told, EndPair
      <3> QED  BY <1>1, <2>5, <3>1, EndKeeps DEF AtRequireEnd, EndPair
    <2>6. CASE Finish
      <3>1. AtFinish
        BY <1>1, <2>6 DEF BInv, Told, Finish
      <3> QED  BY <1>1, <2>6, <3>1, EndKeeps DEF AtFinish, Finish
    <2>7. CASE Done \/ UNCHANGED vars
      <3>1. UNCHANGED <<sourceVars, plan, row_bytes, walk, point, raw, delivered, verdict>>
        BY <2>7 DEF Done, vars, streamVars
      <3>2. length' = length /\ SourceType'
        BY <1>1, <3>1 DEF sourceVars, SourceType, BInv, Typed
      <3>3. Typed' /\ Delivered' /\ Read' = Read
        BY <1>1, <3>1, <3>2, SameRows DEF BInv, Typed
      <3> QED
        BY <1>1, <3>1, <3>2, <3>3
           DEF BInv, Told, AtOpen, AtFill, AtRequireEnd, AtFinish, AtDone, Tells, Within
    <2> QED  BY <1>1, <2>1, <2>2, <2>3, <2>4, <2>5, <2>6, <2>7 DEF Next, Step
  <1> QED  BY <1>1, InitBInv, PTL DEF Spec

-----------------------------------------------------------------------------
(* The stream keeps what it promises.                                      *)

\* Every row handed over, of any block from any source, holds the block's own bytes, in order,
\* whatever its codec reads ahead (SubblockWalk::fill).
THEOREM RowsAlwaysTheBlocks == Spec => []RowsAreTheBlocks
  <1>1. BInv => RowsAreTheBlocks
    BY DEF BInv, Delivered, RowsAreTheBlocks
  <1> QED  BY <1>1, BInvariance, PTL

\* A pair that could not be opened leaves nothing to read, of it or of the pair before it, in
\* every stream (Stream::open marks the stream ended first).
THEOREM FailedOpensAreEmpty == Spec => FailedOpenIsEmpty
  <1>1. ASSUME BInv, [Next]_vars
        PROVE  [point = "open" /\ verdict' # "ok" => walk'.current = "Ended"]_vars
    <2> SUFFICES ASSUME Next, point = "open", verdict' # "ok" PROVE walk'.current = "Ended"
      BY <1>1
    <2>1. OpenNext
      BY DEF Next, Step, FillRow, DeliverRow, LeavePair, EndPair, Finish, Done
    <2>2. PICK r \in Open(plan, walk) : walk' = r.walk /\ verdict' = r.res
      BY <2>1 DEF OpenNext, Goes
    <2>3. /\ ConformingPlan(plan) /\ SourceType /\ plan \in Plans
          /\ Between(plan, walk, Read) /\ walk.index < PairCount(plan)
      BY <1>1, StandingFacts DEF BInv, Told, AtOpen
    <2>4. plan.location.position + plan.location.size \in U
      BY <2>3, PlansAssumption
    <2>5. r.res # "ok" => r.walk.current = "Ended"
      BY <2>3, <2>4, OpenTells
    <2> QED  BY <2>2, <2>5
  <1> QED  BY <1>1, BInvariance, PTL DEF FailedOpenIsEmpty, Spec

-----------------------------------------------------------------------------
(* Both routes come to the same.                                           *)

\* The rest of the invariant: the faults that are left, and, over a source that holds the whole
\* of a block no cap stops, where the cursor is and what the stream failed for.
Reasoned ==
    /\ faults <= MaxFaults /\ (verdict = "Io" => faults < MaxFaults)
    /\ seekable => Origin + length \in U
    /\ Calm(plan) =>
          /\ point # "done" => InPlace(plan, walk, pos)
          /\ point = "done" /\ verdict \notin {"ok", "Io"}
                => \E i : FirstBad(plan, i) /\ verdict = Refusal(plan, i)

\* A stream begins at its block.
LEMMA InitReasoned == Init => Reasoned
  <1> SUFFICES ASSUME Init PROVE Reasoned
    OBVIOUS
  <1>1. ConformingPlan(plan) /\ plan.location.position \in Nat
    BY PlansAssumption DEF Init, ConformingPlan
  <1>2. InPlace(plan, walk, pos)
    <2>1. walk.next_at = plan.location.position /\ walk.index = 0 /\ pos = plan.location.position
      BY DEF Init, Unopened
    <2> QED  BY <1>1, <2>1 DEF InPlace
  <1> QED  BY <1>2, MaxFaultsAssumption DEF Init, Reasoned

\* A result that is to blame for its failure is a step of the invariant.
LEMMA GoesReasoned ==
    ASSUME BInv, Reasoned, NEW r, Sound(r), NEW next, Goes(r, next), Calm(plan) => Blamed(plan, r)
    PROVE  Reasoned'
  <1>1. /\ faults \in Nat /\ MaxFaults \in Nat /\ faults <= MaxFaults
        /\ r.res = "Io" => faults > 0
    BY MaxFaultsAssumption DEF BInv, Typed, SourceType, Reasoned, Sound
  <1>2. /\ pos' = r.pos /\ faults' = (IF r.res = "Io" THEN faults - 1 ELSE faults)
        /\ seekable' = seekable /\ length' = length /\ plan' = plan
        /\ walk' = r.walk /\ verdict' = r.res /\ point' = (IF r.res = "ok" THEN next ELSE "done")
    BY DEF Goes, Moves
  <1>3. faults' <= MaxFaults /\ (verdict' = "Io" => faults' < MaxFaults)
    BY <1>1, <1>2
  <1>4. seekable' => Origin + length' \in U
    BY <1>2 DEF Reasoned
  <1>5. ASSUME Calm(plan)'
        PROVE  /\ point' # "done" => InPlace(plan, walk, pos)'
               /\ point' = "done" /\ verdict' \notin {"ok", "Io"}
                     => \E i : FirstBad(plan, i)' /\ verdict' = Refusal(plan, i)'
    <2>1. Calm(plan)
      BY <1>2, <1>5 DEF Calm
    <2>2. Blamed(plan, r)
      BY <2>1
    <2>3. ASSUME point' # "done" PROVE InPlace(plan', walk', pos')
      BY <1>2, <2>2, <2>3 DEF Blamed
    <2>4. ASSUME verdict' \notin {"ok", "Io"}
          PROVE  \E i : FirstBad(plan', i) /\ verdict' = Refusal(plan', i)
      BY <1>2, <2>2, <2>4 DEF Blamed
    <2> QED  BY <2>3, <2>4
  <1> QED  BY <1>3, <1>4, <1>5 DEF Reasoned

\* A step that leaves the source and the walk alone, short of the end.
LEMMA StaysReasoned ==
    ASSUME Reasoned, UNCHANGED <<sourceVars, plan, walk, verdict>>,
           point' = point \/ (point # "done" /\ point' # "done")
    PROVE  Reasoned'
  <1>1. /\ pos' = pos /\ faults' = faults /\ seekable' = seekable /\ length' = length
        /\ plan' = plan /\ walk' = walk /\ verdict' = verdict
    BY DEF sourceVars
  <1>2. faults' <= MaxFaults /\ (verdict' = "Io" => faults' < MaxFaults)
    BY <1>1 DEF Reasoned
  <1>3. seekable' => Origin + length' \in U
    BY <1>1 DEF Reasoned
  <1>4. ASSUME Calm(plan)'
        PROVE  /\ point' # "done" => InPlace(plan, walk, pos)'
               /\ point' = "done" /\ verdict' \notin {"ok", "Io"}
                     => \E i : FirstBad(plan, i)' /\ verdict' = Refusal(plan, i)'
    <2>1. Calm(plan)
      BY <1>1, <1>4 DEF Calm
    <2>2. /\ point # "done" => InPlace(plan, walk, pos)
          /\ point = "done" /\ verdict \notin {"ok", "Io"}
                => \E i : FirstBad(plan, i) /\ verdict = Refusal(plan, i)
      BY <2>1 DEF Reasoned
    <2>3. point' # "done" => InPlace(plan', walk', pos')
      BY <1>1, <2>2
    <2>4. point' = "done" /\ verdict' \notin {"ok", "Io"}
                => \E i : FirstBad(plan', i) /\ verdict' = Refusal(plan', i)
      BY <1>1, <2>2
    <2> QED  BY <2>3, <2>4
  <1> QED  BY <1>2, <1>3, <1>4 DEF Reasoned

\* Every step keeps it.
LEMMA NextReasoned ==
    ASSUME BInv, Reasoned, [Next]_vars
    PROVE  Reasoned'
  <1>1. /\ Typed /\ ConformingPlan(plan) /\ SourceType
    BY StandingFacts DEF BInv
  <1>2. point # "done" /\ Calm(plan) => InPlace(plan, walk, pos)
    BY DEF Reasoned
  <1>3. CASE OpenNext
    <2>1. AtOpen /\ point # "done"
      BY <1>3 DEF BInv, Told, OpenNext
    <2>2. PICK r \in Open(plan, walk) :
              Goes(r, IF ~Whole THEN "fill"
                      ELSE IF r.walk.index < PairCount(plan) THEN "require_end" ELSE "finish")
      BY <1>3 DEF OpenNext
    <2>3. Sound(r)
      BY <1>1, <2>1, OpenTells DEF AtOpen
    <2>4. Calm(plan) => Blamed(plan, r)
      BY <1>1, <1>2, <2>1, OpenBlamed DEF AtOpen
    <2> QED  BY <2>2, <2>3, <2>4, GoesReasoned
  <1>4. CASE FillRow
    <2>1. AtFill /\ point # "done" /\ row_bytes - Len(raw) \in Nat
      <3>1. AtFill /\ point # "done" /\ Len(raw) < row_bytes
        BY <1>4 DEF BInv, Told, FillRow
      <3> QED  BY <1>1, <3>1, StandingFacts
    <2>2. PICK r \in Take(plan, walk, row_bytes - Len(raw)) : Goes(r, "fill")
      BY <1>4 DEF FillRow
    <2>3. Sound(r)
      BY <1>1, <2>1, TakeTells DEF AtFill
    <2>4. Calm(plan) => Blamed(plan, r)
      BY <1>1, <1>2, <2>1, TakeBlamed DEF AtFill
    <2> QED  BY <2>2, <2>3, <2>4, GoesReasoned
  <1>5. CASE DeliverRow
    <2>1. /\ UNCHANGED <<sourceVars, plan, walk, verdict>> /\ point # "done" /\ point' # "done"
      BY <1>5 DEF DeliverRow, AfterLastRow
    <2> QED  BY <2>1, StaysReasoned
  <1>6. CASE LeavePair
    <2>1. /\ UNCHANGED <<sourceVars, plan, walk, verdict>> /\ point # "done" /\ point' # "done"
      BY <1>6 DEF LeavePair
    <2> QED  BY <2>1, StaysReasoned
  <1>7. ASSUME point # "done", Tells(plan, walk, Read), walk.owed = 0,
               NEW r \in RequireEnd(plan, walk), NEW next, Goes(r, next)
        PROVE  Reasoned'
    <2>1. Sound(r)
      BY <1>1, <1>7, EndTells
    <2>2. Calm(plan) => Blamed(plan, r)
      BY <1>1, <1>2, <1>7, EndBlamed
    <2> QED  BY <1>7, <2>1, <2>2, GoesReasoned
  <1>8. CASE EndPair
    <2>1. AtRequireEnd /\ point # "done"
      BY <1>8 DEF BInv, Told, EndPair
    <2> QED  BY <1>7, <1>8, <2>1 DEF AtRequireEnd, EndPair
  <1>9. CASE Finish
    <2>1. AtFinish /\ point # "done"
      BY <1>9 DEF BInv, Told, Finish
    <2> QED  BY <1>7, <1>9, <2>1 DEF AtFinish, Finish
  <1>10. CASE Done \/ UNCHANGED vars
    <2>1. UNCHANGED <<sourceVars, plan, walk, verdict>>
      BY <1>10 DEF Done, vars, streamVars
    <2>2. point' = point
      BY <1>10 DEF Done, vars, streamVars
    <2> QED  BY <2>1, <2>2, StaysReasoned
  <1> QED  BY <1>3, <1>4, <1>5, <1>6, <1>8, <1>9, <1>10 DEF Next, Step

\* When some pair does not decode, one of them is the first.
LEMMA SomeFirstRefused ==
    ASSUME NEW p, ConformingPlan(p), NEW i \in 1 .. PairCount(p), ~PairDecodes(p, i)
    PROVE  \E k \in 1 .. i : FirstRefused(p, k)
  <1> DEFINE bad == {k \in 1 .. i : ~PairDecodes(p, k)}
  <1>1. i \in Nat /\ \A k \in 1 .. i : k \in 1 .. PairCount(p)
    BY PairsOf
  <1>2. bad # {} /\ bad \in SUBSET Nat
    BY <1>1
  <1> HIDE DEF bad
  <1>3. PICK k \in bad : \A j \in bad : k <= j
    BY <1>2, Contents!LeastOf
  <1> USE DEF bad
  <1>4. k \in 1 .. i /\ ~PairDecodes(p, k)
    BY <1>3
  <1>5. \A j \in 1 .. k - 1 : j \in 1 .. i /\ ~ (k <= j)
    BY <1>1, <1>4
  <1>6. AllDecode(p, k - 1)
    BY <1>3, <1>5 DEF AllDecode
  <1> QED  BY <1>1, <1>4, <1>6 DEF FirstRefused

\* A pair that holds something and does not decode is one whose frame never ends.
LEMMA UnendedIsRefused ==
    ASSUME NEW p, ConformingPlan(p), NEW i \in 1 .. PairCount(p), ~PairDecodes(p, i),
           Holds(p, i) # None
    PROVE  Unended(p, i) /\ Refusal(p, i) = "Malformed"
  <1>1. Unended(p, i)
    BY DEF PairDecodes
  <1>2. ~p.contents[i].window
    BY <1>1 DEF Unended, ConformingPlan, ConformingContent
  <1> QED  BY <1>1, <1>2 DEF Refusal

\* Whichever route reads a block, of any pairs, from any source and in rows of any length, comes
\* to the same bytes, and over a source that failed nowhere to the same refusal; but for a block
\* with a pair that owes nothing and holds a frame that never ends.
THEOREM SameBlockAlways == Spec => []SameBlockEitherRoute
  <1>1. BInv /\ Reasoned /\ [Next]_vars => Reasoned'
    BY NextReasoned
  <1>2. BInv /\ Reasoned => SameBlockEitherRoute
    <2> DEFINE n == PairCount(plan)
               whole == Materialized(plan)
               unended == \E i \in 1 .. n : Unended(plan, i)
    <2> SUFFICES ASSUME BInv, Reasoned, point = "done"
                 PROVE  /\ verdict = "ok" =>
                              IF unended THEN whole.res = "Malformed"
                              ELSE whole.res = "ok" /\ whole.dst = delivered
                        /\ verdict # "ok" /\ faults = MaxFaults /\ Uncapped(plan)
                              /\ length >= plan.location.position + plan.location.size
                              => whole.res = verdict \/ (unended /\ whole.res = "Malformed")
      BY Zenon DEF SameBlockEitherRoute
    <2>1. plan \in Plans /\ ConformingPlan(plan)
      BY StandingFacts DEF BInv
    <2>2. \A i : FirstRefused(plan, i) => whole.res = Refusal(plan, i)
      BY <2>1, DecompressedIsStated
    <2>3. AllDecode(plan, n) => whole.res = "ok" /\ whole.dst = Before(plan, n)
      BY <2>1, DecompressedIsStated
    <2> HIDE DEF whole
    <2>4. CASE verdict = "ok"
      <3>1. AtDone
        BY <2>4 DEF BInv, Told
      <3>2. AllHold(plan, n) /\ Read = Before(plan, n) /\ raw = <<>>
        BY <3>1 DEF AtDone, Between
      <3>3. delivered \in Seq(Byte)
        BY DEF BInv, Typed
      <3>4. Read = delivered
        BY <3>2, <3>3 DEF Read
      <3>5. CASE ~unended
        <4>1. AllDecode(plan, n)
          BY <3>2, <3>5 DEF AllDecode, AllHold, PairDecodes
        <4> QED  BY <2>3, <2>4, <3>2, <3>4, <3>5, <4>1
      <3>6. CASE unended
        <4>1. PICK i \in 1 .. n : Unended(plan, i)
          BY <3>6
        <4>2. ~PairDecodes(plan, i)
          BY <4>1 DEF PairDecodes
        <4>3. PICK k \in 1 .. i : FirstRefused(plan, k)
          BY <2>1, <4>2, SomeFirstRefused
        <4>4. k \in 1 .. n /\ ~PairDecodes(plan, k)
          BY <4>3 DEF FirstRefused
        <4>5. Refusal(plan, k) = "Malformed"
          BY <2>1, <3>2, <4>4, UnendedIsRefused DEF AllHold
        <4> QED  BY <2>2, <2>4, <3>6, <4>3, <4>5
      <3> QED  BY <3>5, <3>6
    <2>5. ASSUME verdict # "ok", faults = MaxFaults, Uncapped(plan),
                 length >= plan.location.position + plan.location.size
          PROVE  whole.res = verdict \/ (unended /\ whole.res = "Malformed")
      <3>1. verdict # "Io"
        <4>1. ~ (faults < MaxFaults)
          BY <2>5, MaxFaultsAssumption
        <4> QED  BY <4>1 DEF Reasoned
      <3>2. Calm(plan)
        BY <2>1, <2>5, PlansAssumption DEF Calm, Reasoned
      <3>3. PICK i : FirstBad(plan, i) /\ verdict = Refusal(plan, i)
        BY <2>5, <3>1, <3>2 DEF Reasoned
      <3>4. i \in 1 .. n /\ AllHold(plan, i - 1) /\ ~PairDecodes(plan, i)
        BY <3>3 DEF FirstBad, PairDecodes
      <3>5. PICK k \in 1 .. i : FirstRefused(plan, k)
        BY <2>1, <3>4, SomeFirstRefused
      <3>6. CASE k = i
        BY <2>2, <3>3, <3>5, <3>6
      <3>7. CASE k # i
        <4>1. k \in 1 .. i - 1 /\ k \in 1 .. n /\ ~PairDecodes(plan, k)
          <5>1. i \in Nat
            BY <3>4
          <5> QED  BY <3>5, <3>7, <5>1 DEF FirstRefused
        <4>2. Unended(plan, k) /\ Refusal(plan, k) = "Malformed"
          BY <2>1, <3>4, <4>1, UnendedIsRefused DEF AllHold
        <4> QED  BY <2>2, <3>5, <4>1, <4>2
      <3> QED  BY <3>6, <3>7
    <2> QED  BY <2>4, <2>5
  <1> QED  BY <1>1, <1>2, InitReasoned, BInvariance, PTL DEF Spec

-----------------------------------------------------------------------------
(* What a stream that ends well had to be supplied with.                   *)

\* The source holds every byte pair i cannot be decoded without.
Supplied(p, i) == Needed(p, i) > 0 => StartOf(p, i) + Needed(p, i) <= length

Framed(p, i) ==
    /\ Classify(PairOf(p, i), p.reading) = "Compressed"
    /\ p.compression.codec \in {"zlib", "zstd"}

\* The stored bytes a walk has drawn of its pair were there, and a pair held whole was drawn whole.
Drew(p, w) ==
    /\ w.stored_at # StartOf(p, w.index) => w.stored_at <= length
    /\ w.current = "Held" => w.stored_left = 0 /\ ~Framed(p, w.index)
    /\ w.current \in {"Zlib", "Zstd"} => Framed(p, w.index)

\* A pull of the open pair draws bytes that are there; one that gives nothing has drawn all that
\* the codec cannot do without.
LEMMA PullsDraw ==
    ASSUME SourceType, NEW p, ConformingPlan(p), NEW w, NEW done, Tells(p, w, done),
           NEW n \in Nat, NEW r \in FillUpto(p, w, n), r.res = "ok"
    PROVE  \E m \in 0 .. w.stored_left :
              /\ r.walk.stored_at = w.stored_at + m /\ r.walk.stored_left = w.stored_left - m
              /\ m # 0 => w.stored_at + m <= length
              /\ w.current \in {"Zlib", "Zstd"} /\ n # 0 /\ r.out = <<>> =>
                    p.contents[w.index].needs <= (PairOf(p, w.index)[1] - w.stored_left) + m
  <1> DEFINE i == w.index
             c == p.contents[i]
             consumed == PairOf(p, i)[1] - w.stored_left
  <1>1. /\ w \in WalkType /\ i \in 1 .. PairCount(p) /\ w.current # "Ended" /\ i # 0
        /\ w.stored_at \in Nat /\ w.stored_left \in Nat /\ w.given \in Nat
        /\ c.output \in Seq(Byte) /\ c.needs \in Nat /\ consumed \in Int
        /\ w.current \in {"Zlib", "Zstd"} => w.given <= Len(c.output)
    <2>1. /\ w \in WalkType /\ i \in 1 .. PairCount(p) /\ w.current # "Ended"
          /\ w.current \in {"Zlib", "Zstd"} =>
                Gives(p, i) = c.output /\ w.given = Taken(p, w) /\ Taken(p, w) <= Len(Gives(p, i))
      BY OpenedFacts
    <2>2. c.output \in Seq(Byte) /\ c.needs \in Nat
      BY <2>1 DEF ConformingPlan, ConformingContent
    <2>3. PairOf(p, i)[1] \in Nat
      BY <2>1, PairsOf
    <2> QED  BY <2>1, <2>2, <2>3 DEF WalkType
  <1>2. ASSUME NEW k \in 0 .. w.stored_left, NEW q \in ReadStored(w, k), q.res = "ok"
        PROVE  /\ q.walk \in WalkType
               /\ q.walk.stored_at = w.stored_at + k /\ q.walk.stored_left = w.stored_left - k
               /\ k # 0 => w.stored_at + k <= length
    <2>1. q.walk = Drawn(w, k) /\ (k # 0 => w.stored_at + k <= length)
      BY <1>1, <1>2, StoredBytes
    <2>2. w.stored_left - k \in Nat /\ w.stored_at + k \in Nat
      BY <1>1
    <2> QED  BY <1>1, <2>1, <2>2 DEF Drawn, WalkType
  <1>3. CASE w.current = "Raw"
    <2> DEFINE k == Least(n, w.stored_left)
    <2>1. k \in 0 .. w.stored_left
      BY <1>1 DEF Least
    <2>2. r \in ReadStored(w, k)
      BY <1>3 DEF FillUpto
    <2> HIDE DEF k
    <2> QED  BY <1>2, <1>3, <2>1, <2>2
  <1>4. ASSUME r.walk.stored_at = w.stored_at, r.walk.stored_left = w.stored_left,
               ~ (w.current \in {"Zlib", "Zstd"} /\ n # 0)
        PROVE  \E m \in 0 .. w.stored_left :
                  /\ r.walk.stored_at = w.stored_at + m /\ r.walk.stored_left = w.stored_left - m
                  /\ m # 0 => w.stored_at + m <= length
                  /\ ~ (w.current \in {"Zlib", "Zstd"} /\ n # 0)
    <2>1. 0 \in 0 .. w.stored_left /\ w.stored_at = w.stored_at + 0
          /\ w.stored_left = w.stored_left - 0
      BY <1>1
    <2> QED  BY <1>4, <2>1
  <1>5. CASE w.current = "Held"
    <2> DEFINE k == Least(n, Len(w.buf))
               v == [w EXCEPT !.buf = SubSeq(@, k + 1, Len(@))]
    <2>1. r = Result("ok", pos, v, SubSeq(w.buf, 1, k))
      BY <1>5 DEF FillUpto
    <2>2. v.stored_at = w.stored_at /\ v.stored_left = w.stored_left
      BY <1>1 DEF WalkType
    <2> HIDE DEF k, v
    <2>3. r.walk = v
      BY <2>1, ResultFields
    <2> QED  BY <1>4, <1>5, <2>2, <2>3
  <1>6. CASE w.current \in {"Zlib", "Zstd"} /\ n = 0
    <2>1. r = Result("ok", pos, w, <<>>)
      BY <1>6 DEF FillUpto, PullFramed
    <2>2. r.walk = w
      BY <2>1, ResultFields
    <2> QED  BY <1>4, <1>6, <2>2
  <1>7. CASE w.current \in {"Zlib", "Zstd"} /\ n # 0
    <2>0. /\ Len(c.output) \in Nat /\ w.given \in Nat /\ w.given + n \in Nat
          /\ w.given <= Len(c.output) /\ c.needs - consumed \in Int
      <3> HIDE DEF c, consumed
      <3>1. w.given \in Nat /\ c.output \in Seq(Byte) /\ w.given <= Len(c.output)
            /\ c.needs \in Nat /\ consumed \in Int
        BY Zenon, <1>1, <1>7
      <3>2. Len(c.output) \in Nat
        BY ONLY <3>1
      <3>3. w.given + n \in Nat
        BY ONLY <3>1, n \in Nat
      <3>4. c.needs - consumed \in Int
        BY ONLY <3>1
      <3> QED  BY Zenon, <3>1, <3>2, <3>3, <3>4
    <2> DEFINE take == Least(n, Len(c.output) - w.given)
               least == IF w.given + n < Len(c.output) THEN 0 ELSE Greatest(0, c.needs - consumed)
               res == IF take < n /\ ~c.ends /\ ~c.kept THEN "Malformed" ELSE "ok"
               out == SubSeq(c.output, w.given + 1, w.given + take)
               Give(q) == IF q.res # "ok" THEN q
                          ELSE Result(res, q.pos, [q.walk EXCEPT !.given = @ + take], out)
    <2>1. r \in {Give(q) : q \in UNION {ReadStored(w, m) : m \in least .. w.stored_left}}
      BY <1>7 DEF FillUpto, PullFramed
    <2>2. least \in Nat /\ (w.given + n >= Len(c.output) => c.needs - consumed <= least)
      <3> DEFINE l == Len(c.output)
                 short == c.needs - consumed
      <3>1. least = IF w.given + n < l THEN 0 ELSE IF 0 > short THEN 0 ELSE short
        BY Zenon DEF Greatest
      <3>3. l \in Nat /\ w.given + n \in Nat /\ short \in Int
        BY Zenon, <2>0
      <3> HIDE DEF least, l, short
      <3>2. least \in Nat /\ (w.given + n >= l => short <= least)
        BY ONLY <3>1, <3>3
      <3> QED  BY <3>2 DEF l, short
    <2>3. take \in Nat /\ (take = 0 => w.given >= Len(c.output)) /\ Len(out) = take
      <3> DEFINE l == Len(c.output)
      <3>1. l \in Nat /\ w.given \in Nat /\ w.given <= l
        BY Zenon, <2>0
      <3>2. take = IF n < l - w.given THEN n ELSE l - w.given
        BY DEF Least
      <3> HIDE DEF take
      <3>3. take \in Nat /\ (take = 0 => w.given >= l) /\ w.given + take <= l
        BY <1>7, <3>1, <3>2
      <3>4. Len(out) = take
        BY <1>1, <3>1, <3>3, PartOf
      <3> QED  BY <3>3, <3>4
    <2> HIDE DEF take, least, res, out, consumed
    <2>4. PICK m \in least .. w.stored_left : \E q \in ReadStored(w, m) : r = Give(q)
      BY <2>1
    <2>5. PICK q \in ReadStored(w, m) : r = Give(q)
      BY <2>4
    <2>6. m \in 0 .. w.stored_left /\ least <= m
      BY <1>1, <2>2
    <2>7. q.res = "ok"
      BY <2>5
    <2> DEFINE v == [q.walk EXCEPT !.given = @ + take]
    <2>8. r = Result(res, q.pos, v, out)
      BY <2>5, <2>7
    <2>9. /\ q.walk \in WalkType
          /\ q.walk.stored_at = w.stored_at + m /\ q.walk.stored_left = w.stored_left - m
          /\ m # 0 => w.stored_at + m <= length
      BY <1>2, <2>6, <2>7
    <2>10. v.stored_at = q.walk.stored_at /\ v.stored_left = q.walk.stored_left
      BY <2>9 DEF WalkType
    <2> HIDE DEF v
    <2>11. r.walk = v /\ r.out = out
      BY <2>8, ResultFields
    <2>12. ASSUME r.out = <<>> PROVE c.needs <= consumed + m
      <3>1. take = 0
        BY <2>3, <2>11, <2>12
      <3>2. w.given + n >= Len(c.output)
        BY <1>1, <2>3, <3>1
      <3>3. c.needs - consumed <= m /\ m \in Nat /\ c.needs \in Nat /\ consumed \in Int
        BY <1>1, <2>2, <2>6, <3>2 DEF consumed
      <3> HIDE DEF c
      <3> QED  BY <3>3
    <2> QED  BY <2>6, <2>9, <2>10, <2>11, <2>12 DEF consumed
  <1> QED  BY <1>1, <1>3, <1>5, <1>6, <1>7 DEF WalkType

\* What was drawn of a pair stays so after a pull.
LEMMA DrewMore ==
    ASSUME SourceType, NEW p, ConformingPlan(p), NEW w, NEW done, Tells(p, w, done), Drew(p, w),
           NEW n \in Nat, NEW r \in FillUpto(p, w, n), r.res = "ok"
    PROVE  Drew(p, r.walk)
  <1>1. PICK m \in 0 .. w.stored_left :
              /\ r.walk.stored_at = w.stored_at + m /\ r.walk.stored_left = w.stored_left - m
              /\ m # 0 => w.stored_at + m <= length
    BY PullsDraw
  <1>2. r.walk.index = w.index /\ r.walk.current = w.current
    BY PullsYield DEF Follows
  <1>3. w.stored_at \in Nat /\ w.stored_left \in Nat
    BY OpenedFacts DEF WalkType
  <1>4. CASE m = 0
    <2>1. r.walk.stored_at = w.stored_at /\ r.walk.stored_left = w.stored_left
      BY <1>1, <1>3, <1>4
    <2> QED  BY <1>2, <2>1 DEF Drew
  <1>5. CASE m # 0
    <2>1. r.walk.stored_at <= length
      BY <1>1, <1>5
    <2>2. w.current # "Held"
      BY <1>1, <1>3, <1>5 DEF Drew
    <2> QED  BY <1>2, <2>1, <2>2 DEF Drew
  <1> QED  BY <1>4, <1>5

\* A turn of fill that gave its bytes drew what it gave them from.
LEMMA TakeDraws ==
    ASSUME SourceType, NEW p, ConformingPlan(p), NEW w, NEW done, Tells(p, w, done), Drew(p, w),
           NEW rest \in Nat, NEW r \in Take(p, w, rest), r.res = "ok"
    PROVE  Drew(p, r.walk)
  <1> DEFINE take == Least(rest, w.owed)
             Short(q) == IF q.res = "ok" /\ Len(q.out) < take THEN [q EXCEPT !.res = "Malformed"]
                         ELSE q
  <1>1. PICK q \in FillUpto(p, w, take) :
            r = IF Short(q).res = "ok" THEN [Short(q) EXCEPT !.walk.owed = @ - take] ELSE Short(q)
    <2>1. PICK f \in Fill(p, w, take) :
              r = IF f.res = "ok" THEN [f EXCEPT !.walk.owed = @ - take] ELSE f
      BY DEF Take
    <2>2. PICK q \in FillUpto(p, w, take) : f = Short(q)
      BY DEF Fill
    <2> QED  BY <2>1, <2>2, Zenon
  <1>2. take \in Nat
    <2>1. w.owed \in Nat
      BY ToldSoFar
    <2> QED  BY <2>1 DEF Least
  <1>3. /\ q = Result(q.res, q.pos, q.walk, q.out) /\ q.walk \in WalkType
    BY <1>2, PullsYield DEF Sound, Follows, Standing
  <1> HIDE DEF take
  <1>4. CASE q.res = "ok" /\ ~ (Len(q.out) < take)
    <2> DEFINE v == [q.walk EXCEPT !.owed = @ - take]
    <2>1. r = Result("ok", q.pos, v, q.out)
      <3>1. r = [q EXCEPT !.walk.owed = @ - take]
        BY <1>1, <1>4
      <3>2. [q EXCEPT !.walk.owed = @ - take] = [q EXCEPT !.walk = v]
        OBVIOUS
      <3>3. [q EXCEPT !.walk = v] = Result("ok", q.pos, v, q.out)
        BY <1>3, <1>4 DEF Result
      <3> QED  BY <3>1, <3>2, <3>3
    <2>2. /\ v.index = q.walk.index /\ v.current = q.walk.current
          /\ v.stored_left = q.walk.stored_left /\ v.stored_at = q.walk.stored_at
      BY <1>3 DEF WalkType
    <2> HIDE DEF v
    <2>3. r.walk = v
      BY <2>1, ResultFields
    <2>4. Drew(p, q.walk)
      BY <1>2, <1>4, DrewMore
    <2> QED  BY <2>2, <2>3, <2>4 DEF Drew
  <1>5. CASE q.res = "ok" /\ Len(q.out) < take
    <2>1. r = [q EXCEPT !.res = "Malformed"] /\ r = Result("Malformed", q.pos, q.walk, q.out)
      BY <1>1, <1>3, <1>5 DEF Result
    <2>2. r.res = "Malformed"
      BY <2>1, ResultFields
    <2> QED  BY <2>2
  <1>6. CASE q.res # "ok"
    BY <1>1, <1>6
  <1> QED  BY <1>4, <1>5, <1>6

\* A pair that ended well had every byte it cannot be decoded without.
LEMMA EndSupplied ==
    ASSUME SourceType, NEW p, ConformingPlan(p), NEW w, NEW done, Tells(p, w, done), Drew(p, w),
           w.owed = 0, NEW r \in RequireEnd(p, w), r.res = "ok"
    PROVE  Supplied(p, w.index) /\ r.walk.index = w.index
  <1> DEFINE i == w.index
             start == StartOf(p, i)
             stored == PairOf(p, i)[1]
             at == w.stored_at
             left == w.stored_left
             needs == p.contents[i].needs
  <1>1. PICK q \in FillUpto(p, w, 1) :
            r = IF q.res = "ok" /\ q.out # <<>> THEN [q EXCEPT !.res = "Malformed"] ELSE q
    BY DEF RequireEnd
  <1>2. r = q /\ q.res = "ok" /\ q.out = <<>>
    <2>1. Sound(q)
      BY PullsYield
    <2>2. CASE q.res = "ok" /\ q.out # <<>>
      <3>1. r = Result("Malformed", q.pos, q.walk, q.out)
        BY <1>1, <2>1, <2>2 DEF Result, Sound
      <3>2. r.res = "Malformed"
        BY <3>1, ResultFields
      <3> QED  BY <3>2
    <2> QED  BY <1>1, <2>2
  <1>3. r.walk.index = w.index
    BY EndTells
  <1>4. /\ w \in WalkType /\ i \in 1 .. PairCount(p) /\ w.current # "Ended"
        /\ at \in Nat /\ left \in Nat /\ stored \in Nat /\ start \in Nat
        /\ needs \in Nat /\ length \in Nat
        /\ at + left = start + stored
        /\ w.current = "Raw" => left = 0
    <2>1. /\ w \in WalkType /\ i \in 1 .. PairCount(p) /\ w.current # "Ended"
          /\ w.current = "Raw" => left = w.owed
      BY OpenedFacts
    <2>2. stored \in Nat /\ start \in Nat /\ start + stored = StartOf(p, i + 1)
      BY <2>1, PairInBlock
    <2>3. at + left = w.next_at /\ w.next_at = StartOf(p, i + 1)
      BY <2>1 DEF Tells, Standing
    <2>4. needs \in Nat
      BY <2>1 DEF ConformingPlan, ConformingContent
    <2> QED  BY <2>1, <2>2, <2>3, <2>4 DEF WalkType, SourceType
  <1>5. at # start => at <= length
    BY DEF Drew
  <1>6. CASE w.current \in {"Raw", "Held"}
    <2>1. Needed(p, i) = stored
      <3>1. w.current = "Raw" => Classify(PairOf(p, i), p.reading) = "Raw"
        BY DEF Tells, Opened
      <3> QED  BY <1>6, <3>1 DEF Drew, Framed, Needed
    <2>2. left = 0
      BY <1>4, <1>6 DEF Drew
    <2> HIDE DEF start, stored, at, left, needs
    <2>3. stored > 0 => start + stored <= length
      BY <1>4, <1>5, <2>2
    <2> QED  BY <1>3, <2>1, <2>3 DEF Supplied, start
  <1>7. CASE w.current \in {"Zlib", "Zstd"}
    <2>1. Needed(p, i) = needs
      BY <1>7 DEF Drew, Framed, Needed
    <2>2. PICK m \in 0 .. left : (m # 0 => at + m <= length) /\ needs <= (stored - left) + m
      BY <1>2, <1>7, PullsDraw
    <2> HIDE DEF start, stored, at, left, needs
    <2>3. needs > 0 => start + needs <= length
      BY <1>4, <1>5, <2>2
    <2> QED  BY <1>3, <2>1, <2>3 DEF Supplied, start
  <1> QED  BY <1>4, <1>6, <1>7 DEF WalkType

\* A pair that was opened has drawn nothing that was not there.
LEMMA OpenDraws ==
    ASSUME SourceType, NEW p, ConformingPlan(p), NEW w, NEW done, Between(p, w, done),
           w.index < PairCount(p), NEW r \in Open(p, w), r.res = "ok"
    PROVE  Drew(p, r.walk)
  <1> DEFINE i == w.index + 1
             pair == PairOf(p, i)
             kind == Classify(pair, p.reading)
             e == Entered(w, i, pair)
             c == p.contents[i]
  <1>1. w \in WalkType /\ w.next_at = StartOf(p, i)
    BY DEF Between, Standing
  <1>2. i \in 1 .. PairCount(p) /\ i \in Nat
    <2>1. w.index \in Nat
      BY <1>1 DEF WalkType
    <2> QED  BY <2>1, PairsOf
  <1>3. /\ StartOf(p, i) \in Nat /\ pair[1] \in Nat /\ pair[2] \in Nat /\ pair # None
    BY <1>2, PairInBlock, PairsOf
  <1> HIDE DEF pair, kind, e, i, c
  <1>4. /\ e \in WalkType /\ e.index = i /\ e.stored_left = pair[1] /\ e.stored_at = StartOf(p, i)
        /\ e.owed = pair[2] /\ e.current = "Ended"
    <2>1. w.next_at + pair[1] \in Nat /\ <<>> \in Seq(Byte)
      BY <1>1, <1>3
    <2> QED  BY <1>1, <1>2, <1>3, <2>1 DEF e, Entered, Boundary, WalkType
  <1>5. r \in OpenStream(p, e, kind)
    <2>1. CASE CheckedAdd(w.next_at, pair[1]) = None
      <3>1. r = Result("Malformed", pos, w, <<>>)
        BY <2>1 DEF Open, i, pair
      <3>2. r.res = "Malformed"
        BY <3>1, ResultFields
      <3> QED  BY <3>2
    <2>2. CASE CheckedAdd(w.next_at, pair[1]) # None
      BY <1>3, <2>2 DEF Open, i, pair, kind, e
    <2> QED  BY <2>1, <2>2
  <1>6. Framed(p, i) <=> kind = "Compressed" /\ p.compression.codec \in {"zlib", "zstd"}
    BY DEF Framed, kind, pair
  <1>7. ASSUME NEW n \in 0 .. e.stored_left, NEW q \in ReadStored(e, n), q.res = "ok"
        PROVE  /\ q.walk \in WalkType /\ q.walk.index = i
               /\ q.walk.stored_at = StartOf(p, i) + n /\ q.walk.stored_left = pair[1] - n
               /\ n # 0 => StartOf(p, i) + n <= length
    <2>1. q.walk = Drawn(e, n) /\ (n # 0 => e.stored_at + n <= length)
      BY <1>4, <1>7, StoredBytes
    <2>2. e.stored_left - n \in Nat /\ e.stored_at + n \in Nat
      BY <1>3, <1>4
    <2> QED  BY <1>4, <2>1, <2>2 DEF Drawn, WalkType
  \* The walk that drew n bytes and then opened the stream.
  <1>8. ASSUME NEW v, v.index = i, NEW n \in Nat, v.stored_at = StartOf(p, i) + n,
               n # 0 => StartOf(p, i) + n <= length,
               v.current = "Held" => v.stored_left = 0 /\ ~Framed(p, i),
               v.current \in {"Zlib", "Zstd"} => Framed(p, i)
        PROVE  Drew(p, v)
    <2>1. v.stored_at # StartOf(p, i) => n # 0
      BY <1>3, <1>8
    <2> QED  BY <1>8, <2>1 DEF Drew
  <1>9. CASE kind = "Raw"
    <2> DEFINE f == [e EXCEPT !.current = "Raw"]
    <2>1. r = Result("ok", pos, f, <<>>)
      BY <1>5, <1>9 DEF OpenStream
    <2>2. f.index = i /\ f.stored_at = StartOf(p, i) + 0 /\ f.current = "Raw"
      BY <1>3, <1>4 DEF WalkType
    <2> HIDE DEF f
    <2>3. r.walk = f
      BY <2>1, ResultFields
    <2> QED  BY <1>8, <2>2, <2>3
  <1>10. CASE kind = "Compressed" /\ p.compression.codec \in {"zlib", "zstd"}
    <2>1. r \in OpenFramed(p, e, i) /\ Framed(p, i)
      BY <1>4, <1>5, <1>6, <1>10 DEF OpenStream
    <2>2. CASE p.compression.codec = "zlib"
      <3> DEFINE f == [e EXCEPT !.current = "Zlib"]
      <3>1. r = Result("ok", pos, f, <<>>)
        BY <2>1, <2>2 DEF OpenFramed
      <3>2. f.index = i /\ f.stored_at = StartOf(p, i) + 0 /\ f.current = "Zlib"
        BY <1>3, <1>4 DEF WalkType
      <3> HIDE DEF f
      <3>3. r.walk = f
        BY <3>1, ResultFields
      <3> QED  BY <1>8, <2>1, <3>2, <3>3
    <2>3. CASE p.compression.codec # "zlib"
      <3> DEFINE Header(q) ==
            IF q.res # "ok" THEN {q}
            ELSE IF c.window THEN {Result("LimitExceeded", q.pos, q.walk, <<>>)}
            ELSE {Result("ok", q.pos, [q.walk EXCEPT !.current = "Zstd"], <<>>)}
                 \cup (IF c.output = <<>> /\ ~c.ends /\ ~c.kept
                       THEN {Result("Malformed", q.pos, q.walk, <<>>)} ELSE {})
      <3>1. r \in UNION {Header(q) : q \in UNION {ReadStored(e, n) : n \in 0 .. e.stored_left}}
        <4>1. p.compression.codec = "zstd"
          BY <1>10, <2>3
        <4>2. [e EXCEPT !.current = IF p.compression.codec = "zlib" THEN "Zlib" ELSE "Zstd"].current
                  = "Zstd"
          BY <1>4, <4>1 DEF WalkType
        <4> QED  BY <2>1, <2>3, <4>2, Zenon DEF OpenFramed, c
      <3>2. PICK n \in 0 .. e.stored_left : \E q \in ReadStored(e, n) : r \in Header(q)
        BY <3>1
      <3>3. PICK q \in ReadStored(e, n) : r \in Header(q)
        BY <3>2
      <3>4. q.res = "ok"
        BY <3>3
      <3> DEFINE f == [q.walk EXCEPT !.current = "Zstd"]
      <3>5. r = Result("ok", q.pos, f, <<>>)
        <4>1. \/ r = Result("ok", q.pos, f, <<>>)
              \/ r = Result("LimitExceeded", q.pos, q.walk, <<>>)
              \/ r = Result("Malformed", q.pos, q.walk, <<>>)
          BY <3>3, <3>4
        <4>2. \A res \in {"LimitExceeded", "Malformed"} : r # Result(res, q.pos, q.walk, <<>>)
          BY ResultFields
        <4> QED  BY <4>1, <4>2
      <3>6. /\ q.walk \in WalkType /\ q.walk.index = i
            /\ q.walk.stored_at = StartOf(p, i) + n
            /\ n # 0 => StartOf(p, i) + n <= length
        BY <1>7, <3>4
      <3>7. f.index = i /\ f.stored_at = StartOf(p, i) + n /\ f.current = "Zstd" /\ n \in Nat
        BY <3>6 DEF WalkType
      <3> HIDE DEF f
      <3>8. r.walk = f
        BY <3>5, ResultFields
      <3> QED  BY <1>8, <2>1, <3>6, <3>7, <3>8
    <2> QED  BY <2>2, <2>3
  <1>11. CASE kind # "Raw" /\ ~ (kind = "Compressed" /\ p.compression.codec \in {"zlib", "zstd"})
    <2>1. r \in OpenHeld(p, e, i, kind) /\ ~Framed(p, i)
      BY <1>4, <1>5, <1>6, <1>11 DEF OpenStream
    <2> DEFINE one(q) == DecodePair(kind, p.contents[i], q.out, e.owed)
               Decode(q) ==
                 IF q.res # "ok" THEN q
                 ELSE Result(one(q).res, q.pos,
                             IF one(q).res # "ok" THEN q.walk
                             ELSE [q.walk EXCEPT !.current = "Held", !.buf = one(q).dst], <<>>)
    <2>2. r \in {Decode(q) : q \in ReadStored(e, e.stored_left)}
      <3>1. CASE \/ e.stored_left > Limits.materialized_bytes
                 \/ e.owed > Limits.materialized_bytes
        <4>1. r = Result("LimitExceeded", pos, e, <<>>)
          BY <2>1, <3>1 DEF OpenHeld
        <4>2. r.res = "LimitExceeded"
          BY <4>1, ResultFields
        <4> QED  BY <4>2
      <3> QED  BY <2>1, <3>1, Zenon DEF OpenHeld
    <2>3. PICK q \in ReadStored(e, pair[1]) : r = Decode(q)
      BY <1>4, <2>2
    <2>4. pair[1] \in 0 .. e.stored_left
      BY <1>3, <1>4
    <2>5. q.res = "ok"
      BY <2>3
    <2>6. /\ q.walk \in WalkType /\ q.walk.index = i
          /\ q.walk.stored_at = StartOf(p, i) + pair[1] /\ q.walk.stored_left = pair[1] - pair[1]
          /\ pair[1] # 0 => StartOf(p, i) + pair[1] <= length
      BY <1>7, <2>4, <2>5
    <2> DEFINE d == one(q)
               v == [q.walk EXCEPT !.current = "Held", !.buf = d.dst]
    <2>7. r = Result(d.res, q.pos, IF d.res # "ok" THEN q.walk ELSE v, <<>>)
      BY <2>3, <2>5
    <2>8. /\ v.index = i /\ v.stored_at = StartOf(p, i) + pair[1] /\ v.stored_left = 0
          /\ v.current = "Held"
      BY <1>3, <2>6 DEF WalkType
    <2> HIDE DEF d, v
    <2>9. r.res = d.res /\ r.walk = (IF d.res # "ok" THEN q.walk ELSE v)
      BY <2>7, ResultFields
    <2>10. r.walk = v
      BY <2>9
    <2> QED  BY <1>3, <1>8, <2>1, <2>6, <2>8, <2>10
  <1> QED  BY <1>9, <1>10, <1>11

\* The rest of the invariant: every pair the walk has left was supplied, and what it has drawn of
\* the open one was there.
Provided ==
    /\ \A i \in 1 .. walk.index - 1 : Supplied(plan, i)
    /\ (point = "open" \/ (point = "done" /\ verdict = "ok")) /\ walk.index # 0 =>
          Supplied(plan, walk.index)
    /\ point \in {"fill", "require_end", "finish"} => Drew(plan, walk)

\* Every step keeps it.
LEMMA NextProvided ==
    ASSUME BInv, Provided, [Next]_vars, point # "done"
    PROVE  (point' = "done" /\ verdict' # "ok") \/ Provided'
  <1>1. /\ Typed /\ ConformingPlan(plan) /\ SourceType
    BY StandingFacts DEF BInv
  <1>2. \A i \in 1 .. walk.index - 1 : Supplied(plan, i)
    BY DEF Provided
  \* A step of the source that stands by what was supplied before it.
  <1>3. ASSUME NEW r, NEW next, Goes(r, next), Sound(r), r.res = "ok",
               \A i \in 1 .. r.walk.index - 1 : Supplied(plan, i),
               next \in {"open", "done"} /\ r.walk.index # 0 => Supplied(plan, r.walk.index),
               next \in {"fill", "require_end", "finish"} => Drew(plan, r.walk)
        PROVE  Provided'
    <2>1. length' = length /\ plan' = plan /\ walk' = r.walk /\ point' = next /\ verdict' = "ok"
      BY <1>1, <1>3, SoundMoves DEF Goes
    <2>2. \A i : Supplied(plan, i)' <=> Supplied(plan, i)
      BY <2>1 DEF Supplied
    <2>3. Drew(plan, walk)' <=> Drew(plan, r.walk)
      BY <2>1 DEF Drew
    <2> QED  BY <1>3, <2>1, <2>2, <2>3 DEF Provided, Supplied
  <1>4. ASSUME NEW r, NEW next, Goes(r, next), r.res # "ok"
        PROVE  point' = "done" /\ verdict' # "ok"
    BY <1>4 DEF Goes
  <1>5. CASE OpenNext
    <2>1. AtOpen /\ point = "open"
      BY <1>5 DEF BInv, Told, OpenNext
    <2> DEFINE Next1(r) == IF ~Whole THEN "fill"
                           ELSE IF r.walk.index < PairCount(plan) THEN "require_end" ELSE "finish"
    <2>2. PICK r \in Open(plan, walk) : Goes(r, Next1(r))
      BY <1>5 DEF OpenNext
    <2>3. Sound(r) /\ (r.res = "ok" => r.walk.index = walk.index + 1)
      BY <1>1, <2>1, OpenTells DEF AtOpen
    <2>4. r.res = "ok" => Drew(plan, r.walk)
      BY <1>1, <2>1, OpenDraws DEF AtOpen
    <2>5. walk.index \in Nat
      BY <2>1 DEF AtOpen, Between, Standing, WalkType
    <2>6. \A i \in 1 .. walk.index : Supplied(plan, i)
      BY <1>2, <2>1, <2>5 DEF Provided
    <2>7. ASSUME r.res = "ok" PROVE \A i \in 1 .. r.walk.index - 1 : Supplied(plan, i)
      BY <2>3, <2>5, <2>6, <2>7
    <2>8. Next1(r) \in {"fill", "require_end", "finish"}
      OBVIOUS
    <2> DEFINE next == Next1(r)
    <2>9. Goes(r, next)
      BY <2>2
    <2> HIDE DEF next, Next1
    <2>10. next \in {"fill", "require_end", "finish"}
      BY <2>8 DEF next
    <2> QED  BY <1>3, <1>4, <2>3, <2>4, <2>7, <2>9, <2>10
  <1>6. CASE FillRow
    <2>1. AtFill /\ point = "fill" /\ row_bytes - Len(raw) \in Nat /\ Drew(plan, walk)
      <3>1. AtFill /\ point = "fill" /\ Len(raw) < row_bytes
        BY <1>6 DEF BInv, Told, FillRow
      <3> QED  BY <1>1, <3>1, StandingFacts DEF Provided
    <2>2. PICK r \in Take(plan, walk, row_bytes - Len(raw)) : Goes(r, "fill")
      BY <1>6 DEF FillRow
    <2>3. Sound(r) /\ r.walk.index = walk.index
      BY <1>1, <2>1, TakeTells DEF AtFill
    <2>4. r.res = "ok" => Drew(plan, r.walk)
      BY <1>1, <2>1, TakeDraws DEF AtFill
    <2> QED  BY <1>2, <1>3, <1>4, <2>2, <2>3, <2>4
  <1>7. CASE DeliverRow \/ LeavePair
    <2>1. /\ UNCHANGED <<sourceVars, plan, walk, verdict>> /\ point = "fill"
          /\ point' \in {"fill", "require_end", "finish"}
      BY <1>7 DEF DeliverRow, LeavePair, AfterLastRow
    <2>2. length' = length /\ plan' = plan /\ walk' = walk
      BY <2>1 DEF sourceVars
    <2>3. Drew(plan, walk)
      BY <2>1 DEF Provided
    <2> QED  BY <1>2, <2>1, <2>2, <2>3 DEF Provided, Supplied, Drew
  <1>8. ASSUME point \in {"require_end", "finish"}, Tells(plan, walk, Read), walk.owed = 0,
               NEW r \in RequireEnd(plan, walk), NEW next \in {"open", "done"}, Goes(r, next)
        PROVE  (point' = "done" /\ verdict' # "ok") \/ Provided'
    <2>1. Drew(plan, walk)
      BY <1>8 DEF Provided
    <2>2. Sound(r)
      BY <1>1, <1>8, EndTells
    <2>3. r.res = "ok" => Supplied(plan, walk.index) /\ r.walk.index = walk.index
      BY <1>1, <1>8, <2>1, EndSupplied
    <2> QED  BY <1>2, <1>3, <1>4, <1>8, <2>2, <2>3
  <1>9. CASE EndPair
    <2>1. AtRequireEnd /\ point = "require_end"
      BY <1>9 DEF BInv, Told, EndPair
    <2> QED  BY <1>8, <1>9, <2>1 DEF AtRequireEnd, EndPair
  <1>10. CASE Finish
    <2>1. AtFinish /\ point = "finish"
      BY <1>10 DEF BInv, Told, Finish
    <2> QED  BY <1>8, <1>10, <2>1 DEF AtFinish, Finish
  <1>11. CASE UNCHANGED vars
    <2>1. length' = length /\ plan' = plan /\ walk' = walk /\ point' = point /\ verdict' = verdict
      BY <1>11 DEF vars, streamVars, sourceVars
    <2> QED  BY <2>1 DEF Provided, Supplied, Drew
  <1>12. ~Done
    BY DEF Done
  <1> QED  BY <1>5, <1>6, <1>7, <1>9, <1>10, <1>11, <1>12 DEF Next, Step

\* A stream that ends well, of any block, in rows of any length, had a source that holds every
\* byte its pairs cannot be decoded without: a block cut short is noticed wherever it was cut,
\* but in the trailing bytes of a framed pair, which nobody asks for.
THEOREM CutShortAlwaysNoticed == Spec => []CutShortIsNoticed
  <1> DEFINE Kept == (point = "done" /\ verdict # "ok") \/ Provided
  <1>1. Init => Kept
    <2> SUFFICES ASSUME Init PROVE Provided
      OBVIOUS
    <2>1. walk.index = 0 /\ point = "open"
      BY DEF Init, Unopened
    <2> QED  BY <2>1 DEF Provided
  <1>2. BInv /\ Kept /\ [Next]_vars => Kept'
    <2> SUFFICES ASSUME BInv, Kept, [Next]_vars PROVE Kept'
      OBVIOUS
    <2>1. CASE point # "done"
      BY <2>1, NextProvided
    <2>2. CASE point = "done"
      <3>1. UNCHANGED vars
        BY <2>2 DEF Next, Step, OpenNext, FillRow, DeliverRow, LeavePair, EndPair, Finish, Done
      <3>2. length' = length /\ plan' = plan /\ walk' = walk /\ point' = point
            /\ verdict' = verdict
        BY <3>1 DEF vars, streamVars, sourceVars
      <3> QED  BY <3>2 DEF Provided, Supplied, Drew
    <2> QED  BY <2>1, <2>2
  <1>3. BInv /\ Kept => CutShortIsNoticed
    <2> SUFFICES ASSUME BInv, Kept, point = "done", verdict = "ok",
                        NEW i \in 1 .. PairCount(plan)
                 PROVE  Supplied(plan, i)
      BY DEF CutShortIsNoticed, Supplied
    <2>1. walk.index = PairCount(plan) /\ PairCount(plan) \in Nat
      BY StandingFacts DEF BInv, Told, AtDone
    <2>2. i \in 1 .. walk.index - 1 \/ (i = walk.index /\ walk.index # 0)
      BY <2>1
    <2> QED  BY <2>2 DEF Provided
  <1> QED  BY <1>1, <1>2, <1>3, BInvariance, PTL DEF Spec
=============================================================================
