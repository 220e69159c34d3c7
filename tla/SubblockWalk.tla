----------------------------- MODULE SubblockWalk -----------------------------
(***************************************************************************)
(* Reading a compressed block as a stream (SubblockWalk of                 *)
(* src/src/xisf/decoder.rs over Stream of src/src/xisf/codec.rs): one pair *)
(* is open at a time, its stored bytes pulled from the source as the codec *)
(* asks for them, and its end required before the next is opened.          *)
(*                                                                         *)
(* A walk is [index, stored_left, stored_at, next_at, owed, current, buf,  *)
(* given]: the fields of SubblockWalk, the delivery of Current, the rest   *)
(* of what a Held pair decoded to, and how much of its output a framed     *)
(* codec has handed over.  Each method is the set of its results           *)
(* [res, pos, walk, out].  How much a codec reads ahead is its own choice. *)
(***************************************************************************)
EXTENDS Source, XisfCodec

\* A walk over the pairs of a block, and the stream of the pair it has open.
WalkType ==
    [index : Nat, stored_left : Nat, stored_at : Nat, next_at : Nat, owed : Nat,
     current : {"Ended", "Raw", "Held", "Zlib", "Zstd"}, buf : Seq(Byte), given : Nat]

\* SubblockWalk::default, and Stream::default in it: no pair is open.
Unopened ==
    [index |-> 0, stored_left |-> 0, stored_at |-> 0, next_at |-> 0, owed |-> 0,
     current |-> "Ended", buf |-> <<>>, given |-> 0]

Result(res, at, w, out) == [res |-> res, pos |-> at, walk |-> w, out |-> out]

\* The source's n bytes at offset `at' are the bytes of the file, whatever they hold.
FileBytes(at, n) == [k \in 1 .. n |-> <<"file", at + k - 1>>]

\* A seek when the cursor is elsewhere, then a read.
ReadAt(at, n) ==
    UNION {IF o.res = "ok" THEN ReadExact(o.pos, n) ELSE {o} : o \in SeekTo(at)}

\* BlockReader: the next n stored bytes of the open pair, none of which is no read at all;
\* a failure is the source's own.
ReadStored(w, n) ==
    {IF o.res # "ok" THEN Result(o.res, o.pos, w, <<>>)
     ELSE Result("ok", o.pos, [w EXCEPT !.stored_left = @ - n, !.stored_at = @ + n],
                 FileBytes(w.stored_at, n))
        : o \in IF n = 0 THEN {Outcome("ok", pos)} ELSE ReadAt(w.stored_at, n)}

-----------------------------------------------------------------------------
(* Opening a pair.                                                         *)

\* A framed codec is reset; zstd's reads the frame header there, and refuses a window above
\* the cap before it is allocated.
OpenFramed(plan, w, i) ==
    LET content == plan.contents[i]
        opened  == [w EXCEPT !.current = IF plan.compression.codec = "zlib" THEN "Zlib" ELSE "Zstd"]
        Header(r) ==
            IF r.res # "ok" THEN {r}
            ELSE IF content.window THEN {Result("LimitExceeded", r.pos, r.walk, <<>>)}
            ELSE {Result("ok", r.pos, [r.walk EXCEPT !.current = opened.current], <<>>)}
                 \cup (IF content.output = <<>> /\ ~content.ends /\ ~content.kept
                       THEN {Result("Malformed", r.pos, r.walk, <<>>)} ELSE {})
    IN  IF plan.compression.codec = "zlib" THEN {Result("ok", pos, opened, <<>>)}
        ELSE UNION {Header(r) : r \in UNION {ReadStored(w, n) : n \in 0 .. w.stored_left}}

\* A pair held whole: both its lengths under the cap, read, decoded.
OpenHeld(plan, w, i, kind) ==
    LET Decode(r) ==
            LET one == DecodePair(kind, plan.contents[i], r.out, w.owed)
            IN  IF r.res # "ok" THEN r
                ELSE Result(one.res, r.pos,
                            IF one.res # "ok" THEN r.walk
                            ELSE [r.walk EXCEPT !.current = "Held", !.buf = one.dst], <<>>)
    IN  IF \/ w.stored_left > Limits.materialized_bytes
           \/ w.owed > Limits.materialized_bytes
        THEN {Result("LimitExceeded", pos, w, <<>>)}
        ELSE {Decode(r) : r \in ReadStored(w, w.stored_left)}

\* Stream::open.
OpenStream(plan, w, kind) ==
    IF kind = "Raw" THEN {Result("ok", pos, [w EXCEPT !.current = "Raw"], <<>>)}
    ELSE IF kind = "Compressed" /\ plan.compression.codec \in {"zlib", "zstd"}
    THEN OpenFramed(plan, w, w.index)
    ELSE OpenHeld(plan, w, w.index, kind)

\* Where the pair after this one begins, told by the declared lengths and not by what a codec
\* consumed.
Boundary(w, pair) == w.next_at + pair[1]

\* Slip: the outgoing pair stays open until the incoming one is.
SlipEntered(w, i, pair) ==
    [w EXCEPT !.index = i, !.stored_left = pair[1], !.stored_at = w.next_at,
              !.next_at = Boundary(w, pair), !.owed = pair[2]]

\* The walk with pair i entered and nothing open: what a failed open leaves behind.
Entered(w, i, pair) ==
    [index |-> i, stored_left |-> pair[1], stored_at |-> w.next_at,
     next_at |-> Boundary(w, pair), owed |-> pair[2],
     current |-> "Ended", buf |-> <<>>, given |-> 0]

\* Slip: opens the pair it stands at over again.
SlipOpen(plan, w) ==
    LET i    == Greatest(1, w.index)
        pair == PairOf(plan, i)
    IN  IF pair = None \/ CheckedAdd(w.next_at, pair[1]) = None
        THEN {Result("Malformed", pos, w, <<>>)}
        ELSE OpenStream(plan, Entered(w, i, pair), Classify(pair, plan.reading))

\* SubblockWalk::open, of the pair after the one that is open.
Open(plan, w) ==
    LET i    == w.index + 1
        pair == PairOf(plan, i)
    IN  IF pair = None \/ CheckedAdd(w.next_at, pair[1]) = None
        THEN {Result("Malformed", pos, w, <<>>)}
        ELSE OpenStream(plan, Entered(w, i, pair), Classify(pair, plan.reading))

-----------------------------------------------------------------------------
(* Reading the open pair.                                                  *)

\* Up to n bytes from a framed codec.  To give its last byte, to end or to refuse, it must have
\* consumed what its stream occupies; otherwise it may read any part of what is left.  A codec
\* that gives too little without having ended refuses, but for the zstd frame that is pulled
\* dry with everything it gave still in its window: that pull comes back short.
PullFramed(plan, w, n) ==
    LET content  == plan.contents[w.index]
        take     == Least(n, Len(content.output) - w.given)
        consumed == PairOf(plan, w.index)[1] - w.stored_left
        least    == IF w.given + n < Len(content.output) THEN 0
                    ELSE Greatest(0, content.needs - consumed)
        Give(r) ==
            IF r.res # "ok" THEN r
            ELSE Result(IF take < n /\ ~content.ends /\ ~content.kept THEN "Malformed" ELSE "ok", r.pos,
                        [r.walk EXCEPT !.given = @ + take],
                        SubSeq(content.output, w.given + 1, w.given + take))
    IN  IF n = 0 THEN {Result("ok", pos, w, <<>>)}
        ELSE {Give(r) : r \in UNION {ReadStored(w, m) : m \in least .. w.stored_left}}

\* Stream::fill_upto: short only at the pair's end.
FillUpto(plan, w, n) ==
    LET held == Least(n, Len(w.buf))
    IN  IF w.current = "Ended" THEN {Result("ok", pos, w, <<>>)}
        ELSE IF w.current = "Raw" THEN ReadStored(w, Least(n, w.stored_left))
        ELSE IF w.current = "Held"
        THEN {Result("ok", pos, [w EXCEPT !.buf = SubSeq(@, held + 1, Len(@))],
                     SubSeq(w.buf, 1, held))}
        ELSE PullFramed(plan, w, n)

\* Stream::fill: a short pull is a truncated block.
Fill(plan, w, n) ==
    {IF r.res = "ok" /\ Len(r.out) < n THEN [r EXCEPT !.res = "Malformed"] ELSE r
        : r \in FillUpto(plan, w, n)}

\* Slip: a pair that has been read to its length is taken to be over.
SlipRequireEnd(plan, w) == {Result("ok", pos, w, <<>>)}

\* Stream::require_end: a pair that has one more byte to give is a bomb.
RequireEnd(plan, w) ==
    {IF r.res = "ok" /\ r.out # <<>> THEN [r EXCEPT !.res = "Malformed"] ELSE r
        : r \in FillUpto(plan, w, 1)}

\* One turn of SubblockWalk::fill over the rest of a buffer.
Take(plan, w, rest) ==
    LET take == Least(rest, w.owed) IN
    {IF r.res = "ok" THEN [r EXCEPT !.walk.owed = @ - take] ELSE r : r \in Fill(plan, w, take)}

-----------------------------------------------------------------------------
(* What a walk may hold.                                                   *)

\* A pair held whole is under the cap on both sides, and what is left of it too.
HeldUnderCap(plan, w) ==
    LET pair == PairOf(plan, w.index)
        cap  == Limits.materialized_bytes
    IN  /\ Len(w.buf) <= cap
        /\ w.current = "Held" => pair[1] <= cap /\ pair[2] <= cap
=============================================================================
