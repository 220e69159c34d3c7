----------------------------- MODULE BlockContent -----------------------------
(***************************************************************************)
(* What a compressed block holds, told from its pairs alone: where each    *)
(* begins in the file, what each gives, and the bytes they give together.  *)
(* No decoder and no source is asked.  The properties of BlockStream and   *)
(* of XisfReader hold the rows delivered against it.                       *)
(***************************************************************************)
EXTENDS SubblockWalk

\* Where the stored bytes of pair i begin in the file.
StartOf(p, i) ==
    p.location.position
        + FoldLeft(LAMBDA n, j : n + PairOf(p, j)[1], 0, [j \in 1 .. i - 1 |-> j])

Exact(content, len) == content.ends /\ Len(content.output) = len /\ ~content.window

\* Pair i owes nothing and its zstd frame never ends, all it gave being kept in the window: a
\* stream that asks it for one more byte gets none and takes it to be over.
Unended(p, i) ==
    /\ Classify(PairOf(p, i), p.reading) = "Compressed"
    /\ PairOf(p, i)[2] = 0 /\ p.contents[i].kept

\* What a stream has of pair i: its stored bytes, or the codec's output; None when it holds
\* nothing.
Holds(p, i) ==
    LET pair   == PairOf(p, i)
        stored == FileBytes(StartOf(p, i), pair[1])
        kind   == Classify(pair, p.reading)
    IN  IF kind = "Raw" THEN stored
        ELSE IF Exact(p.contents[i], pair[2]) \/ Unended(p, i) THEN p.contents[i].output
        ELSE IF kind = "Probe" /\ ~p.contents[i].window THEN stored
        ELSE None

\* The bytes of the first n pairs, each of which holds something.
Before(p, n) == FoldLeft(LAMBDA all, i : all \o Holds(p, i), <<>>, [i \in 1 .. n |-> i])

\* The bytes of the pairs before the first that holds nothing, and what that one can give.
Stated(p) ==
    LET bad == {i \in 1 .. PairCount(p) : Holds(p, i) = None}
    IN  IF bad = {} THEN Before(p, PairCount(p))
        ELSE Before(p, Min(bad) - 1) \o p.contents[Min(bad)].output

Materialized(p) == Decompress(p, FileBytes(p.location.position, p.location.size))

-----------------------------------------------------------------------------
(* What a plan is by the time it is read from.                             *)

\* A plan whose header was read: a compressed attachment in pairs that add up (ReadSubblocks
\* refuses any other), each with what its codec makes of it.
ConformingPlan(p) ==
    /\ p.location # None /\ p.location.mode = "attachment"
    /\ p.location.position \in Nat /\ p.location.size \in Nat
    /\ p.implied_bytes \in Nat
    /\ p.subblocks # None =>
          /\ p.subblocks \in Seq(Nat \X Nat)
          /\ SumsOf(p.subblocks) = <<p.location.size, p.implied_bytes>>
    /\ \A i \in 1 .. PairCount(p) : ConformingContent(p.contents[i], p.compression.codec)
=============================================================================
