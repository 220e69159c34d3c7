----------------------------- MODULE BlockStream -----------------------------
(***************************************************************************)
(* One compressed block streamed from its first row to its last, over any  *)
(* source: the loops of SubblockWalk::fill, advance and finish             *)
(* (src/src/xisf/decoder.rs) around the operations of SubblockWalk.tla.    *)
(* The same block read by the other route, materialized and decompressed,  *)
(* is what the rows are held against.                                      *)
(***************************************************************************)
EXTENDS BlockContent

CONSTANTS Plans,      \* the block plans a stream may be given
          MaxFaults,  \* bound: the I/O errors of one stream
          Lengths(_)  \* for a plan, how many bytes the source may hold

ASSUME PlansAssumption ==
    \A p \in Plans : /\ ConformingPlan(p) /\ Lengths(p) \subseteq Nat
                     /\ p.location.position + p.location.size \in U
ASSUME MaxFaultsAssumption == MaxFaults \in Nat

VARIABLES
  plan,
  row_bytes,   \* the length of the staging row
  walk,        \* the SubblockWalk
  point,       \* where the decode is: "open", "fill", "require_end", "finish", "done"
  raw,         \* how much of the staging row has been filled, and with what
  delivered,   \* the bytes of the rows handed over
  verdict      \* "ok", or the error the decode ended on

streamVars == <<plan, row_bytes, walk, point, raw, delivered, verdict>>
vars == <<sourceVars, streamVars>>

\* begin_pixels has sought the block's first byte.
Init ==
    /\ plan \in Plans
    /\ row_bytes \in {n \in 1 .. plan.implied_bytes : plan.implied_bytes % n = 0}
    /\ seekable \in BOOLEAN /\ length \in Lengths(plan) /\ faults = MaxFaults
    /\ seekable => /\ length >= plan.location.position + plan.location.size
                   /\ Origin + length \in U   \* Seekable took its length from where the source ends
    /\ pos = plan.location.position
    /\ walk = [Unopened EXCEPT !.next_at = plan.location.position]
    /\ point = "open" /\ raw = <<>> /\ delivered = <<>> /\ verdict = "ok"

\* The step with result r, which goes on to `next' or ends the decode.
Goes(r, next) ==
    /\ Moves(r)
    /\ walk' = r.walk
    /\ point' = IF r.res = "ok" THEN next ELSE "done"
    /\ verdict' = r.res
    /\ UNCHANGED <<plan, row_bytes>>

Whole == Len(delivered) = plan.implied_bytes

\* Where a decode that has every row goes on: to the pairs still unread, or to the last one's end.
AfterLastRow == IF walk.index < PairCount(plan) THEN "require_end" ELSE "finish"

\* open: the first pair, or the next one once the last is at its end.
OpenNext ==
    /\ point = "open"
    /\ \E r \in Open(plan, walk) :
          Goes(r, IF ~Whole THEN "fill"
                  ELSE IF r.walk.index < PairCount(plan) THEN "require_end" ELSE "finish")
    /\ UNCHANGED <<raw, delivered>>

\* fill: what the open pair still owes, or on to the next pair.
FillRow ==
    /\ point = "fill" /\ Len(raw) < row_bytes /\ walk.owed > 0
    /\ \E r \in Take(plan, walk, row_bytes - Len(raw)) :
          /\ Goes(r, "fill")
          /\ raw' = IF r.res = "ok" THEN raw \o r.out ELSE raw
    /\ UNCHANGED delivered

DeliverRow ==
    /\ point = "fill" /\ Len(raw) = row_bytes
    /\ delivered' = delivered \o raw /\ raw' = <<>>
    /\ point' = IF Len(delivered) + row_bytes < plan.implied_bytes THEN "fill" ELSE AfterLastRow
    /\ UNCHANGED <<sourceVars, plan, row_bytes, walk, verdict>>

LeavePair ==
    /\ point = "fill" /\ Len(raw) < row_bytes /\ walk.owed = 0
    /\ point' = "require_end"
    /\ UNCHANGED <<sourceVars, plan, row_bytes, walk, raw, delivered, verdict>>

\* advance: the end of the open pair, then the next.
EndPair ==
    /\ point = "require_end"
    /\ \E r \in RequireEnd(plan, walk) : Goes(r, "open")
    /\ UNCHANGED <<raw, delivered>>

\* finish: the end of the last pair.
Finish ==
    /\ point = "finish"
    /\ \E r \in RequireEnd(plan, walk) : Goes(r, "done")
    /\ UNCHANGED <<raw, delivered>>

Step == OpenNext \/ FillRow \/ DeliverRow \/ LeavePair \/ EndPair \/ Finish
Done == point = "done" /\ UNCHANGED vars
Next == Step \/ Done

Spec == Init /\ [][Next]_vars
FairSpec == Spec /\ WF_vars(Step)

-----------------------------------------------------------------------------
(* Properties.                                                             *)

\* Every row handed over holds the block's own bytes, in order, across subblock boundaries,
\* stored pairs and probes that fell back (SubblockWalk::fill).
RowsAreTheBlocks == IsPrefix(delivered, Stated(plan))

\* No cap of the stream's own stops a block this small: every pair can be held, every skip made.
Uncapped(p) ==
    /\ p.location.size <= Limits.materialized_bytes
    /\ p.implied_bytes <= Limits.materialized_bytes
    /\ p.location.size <= Limits.skipped_block_bytes

\* The two routes agree: a stream that ended well is the block decompress would have
\* materialized, and one that did not, over a source that failed nowhere and within the caps, is
\* a block decompress refuses in the same way (classify and decode_pair are shared so that they
\* cannot drift).  But for one block: a pair that owes nothing and holds a zstd frame that never
\* ends, its bytes kept in the window, ends well as a stream and is refused as Malformed whole.
SameBlockEitherRoute ==
    point = "done" =>
        LET whole   == Materialized(plan)
            unended == \E i \in 1 .. PairCount(plan) : Unended(plan, i)
        IN  /\ verdict = "ok" =>
                  IF unended THEN whole.res = "Malformed"
                  ELSE whole.res = "ok" /\ whole.dst = delivered
            /\ verdict # "ok" /\ faults = MaxFaults /\ Uncapped(plan)
                  /\ length >= plan.location.position + plan.location.size =>
                  whole.res = verdict \/ (unended /\ whole.res = "Malformed")

\* The stored bytes of pair i that a stream cannot do without: all of them, but for a framed
\* codec, whose trailing bytes nobody asks for.
Needed(p, i) ==
    IF /\ Classify(PairOf(p, i), p.reading) = "Compressed"
       /\ p.compression.codec \in {"zlib", "zstd"}
    THEN p.contents[i].needs
    ELSE PairOf(p, i)[1]

\* A block cut short by its source never decodes as though it were whole: a stream that ended
\* well had a source that holds every byte its pairs cannot be decoded without, delivered or
\* not (SubblockWalk::finish reads the pairs past the last row too).
CutShortIsNoticed ==
    point = "done" /\ verdict = "ok" =>
        \A i \in 1 .. PairCount(plan) :
            Needed(plan, i) > 0 => StartOf(plan, i) + Needed(plan, i) <= length

\* A pair that could not be opened leaves nothing to read, of it or of the pair before it
\* (Stream::open marks the stream ended first).
FailedOpenIsEmpty == [][point = "open" /\ verdict' # "ok" => walk'.current = "Ended"]_vars

\* Every stream ends, with the whole block or an error.
StreamEnds == <>(point = "done")
=============================================================================
