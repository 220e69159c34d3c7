------------------------------ MODULE XisfDelivery ------------------------------
(***************************************************************************)
(* next_chunk of the XISF decoder (src/src/xisf/decoder.rs): which input   *)
(* row carries a chunk, reading or decoding up to it, cutting the          *)
(* channel's run of samples out of it, and requiring the end of a          *)
(* compressed block once every row of it was consumed.                     *)
(*                                                                         *)
(* A chunk is [channel, start, from], from being its samples, each the     *)
(* sequence of its bytes from the most significant down.                   *)
(***************************************************************************)
EXTENDS XisfDecoder

\* The cursor: the channel of chunk i, its row of the image, and the input row that carries it.
CursorAt(p, i) ==
    LET g        == p.plan.geometry
        planar   == p.plan.storage = "Planar"
        channel  == IF p.selected # None THEN p.selected
                    ELSE IF planar THEN i \div g.height ELSE i % g.channels
        row      == IF p.selected # None THEN i
                    ELSE IF planar THEN i % g.height ELSE i \div g.channels
    IN  [channel |-> channel, row |-> row,
         input_row |-> IF planar THEN channel * g.height + row ELSE row]

Here == CursorAt(pixels, pixels.chunks_done)
MoreChunks == pixels # None /\ pixels.chunks_done < pixels.chunks_total
RowBytes == RowLength(pixels.plan)
Compressed == pixels.plan.compression # None

-----------------------------------------------------------------------------
(* The samples of a row.                                                   *)

\* Where a channel's run of a row sits in the block: its first sample, how far apart the
\* samples are, and the block offset of the first byte of the input row.
RunOf(p, channel, row) ==
    LET g == p.plan.geometry IN
    IF p.plan.storage = "Planar"
    THEN [first |-> (channel * g.height + row) * g.width, stride |-> 1,
          row_base |-> (channel * g.height + row) * g.width * p.plan.bytes]
    ELSE [first |-> row * g.width * g.channels + channel, stride |-> g.channels,
          row_base |-> row * g.width * g.channels * p.plan.bytes]

\* The resident bytes a run is cut from.
Held(p) == IF p.whole = None THEN p.raw ELSE p.whole

\* validate_row_range, base being the block offset of the first resident byte.
RowInRange(p, run, base) ==
    LET last == run.first + (p.plan.geometry.width - 1) * run.stride IN
    /\ run.first * p.plan.bytes >= base
    /\ last * p.plan.bytes + p.plan.bytes - 1 < base + Len(Held(p))

\* The resident byte that is byte `at' of the block in hand.
ByteAt(p, at) ==
    LET c == p.plan.compression IN
    Held(p)[1 + (IF c # None /\ c.shuffled THEN UnshuffledIndex(Len(Held(p)), c.item_size, at)
                 ELSE at)]

\* A sample's value: its bytes in the order the block declares.
Sample(plan, bytes) == IF plan.big_endian THEN bytes ELSE Reverse(bytes)

\* Slip: the run of an interleaved row is taken to be contiguous.
SlipDecodeRow(p, channel, row) ==
    LET run    == RunOf(p, channel, row)
        origin == IF p.whole = None THEN run.row_base ELSE 0
        SampleAt(x) == Sample(p.plan, [k \in 1 .. p.plan.bytes |->
                          ByteAt(p, (run.first + x) * p.plan.bytes - origin + k - 1)])
    IN  IF ~RowInRange(p, run, origin) THEN Refuse("Malformed")
        ELSE Accept([x \in 1 .. p.plan.geometry.width |-> SampleAt(x - 1)])

\* decode_row: the run of samples, or the refusal of a row the resident bytes do not hold.
DecodeRow(p, channel, row) ==
    LET run    == RunOf(p, channel, row)
        origin == IF p.whole = None THEN run.row_base ELSE 0
        SampleAt(x) == Sample(p.plan, [k \in 1 .. p.plan.bytes |->
                          ByteAt(p, (run.first + x * run.stride) * p.plan.bytes - origin + k - 1)])
    IN  IF ~RowInRange(p, run, origin) THEN Refuse("Malformed")
        ELSE Accept([x \in 1 .. p.plan.geometry.width |-> SampleAt(x - 1)])

\* The chunk that stands at `c', with these samples.
ChunkOf(p, c, samples) ==
    [channel |-> c.channel,
     start   |-> p.plan.geometry.width *
                    (IF p.selected = None THEN c.channel * p.plan.geometry.height + c.row ELSE c.row),
     from    |-> samples]

-----------------------------------------------------------------------------
(* next_chunk.                                                             *)

\* Slip: a decode that stopped early requires the end all the same.
SlipNeedsFinish(p) ==
    p.chunks_done >= p.chunks_total /\ p.whole = None /\ p.plan.compression # None

\* The last chunk of a compressed stream whose every row was consumed.
NeedsFinish(p) ==
    LET g == p.plan.geometry IN
    /\ p.chunks_done >= p.chunks_total /\ p.whole = None /\ p.plan.compression # None
    /\ p.stream_row >= g.height * (IF p.plan.storage = "Planar" THEN g.channels ELSE 1)

\* The rest of next_chunk over a row that is in hand, in the state p it has come to: the chunk,
\* kept back until the block's end was required where it must be.
Delivers(p) ==
    LET c    == CursorAt(p, p.chunks_done)
        run  == DecodeRow(p, c.channel, c.row)
        done == [p EXCEPT !.chunks_done = @ + 1]
    IN  IF run.res # "ok" THEN pixels' = p /\ ChunkFails(run.res)
        ELSE /\ pixels' = done
             /\ IF ~NeedsFinish(done) THEN ChunkReturns(ChunkOf(p, c, run.value))
                ELSE /\ pc' = IF p.walk.index < PairCount(p.plan) THEN "end_pair" ELSE "finish"
                     /\ UNCHANGED <<readerVars, cursor, ret, stream>>

FinishImage ==
    /\ pc = "next_chunk" /\ pixels # None /\ ~MoreChunks
    /\ pixels_read' = TRUE
    /\ ImageEnds
    /\ UNCHANGED <<sourceVars, walkVars, pixels>>

\* Where the row wanted starts in the file, None past u64.
RowOffset(p) ==
    CheckedAdd(p.plan.location.position,
               CheckedMul(CursorAt(p, p.chunks_done).input_row, RowLength(p.plan)))

\* An uncompressed row, at its computed offset; one already in hand is not read again.
ReadRow ==
    /\ pc = "next_chunk" /\ MoreChunks /\ ~Compressed
    /\ pixels.whole = None /\ pixels.raw_row # Here.input_row
    /\ \E o \in IF RowOffset(pixels) = None THEN {Outcome("LimitExceeded", pos)}
                ELSE ReadAt(RowOffset(pixels), RowBytes) :
          /\ Moves(o)
          /\ IF o.res # "ok" THEN ChunkFails(o.res) /\ UNCHANGED pixels
             ELSE Delivers([pixels EXCEPT !.raw = FileBytes(o.pos - RowBytes, RowBytes),
                                          !.raw_row = Here.input_row])
    /\ UNCHANGED <<walkVars, pixels_read>>

\* A compressed stream is decoded row after row until it has given the one wanted.
WantRow ==
    /\ pc = "next_chunk" /\ MoreChunks /\ Compressed
    /\ pixels.whole = None /\ pixels.raw_row # Here.input_row
    /\ pixels.stream_row <= Here.input_row
    /\ pixels' = [pixels EXCEPT !.raw = <<>>]
    /\ pc' = "fill"
    /\ UNCHANGED <<sourceVars, readerVars, cursor, ret, stream, walkVars, pixels_read>>

\* The row wanted is in hand, or the whole block is.
DeliverRow ==
    /\ pc = "next_chunk" /\ MoreChunks
    /\ \/ pixels.whole # None \/ pixels.raw_row = Here.input_row
       \/ Compressed /\ pixels.stream_row > Here.input_row
    /\ Delivers(IF pixels.whole # None THEN pixels
                ELSE [pixels EXCEPT !.raw_row = Here.input_row])
    /\ UNCHANGED <<sourceVars, walkVars, pixels_read>>

-----------------------------------------------------------------------------
(* SubblockWalk::fill, advance and finish, over the operations of          *)
(* SubblockWalk.tla.                                                       *)

\* A step of the walk with result r: on to `point', or the chunk fails.
Walks(r, point) ==
    /\ Moves(r)
    /\ IF r.res # "ok" THEN ChunkFails(r.res)
       ELSE pc' = point /\ UNCHANGED <<readerVars, cursor, ret, stream>>
    /\ UNCHANGED <<walkVars, pixels_read>>

\* fill: what the open pair owes of the row; a row filled is one the stream has yielded.
FillRow ==
    /\ pc = "fill" /\ pixels.walk.owed > 0
    /\ \E r \in Take(pixels.plan, pixels.walk, RowBytes - Len(pixels.raw)) :
          LET raw == IF r.res = "ok" THEN pixels.raw \o r.out ELSE pixels.raw IN
          /\ pixels' = [pixels EXCEPT !.walk = r.walk, !.raw = raw,
                                      !.stream_row = IF Len(raw) = RowBytes THEN @ + 1 ELSE @]
          /\ Walks(r, IF Len(raw) = RowBytes THEN "next_chunk" ELSE "fill")

\* advance, from fill when the pair owes nothing more.
LeavePair ==
    /\ pc = "fill" /\ pixels.walk.owed = 0
    /\ pc' = "end_pair"
    /\ UNCHANGED <<sourceVars, readerVars, cursor, ret, stream, decoderVars, header>>

EndPair ==
    /\ pc = "end_pair"
    /\ \E r \in RequireEnd(pixels.plan, pixels.walk) :
          /\ pixels' = [pixels EXCEPT !.walk = r.walk]
          /\ Walks(r, "open_pair")

\* The pair after: to fill the row, or one that trails the last row.
OpenPair ==
    /\ pc = "open_pair"
    /\ \E r \in Open(pixels.plan, pixels.walk) :
          /\ pixels' = [pixels EXCEPT !.walk = r.walk]
          /\ Walks(r, IF MoreChunks THEN "fill"
                      ELSE IF r.walk.index < PairCount(pixels.plan) THEN "end_pair" ELSE "finish")

\* finish: the end of the last pair, and then the chunk held back.
Finish ==
    /\ pc = "finish"
    /\ \E r \in RequireEnd(pixels.plan, pixels.walk) :
          LET c == CursorAt(pixels, pixels.chunks_done - 1) IN
          /\ Moves(r)
          /\ pixels' = [pixels EXCEPT !.walk = r.walk]
          /\ IF r.res # "ok" THEN ChunkFails(r.res)
             ELSE ChunkReturns(ChunkOf(pixels, c, DecodeRow(pixels, c.channel, c.row).value))
    /\ UNCHANGED <<walkVars, pixels_read>>
=============================================================================
