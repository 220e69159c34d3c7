------------------------------ MODULE XisfReader ------------------------------
(***************************************************************************)
(* A session of one caller with a reader over an XISF source: the reader   *)
(* of Reader.tla driving the decoder of XisfDelivery.tla over the source   *)
(* of Source.tla, from the first byte of the preamble on.                  *)
(*                                                                         *)
(* unit.shows says, for each occurrence, what its image really holds, told *)
(* without the decoder: None when it has nothing to show, or [width,       *)
(* storage, planes, sound, trusted], where planes[c][r] is row r of        *)
(* channel c (None when the block does not hold it), sound says that every *)
(* pair of its block is what it declares (Holds: exactly that, or a frame  *)
(* that owes nothing and never ends), and trusted that its digest, if it   *)
(* has one, is that of the bytes.                                          *)
(***************************************************************************)
EXTENDS XisfDelivery, BlockContent, XisfConforming

CONSTANTS MaxFaults,   \* bound: the I/O errors of a session
          MaxChannel   \* bound: the channel numbers a caller asks for

ASSUME DocsAssumption == \A u \in Units : ConformingDoc(u.doc)
ASSUME MaxFaultsAssumption == MaxFaults \in Nat
ASSUME MaxChannelAssumption == MaxChannel \in Nat

\* PixelState is no Option: a decode under way is not None.
ASSUME NoPixelsAssumption ==
    \A u \in Units : \A o \in Range(Construct(u).out) : None \notin PixelStates(o.plan)

\* A run of samples is no Option either.
ASSUME NoRunAssumption == None \notin Seq(Seq(Byte))

\* What declines a position is an error, of another type than the end of an image.
ASSUME DeclineAssumption ==
    \A u \in Units : \A o \in Range(Construct(u).out) : o.header.decline # "end"

\* The sizes a plan states agree: its block is that of the image it implies.
SizesAgree(plan) ==
    plan.implied_bytes = IF plan.compression # None THEN plan.compression.uncompressed_size
                         ELSE IF plan.location.mode = "attachment" THEN plan.location.size
                         ELSE Len(plan.materialized)

\* What the block of a plan holds: its stored bytes or, compressed, what its pairs hold.
BlockBytes(plan) ==
    LET here == plan.location.mode = "attachment" IN
    IF plan.compression # None
    THEN IF here THEN Stated(plan) ELSE Decompress(plan, plan.materialized).dst
    ELSE IF here THEN FileBytes(plan.location.position, plan.location.size)
    ELSE plan.materialized

\* Row r of channel c, both from 0, of an image whose block holds these bytes: the samples of
\* the channel that line `line' of the block carries, None unless the block holds all of it.
RowShown(plan, bytes, c, r) ==
    LET g      == plan.geometry
        planar == plan.storage = "Planar"
        line   == IF planar THEN c * g.height + r ELSE r
        size   == g.width * (IF planar THEN 1 ELSE g.channels) * plan.bytes
        At(x)  == (IF planar THEN line * g.width + x
                   ELSE (line * g.width + x) * g.channels + c) * plan.bytes
        ByteOf(at) == bytes[1 + IF plan.compression # None /\ plan.compression.shuffled
                                THEN UnshuffledIndex(Len(bytes), plan.compression.item_size, at)
                                ELSE at]
    IN  IF Len(bytes) < (line + 1) * size THEN None
        ELSE [x \in 1 .. g.width |->
                 Sample(plan, [k \in 1 .. plan.bytes |-> ByteOf(At(x - 1) + k - 1)])]

\* The image of a plan, told from the pairs of its block and the samples' places in it.
Pictured(plan) ==
    LET g     == plan.geometry
        bytes == BlockBytes(plan)
    IN  [width   |-> g.width, storage |-> plan.storage,
         planes  |-> [c \in 1 .. g.channels |->
                        [r \in 1 .. g.height |-> RowShown(plan, bytes, c - 1, r - 1)]],
         sound   |-> plan.compression # None =>
                        IF plan.location.mode = "attachment"
                        THEN \A i \in 1 .. PairCount(plan) : Holds(plan, i) # None
                        ELSE Decompress(plan, plan.materialized).res = "ok",
         trusted |-> plan.checksum # None => Verify(plan.checksum) = "ok"]

\* Every occurrence has something said of it; what is said of one whose sizes agree, of a block
\* past the header, is what its block holds.
ASSUME ShowsAssumption ==
    \A u \in Units :
        /\ Len(u.shows) \in Nat /\ DOMAIN u.shows = 1 .. Len(u.shows)
        /\ \A i \in DOMAIN Construct(u).out :
              LET plan == Construct(u).out[i].plan IN
              /\ i \in DOMAIN u.shows
              /\ /\ plan # None /\ SizesAgree(plan)
                 /\ plan.location.mode = "attachment" =>
                       PREAMBLE + u.declared <= plan.location.position
                 => u.shows[i] # None /\ u.shows[i] = Pictured(plan)

vars == <<sourceVars, readerVars, callVars, header, decoderVars>>

\* Reader::build, about to read the first byte.
Init ==
    /\ unit \in Units /\ seekable \in BOOLEAN /\ length \in unit.lengths
    /\ faults = MaxFaults /\ pos = 0
    /\ phase = "header" /\ bounds_override = FALSE /\ selected_channel = None
    /\ advances = 0 /\ pixels_started = FALSE /\ pixels_failed = FALSE
    /\ header = None
    /\ cursor = "none" /\ pc = "build" /\ ret = [op |-> "build", res |-> "ok"] /\ stream = <<>>
    /\ occurrences = <<>> /\ current = None /\ next = 0
    /\ pixels = None /\ pixels_read = FALSE

\* The destinations a caller may hold: sized before or after select_channel, or for nothing.
Destinations ==
    IF header = None \/ header.geometry = None THEN {0}
    ELSE LET g == header.geometry
         IN  {TotalSamples(g), SaturatingMul(g.width, g.height)}

\* The steps the decoder takes inside a call.
DecoderStep ==
    \/ Build
    \/ Abandon
    \/ AfterTheLast
    \/ ToTheNext
    \/ BeginRefused
    \/ BeginStream
    \/ BeginWalk
    \/ BeginWhole
    \/ FinishImage
    \/ ReadRow
    \/ WantRow
    \/ DeliverRow
    \/ FillRow
    \/ LeavePair
    \/ EndPair
    \/ OpenPair
    \/ Finish

\* A call the caller makes, as far as the reader takes it before the decoder steps.
Calls(A) == A /\ UNCHANGED <<sourceVars, header, decoderVars>>

\* A constructor that failed leaves no reader to call.
Refused == pc = "refused" /\ UNCHANGED vars

Next ==
    \/ Calls(NextImage)
    \/ \E valid \in BOOLEAN : Calls(SetBounds(valid))
    \/ \E k \in 0 .. MaxChannel : Calls(SelectChannel(k))
    \/ Calls(Chunks)
    \/ Calls(DropChunks)
    \/ Calls(NextChunk)
    \/ Calls(ForEachChunk)
    \/ \E len \in Destinations, variant \in BOOLEAN : Calls(ReadSamples(len, variant))
    \/ \E len \in Destinations : Calls(ReadImage(len))
    \/ DecoderStep
    \/ Refused

Spec == Init /\ [][Next]_vars

\* A call is a loop that runs until it returns; whether to make one is the caller's choice.
FairSpec == Spec /\ WF_vars(DecoderStep)

-----------------------------------------------------------------------------
(* What an image really shows.                                             *)

Show == unit.shows[current]

\* The rows a selection delivers, as <<channel, row>> in the order of the block.
RowsOf(show, selection) ==
    LET h == Len(show.planes[1])
        n == Len(show.planes)
    IN  IF selection # None THEN [i \in 1 .. h |-> <<selection, i - 1>>]
        ELSE IF show.storage = "Planar" THEN [i \in 1 .. h * n |-> <<(i - 1) \div h, (i - 1) % h>>]
        ELSE [i \in 1 .. h * n |-> <<(i - 1) % n, (i - 1) \div n>>]

\* The chunk a row of a channel is, under a selection.
ChunkFor(show, selection, at) ==
    [channel |-> at[1],
     start   |-> show.width * (IF selection = None THEN at[1] * Len(show.planes[1]) + at[2] ELSE at[2]),
     from    |-> show.planes[at[1] + 1][at[2] + 1]]

\* What a cursor may deliver of an image: its rows up to the first the block does not hold.
ChunksIn(show, selection) ==
    LET rows == RowsOf(show, selection)
        lost == {i \in DOMAIN rows : show.planes[rows[i][1] + 1][rows[i][2] + 1] = None}
        good == IF lost = {} THEN Len(rows) ELSE Min(lost) - 1
    IN  [i \in 1 .. good |-> ChunkFor(show, selection, rows[i])]

-----------------------------------------------------------------------------
(* Type correctness.                                                       *)

\* Every variable holds a value of its type, and a decode in progress stays inside its plan.
TypeOK ==
    /\ unit \in Units /\ length \in unit.lengths /\ pos \in Nat /\ faults \in 0 .. MaxFaults
    /\ phase \in {"header", "pixel"} /\ cursor \in {"none", "pull", "push", "samples", "image"}
    /\ selected_channel \in Option(0 .. MaxChannel)
    /\ pc \in {"build", "refused", "idle", "abandon", "next_image", "begin_pixels", "begin_walk",
              "next_chunk", "fill", "end_pair", "open_pair", "finish"}
    /\ next \in 0 .. Len(occurrences) /\ current \in Option(1 .. next)
    /\ pixels_read \in BOOLEAN
    /\ pixels # None =>
          /\ pixels.chunks_done \in 0 .. pixels.chunks_total
          /\ pixels.whole = None => Len(pixels.raw) <= RowBytes
          /\ pixels.whole # None => Len(pixels.whole) = pixels.plan.implied_bytes
          /\ pixels.walk.index \in 0 .. PairCount(pixels.plan) /\ pixels.walk.owed \in Nat

-----------------------------------------------------------------------------
(* Safety.                                                                 *)

\* Whatever was read, dropped, retried or narrowed before, each chunk holds its own row of the
\* image sat on, once: out of a planar or an interleaved block, streamed over its subblocks or
\* held whole, shared with another image or not (next_chunk, decode_row).
StreamIsExact ==
    stream # <<>> =>
        /\ current # None /\ Show # None
        /\ \A n \in DOMAIN stream :
              \E c \in DOMAIN Show.planes : \E r \in DOMAIN Show.planes[c] :
                 /\ stream[n] = ChunkFor(Show, selected_channel, <<c - 1, r - 1>>)
                 /\ selected_channel \in {None, c - 1}
        /\ \A m, n \in DOMAIN stream : m # n => stream[m].start # stream[n].start

\* A cursor that ran to its end delivered every row of the selection.
WholeImage ==
    pc = "idle" /\ ret.res = "end" => Len(stream) = Len(RowsOf(Show, selected_channel))

\* A cursor that reached the end of a block it read all of has had every pair of it checked,
\* and one narrowed to an earlier channel is refused nothing it did not ask for: a bomb in a
\* trailing pair never passes for a clean file, and never costs rows that were whole.
EndMeansVerified ==
    /\ /\ pc = "idle" /\ ret.res = "end"
       /\ Show.storage = "Normal" \/ selected_channel \in {None, Len(Show.planes) - 1}
       => Show.sound
    /\ pc \in {"end_pair", "open_pair", "finish"} /\ ~MoreChunks =>
          pixels.stream_row = pixels.plan.implied_bytes \div RowBytes

\* No sample comes from the preamble or the header, or from past the end of the source: an
\* attachment is placed by what the file states (refuse_attachments_inside_the_header).
HeaderIsNeverPixels ==
    \A n \in DOMAIN stream : \A x \in DOMAIN stream[n].from : \A k \in DOMAIN stream[n].from[x] :
        LET byte == stream[n].from[x][k] IN
        byte[1] = "file" => byte[2] \in PREAMBLE + unit.declared .. length - 1

\* No sample of a block with a digest is delivered before the digest was found to be that of
\* the stored bytes, by a build that can compute it (materialize, verify_materialized_blocks).
UnverifiedNeverDelivered == stream # <<>> => Show.trusted

\* A resident block is under the cap, and so are the stored bytes it was read from.
WholeUnderCap(plan, whole) ==
    whole # None =>
        /\ Len(whole) <= Limits.materialized_bytes
        /\ plan.location.mode = "attachment" => plan.location.size <= Limits.materialized_bytes

\* Nothing past a cap is held or delivered, whatever lengths the file declares: not a staging
\* row, not a subblock or a block, neither its stored bytes nor what they decode to
\* (check_materialized, materialize), not an image past the total-samples cap, and not a tier-2
\* decode past the output cap, in samples of the file's width or in f32.
CapsHold ==
    /\ pixels # None =>
          /\ Len(pixels.raw) <= Limits.materialized_bytes
          /\ HeldUnderCap(pixels.plan, pixels.walk)
          /\ WholeUnderCap(pixels.plan, pixels.whole)
    /\ stream # <<>> =>
          /\ TotalSamples(header.geometry) <= Limits.total_samples
          /\ cursor = "samples" => DestinationLen * header.bytes <= Limits.decoded_output_bytes
          /\ cursor = "image" => DestinationLen * 4 <= Limits.decoded_output_bytes
    /\ Len(occurrences) <= Limits.images_per_source + 1
    /\ pc # "build" /\ occurrences # <<>> => unit.declared <= XisfLimits.xml_header_bytes

-----------------------------------------------------------------------------
(* Liveness and refinement.                                                *)

\* Every call returns: no subblock list, codec, cap or I/O error leaves a loop running.
CallReturns == pc \notin {"idle", "refused"} ~> pc \in {"idle", "refused"}

\* The frames of a unit: its occurrences in order, each with the chunks of every selection.
FramesIn(u) ==
    [i \in DOMAIN u.shows |->
        IF u.shows[i] = None THEN <<>>
        ELSE [s \in Option(0 .. Len(u.shows[i].planes) - 1) |-> ChunksIn(u.shows[i], s)]]

Frames == [u \in Units |-> FramesIn(u)]

Session == INSTANCE FrameSession WITH
    frames <- Frames[unit], at <- advances, over <- current = None /\ next > 0,
    selection <- selected_channel, reading <- phase = "pixel", failed <- pixels_failed

\* The XISF reader keeps the promise the FITS reader keeps.
KeepsThePromise == Session!Spec
=============================================================================
