------------------------------ MODULE FitsReader ------------------------------
(***************************************************************************)
(* A session of one caller with a reader over a FITS source: the reader of *)
(* Reader.tla driving the decoder of FitsDecoder.tla over the source of    *)
(* Source.tla, from the moment the constructor returned.                   *)
(***************************************************************************)
EXTENDS FitsDecoder, FiniteSets

CONSTANTS MaxFaults,   \* bound: the I/O errors of a session
          MaxChannel   \* bound: the channel numbers a caller asks for

ASSUME MaxFaultsAssumption == MaxFaults \in Nat
ASSUME MaxChannelAssumption == MaxChannel \in Nat

vars == <<sourceVars, readerVars, callVars, header, decoderVars>>

\* Where HDU i's data really starts.
DataAt(i) == file.hdus[i].at + BLOCK * file.hdus[i].blocks

\* Reader::build over Decoder::new: the primary header is parsed, no image is selected.
Init ==
    /\ file \in Files /\ seekable \in BOOLEAN /\ length \in file.lengths
    /\ faults = MaxFaults
    /\ pos = DataAt(1)
    /\ phase = "header" /\ bounds_override = FALSE /\ selected_channel = None
    /\ advances = 0 /\ pixels_started = FALSE /\ pixels_failed = FALSE
    /\ header = None
    /\ cursor = "none" /\ pc = "idle" /\ ret = [op |-> "build", res |-> "ok"] /\ stream = <<>>
    /\ position = "Start" /\ pending = [hdu |-> 1, data_start |-> pos] /\ current = None
    /\ pixels = None /\ pixels_read = FALSE /\ traversed = 0 /\ broken = FALSE

\* The destinations a caller may hold: sized before or after select_channel, or for nothing.
Destinations ==
    IF header = None \/ header.geometry = None THEN {0}
    ELSE LET g == header.geometry
         IN  {TotalSamples(g), SaturatingMul(g.width, g.height)}

\* The steps the decoder takes inside a call.
DecoderStep ==
    \/ Abandon
    \/ AfterTheEnd
    \/ FromTheStart
    \/ FromAnImage
    \/ ReadNextHdu
    \/ EndOfSource
    \/ SitOnImage
    \/ StepOver
    \/ BeginPixels
    \/ DeliverRow
    \/ FinishImage

\* A call the caller makes, as far as the reader takes it before the decoder steps.
Calls(A) == A /\ UNCHANGED <<sourceVars, header, decoderVars>>

Next ==
    \/ Calls(NextImage)
    \/ \E valid \in BOOLEAN : Calls(SetBounds(valid))
    \/ \E k \in 0 .. MaxChannel : Calls(SelectChannel(k))
    \/ Calls(Chunks)
    \/ Calls(DropChunks)
    \/ Calls(NextChunk)
    \/ Calls(ForEachChunk)
    \/ \E len \in Destinations, variant \in BOOLEAN : Calls(ReadSamples(len, variant))
    \/ \E len \in Destinations : Calls(ReadImage(len))
    \/ DecoderStep

Spec == Init /\ [][Next]_vars

\* A call is a loop that runs until it returns; whether to make one is the caller's choice.
FairSpec == Spec /\ WF_vars(DecoderStep)

-----------------------------------------------------------------------------
(* What the session should look like, told from the file alone.            *)

ImagesOf(f) == {i \in DOMAIN f.hdus : IsImagePosition(f.hdus[i].cards)}
ImageHdus == ImagesOf(file)

\* Where a header, or the end of the last data unit, really stands.
HeaderOffsets == {file.hdus[i].at : i \in DOMAIN file.hdus} \cup {file.end}

\* Where what follows HDU i of f stands: the next header, or the end of the last data unit.
After(f, i) == IF i + 1 \in DOMAIN f.hdus THEN f.hdus[i + 1].at ELSE f.end

\* A file written as the FITS standard says: a header of at least one block, then the data
\* unit, as long as its cards say when they say how long it is; images of at least one group.
\* A source of it holds at least the primary header.
Conforming(f) ==
    /\ f.hdus \in Seq(Range(f.hdus))
    /\ \A i, j \in DOMAIN f.hdus : i < j => f.hdus[i].at < f.hdus[j].at
    /\ \A i \in DOMAIN f.hdus :
          LET cards == f.hdus[i].cards
              data  == f.hdus[i].at + BLOCK * f.hdus[i].blocks
          IN  /\ f.hdus[i].at < data /\ data <= f.end
              /\ DataUnitSize(cards) # None => data + DataUnitSize(cards) = After(f, i)
              /\ IsImagePosition(cards) => Gcount(cards) # 0
    /\ f.end \in Nat
    /\ \A l \in f.lengths : f.hdus[1].at + BLOCK * f.hdus[1].blocks <= l

FilesConform == \A f \in Files : Conforming(f)

\* The chunks image i delivers for selection s: row r of the stream is row k*height + r of
\* the data unit, big-endian row after row, channel after channel.
ChunksIn(f, i, s) ==
    LET h    == BuildHeader(f.hdus[i].cards, f.hdus[1].cards)
        g    == h.geometry
        row  == g.width * h.bytes
        data == f.hdus[i].at + BLOCK * f.hdus[i].blocks
        Row(r) == IF s = None THEN r ELSE s * g.height + r
    IN  [n \in 1 .. g.height * (IF s = None THEN g.channels ELSE 1) |->
            [channel |-> Row(n - 1) \div g.height,
             start   |-> (n - 1) * g.width,
             from    |-> data + row * Row(n - 1)]]

ChunksOf(i, s) == ChunksIn(file, i, s)

-----------------------------------------------------------------------------
(* Type correctness.                                                       *)

ParsedHdu == [hdu : DOMAIN file.hdus, data_start : Nat]
PixelState == [data_start : Nat, row_bytes : Nat, selected : Option(Nat), next_file_row : Nat]
Chunk == [channel : Nat, start : Nat, from : Int]

\* Every variable holds a value of its type: the source and the reader's fields, the call in
\* progress, and the decoder's state.
TypeOK ==
    /\ file \in Files /\ seekable \in BOOLEAN /\ length \in file.lengths
    /\ pos \in Nat /\ faults \in 0 .. MaxFaults
    /\ phase \in {"header", "pixel"}
    /\ bounds_override \in BOOLEAN /\ selected_channel \in Option(0 .. MaxChannel)
    /\ advances \in Nat /\ pixels_started \in BOOLEAN /\ pixels_failed \in BOOLEAN
    /\ cursor \in {"none", "pull", "push", "samples", "image"}
    /\ pc \in {"idle", "abandon", "next_image", "read_next_hdu", "walk",
              "begin_pixels", "next_chunk"}
    /\ stream \in Seq(Chunk)
    /\ position \in {"Start", "OnImage", "Done"}
    /\ pending \in Option(ParsedHdu) /\ current \in Option(ParsedHdu)
    /\ pixels \in Option(PixelState) /\ pixels_read \in BOOLEAN
    /\ traversed \in Nat
    /\ broken \in BOOLEAN

-----------------------------------------------------------------------------
(* Safety.                                                                 *)

\* The walk reads a header only where one stands (or at the end of the last data unit),
\* whatever the caller read, dropped, retried or failed to read of the image before: the
\* padded end is computed, never tracked (consume_current, skip_data_unit).
AlignedWalk == pc = "read_next_hdu" => pos \in HeaderOffsets

\* Every image position up to the current one was reported exactly once, and a walk that
\* reached the end of source without an error reported every image the source holds.
EveryImageOnce ==
    /\ advances = Cardinality({i \in ImageHdus : current # None /\ i <= current.hdu})
    /\ position = "Done" /\ ~broken =>
          advances = Cardinality({i \in ImageHdus : file.hdus[i].at < length})

\* What a cursor has delivered is a prefix of the current image's chunks for the selected
\* channel, each read from the right bytes, all of which the source holds.
StreamIsExact ==
    stream # <<>> =>
        /\ current # None
        /\ IsPrefix(stream, ChunksOf(current.hdu, selected_channel))
        /\ \A n \in DOMAIN stream : stream[n].from + RowBytes <= length

\* A cursor that ran to its end, and a tier-2 decode that returned Ok, delivered the image
\* whole: nothing missing at the tail, no row twice, the narrowed channel only.
WholeImage ==
    pc = "idle" /\ ret.res = "end" => stream = ChunksOf(current.hdu, selected_channel)

\* What each point of a call may rely on, whatever calls came before: the walk runs with
\* nothing configured and nothing being read; a decode runs under a live cursor, in the pixel
\* phase, unfailed, over an image that has a header, was not declined and, once it began, has
\* a geometry and a sample format (next_image, advance_chunk_inner, begin_pixels).
CallDiscipline ==
    /\ pc \in {"next_image", "walk", "read_next_hdu"} =>
          /\ cursor = "none" /\ phase = "header"
          /\ ~bounds_override /\ selected_channel = None
          /\ ~pixels_started /\ ~pixels_failed /\ stream = <<>>
    /\ pc = "abandon" => cursor = "none" /\ pixels_started
    /\ pc = "next_chunk" => pixels_started
    /\ pc \in {"begin_pixels", "next_chunk"} => cursor # "none" /\ ~pixels_failed
    /\ cursor # "none" => phase = "pixel"
    /\ pixels_started \/ pc = "begin_pixels" => header # None /\ header.decline = None
    /\ pixels_started => header.geometry # None /\ header.bytes # None

\* The header a caller is shown describes the image the decoder would read pixels from.
HeaderIsCurrents ==
    header # None => /\ current # None
                     /\ header = BuildHeader(Cards(current), file.hdus[1].cards)

\* No chunk of an image past the total-samples or row cap is delivered, and no tier-2 decode
\* writes a destination past the output cap, in samples of the file's width or in f32, however
\* the calls that led there were ordered.
CapsHold ==
    stream # <<>> =>
        /\ TotalSamples(header.geometry) <= Limits.total_samples
        /\ RowBytes <= Limits.materialized_bytes
        /\ cursor = "samples" => DestinationLen * header.bytes <= Limits.decoded_output_bytes
        /\ cursor = "image" => DestinationLen * 4 <= Limits.decoded_output_bytes

-----------------------------------------------------------------------------
(* What a step may never do.                                               *)

\* A failed decode stays failed: no chunk follows an error until a fresh cursor or the next
\* image clears it (advance_chunk).
PoisonHolds == [][pixels_failed /\ stream' # stream => stream' = <<>>]_vars

\* Configuration is fixed while the pixel phase lasts, and a range or a channel never
\* outlives the image it was set for (set_bounds, select_channel, next_image).
ConfigurationScoped ==
    [][/\ phase = "pixel" /\ phase' = "pixel" => UNCHANGED <<bounds_override, selected_channel>>
       /\ current' # current => bounds_override' = FALSE /\ selected_channel' = None]_vars

\* A step's work is small, whatever the file holds: an image is sat on after at most
\* hdus_per_advance positions stepped over, and on a source with no length to end a loop a
\* step reads forward only and no more than a skip, a header or a row may cost.
BoundedStep ==
    /\ current' # current => traversed <= Limits.hdus_per_advance
    /\ ~seekable => pos' - pos \in
          0 .. Limits.skipped_block_bytes +
               Greatest(Greatest(BLOCK, Limits.fits_header_bytes), Limits.materialized_bytes)

\* Every step is so bounded, and an advance passes at most hdus_per_advance of the HDUs the
\* file really has.  Together they bound next_image over a pipe (Decoder::next_image,
\* Sequential::skip, read_header_region_from).
BoundedAdvance ==
    [][/\ BoundedStep
       /\ current' # current =>
             LET before == IF current = None THEN 0 ELSE current.hdu
             IN  current'.hdu - before - 1 \in 0 .. Limits.hdus_per_advance]_vars

-----------------------------------------------------------------------------
(* Liveness and refinement.                                                *)

\* Every call returns: no file, cap or I/O error leaves a loop of the decoder running.
CallReturns == pc # "idle" ~> pc = "idle"

\* The frames of a file: its images in order, each with the chunks of every selection.
FramesIn(f) ==
    LET ImageHdu(n) == CHOOSE i \in ImagesOf(f) : Cardinality({j \in ImagesOf(f) : j <= i}) = n
        Chunked(i)  ==
            LET h == BuildHeader(f.hdus[i].cards, f.hdus[1].cards) IN
            [s \in IF h.decline # None THEN {} ELSE Option(0 .. h.geometry.channels - 1) |->
                ChunksIn(f, i, s)]
    IN  [n \in 1 .. Cardinality(ImagesOf(f)) |-> Chunked(ImageHdu(n))]

Frames == [f \in Files |-> FramesIn(f)]

Session == INSTANCE FrameSession WITH
    frames <- Frames[file], at <- advances, over <- position = "Done",
    selection <- selected_channel, reading <- phase = "pixel", failed <- pixels_failed

\* The FITS reader keeps the promise.
KeepsThePromise == Session!Spec

-----------------------------------------------------------------------------
(* What the documentation says and the code does not do.                   *)

\* current_header is InvalidRequest after the next_image that reported end of source
\* (current_header's documentation).
NoHeaderAfterTheEnd ==
    pc = "idle" /\ ret = [op |-> "next_image", res |-> "false"] => header = None
=============================================================================
