-------------------------------- MODULE Reader --------------------------------
(***************************************************************************)
(* The reader (src/src/reader.rs): the public calls, their phases and      *)
(* guards, and what each does with the decoder's answer.  It is the same   *)
(* for both formats; a decoder module adds the decoder's state and the     *)
(* steps that answer the calls the reader makes on it.                     *)
(*                                                                         *)
(* A public call is a sequence of steps.  pc is "idle" between calls; a    *)
(* call either returns at once or leaves in pc the decoder method it waits *)
(* for: "abandon", "next_image", "begin_pixels" or "next_chunk" (a decoder *)
(* may add inner points of its own).  The decoder ends its method with the *)
(* matching ...Returns operator, which is the rest of the reader's code.   *)
(***************************************************************************)
EXTENDS Source, Sequences

VARIABLES
  \* Reader's fields
  phase,              \* "header" or "pixel"
  bounds_override,    \* whether set_bounds is in force
  selected_channel,   \* None, or the channel select_channel narrowed to
  advances,           \* image occurrences advanced to
  pixels_started, pixels_failed,
  \* the decoder's header for its position: None, or
  \* [geometry, bytes (sample width), decline (None or a class), bounds]
  header,
  \* the call in progress
  cursor,             \* "none", or who drives the Chunks cursor: "pull" the
                      \* caller, "push" for_each_chunk, "samples" and "image"
                      \* the tier-2 decodes
  pc,
  ret,                \* the last call that returned, [op, res]
  stream              \* the chunks the current cursor delivered, [channel,
                      \* start, from]: destination row and source offset read

readerVars == <<phase, bounds_override, selected_channel, advances,
                pixels_started, pixels_failed>>
callVars == <<cursor, pc, ret, stream>>

Returns(op, res) == ret' = [op |-> op, res |-> res] /\ pc' = "idle"

\* A call that changes nothing but what it returns.
Answers(op, res) ==
    /\ Returns(op, res)
    /\ UNCHANGED <<readerVars, cursor, stream>>

-----------------------------------------------------------------------------
(* The checks every pixel-phase entry point starts from.                   *)

\* Geometry::total_samples
TotalSamples(g) == SaturatingMul(SaturatingMul(g.width, g.height), g.channels)

\* check_total_samples, on the file's geometry whatever channel is selected.
TooManySamples ==
    /\ header.geometry # None
    /\ LET width == IF header.bytes = None THEN 4 ELSE Greatest(header.bytes, 4) IN
       \/ TotalSamples(header.geometry) > Limits.total_samples
       \/ CheckedMul(TotalSamples(header.geometry), width) = None

\* current_header_for_pixels: "ok", or the class it refuses with.
PixelRefusal ==
    IF header = None THEN "InvalidRequest"
    ELSE IF header.decline # None THEN header.decline
    ELSE IF TooManySamples THEN "LimitExceeded"
    ELSE "ok"

\* destination_len_of, in samples; the geometry is present.
DestinationLen ==
    IF selected_channel = None THEN TotalSamples(header.geometry)
    ELSE SaturatingMul(header.geometry.width, header.geometry.height)

\* normalizer_for: whether a representable range is in force, or its refusal.
NormalizerRefusal ==
    IF bounds_override \/ header.bounds \in {"FormatDefault", "Declared"} THEN "ok"
    ELSE IF header.bounds = "NoFormatDefault" THEN "Unsupported"
    ELSE "Malformed"

OverOutputCap(width) ==
    LET bytes == CheckedMul(DestinationLen, width) IN
    bytes = None \/ bytes > Limits.decoded_output_bytes

\* read_samples_into a destination of len samples, of the right variant or not.
SamplesRefusal(len, variant) ==
    IF PixelRefusal # "ok" THEN PixelRefusal
    ELSE IF header.bytes = None \/ ~variant THEN "InvalidRequest"
    ELSE IF header.geometry = None \/ len # DestinationLen THEN "InvalidRequest"
    ELSE IF OverOutputCap(header.bytes) THEN "LimitExceeded"
    ELSE "ok"

\* Slip: the cap is held against the samples of the file, not those of the destination.
SlipImageRefusal(len) ==
    IF PixelRefusal # "ok" THEN PixelRefusal
    ELSE IF header.geometry = None \/ len # DestinationLen THEN "InvalidRequest"
    ELSE IF OverOutputCap(header.bytes) THEN "LimitExceeded"
    ELSE NormalizerRefusal

\* read_image_into a destination of len f32.
ImageRefusal(len) ==
    IF PixelRefusal # "ok" THEN PixelRefusal
    ELSE IF header.geometry = None \/ len # DestinationLen THEN "InvalidRequest"
    ELSE IF OverOutputCap(4) THEN "LimitExceeded"
    ELSE NormalizerRefusal

-----------------------------------------------------------------------------
(* next_image: abandon the pixels under way, reset the per-image state,    *)
(* advance the decoder and count the advance.                              *)

\* Slip: the channel selected outlives its image.
SlipResetForNextImage ==
    /\ phase' = "header"
    /\ bounds_override' = FALSE
    /\ pixels_started' = FALSE
    /\ pixels_failed' = FALSE
    /\ stream' = <<>>
    /\ pc' = "next_image"
    /\ UNCHANGED <<advances, selected_channel>>

ResetForNextImage ==
    /\ phase' = "header"
    /\ bounds_override' = FALSE
    /\ selected_channel' = None
    /\ pixels_started' = FALSE
    /\ pixels_failed' = FALSE
    /\ stream' = <<>>
    /\ pc' = "next_image"
    /\ UNCHANGED advances

NextImage ==
    /\ pc = "idle" /\ cursor = "none"
    /\ IF pixels_started
       THEN pc' = "abandon" /\ UNCHANGED <<readerVars, stream>>
       ELSE ResetForNextImage
    /\ UNCHANGED <<cursor, ret>>

\* Slip: goes on to the decoder although the abandon failed.
SlipAbandonReturns(res) ==
    IF res = "ok" THEN ResetForNextImage /\ UNCHANGED <<cursor, ret>>
    ELSE pc' = "next_image" /\ UNCHANGED <<readerVars, cursor, ret, stream>>

\* The rest of next_image after decoder.abandon: an error returns before any reset.
AbandonReturns(res) ==
    IF res = "ok" THEN ResetForNextImage /\ UNCHANGED <<cursor, ret>>
    ELSE Answers("next_image", res)

\* Slip: the advance is counted before it is confirmed.
SlipNextImageReturns(res) ==
    /\ advances' = advances + 1
    /\ Returns("next_image",
               IF res = "true" /\ advances + 1 > Limits.images_per_source
               THEN "LimitExceeded" ELSE res)
    /\ UNCHANGED <<phase, bounds_override, selected_channel, pixels_started, pixels_failed,
                   cursor, stream>>

\* The rest after decoder.next_image: only a confirmed occurrence is counted.
NextImageReturns(res) ==
    /\ IF res # "true" THEN Returns("next_image", res) /\ UNCHANGED advances
       ELSE /\ advances' = advances + 1
            /\ Returns("next_image",
                       IF advances + 1 > Limits.images_per_source THEN "LimitExceeded" ELSE "true")
    /\ UNCHANGED <<phase, bounds_override, selected_channel, pixels_started, pixels_failed,
                   cursor, stream>>

-----------------------------------------------------------------------------
(* Configuration, legal in the header phase only.                          *)

SetBounds(valid) ==
    /\ pc = "idle" /\ cursor = "none"
    /\ IF phase = "pixel" \/ ~valid THEN Answers("set_bounds", "InvalidRequest")
       ELSE /\ bounds_override' = TRUE
            /\ Returns("set_bounds", "ok")
            /\ UNCHANGED <<phase, selected_channel, advances, pixels_started, pixels_failed,
                           cursor, stream>>

SelectChannel(k) ==
    /\ pc = "idle" /\ cursor = "none"
    /\ IF \/ phase = "pixel" \/ header = None
          \/ header.geometry = None \/ k >= header.geometry.channels
       THEN Answers("select_channel", "InvalidRequest")
       ELSE /\ selected_channel' = k
            /\ Returns("select_channel", "ok")
            /\ UNCHANGED <<phase, bounds_override, advances, pixels_started, pixels_failed,
                           cursor, stream>>

-----------------------------------------------------------------------------
(* The pixel phase.                                                        *)

\* Slip: a fresh cursor goes on where the last one stopped.
SlipOpens(driver) ==
    /\ phase' = "pixel"
    /\ pixels_failed' = FALSE
    /\ cursor' = driver
    /\ stream' = <<>>
    /\ UNCHANGED <<bounds_override, selected_channel, advances, pixels_started>>

\* chunks(): a new stream over the current image, whoever drives it.
Opens(driver) ==
    /\ phase' = "pixel"
    /\ pixels_started' = FALSE
    /\ pixels_failed' = FALSE
    /\ cursor' = driver
    /\ stream' = <<>>
    /\ UNCHANGED <<bounds_override, selected_channel, advances>>

Chunks ==
    /\ pc = "idle" /\ cursor = "none"
    /\ Opens("pull")
    /\ Returns("chunks", "ok")

\* Dropping the cursor ends delivery without touching the reader.
DropChunks ==
    /\ pc = "idle" /\ cursor = "pull"
    /\ cursor' = "none"
    /\ UNCHANGED <<readerVars, pc, ret, stream>>

\* A failed advance_chunk poisons the image; whoever drives the cursor gets the error.
ChunkFails(res) ==
    /\ pixels_failed' = TRUE
    /\ cursor' = IF cursor = "pull" THEN "pull" ELSE "none"
    /\ Returns(IF cursor = "pull" THEN "next_chunk" ELSE cursor, res)
    /\ UNCHANGED <<phase, bounds_override, selected_channel, advances, pixels_started, stream>>

\* Slip: a failed decode may be taken up again.
SlipNextChunk ==
    /\ pc = "idle" /\ cursor = "pull"
    /\ IF pixels_started THEN pc' = "next_chunk" /\ UNCHANGED <<readerVars, cursor, ret, stream>>
       ELSE IF PixelRefusal # "ok" THEN ChunkFails(PixelRefusal)
       ELSE pc' = "begin_pixels" /\ UNCHANGED <<readerVars, cursor, ret, stream>>

\* Chunks::next_chunk, as far as the decoder method it needs.
NextChunk ==
    /\ pc = "idle" /\ cursor = "pull"
    /\ IF pixels_failed THEN Answers("next_chunk", "InvalidRequest")
       ELSE IF pixels_started THEN pc' = "next_chunk" /\ UNCHANGED <<readerVars, cursor, ret, stream>>
       ELSE IF PixelRefusal # "ok" THEN ChunkFails(PixelRefusal)
       ELSE pc' = "begin_pixels" /\ UNCHANGED <<readerVars, cursor, ret, stream>>

\* for_each_chunk: chunks(), then its first advance_chunk.
ForEachChunk ==
    /\ pc = "idle" /\ cursor = "none"
    /\ IF PixelRefusal = "ok"
       THEN Opens("push") /\ pc' = "begin_pixels" /\ UNCHANGED ret
       ELSE /\ phase' = "pixel" /\ pixels_started' = FALSE /\ pixels_failed' = TRUE
            /\ stream' = <<>>
            /\ Returns("push", PixelRefusal)
            /\ UNCHANGED <<bounds_override, selected_channel, advances, cursor>>

\* A tier-2 decode: refused before the pixel phase begins, or a cursor of its own.
Decodes(driver, refusal) ==
    /\ pc = "idle" /\ cursor = "none"
    /\ IF refusal # "ok" THEN Answers(driver, refusal)
       ELSE Opens(driver) /\ pc' = "begin_pixels" /\ UNCHANGED ret

\* read_samples_into; read_samples is the call with the length and variant it asks for.
ReadSamples(len, variant) == Decodes("samples", SamplesRefusal(len, variant))

\* read_image_into; read_image is the call with the length it asks for.
ReadImage(len) == Decodes("image", ImageRefusal(len))

\* The rest of advance_chunk_inner after decoder.begin_pixels.
BeginPixelsReturns(res) ==
    IF res # "ok" THEN ChunkFails(res)
    ELSE /\ pixels_started' = TRUE
         /\ pc' = "next_chunk"
         /\ UNCHANGED <<phase, bounds_override, selected_channel, advances, pixels_failed,
                        cursor, ret, stream>>

\* The rest after decoder.next_chunk returned Some(chunk): the caller has it, for_each_chunk
\* may break on it, and a loop asks for the next.
ChunkReturns(chunk) ==
    /\ stream' = Append(stream, chunk)
    /\ UNCHANGED readerVars
    /\ \/ cursor = "pull" /\ Returns("next_chunk", "chunk") /\ UNCHANGED cursor
       \/ cursor = "push" /\ Returns("push", "break") /\ cursor' = "none"
       \/ cursor \in {"push", "samples", "image"} /\ pc' = "next_chunk" /\ UNCHANGED <<cursor, ret>>

\* The rest after it returned None: the image is delivered.
ImageEnds ==
    /\ Returns(IF cursor = "pull" THEN "next_chunk" ELSE cursor, "end")
    /\ cursor' = IF cursor = "pull" THEN "pull" ELSE "none"
    /\ UNCHANGED <<readerVars, stream>>
=============================================================================
