----------------------------- MODULE FitsDecoder -----------------------------
(***************************************************************************)
(* The FITS decoder (src/src/fits/decoder.rs): the walk over the HDUs of a *)
(* source and the delivery of an image's rows, as the steps that answer    *)
(* the reader's calls.                                                     *)
(*                                                                         *)
(* A file is [hdus, end, lengths].  hdus is the sequence of its HDUs, each *)
(* [at, blocks, defect, cards]: the offset its header starts at, the       *)
(* header's length in blocks, whether its card list reads ("ok") or which  *)
(* error it raises, and the cards.  end is where the last data unit ends,  *)
(* lengths how many of the bytes a source may hold.  Where the HDUs really *)
(* start is data: the decoder never sees `at' or `end', it only finds out  *)
(* what stands at the offset it reads from.                                *)
(*                                                                         *)
(* An operator whose name starts with Slip is not the code's: it is the    *)
(* definition after it with a plausible mistake in it, kept to show that   *)
(* the properties would notice.                                            *)
(***************************************************************************)
EXTENDS Reader, FitsHdu

CONSTANT Files   \* the files a session may be given

ASSUME FilesAssumption ==
    \A f \in Files :
        /\ f.lengths \subseteq Nat
        /\ 1 \in DOMAIN f.hdus
        /\ \A i \in DOMAIN f.hdus :
              /\ f.hdus[i].at \in Nat /\ f.hdus[i].blocks \in Nat
              /\ f.hdus[i].defect \in {"ok", "Malformed", "LimitExceeded"}
              /\ \A j \in DOMAIN f.hdus : f.hdus[i].at = f.hdus[j].at => i = j

ASSUME NoHduAssumption == None \notin [hdu : Nat, data_start : Nat]

VARIABLES
  file,
  position,      \* Position: "Start", "OnImage" or "Done"
  pending,       \* the parsed HDU whose data unit is ahead: None or [hdu, data_start]
  current,       \* the HDU sat on, likewise
  pixels,        \* PixelState: None, or [data_start, row_bytes, selected, next_file_row]
  pixels_read,
  traversed,     \* next_image's count of the HDUs it stepped over
  broken         \* history: the walk ended on an error, not at the end of source

decoderVars == <<file, position, pending, current, pixels, pixels_read, traversed,
                 broken>>
walkVars == <<file, position, pending, current, header, traversed, broken>>
pixelVars == <<pixels, pixels_read>>

Cards(hdu) == file.hdus[hdu.hdu].cards

\* The size of every data unit, as a constant: a value TLC computes once.
UnitSizes == [f \in Files |-> [i \in DOMAIN f.hdus |-> DataUnitSize(f.hdus[i].cards)]]
UnitSize(hdu) == UnitSizes[file][hdu.hdu]

\* The data unit's padded end, or None when it has no size or ends past u64.
PaddedEnd(hdu) == CheckedAdd(hdu.data_start, UnitSize(hdu))

-----------------------------------------------------------------------------
(* The walk.                                                               *)

\* Slip: trusts the cursor once pixel work has moved it.
SlipConsumeCurrent ==
    IF current = None \/ pixels # None THEN {Outcome("ok", pos)}
    ELSE IF PaddedEnd(current) = None THEN {Outcome("Malformed", pos)}
    ELSE Skip(PaddedEnd(current) - pos)

\* consume_current: to the padded end, from wherever pixel work left the cursor.
ConsumeCurrent ==
    IF current = None THEN {Outcome("ok", pos)}
    ELSE LET end == PaddedEnd(current) IN
         IF end = None THEN {Outcome("Malformed", pos)}
         ELSE IF pos < end THEN Skip(end - pos)
         ELSE {Outcome("ok", pos)}

\* The walk ends on an error, in next_image's own words.
WalkFails(res) ==
    /\ position' = "Done" /\ broken' = TRUE
    /\ NextImageReturns(res)

Abandon ==
    /\ pc = "abandon"
    /\ \E o \in ConsumeCurrent :
          /\ Moves(o)
          /\ pixels' = IF o.res = "ok" THEN None ELSE pixels
          /\ AbandonReturns(o.res)
    /\ UNCHANGED <<walkVars, pixels_read>>

\* decoder.next_image up to its loop, by position.
AfterTheEnd ==
    /\ pc = "next_image" /\ position = "Done"
    /\ NextImageReturns("false")
    /\ UNCHANGED <<sourceVars, walkVars, pixelVars>>

FromTheStart ==
    /\ pc = "next_image" /\ position = "Start"
    /\ pc' = "walk" /\ traversed' = 0
    /\ UNCHANGED <<sourceVars, readerVars, header, cursor, ret, stream,
                   file, position, pending, current, broken, pixelVars>>

\* Slip: goes back to the top of next_image, still on the image.
SlipFromAnImage ==
    /\ pc = "next_image" /\ position = "OnImage"
    /\ \E o \in ConsumeCurrent :
          /\ Moves(o)
          /\ IF o.res # "ok" THEN WalkFails(o.res) /\ UNCHANGED pixels
             ELSE pixels' = None /\ UNCHANGED <<readerVars, callVars, position, broken>>
    /\ traversed' = 0
    /\ UNCHANGED <<file, header, pending, current, pixels_read>>

FromAnImage ==
    /\ pc = "next_image" /\ position = "OnImage"
    /\ \E o \in ConsumeCurrent :
          /\ Moves(o)
          /\ IF o.res # "ok" THEN WalkFails(o.res) /\ UNCHANGED pixels
             ELSE /\ pc' = "read_next_hdu" /\ pixels' = None
                  /\ UNCHANGED <<readerVars, cursor, ret, stream, position, broken>>
    /\ traversed' = 0
    /\ UNCHANGED <<file, header, pending, current, pixels_read>>

\* The blocks a header may have: the first is read before the cap is looked at.
HeaderCap == Greatest(1, Limits.fits_header_bytes \div BLOCK)

\* Reading the header region at the cursor: 2880-byte blocks until one holds END, capped.
HeaderRegion(i) ==
    LET blocks == file.hdus[i].blocks
    IN  {IF o.res # "ok" THEN o
         ELSE IF blocks > HeaderCap THEN Outcome("LimitExceeded", o.pos)
         ELSE Outcome(file.hdus[i].defect, o.pos) :
            o \in ReadExact(pos, BLOCK * Least(blocks, HeaderCap))}

\* Bytes that are no header: an END is found by chance or not at all, and nothing parses.
NoHeaderRegion ==
    {Outcome(res, q) : res \in {"Malformed", "LimitExceeded"},
                       q \in pos .. Least(length, pos + BLOCK * HeaderCap)}
        \cup IoWhileReading(pos, BLOCK * HeaderCap)

\* read_next_hdu: "end" when no byte is left.
NextHdu ==
    IF pos >= length THEN {Outcome("end", pos)} \cup IoWhileReading(pos, BLOCK)
    ELSE LET here == {i \in DOMAIN file.hdus : file.hdus[i].at = pos} IN
         IF here = {} THEN NoHeaderRegion
         ELSE UNION {HeaderRegion(i) : i \in here}

ReadNextHdu ==
    /\ pc = "read_next_hdu"
    /\ \E o \in NextHdu :
          /\ Moves(o)
          /\ IF o.res \in {"ok", "end"}
             THEN /\ pending' = IF o.res = "end" THEN None
                                ELSE [hdu |-> CHOOSE i \in DOMAIN file.hdus : file.hdus[i].at = pos,
                                      data_start |-> o.pos]
                  /\ pc' = "walk"
                  /\ UNCHANGED <<readerVars, cursor, ret, stream, position, broken>>
             ELSE WalkFails(o.res) /\ UNCHANGED pending
    /\ UNCHANGED <<file, header, current, traversed, pixelVars>>

\* The loop, by what was taken from `pending'.
EndOfSource ==
    /\ pc = "walk" /\ pending = None
    /\ position' = "Done" /\ header' = None
    /\ NextImageReturns("false")
    /\ UNCHANGED <<sourceVars, file, pending, current, traversed, broken, pixelVars>>

\* Slip: a declined position is reported but not sat on.
SlipSitOnImage ==
    /\ pc = "walk" /\ pending # None
    /\ IsImagePosition(Cards(pending))
    /\ header' = BuildHeader(Cards(pending), file.hdus[1].cards)
    /\ current' = IF header'.decline = None THEN pending ELSE current
    /\ pending' = None
    /\ position' = "OnImage"
    /\ pixels' = None /\ pixels_read' = FALSE
    /\ NextImageReturns("true")
    /\ UNCHANGED <<sourceVars, file, traversed, broken>>

SitOnImage ==
    /\ pc = "walk" /\ pending # None
    /\ IsImagePosition(Cards(pending))
    /\ header' = BuildHeader(Cards(pending), file.hdus[1].cards)
    /\ current' = pending /\ pending' = None
    /\ position' = "OnImage"
    /\ pixels' = None /\ pixels_read' = FALSE
    /\ NextImageReturns("true")
    /\ UNCHANGED <<sourceVars, file, traversed, broken>>

\* skip_data_unit of the HDU just parsed: the cursor stands at its data.
SkipDataUnit ==
    IF UnitSize(pending) = None THEN {Outcome("Malformed", pos)}
    ELSE Skip(UnitSize(pending))

\* Slip: the cap is tested before the HDU is counted.
SlipStepOver ==
    /\ pc = "walk" /\ pending # None
    /\ ~IsImagePosition(Cards(pending))
    /\ pending' = None
    /\ traversed' = traversed + 1
    /\ \E o \in IF traversed > Limits.hdus_per_advance
                THEN {Outcome("LimitExceeded", pos)} ELSE SkipDataUnit :
          /\ Moves(o)
          /\ IF o.res # "ok" THEN WalkFails(o.res)
             ELSE /\ pc' = "read_next_hdu"
                  /\ UNCHANGED <<readerVars, cursor, ret, stream, position, broken>>
    /\ UNCHANGED <<file, current, header, pixelVars>>

StepOver ==
    /\ pc = "walk" /\ pending # None
    /\ ~IsImagePosition(Cards(pending))
    /\ pending' = None
    /\ traversed' = traversed + 1
    /\ \E o \in IF traversed + 1 > Limits.hdus_per_advance
                THEN {Outcome("LimitExceeded", pos)} ELSE SkipDataUnit :
          /\ Moves(o)
          /\ IF o.res # "ok" THEN WalkFails(o.res)
             ELSE /\ pc' = "read_next_hdu"
                  /\ UNCHANGED <<readerVars, cursor, ret, stream, position, broken>>
    /\ UNCHANGED <<file, current, header, pixelVars>>

-----------------------------------------------------------------------------
(* The pixel phase.                                                        *)

RowBytes == header.geometry.width * header.bytes

\* begin_pixels' checks, in order; "ok" leaves the seek to do.
BeginRefusal ==
    LET g      == header.geometry
        stored == CheckedMul(TotalSamples(g), header.bytes)
    IN  IF pixels_read /\ ~seekable THEN "Unsupported"
        ELSE IF g = None \/ header.bytes = None THEN "InvalidRequest"
        ELSE IF stored = None THEN "Malformed"
        ELSE IF seekable /\ Least(MaxU, current.data_start + stored) > length THEN "Malformed"
        ELSE IF RowBytes > Limits.materialized_bytes THEN "LimitExceeded"
        ELSE "ok"

BeginPixels ==
    /\ pc = "begin_pixels"
    /\ \E o \in IF BeginRefusal = "ok" THEN SeekTo(current.data_start)
                ELSE {Outcome(BeginRefusal, pos)} :
          /\ Moves(o)
          /\ pixels' = IF o.res # "ok" THEN pixels
                       ELSE [data_start |-> current.data_start, row_bytes |-> RowBytes,
                             selected |-> selected_channel, next_file_row |-> 0]
          /\ BeginPixelsReturns(o.res)
    /\ pixels_read' = (pixels_read /\ ~seekable)
    /\ UNCHANGED walkVars

\* Slip: forgets that the file holds channel after channel.
SlipRowsToDeliver == header.geometry.height

RowsToDeliver ==
    header.geometry.height * (IF pixels.selected = None THEN header.geometry.channels ELSE 1)

\* Slip: a narrowed decode reads the first channel.
SlipFileRow == pixels.next_file_row

\* The row of the file the next chunk is: a narrowed decode skips to its channel.
FileRow ==
    IF pixels.selected = None THEN pixels.next_file_row
    ELSE pixels.selected * header.geometry.height + pixels.next_file_row

RowOffset == CheckedAdd(pixels.data_start, CheckedMul(pixels.row_bytes, FileRow))

\* The row read: a seek when the cursor is elsewhere, then the row's bytes.
ReadRow ==
    IF RowOffset = None THEN {Outcome("LimitExceeded", pos)}
    ELSE UNION {IF o.res = "ok" THEN ReadExact(o.pos, pixels.row_bytes) ELSE {o} :
                   o \in SeekTo(RowOffset)}

\* Slip: names the channel selected, even when none is.
SlipChunkOf(to) ==
    [channel |-> pixels.selected,
     start   |-> pixels.next_file_row * header.geometry.width,
     from    |-> to - pixels.row_bytes]

\* The chunk read when the cursor has come to `to'.
ChunkOf(to) ==
    [channel |-> IF pixels.selected = None THEN FileRow \div header.geometry.height
                 ELSE pixels.selected,
     start   |-> pixels.next_file_row * header.geometry.width,
     from    |-> to - pixels.row_bytes]

DeliverRow ==
    /\ pc = "next_chunk" /\ pixels # None /\ pixels.next_file_row < RowsToDeliver
    /\ \E o \in ReadRow :
          /\ Moves(o)
          /\ IF o.res # "ok" THEN ChunkFails(o.res) /\ UNCHANGED pixels
             ELSE /\ ChunkReturns(ChunkOf(o.pos))
                  /\ pixels' = [pixels EXCEPT !.next_file_row = @ + 1]
    /\ UNCHANGED <<walkVars, pixels_read>>

FinishImage ==
    /\ pc = "next_chunk" /\ pixels # None /\ pixels.next_file_row >= RowsToDeliver
    /\ pixels_read' = TRUE
    /\ ImageEnds
    /\ UNCHANGED <<sourceVars, walkVars, pixels>>
=============================================================================
