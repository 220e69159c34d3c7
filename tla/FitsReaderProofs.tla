--------------------------- MODULE FitsReaderProofs ---------------------------
(***************************************************************************)
(* What holds of a FITS session for every file, every cap and every width  *)
(* of u64: the types, the discipline of the calls, that the header shown   *)
(* is the current image's, that a failed decode stays failed, that         *)
(* configuration keeps to its image, and that the rows delivered are the   *)
(* right ones (StreamIsExact, WholeImage).                                 *)
(*                                                                         *)
(* IInv is the inductive invariant.  Its parts need each other: the types  *)
(* of a decode hold because its image is decodable (CallDiscipline), which *)
(* is a fact about the cards of the HDU its header was built from          *)
(* (HeaderIsCurrents).                                                     *)
(***************************************************************************)
EXTENDS FitsReader, FitsHduProofs, FiniteSetTheorems

IInv == TypeOK /\ CallDiscipline /\ HeaderIsCurrents

-----------------------------------------------------------------------------
(* Outcomes of the source's operations.                                    *)

\* An outcome leaves the cursor at an offset, and fails with an I/O error only while the
\* environment may still raise one.
Fair(o) == o.pos \in Nat /\ (o.res = "Io" => faults # 0)

\* The numbers the source's operations run on are naturals.
SourceOK == pos \in Nat /\ length \in Nat /\ faults \in 0 .. MaxFaults

\* Reading n bytes has fair outcomes only (read_exact, Sequential::skip).
LEMMA ReadExactFair ==
    ASSUME SourceOK, NEW at \in Nat, NEW n \in Nat, NEW o \in ReadExact(at, n)
    PROVE  Fair(o)
  BY DEF SourceOK, Fair, ReadExact, IoWhileReading, Outcome, Least, Greatest

\* So has skipping n bytes by reading them (Sequential::skip).
LEMMA SkipByReadingFair ==
    ASSUME SourceOK, NEW n \in Nat, NEW o \in SkipByReading(n)
    PROVE  Fair(o)
  <1>1. CASE o \in ReadExact(pos, n)
    BY <1>1, ReadExactFair DEF SourceOK
  <1>2. CASE o \notin ReadExact(pos, n)
    BY <1>2 DEF SourceOK, Fair, SkipByReading, Outcome
  <1> QED
    BY <1>1, <1>2

\* So has moving a seekable source to an offset (Seekable::seek_to).
LEMMA SeekAbsoluteFair ==
    ASSUME SourceOK, NEW target \in Nat, NEW o \in SeekAbsolute(target)
    PROVE  Fair(o)
  BY DEF SourceOK, Fair, SeekAbsolute, Outcome

\* So has moving either source to an offset (Source::seek_to).
LEMMA SeekToFair ==
    ASSUME SourceOK, NEW target \in Nat, NEW o \in SeekTo(target)
    PROVE  Fair(o)
  <1>1. CASE seekable
    BY <1>1, SeekAbsoluteFair DEF SeekTo
  <1>2. CASE ~seekable /\ target < pos
    BY <1>2 DEF SourceOK, Fair, SeekTo, Outcome
  <1>3. CASE ~seekable /\ ~(target < pos)
    <2>1. target - pos \in Nat /\ o \in SkipByReading(target - pos)
      BY <1>3 DEF SourceOK, SeekTo
    <2> QED
      BY <2>1, SkipByReadingFair
  <1> QED
    BY <1>1, <1>2, <1>3

\* So has skipping n bytes of either source (Source::skip).
LEMMA SkipFair ==
    ASSUME SourceOK, NEW n \in Nat, NEW o \in Skip(n)
    PROVE  Fair(o)
  <1>1. CASE ~seekable
    BY <1>1, SkipByReadingFair DEF Skip
  <1>2. CASE seekable /\ CheckedAdd(pos, n) = None
    BY <1>2 DEF SourceOK, Fair, Skip, Outcome
  <1>3. CASE seekable /\ CheckedAdd(pos, n) # None
    <2>1. pos + n \in Nat /\ o \in SeekAbsolute(pos + n)
      BY <1>3 DEF SourceOK, Skip
    <2> QED
      BY <2>1, SeekAbsoluteFair
  <1> QED
    BY <1>1, <1>2, <1>3

-----------------------------------------------------------------------------
(* The sizes of the file at hand.                                          *)

\* The size kept for each data unit of the file is a u64, or nothing.
LEMMA UnitSizeFits ==
    ASSUME file \in Files, NEW hdu \in ParsedHdu
    PROVE  UnitSize(hdu) \in Option(U)
  BY DataUnitSizeFits DEF UnitSize, UnitSizes, ParsedHdu

\* An HDU's padded end is a u64, or nothing.
LEMMA PaddedEndFits ==
    ASSUME NEW hdu
    PROVE  PaddedEnd(hdu) \in Option(U)
  BY DEF PaddedEnd, CheckedAdd, Fit, Option

-----------------------------------------------------------------------------
(* Outcomes of the decoder's moves.                                        *)

\* The types of the source's variables are those its operations run on.
LEMMA SourceTypes == TypeOK => SourceOK
  BY FilesAssumption DEF TypeOK, SourceOK

\* Consuming the current image moves the cursor fairly (consume_current).
LEMMA ConsumeCurrentFair ==
    ASSUME TypeOK, NEW o \in ConsumeCurrent
    PROVE  Fair(o)
  <1>1. SourceOK
    BY SourceTypes
  <1>2. PaddedEnd(current) \in Option(U)
    BY PaddedEndFits
  <1>3. CASE current # None /\ PaddedEnd(current) # None /\ pos < PaddedEnd(current)
    <2>1. PaddedEnd(current) - pos \in Nat
      BY <1>1, <1>2, <1>3 DEF SourceOK, Option, U
    <2>2. o \in Skip(PaddedEnd(current) - pos)
      BY <1>3 DEF ConsumeCurrent
    <2> QED
      BY <1>1, <2>1, <2>2, SkipFair
  <1>4. CASE ~(current # None /\ PaddedEnd(current) # None /\ pos < PaddedEnd(current))
    BY <1>1, <1>4 DEF ConsumeCurrent, SourceOK, Fair, Outcome
  <1> QED
    BY <1>3, <1>4

\* So does stepping over an HDU (skip_data_unit).
LEMMA SkipDataUnitFair ==
    ASSUME TypeOK, pending # None, NEW o \in SkipDataUnit
    PROVE  Fair(o)
  <1>1. SourceOK
    BY SourceTypes
  <1>2. UnitSize(pending) \in Option(U)
    BY UnitSizeFits DEF TypeOK, Option
  <1>3. CASE UnitSize(pending) = None
    BY <1>1, <1>3 DEF SkipDataUnit, SourceOK, Fair, Outcome
  <1>4. CASE UnitSize(pending) # None
    <2>1. UnitSize(pending) \in Nat /\ o \in Skip(UnitSize(pending))
      BY <1>2, <1>4, MaxUAssumption DEF SkipDataUnit, Option, U
    <2> QED
      BY <1>1, <2>1, SkipFair
  <1> QED
    BY <1>3, <1>4

\* A header may have a whole number of blocks, at least one (read_header_region_from).
LEMMA HeaderCapType == HeaderCap \in Nat \ {0}
  <1>1. Limits.fits_header_bytes \in Nat
    BY LimitsAssumption
  <1>2. Limits.fits_header_bytes \div BLOCK \in Nat
    BY <1>1, BlockAssumption
  <1> QED
    BY <1>2 DEF HeaderCap, Greatest

\* The header region at the cursor is read fairly (read_header_region).
LEMMA HeaderRegionFair ==
    ASSUME TypeOK, NEW i \in DOMAIN file.hdus, NEW o \in HeaderRegion(i)
    PROVE  Fair(o)
  <1> DEFINE n == BLOCK * Least(file.hdus[i].blocks, HeaderCap)
  <1>1. SourceOK
    BY SourceTypes
  <1>2. file.hdus[i].blocks \in Nat /\ file.hdus[i].defect \in {"ok", "Malformed", "LimitExceeded"}
    BY FilesAssumption DEF TypeOK
  <1>3. HeaderCap \in Nat
    BY HeaderCapType
  <1>4. n \in Nat
    BY <1>2, <1>3, BlockAssumption DEF Least
  <1>5. PICK r \in ReadExact(pos, n) :
           o = IF r.res # "ok" THEN r
               ELSE IF file.hdus[i].blocks > HeaderCap THEN Outcome("LimitExceeded", r.pos)
               ELSE Outcome(file.hdus[i].defect, r.pos)
    BY DEF HeaderRegion
  <1>6. Fair(r)
    BY <1>1, <1>4, <1>5, ReadExactFair DEF SourceOK
  <1> QED
    BY <1>2, <1>5, <1>6 DEF Fair, Outcome

\* Looking for the next HDU moves the cursor fairly, and one is found only where one stands
\* (read_next_hdu).
LEMMA NextHduFair ==
    ASSUME TypeOK, NEW o \in NextHdu
    PROVE  /\ Fair(o)
           /\ o.res = "ok" => \E i \in DOMAIN file.hdus : file.hdus[i].at = pos
  <1>1. SourceOK
    BY SourceTypes
  <1>2. CASE pos >= length
    BY <1>1, <1>2, BlockAssumption
       DEF NextHdu, SourceOK, Fair, Outcome, IoWhileReading, Least, Greatest
  <1>3. CASE pos < length /\ {i \in DOMAIN file.hdus : file.hdus[i].at = pos} = {}
    <2>1. o \in NoHeaderRegion
      BY <1>1, <1>3 DEF NextHdu, SourceOK
    <2>2. CASE o \in IoWhileReading(pos, BLOCK * HeaderCap)
      <3>1. o \in ReadExact(pos, BLOCK * HeaderCap) /\ BLOCK * HeaderCap \in Nat
        BY <2>2, HeaderCapType, BlockAssumption DEF ReadExact
      <3>2. Fair(o) /\ o.res # "ok"
        BY <1>1, <2>2, <3>1, ReadExactFair DEF SourceOK, IoWhileReading, Outcome
      <3> QED
        BY <3>2
    <2>3. CASE o \notin IoWhileReading(pos, BLOCK * HeaderCap)
      BY <1>1, <2>1, <2>3 DEF NoHeaderRegion, SourceOK, Fair, Outcome
    <2> QED
      BY <2>2, <2>3
  <1>4. CASE pos < length /\ {i \in DOMAIN file.hdus : file.hdus[i].at = pos} # {}
    <2>1. PICK i \in DOMAIN file.hdus : file.hdus[i].at = pos /\ o \in HeaderRegion(i)
      BY <1>1, <1>4 DEF NextHdu, SourceOK
    <2> QED
      BY <2>1, HeaderRegionFair
  <1> QED
    BY <1>1, <1>2, <1>3, <1>4 DEF SourceOK

\* A row is read fairly (next_chunk).
LEMMA ReadRowFair ==
    ASSUME TypeOK, pixels # None, NEW o \in ReadRow
    PROVE  Fair(o)
  <1>1. SourceOK
    BY SourceTypes
  <1>2. pixels.row_bytes \in Nat
    BY DEF TypeOK, Option, PixelState
  <1>3. RowOffset \in Option(U)
    BY DEF RowOffset, CheckedAdd, Fit, Option
  <1>4. CASE RowOffset = None
    BY <1>1, <1>4 DEF ReadRow, SourceOK, Fair, Outcome
  <1>5. CASE RowOffset # None
    <2>1. RowOffset \in Nat
      BY <1>3, <1>5, MaxUAssumption DEF Option, U
    <2>2. PICK s \in SeekTo(RowOffset) :
             o \in IF s.res = "ok" THEN ReadExact(s.pos, pixels.row_bytes) ELSE {s}
      BY <1>5 DEF ReadRow
    <2>3. Fair(s)
      BY <1>1, <2>1, <2>2, SeekToFair
    <2> QED
      BY <1>1, <1>2, <2>2, <2>3, ReadExactFair DEF Fair
  <1> QED
    BY <1>4, <1>5

\* The step that has a fair outcome keeps the source's numbers natural.
LEMMA FairMove ==
    ASSUME TypeOK, NEW o, Fair(o), Moves(o), file' = file
    PROVE  /\ pos' \in Nat /\ faults' \in 0 .. MaxFaults
           /\ seekable' \in BOOLEAN /\ length' \in file'.lengths /\ file' \in Files
  BY MaxFaultsAssumption DEF TypeOK, Fair, Moves

-----------------------------------------------------------------------------
(* The calls, as far as the reader takes them.                             *)

\* A call leaves the source, the header and the decoder alone, and with them every fact that
\* is about nothing else.
LEMMA CallKeepsDecoder ==
    ASSUME IInv, UNCHANGED <<sourceVars, header, decoderVars>>
    PROVE  /\ HeaderIsCurrents'
           /\ file' \in Files /\ seekable' \in BOOLEAN /\ length' \in file'.lengths
           /\ pos' \in Nat /\ faults' \in 0 .. MaxFaults
           /\ position' \in {"Start", "OnImage", "Done"}
           /\ pending' \in Option(ParsedHdu') /\ current' \in Option(ParsedHdu')
           /\ pixels' \in Option(PixelState) /\ pixels_read' \in BOOLEAN
           /\ traversed' \in Nat /\ broken' \in BOOLEAN
  BY DEF IInv, TypeOK, HeaderIsCurrents, Cards, ParsedHdu, sourceVars, decoderVars

\* What a call must establish of the reader's own fields.
ReaderTypes ==
    /\ phase \in {"header", "pixel"}
    /\ bounds_override \in BOOLEAN /\ selected_channel \in Option(0 .. MaxChannel)
    /\ advances \in Nat /\ pixels_started \in BOOLEAN /\ pixels_failed \in BOOLEAN
    /\ cursor \in {"none", "pull", "push", "samples", "image"}
    /\ pc \in {"idle", "abandon", "next_image", "read_next_hdu", "walk",
              "begin_pixels", "next_chunk"}
    /\ stream \in Seq(Chunk)

\* A call moves the reader alone: what it leaves of IInv to show is the reader's part.
LEMMA CallPreserves ==
    ASSUME IInv, UNCHANGED <<sourceVars, header, decoderVars>>,
           ReaderTypes', CallDiscipline'
    PROVE  IInv'
  <1>1. TypeOK'
    BY CallKeepsDecoder DEF TypeOK, ReaderTypes
  <1> QED
    BY <1>1, CallKeepsDecoder DEF IInv

\* A decode is begun only over an image that may be decoded.
LEMMA PixelRefusalOk ==
    ASSUME PixelRefusal = "ok", header # None => header.decline \in {None, "Malformed", "Unsupported"}
    PROVE  header # None /\ header.decline = None
  BY DEF PixelRefusal

\* The decline a header carries is a class, or none.
LEMMA HeaderDecline ==
    ASSUME IInv, header # None
    PROVE  header.decline \in {None, "Malformed", "Unsupported"}
  BY DEF IInv, HeaderIsCurrents, BuildHeader, FirstFault

\* A cursor starts from no chunks.
LEMMA EmptyStream == <<>> \in Seq(Chunk)
  OBVIOUS

\* next_image, as far as the decoder (next_image).
LEMMA NextImagePreserves ==
    ASSUME IInv, Calls(NextImage)
    PROVE  IInv'
  <1> USE DEF Calls, NextImage, ResetForNextImage, readerVars
  <1>1. ReaderTypes'
    BY EmptyStream DEF IInv, TypeOK, ReaderTypes, Option
  <1>2. CallDiscipline'
    BY DEF IInv, TypeOK, CallDiscipline
  <1> QED
    BY <1>1, <1>2, CallPreserves

\* A range set or refused (set_bounds).
LEMMA SetBoundsPreserves ==
    ASSUME IInv, NEW valid \in BOOLEAN, Calls(SetBounds(valid))
    PROVE  IInv'
  <1> USE DEF Calls, SetBounds, Answers, Returns, readerVars
  <1>1. ReaderTypes'
    BY DEF IInv, TypeOK, ReaderTypes
  <1>2. CallDiscipline'
    BY DEF IInv, TypeOK, CallDiscipline
  <1> QED
    BY <1>1, <1>2, CallPreserves

\* A channel selected or refused (select_channel).
LEMMA SelectChannelPreserves ==
    ASSUME IInv, NEW k \in 0 .. MaxChannel, Calls(SelectChannel(k))
    PROVE  IInv'
  <1> USE DEF Calls, SelectChannel, Answers, Returns, readerVars
  <1>1. ReaderTypes'
    BY DEF IInv, TypeOK, ReaderTypes, Option
  <1>2. CallDiscipline'
    BY DEF IInv, TypeOK, CallDiscipline
  <1> QED
    BY <1>1, <1>2, CallPreserves

\* A fresh cursor (chunks).
LEMMA ChunksPreserves ==
    ASSUME IInv, Calls(Chunks)
    PROVE  IInv'
  <1> USE DEF Calls, Chunks, Opens, Returns
  <1>1. ReaderTypes'
    BY EmptyStream DEF IInv, TypeOK, ReaderTypes
  <1>2. CallDiscipline'
    BY DEF IInv, TypeOK, CallDiscipline
  <1> QED
    BY <1>1, <1>2, CallPreserves

\* A cursor dropped (Chunks).
LEMMA DropChunksPreserves ==
    ASSUME IInv, Calls(DropChunks)
    PROVE  IInv'
  <1> USE DEF Calls, DropChunks, readerVars
  <1>1. ReaderTypes'
    BY DEF IInv, TypeOK, ReaderTypes
  <1>2. CallDiscipline'
    BY DEF IInv, TypeOK, CallDiscipline
  <1> QED
    BY <1>1, <1>2, CallPreserves

\* The next chunk asked for (advance_chunk_inner).
LEMMA NextChunkPreserves ==
    ASSUME IInv, Calls(NextChunk)
    PROVE  IInv'
  <1> USE DEF Calls, NextChunk, ChunkFails, Answers, Returns, readerVars
  <1>1. ReaderTypes'
    BY DEF IInv, TypeOK, ReaderTypes
  <1>2. CallDiscipline'
    BY HeaderDecline, PixelRefusalOk DEF IInv, TypeOK, CallDiscipline
  <1> QED
    BY <1>1, <1>2, CallPreserves

\* A pushed decode begun or refused (for_each_chunk).
LEMMA ForEachChunkPreserves ==
    ASSUME IInv, Calls(ForEachChunk)
    PROVE  IInv'
  <1> USE DEF Calls, ForEachChunk, Opens, Returns
  <1>1. ReaderTypes'
    BY EmptyStream DEF IInv, TypeOK, ReaderTypes
  <1>2. CallDiscipline'
    BY HeaderDecline, PixelRefusalOk DEF IInv, TypeOK, CallDiscipline
  <1> QED
    BY <1>1, <1>2, CallPreserves

\* A tier-2 decode goes on only when its checks, which start from the same ones, pass.
LEMMA DecodesPreserves ==
    ASSUME IInv, NEW driver \in {"samples", "image"}, NEW refusal,
           refusal = "ok" => PixelRefusal = "ok", Calls(Decodes(driver, refusal))
    PROVE  IInv'
  <1> USE DEF Calls, Decodes, Opens, Answers, Returns, readerVars
  <1>1. ReaderTypes'
    BY EmptyStream DEF IInv, TypeOK, ReaderTypes
  <1>2. CallDiscipline'
    BY HeaderDecline, PixelRefusalOk DEF IInv, TypeOK, CallDiscipline
  <1> QED
    BY <1>1, <1>2, CallPreserves

-----------------------------------------------------------------------------
(* The steps of the decoder.                                               *)

\* What a step must establish of the decoder's fields.
DecoderTypes ==
    /\ position \in {"Start", "OnImage", "Done"}
    /\ pending \in Option(ParsedHdu) /\ current \in Option(ParsedHdu)
    /\ pixels \in Option(PixelState) /\ pixels_read \in BOOLEAN
    /\ traversed \in Nat /\ broken \in BOOLEAN

\* A step that moves the cursor fairly.
LEMMA MovePreserves ==
    ASSUME IInv, NEW o, Fair(o), Moves(o), file' = file,
           ReaderTypes', DecoderTypes', CallDiscipline', HeaderIsCurrents'
    PROVE  IInv'
  <1>1. /\ pos' \in Nat /\ faults' \in 0 .. MaxFaults
        /\ seekable' \in BOOLEAN /\ length' \in file'.lengths /\ file' \in Files
    BY FairMove DEF IInv
  <1>2. TypeOK'
    BY <1>1 DEF TypeOK, ReaderTypes, DecoderTypes
  <1> QED
    BY <1>2 DEF IInv

\* A step that leaves the source alone.
LEMMA StillPreserves ==
    ASSUME IInv, UNCHANGED <<sourceVars, file>>,
           ReaderTypes', DecoderTypes', CallDiscipline', HeaderIsCurrents'
    PROVE  IInv'
  <1>1. TypeOK'
    BY DEF IInv, TypeOK, ReaderTypes, DecoderTypes, sourceVars
  <1> QED
    BY <1>1 DEF IInv

\* The pixels under way given up (abandon).
LEMMA AbandonPreserves ==
    ASSUME IInv, Abandon
    PROVE  IInv'
  <1> USE DEF Abandon, AbandonReturns, ResetForNextImage, Answers, Returns, readerVars, walkVars
  <1>1. PICK o \in ConsumeCurrent :
           /\ Moves(o)
           /\ pixels' = IF o.res = "ok" THEN None ELSE pixels
           /\ AbandonReturns(o.res)
    OBVIOUS
  <1>2. Fair(o)
    BY ConsumeCurrentFair DEF IInv
  <1>3. ReaderTypes'
    BY <1>1, EmptyStream DEF IInv, TypeOK, ReaderTypes, Option
  <1>4. DecoderTypes'
    BY <1>1 DEF IInv, TypeOK, DecoderTypes, ParsedHdu, Option
  <1>5. CallDiscipline'
    BY <1>1 DEF IInv, TypeOK, CallDiscipline
  <1>6. HeaderIsCurrents'
    BY DEF IInv, HeaderIsCurrents, Cards
  <1> QED
    BY <1>1, <1>2, <1>3, <1>4, <1>5, <1>6, MovePreserves

\* next_image once the walk has ended (Decoder::next_image).
LEMMA AfterTheEndPreserves ==
    ASSUME IInv, AfterTheEnd
    PROVE  IInv'
  <1> USE DEF AfterTheEnd, NextImageReturns, Returns, walkVars, pixelVars
  <1>1. ReaderTypes'
    BY DEF IInv, TypeOK, ReaderTypes
  <1>2. DecoderTypes'
    BY DEF IInv, TypeOK, DecoderTypes, ParsedHdu
  <1>3. CallDiscipline'
    BY DEF IInv, TypeOK, CallDiscipline
  <1>4. HeaderIsCurrents'
    BY DEF IInv, HeaderIsCurrents, Cards
  <1> QED
    BY <1>1, <1>2, <1>3, <1>4, StillPreserves

\* The first advance (Decoder::next_image).
LEMMA FromTheStartPreserves ==
    ASSUME IInv, FromTheStart
    PROVE  IInv'
  <1> USE DEF FromTheStart, readerVars, pixelVars
  <1>1. ReaderTypes'
    BY DEF IInv, TypeOK, ReaderTypes
  <1>2. DecoderTypes'
    BY DEF IInv, TypeOK, DecoderTypes, ParsedHdu
  <1>3. CallDiscipline'
    BY DEF IInv, TypeOK, CallDiscipline
  <1>4. HeaderIsCurrents'
    BY DEF IInv, HeaderIsCurrents, Cards
  <1> QED
    BY <1>1, <1>2, <1>3, <1>4, StillPreserves

\* What an error of the walk does to the reader.
LEMMA WalkFailure ==
    ASSUME IInv, NEW res, WalkFails(res), pc \in {"next_image", "walk", "read_next_hdu"},
           UNCHANGED header
    PROVE  ReaderTypes' /\ CallDiscipline' /\ position' = "Done" /\ broken' = TRUE
  <1> USE DEF WalkFails, NextImageReturns, Returns
  <1>1. ReaderTypes'
    BY DEF IInv, TypeOK, ReaderTypes
  <1>2. CallDiscipline'
    BY DEF IInv, TypeOK, CallDiscipline
  <1> QED
    BY <1>1, <1>2

\* An advance from an image (Decoder::next_image, consume_current).
LEMMA FromAnImagePreserves ==
    ASSUME IInv, FromAnImage
    PROVE  IInv'
  <1> USE DEF FromAnImage, readerVars
  <1>1. PICK o \in ConsumeCurrent :
           /\ Moves(o)
           /\ IF o.res # "ok" THEN WalkFails(o.res) /\ UNCHANGED pixels
              ELSE /\ pc' = "read_next_hdu" /\ pixels' = None
                   /\ UNCHANGED <<readerVars, cursor, ret, stream, position, broken>>
    OBVIOUS
  <1>2. Fair(o)
    BY ConsumeCurrentFair DEF IInv
  <1>3. HeaderIsCurrents'
    BY DEF IInv, HeaderIsCurrents, Cards
  <1>4. CASE o.res # "ok"
    <2>1. ReaderTypes' /\ CallDiscipline' /\ position' = "Done" /\ broken' = TRUE
      BY <1>1, <1>4, WalkFailure
    <2>2. DecoderTypes'
      BY <1>1, <1>4, <2>1 DEF IInv, TypeOK, DecoderTypes, ParsedHdu
    <2> QED
      BY <1>1, <1>2, <1>3, <2>1, <2>2, MovePreserves
  <1>5. CASE o.res = "ok"
    <2>1. ReaderTypes'
      BY <1>1, <1>5 DEF IInv, TypeOK, ReaderTypes
    <2>2. DecoderTypes'
      BY <1>1, <1>5 DEF IInv, TypeOK, DecoderTypes, ParsedHdu, Option
    <2>3. CallDiscipline'
      BY <1>1, <1>5 DEF IInv, TypeOK, CallDiscipline
    <2> QED
      BY <1>1, <1>2, <1>3, <2>1, <2>2, <2>3, MovePreserves
  <1> QED
    BY <1>4, <1>5

\* The next HDU parsed, or not (read_next_hdu).
LEMMA ReadNextHduPreserves ==
    ASSUME IInv, ReadNextHdu
    PROVE  IInv'
  <1> DEFINE found == CHOOSE i \in DOMAIN file.hdus : file.hdus[i].at = pos
  <1> USE DEF ReadNextHdu, readerVars, pixelVars
  <1>1. PICK o \in NextHdu :
           /\ Moves(o)
           /\ IF o.res \in {"ok", "end"}
              THEN /\ pending' = IF o.res = "end" THEN None
                                 ELSE [hdu |-> found, data_start |-> o.pos]
                   /\ pc' = "walk"
                   /\ UNCHANGED <<readerVars, cursor, ret, stream, position, broken>>
              ELSE WalkFails(o.res) /\ UNCHANGED pending
    OBVIOUS
  <1>2. /\ Fair(o)
        /\ o.res = "ok" => \E i \in DOMAIN file.hdus : file.hdus[i].at = pos
    BY NextHduFair DEF IInv
  <1>3. HeaderIsCurrents'
    BY DEF IInv, HeaderIsCurrents, Cards
  <1>4. CASE o.res \notin {"ok", "end"}
    <2>1. ReaderTypes' /\ CallDiscipline' /\ position' = "Done" /\ broken' = TRUE
      BY <1>1, <1>4, WalkFailure
    <2>2. DecoderTypes'
      BY <1>1, <1>4, <2>1 DEF IInv, TypeOK, DecoderTypes, ParsedHdu
    <2> QED
      BY <1>1, <1>2, <1>3, <2>1, <2>2, MovePreserves
  <1>5. CASE o.res \in {"ok", "end"}
    <2>1. ReaderTypes'
      BY <1>1, <1>5 DEF IInv, TypeOK, ReaderTypes
    <2>2. pending' \in Option(ParsedHdu)
      <3>1. CASE o.res = "end"
        BY <1>1, <3>1 DEF Option
      <3>2. CASE o.res = "ok"
        <4>1. found \in DOMAIN file.hdus /\ o.pos \in Nat
          BY <1>2, <3>2 DEF Fair
        <4>2. pending' = [hdu |-> found, data_start |-> o.pos]
          BY <1>1, <3>2
        <4> QED
          BY <4>1, <4>2 DEF ParsedHdu, Option
      <3> QED
        BY <1>5, <3>1, <3>2
    <2>3. DecoderTypes'
      BY <1>1, <1>5, <2>2 DEF IInv, TypeOK, DecoderTypes, ParsedHdu
    <2>4. CallDiscipline'
      BY <1>1, <1>5 DEF IInv, TypeOK, CallDiscipline
    <2> QED
      BY <1>1, <1>2, <1>3, <2>1, <2>3, <2>4, MovePreserves
  <1> QED
    BY <1>4, <1>5

\* No HDU is left (Decoder::next_image).
LEMMA EndOfSourcePreserves ==
    ASSUME IInv, EndOfSource
    PROVE  IInv'
  <1> USE DEF EndOfSource, NextImageReturns, Returns, pixelVars
  <1>1. ReaderTypes'
    BY DEF IInv, TypeOK, ReaderTypes
  <1>2. DecoderTypes'
    BY DEF IInv, TypeOK, DecoderTypes, ParsedHdu
  <1>3. CallDiscipline'
    BY DEF IInv, TypeOK, CallDiscipline
  <1>4. HeaderIsCurrents'
    BY DEF IInv, HeaderIsCurrents
  <1> QED
    BY <1>1, <1>2, <1>3, <1>4, StillPreserves

\* The walk sits on an image and builds its header (Decoder::next_image).
LEMMA SitOnImagePreserves ==
    ASSUME IInv, SitOnImage
    PROVE  IInv'
  <1> USE DEF SitOnImage, NextImageReturns, Returns
  <1>1. ReaderTypes'
    BY DEF IInv, TypeOK, ReaderTypes
  <1>2. DecoderTypes'
    BY DEF IInv, TypeOK, DecoderTypes, ParsedHdu, Option
  <1>3. CallDiscipline'
    BY DEF IInv, TypeOK, CallDiscipline
  <1>4. HeaderIsCurrents'
    BY DEF IInv, HeaderIsCurrents, Cards
  <1> QED
    BY <1>1, <1>2, <1>3, <1>4, StillPreserves

\* The walk steps over a position that is no image (Decoder::next_image).
LEMMA StepOverPreserves ==
    ASSUME IInv, StepOver
    PROVE  IInv'
  <1> USE DEF StepOver, readerVars, pixelVars
  <1>1. PICK o \in IF traversed + 1 > Limits.hdus_per_advance
                   THEN {Outcome("LimitExceeded", pos)} ELSE SkipDataUnit :
           /\ Moves(o)
           /\ IF o.res # "ok" THEN WalkFails(o.res)
              ELSE /\ pc' = "read_next_hdu"
                   /\ UNCHANGED <<readerVars, cursor, ret, stream, position, broken>>
    OBVIOUS
  <1>2. Fair(o)
    <2>1. CASE o \in SkipDataUnit
      BY <2>1, SkipDataUnitFair DEF IInv
    <2>2. CASE o = Outcome("LimitExceeded", pos)
      BY <2>2 DEF IInv, TypeOK, Fair, Outcome
    <2> QED
      BY <1>1, <2>1, <2>2
  <1>3. HeaderIsCurrents'
    BY DEF IInv, HeaderIsCurrents, Cards
  <1>4. CASE o.res # "ok"
    <2>1. ReaderTypes' /\ CallDiscipline' /\ position' = "Done" /\ broken' = TRUE
      BY <1>1, <1>4, WalkFailure
    <2>2. DecoderTypes'
      BY <1>1, <1>4, <2>1 DEF IInv, TypeOK, DecoderTypes, ParsedHdu, Option
    <2> QED
      BY <1>1, <1>2, <1>3, <2>1, <2>2, MovePreserves
  <1>5. CASE o.res = "ok"
    <2>1. ReaderTypes'
      BY <1>1, <1>5 DEF IInv, TypeOK, ReaderTypes
    <2>2. DecoderTypes'
      BY <1>1, <1>5 DEF IInv, TypeOK, DecoderTypes, ParsedHdu, Option
    <2>3. CallDiscipline'
      BY <1>1, <1>5 DEF IInv, TypeOK, CallDiscipline
    <2> QED
      BY <1>1, <1>2, <1>3, <2>1, <2>2, <2>3, MovePreserves
  <1> QED
    BY <1>4, <1>5

\* What a failed decode does to the reader.
LEMMA ChunkFailure ==
    ASSUME IInv, NEW res, ChunkFails(res), UNCHANGED header
    PROVE  ReaderTypes' /\ CallDiscipline'
  <1> USE DEF ChunkFails, Returns
  <1>1. ReaderTypes'
    BY DEF IInv, TypeOK, ReaderTypes
  <1>2. CallDiscipline'
    BY DEF IInv, TypeOK, CallDiscipline
  <1> QED
    BY <1>1, <1>2

\* A decode has begun over an HDU the walk parsed, with a geometry of no empty axis.
LEMMA Decoding ==
    ASSUME IInv, pixels_started \/ pc = "begin_pixels"
    PROVE  /\ current \in ParsedHdu
           /\ header.geometry \in Option(Geometry) /\ header.bytes \in Option(1 .. 8)
           /\ header.geometry # None =>
                 /\ header.geometry.width \in 1 .. MaxAxis
                 /\ header.geometry.height \in 1 .. MaxAxis
                 /\ header.geometry.channels \in 1 .. MaxAxis
  <1>1. /\ current # None /\ header.decline = None
        /\ header = BuildHeader(Cards(current), file.hdus[1].cards)
    BY DEF IInv, CallDiscipline, HeaderIsCurrents
  <1>2. current \in ParsedHdu
    BY <1>1 DEF IInv, TypeOK, Option
  <1>3. header.geometry \in Option(Geometry) /\ header.bytes \in Option(1 .. 8)
    BY <1>1, GeometryType, SampleBytesType DEF BuildHeader
  <1> QED
    BY <1>1, <1>2, <1>3, DecodableAxes

\* A decode begins (begin_pixels).
LEMMA BeginPixelsPreserves ==
    ASSUME IInv, BeginPixels
    PROVE  IInv'
  <1> DEFINE opened == [data_start |-> current.data_start, row_bytes |-> RowBytes,
                        selected |-> selected_channel, next_file_row |-> 0]
  <1> USE DEF BeginPixels, BeginPixelsReturns, Returns, walkVars
  <1>1. PICK o \in IF BeginRefusal = "ok" THEN SeekTo(current.data_start)
                   ELSE {Outcome(BeginRefusal, pos)} :
           /\ Moves(o)
           /\ pixels' = IF o.res # "ok" THEN pixels ELSE opened
           /\ BeginPixelsReturns(o.res)
    OBVIOUS
  <1>2. current.data_start \in Nat
    BY Decoding DEF ParsedHdu
  <1>3. Fair(o)
    <2>1. CASE BeginRefusal = "ok"
      BY <1>1, <1>2, <2>1, SourceTypes, SeekToFair DEF IInv
    <2>2. CASE BeginRefusal # "ok"
      BY <1>1, <2>2 DEF IInv, TypeOK, Fair, Outcome, BeginRefusal
    <2> QED
      BY <2>1, <2>2
  <1>4. HeaderIsCurrents'
    BY DEF IInv, HeaderIsCurrents, Cards
  <1>5. CASE o.res # "ok"
    <2>1. ReaderTypes' /\ CallDiscipline'
      BY <1>1, <1>5, ChunkFailure
    <2>2. DecoderTypes'
      BY <1>1, <1>5 DEF IInv, TypeOK, DecoderTypes, ParsedHdu
    <2> QED
      BY <1>1, <1>3, <1>4, <2>1, <2>2, MovePreserves
  <1>6. CASE o.res = "ok"
    <2>1. header.geometry # None /\ header.bytes # None
      BY <1>1, <1>6 DEF BeginRefusal, Outcome
    <2>2. RowBytes \in Nat
      BY <2>1, Decoding DEF RowBytes, Option
    <2>3. selected_channel \in Option(Nat)
      BY DEF IInv, TypeOK, Option
    <2>4. ReaderTypes'
      BY <1>1, <1>6 DEF IInv, TypeOK, ReaderTypes
    <2>5. DecoderTypes'
      BY <1>1, <1>2, <1>6, <2>2, <2>3 DEF IInv, TypeOK, DecoderTypes, ParsedHdu, Option, PixelState
    <2>6. CallDiscipline'
      BY <1>1, <1>6, <2>1 DEF IInv, TypeOK, CallDiscipline
    <2> QED
      BY <1>1, <1>3, <1>4, <2>4, <2>5, <2>6, MovePreserves
  <1> QED
    BY <1>5, <1>6

\* A row delivered is a chunk.
LEMMA ChunkType ==
    ASSUME IInv, pixels_started, pixels # None, NEW to \in Nat
    PROVE  ChunkOf(to) \in Chunk
  <1>1. /\ header.geometry.height \in Nat \ {0} /\ header.geometry.width \in Nat
    BY Decoding DEF IInv, CallDiscipline
  <1>2. pixels \in PixelState
    BY DEF IInv, TypeOK, Option
  <1>3. pixels.next_file_row * header.geometry.width \in Nat /\ to - pixels.row_bytes \in Int
    BY <1>1, <1>2 DEF PixelState
  <1>4. CASE pixels.selected = None
    <2>1. FileRow \div header.geometry.height \in Nat
      BY <1>1, <1>2, <1>4 DEF FileRow, PixelState
    <2> QED
      BY <1>3, <1>4, <2>1 DEF ChunkOf, Chunk
  <1>5. CASE pixels.selected # None
    BY <1>2, <1>3, <1>5 DEF ChunkOf, Chunk, PixelState, Option
  <1> QED
    BY <1>4, <1>5

\* A row is delivered (Decoder::next_chunk).
LEMMA DeliverRowPreserves ==
    ASSUME IInv, DeliverRow
    PROVE  IInv'
  <1> USE DEF DeliverRow, ChunkReturns, Returns, walkVars
  <1>1. PICK o \in ReadRow :
           /\ Moves(o)
           /\ IF o.res # "ok" THEN ChunkFails(o.res) /\ UNCHANGED pixels
              ELSE /\ ChunkReturns(ChunkOf(o.pos))
                   /\ pixels' = [pixels EXCEPT !.next_file_row = @ + 1]
    OBVIOUS
  <1>2. Fair(o)
    BY ReadRowFair DEF IInv
  <1>3. HeaderIsCurrents'
    BY DEF IInv, HeaderIsCurrents, Cards
  <1>4. CASE o.res # "ok"
    <2>1. ReaderTypes' /\ CallDiscipline'
      BY <1>1, <1>4, ChunkFailure
    <2>2. DecoderTypes'
      BY <1>1, <1>4 DEF IInv, TypeOK, DecoderTypes, ParsedHdu
    <2> QED
      BY <1>1, <1>2, <1>3, <2>1, <2>2, MovePreserves
  <1>5. CASE o.res = "ok"
    <2>1. ChunkOf(o.pos) \in Chunk
      BY <1>2, ChunkType DEF IInv, CallDiscipline, Fair
    <2>2. stream' \in Seq(Chunk)
      BY <1>1, <1>5, <2>1 DEF IInv, TypeOK
    <2>3. ReaderTypes'
      BY <1>1, <1>5, <2>2 DEF IInv, TypeOK, ReaderTypes, readerVars
    <2>4. pixels' \in PixelState
      <3>1. pixels \in PixelState
        BY DEF IInv, TypeOK, Option
      <3> QED
        BY <1>1, <1>5, <3>1 DEF PixelState
    <2>5. DecoderTypes'
      BY <1>1, <1>5, <2>4 DEF IInv, TypeOK, DecoderTypes, ParsedHdu, Option
    <2>6. CallDiscipline'
      BY <1>1, <1>5 DEF IInv, TypeOK, CallDiscipline, readerVars
    <2> QED
      BY <1>1, <1>2, <1>3, <2>3, <2>5, <2>6, MovePreserves
  <1> QED
    BY <1>4, <1>5

\* The image is delivered (Decoder::next_chunk).
LEMMA FinishImagePreserves ==
    ASSUME IInv, FinishImage
    PROVE  IInv'
  <1> USE DEF FinishImage, ImageEnds, Returns, readerVars, walkVars
  <1>1. ReaderTypes'
    BY DEF IInv, TypeOK, ReaderTypes
  <1>2. DecoderTypes'
    BY DEF IInv, TypeOK, DecoderTypes, ParsedHdu
  <1>3. CallDiscipline'
    BY DEF IInv, TypeOK, CallDiscipline
  <1>4. HeaderIsCurrents'
    BY DEF IInv, HeaderIsCurrents, Cards
  <1> QED
    BY <1>1, <1>2, <1>3, <1>4, StillPreserves

-----------------------------------------------------------------------------
(* The theorems.                                                           *)

\* A reader just built satisfies IInv (Reader::build).
LEMMA InitIInv == Init => IInv
  <1> SUFFICES ASSUME Init PROVE IInv
    OBVIOUS
  <1> USE DEF Init
  <1>1. file \in Files /\ 1 \in DOMAIN file.hdus /\ pos \in Nat
    <2>1. /\ file \in Files /\ 1 \in DOMAIN file.hdus
          /\ file.hdus[1].at \in Nat /\ file.hdus[1].blocks \in Nat
      BY FilesAssumption
    <2> QED
      BY <2>1, BlockAssumption DEF DataAt
  <1>2. TypeOK
    <2>1. pending \in Option(ParsedHdu)
      BY <1>1 DEF ParsedHdu, Option
    <2>2. /\ selected_channel \in Option(0 .. MaxChannel) /\ current \in Option(ParsedHdu)
          /\ pixels \in Option(PixelState)
      BY DEF Option
    <2>3. faults \in 0 .. MaxFaults /\ stream \in Seq(Chunk)
      BY EmptyStream, MaxFaultsAssumption
    <2> QED
      BY <1>1, <2>1, <2>2, <2>3 DEF TypeOK
  <1>3. CallDiscipline
    BY DEF CallDiscipline
  <1>4. HeaderIsCurrents
    BY DEF HeaderIsCurrents
  <1> QED
    BY <1>2, <1>3, <1>4 DEF IInv

\* No step of the decoder breaks IInv.
LEMMA DecoderStepPreserves ==
    ASSUME IInv, DecoderStep
    PROVE  IInv'
  BY AbandonPreserves, AfterTheEndPreserves, FromTheStartPreserves, FromAnImagePreserves,
     ReadNextHduPreserves, EndOfSourcePreserves, SitOnImagePreserves, StepOverPreserves,
     BeginPixelsPreserves, DeliverRowPreserves, FinishImagePreserves DEF DecoderStep

\* Nor does a call, so IInv is inductive.
LEMMA NextPreserves == IInv /\ [Next]_vars => IInv'
  <1> SUFFICES ASSUME IInv, [Next]_vars PROVE IInv'
    OBVIOUS
  <1>1. CASE Calls(NextImage)
    BY <1>1, NextImagePreserves
  <1>2. CASE \E valid \in BOOLEAN : Calls(SetBounds(valid))
    BY <1>2, SetBoundsPreserves
  <1>3. CASE \E k \in 0 .. MaxChannel : Calls(SelectChannel(k))
    BY <1>3, SelectChannelPreserves
  <1>4. CASE Calls(Chunks)
    BY <1>4, ChunksPreserves
  <1>5. CASE Calls(DropChunks)
    BY <1>5, DropChunksPreserves
  <1>6. CASE Calls(NextChunk)
    BY <1>6, NextChunkPreserves
  <1>7. CASE Calls(ForEachChunk)
    BY <1>7, ForEachChunkPreserves
  <1>8. CASE \E len \in Destinations, variant \in BOOLEAN : Calls(ReadSamples(len, variant))
    <2>1. PICK len \in Destinations, variant \in BOOLEAN :
             Calls(Decodes("samples", SamplesRefusal(len, variant)))
      BY <1>8 DEF ReadSamples, Calls
    <2>2. SamplesRefusal(len, variant) = "ok" => PixelRefusal = "ok"
      BY DEF SamplesRefusal
    <2> QED
      BY <2>1, <2>2, DecodesPreserves
  <1>9. CASE \E len \in Destinations : Calls(ReadImage(len))
    <2>1. PICK len \in Destinations : Calls(Decodes("image", ImageRefusal(len)))
      BY <1>9 DEF ReadImage, Calls
    <2>2. ImageRefusal(len) = "ok" => PixelRefusal = "ok"
      BY DEF ImageRefusal
    <2> QED
      BY <2>1, <2>2, DecodesPreserves
  <1>10. CASE DecoderStep
    BY <1>10, DecoderStepPreserves
  <1>11. CASE UNCHANGED vars
    <2>1. UNCHANGED <<sourceVars, header, decoderVars>> /\ UNCHANGED <<readerVars, callVars>>
      BY <1>11 DEF vars
    <2>2. ReaderTypes'
      BY <2>1 DEF IInv, TypeOK, ReaderTypes, readerVars, callVars
    <2>3. CallDiscipline'
      BY <2>1 DEF IInv, CallDiscipline, readerVars, callVars
    <2> QED
      BY <2>1, <2>2, <2>3, CallPreserves
  <1> QED
    BY <1>1, <1>2, <1>3, <1>4, <1>5, <1>6, <1>7, <1>8, <1>9, <1>10, <1>11 DEF Next

\* IInv holds throughout a session: what the theorems below take their part of.
THEOREM Invariance == Spec => []IInv
  BY InitIInv, NextPreserves, PTL DEF Spec

\* Every variable keeps its type, whatever the caller, the file and the source do.
THEOREM TypeCorrectness == Spec => []TypeOK
  BY Invariance, PTL DEF IInv

\* Every point of a call finds what it relies on (next_image, advance_chunk_inner).
THEOREM CallsAreDisciplined == Spec => []CallDiscipline
  BY Invariance, PTL DEF IInv

\* The header a caller is shown is that of the image pixels are read from (next_image).
THEOREM HeaderNeverMisleads == Spec => []HeaderIsCurrents
  BY Invariance, PTL DEF IInv

\* No chunk follows an error until a fresh cursor or the next image (advance_chunk): the only
\* step that adds to a stream runs inside a decode, which no failed decode can reach.
THEOREM FailedStaysFailed == Spec => PoisonHolds
  <1>1. ASSUME IInv, [Next]_vars, pixels_failed, stream' # stream
        PROVE  stream' = <<>>
    <2> USE <1>1 DEF IInv, CallDiscipline, Calls, Returns, Answers, readerVars, callVars
    <2>1. CASE DecoderStep
      <3>1. CASE Abandon
        BY <3>1 DEF Abandon, AbandonReturns, ResetForNextImage
      <3>2. CASE BeginPixels \/ DeliverRow \/ FinishImage
        BY <3>2 DEF BeginPixels, DeliverRow, FinishImage
      <3>3. CASE AfterTheEnd \/ FromTheStart \/ EndOfSource \/ SitOnImage
        BY <3>3 DEF AfterTheEnd, FromTheStart, EndOfSource, SitOnImage, NextImageReturns
      <3>4. CASE FromAnImage \/ ReadNextHdu \/ StepOver
        BY <3>4 DEF FromAnImage, ReadNextHdu, StepOver
      <3> QED
        BY <2>1, <3>1, <3>2, <3>3, <3>4 DEF DecoderStep
    <2>2. CASE Calls(NextImage)
      BY <2>2 DEF NextImage, ResetForNextImage
    <2>3. CASE Calls(Chunks) \/ Calls(DropChunks) \/ Calls(ForEachChunk)
      BY <2>3 DEF Chunks, DropChunks, ForEachChunk, Opens
    <2>4. CASE Calls(NextChunk)
      BY <2>4 DEF NextChunk, ChunkFails
    <2>5. ASSUME NEW valid, NEW k, Calls(SetBounds(valid)) \/ Calls(SelectChannel(k))
          PROVE  FALSE
      BY <2>5 DEF SetBounds, SelectChannel
    <2>6. ASSUME NEW driver, NEW refusal, Calls(Decodes(driver, refusal))
          PROVE  stream' = <<>>
      BY <2>6 DEF Decodes, Opens
    <2>7. ~UNCHANGED vars
      BY DEF vars
    <2> QED
      BY <2>1, <2>2, <2>3, <2>4, <2>5, <2>6, <2>7 DEF Next, ReadSamples, ReadImage
  <1> QED
    BY <1>1, Invariance, PTL DEF PoisonHolds, Spec

\* A range and a channel are fixed once pixels are being read, and never outlive their image
\* (set_bounds, select_channel, next_image).
THEOREM ConfigurationKeepsToItsImage == Spec => ConfigurationScoped
  <1> DEFINE Fixed == phase = "pixel" /\ phase' = "pixel" =>
                         UNCHANGED <<bounds_override, selected_channel>>
             Fresh == current' # current => bounds_override' = FALSE /\ selected_channel' = None
  <1>1. ASSUME IInv, [Next]_vars
        PROVE  Fixed /\ Fresh
    <2> USE <1>1 DEF IInv, TypeOK, CallDiscipline, Calls, Returns, Answers, readerVars, callVars,
                    decoderVars, walkVars
    <2>1. CASE DecoderStep
      <3>1. CASE Abandon
        BY <3>1 DEF Abandon, AbandonReturns, ResetForNextImage
      <3>2. CASE BeginPixels \/ DeliverRow \/ FinishImage
        BY <3>2 DEF BeginPixels, DeliverRow, FinishImage, BeginPixelsReturns, ChunkReturns,
                    ChunkFails, ImageEnds
      <3>3. CASE AfterTheEnd \/ FromTheStart \/ EndOfSource \/ SitOnImage
        BY <3>3 DEF AfterTheEnd, FromTheStart, EndOfSource, SitOnImage, NextImageReturns
      <3>4. CASE FromAnImage \/ ReadNextHdu \/ StepOver
        BY <3>4 DEF FromAnImage, ReadNextHdu, StepOver
      <3> QED
        BY <2>1, <3>1, <3>2, <3>3, <3>4 DEF DecoderStep
    <2>2. CASE Calls(NextImage)
      BY <2>2 DEF NextImage, ResetForNextImage
    <2>3. CASE Calls(Chunks) \/ Calls(DropChunks) \/ Calls(ForEachChunk)
      BY <2>3 DEF Chunks, DropChunks, ForEachChunk, Opens
    <2>4. CASE Calls(NextChunk)
      BY <2>4 DEF NextChunk, ChunkFails
    <2>5. ASSUME NEW valid, NEW k, Calls(SetBounds(valid)) \/ Calls(SelectChannel(k))
          PROVE  Fixed /\ Fresh
      BY <2>5 DEF SetBounds, SelectChannel
    <2>6. ASSUME NEW driver, NEW refusal, Calls(Decodes(driver, refusal))
          PROVE  Fixed /\ Fresh
      BY <2>6 DEF Decodes, Opens
    <2>7. CASE UNCHANGED vars
      BY <2>7 DEF vars
    <2> QED
      BY <2>1, <2>2, <2>3, <2>4, <2>5, <2>6, <2>7 DEF Next, ReadSamples, ReadImage
  <1> QED
    BY <1>1, Invariance, PTL DEF ConfigurationScoped, Spec

-----------------------------------------------------------------------------
(* The rows a session delivers.                                            *)
(*                                                                         *)
(* A decode keeps the same position three times: as the rows counted, as   *)
(* the cursor of the source and as what the caller was given.  SInv says   *)
(* they agree: the plan of the decode (PixelState) is the current image's, *)
(* its row counter is the length of the stream, and the stream is that     *)
(* many chunks of the image.  Where the rows start is known because every  *)
(* HDU held was parsed where the file has it.                              *)

\* The HDUs held were parsed where the file has them.
Located == \A hdu \in {pending, current} : hdu # None => hdu.data_start = DataAt(hdu.hdu)

\* The plan of a decode under way is the current image's, and counts what was delivered.
Planned ==
    /\ stream # <<>> => pixels_started
    /\ pc = "begin_pixels" => ~pixels_started
    /\ pixels_started =>
          /\ phase = "pixel"
          /\ pixels = [data_start |-> current.data_start, row_bytes |-> RowBytes,
                       selected |-> selected_channel, next_file_row |-> Len(stream)]

\* What was delivered is that many chunks of the image, each within the source.
Delivered ==
    pixels_started =>
        /\ Len(stream) <= Len(ChunksOf(current.hdu, selected_channel))
        /\ \A n \in DOMAIN stream : /\ stream[n] = ChunksOf(current.hdu, selected_channel)[n]
                                    /\ stream[n].from + RowBytes <= length

\* A decode that said it ended is one that delivered every chunk.
Ended ==
    pc = "idle" /\ ret.res = "end" =>
        pixels_started /\ Len(stream) = Len(ChunksOf(current.hdu, selected_channel))

SInv == IInv /\ Located /\ Planned /\ Delivered /\ Ended
-----------------------------------------------------------------------------
(* Where a read leaves the cursor.                                         *)

\* A read that succeeds consumed its bytes, all of which the source holds (read_exact).
LEMMA ReadExactLands ==
    ASSUME NEW at, NEW n, NEW o \in ReadExact(at, n), o.res = "ok"
    PROVE  o.pos = at + n /\ at + n <= length
  BY DEF ReadExact, IoWhileReading, Outcome

\* A move to an offset that succeeds ends there (seek_to).
LEMMA SeekToLands ==
    ASSUME SourceOK, NEW target \in Nat, NEW o \in SeekTo(target), o.res = "ok"
    PROVE  o.pos = target
  <1>1. CASE seekable
    BY <1>1 DEF SeekTo, SeekAbsolute, Outcome
  <1>2. CASE ~seekable
    <2>1. ~(target < pos) /\ o \in SkipByReading(target - pos)
      BY <1>2 DEF SeekTo, Outcome
    <2>2. CASE o \in ReadExact(pos, target - pos)
      BY <2>2, ReadExactLands DEF SourceOK
    <2>3. CASE o \notin ReadExact(pos, target - pos)
      BY <2>1, <2>3 DEF SkipByReading, Outcome, SourceOK
    <2> QED
      BY <2>2, <2>3
  <1> QED
    BY <1>1, <1>2

\* A row that was read came from its offset in the unit, within the source (next_chunk).
LEMMA ReadRowLands ==
    ASSUME TypeOK, pixels # None, FileRow \in Nat, NEW o \in ReadRow, o.res = "ok"
    PROVE  /\ o.pos = pixels.data_start + pixels.row_bytes * FileRow + pixels.row_bytes
           /\ o.pos <= length
  <1>1. SourceOK
    BY SourceTypes
  <1>2. pixels.row_bytes \in Nat /\ pixels.data_start \in Nat
    BY DEF TypeOK, Option, PixelState
  <1>3. RowOffset # None
    BY DEF ReadRow, Outcome
  <1>4. RowOffset \in Nat /\ RowOffset = pixels.data_start + pixels.row_bytes * FileRow
    <2>1. CheckedMul(pixels.row_bytes, FileRow) # None
      BY <1>3 DEF RowOffset, CheckedAdd
    <2>2. CheckedMul(pixels.row_bytes, FileRow) = pixels.row_bytes * FileRow
      BY <2>1 DEF CheckedMul, Fit
    <2>3. RowOffset = pixels.data_start + CheckedMul(pixels.row_bytes, FileRow)
      BY <1>3 DEF RowOffset, CheckedAdd, Fit
    <2>4. RowOffset \in U
      BY <1>3 DEF RowOffset, CheckedAdd, Fit
    <2> QED
      BY <2>2, <2>3, <2>4, MaxUAssumption DEF U
  <1>5. PICK s \in SeekTo(RowOffset) :
           o \in IF s.res = "ok" THEN ReadExact(s.pos, pixels.row_bytes) ELSE {s}
    BY <1>3 DEF ReadRow
  <1>6. s.res = "ok" /\ o \in ReadExact(s.pos, pixels.row_bytes)
    BY <1>5
  <1>7. s.pos = RowOffset
    BY <1>1, <1>4, <1>5, <1>6, SeekToLands
  <1> QED
    BY <1>4, <1>6, <1>7, ReadExactLands

\* The HDU found at the cursor has its data where the cursor then stands (read_next_hdu).
LEMMA NextHduLands ==
    ASSUME TypeOK, NEW o \in NextHdu, o.res = "ok"
    PROVE  o.pos = DataAt(CHOOSE i \in DOMAIN file.hdus : file.hdus[i].at = pos)
  <1>1. SourceOK
    BY SourceTypes
  <1>2. pos < length
    BY <1>1 DEF NextHdu, IoWhileReading, Outcome, SourceOK
  <1>3. {i \in DOMAIN file.hdus : file.hdus[i].at = pos} # {}
    BY <1>1, <1>2 DEF NextHdu, NoHeaderRegion, IoWhileReading, Outcome, SourceOK
  <1>4. PICK i \in DOMAIN file.hdus : file.hdus[i].at = pos /\ o \in HeaderRegion(i)
    BY <1>1, <1>2, <1>3 DEF NextHdu, SourceOK
  <1>5. i = CHOOSE j \in DOMAIN file.hdus : file.hdus[j].at = pos
    BY <1>4, FilesAssumption DEF TypeOK
  <1> DEFINE n == BLOCK * Least(file.hdus[i].blocks, HeaderCap)
  <1>6. PICK r \in ReadExact(pos, n) :
           o = IF r.res # "ok" THEN r
               ELSE IF file.hdus[i].blocks > HeaderCap THEN Outcome("LimitExceeded", r.pos)
               ELSE Outcome(file.hdus[i].defect, r.pos)
    BY <1>4 DEF HeaderRegion
  <1>7. r.res = "ok" /\ ~(file.hdus[i].blocks > HeaderCap) /\ o.pos = r.pos
    BY <1>6 DEF Outcome
  <1>8. r.pos = pos + n
    BY <1>6, <1>7, ReadExactLands
  <1>9. n = BLOCK * file.hdus[i].blocks
    <2>1. file.hdus[i].blocks \in Nat /\ HeaderCap \in Nat
      BY FilesAssumption, HeaderCapType DEF TypeOK
    <2> QED
      BY <1>7, <2>1 DEF Least
  <1> QED
    BY <1>4, <1>5, <1>7, <1>8, <1>9 DEF DataAt

-----------------------------------------------------------------------------
(* No answer of the decoder reads as the end of an image.                  *)

\* Skipping never answers "end" (Source::skip).
LEMMA SkipAnswers ==
    ASSUME NEW n, NEW o \in Skip(n)
    PROVE  o.res # "end"
  BY DEF Skip, SkipByReading, ReadExact, IoWhileReading, SeekAbsolute, Outcome

\* Nor does moving to an offset (Source::seek_to).
LEMMA SeekToAnswers ==
    ASSUME NEW target, NEW o \in SeekTo(target)
    PROVE  o.res # "end"
  BY DEF SeekTo, SkipByReading, ReadExact, IoWhileReading, SeekAbsolute, Outcome

\* Nor does consuming an image, or stepping over an HDU (consume_current, skip_data_unit).
LEMMA WalkAnswers ==
    ASSUME NEW o \in ConsumeCurrent \cup SkipDataUnit
    PROVE  o.res # "end"
  BY SkipAnswers DEF ConsumeCurrent, SkipDataUnit, Outcome

\* Nor does reading a row (next_chunk).
LEMMA ReadRowAnswers ==
    ASSUME NEW o \in ReadRow
    PROVE  o.res # "end"
  BY SeekToAnswers DEF ReadRow, ReadExact, IoWhileReading, Outcome

\* Nor do the checks a decode starts from (current_header_for_pixels, read_samples_into,
\* read_image_into, begin_pixels).
LEMMA RefusalAnswers ==
    ASSUME IInv
    PROVE  /\ PixelRefusal # "end" /\ BeginRefusal # "end"
           /\ \A len, variant : SamplesRefusal(len, variant) # "end"
           /\ \A len : ImageRefusal(len) # "end"
  <1>1. PixelRefusal # "end"
    BY HeaderDecline DEF PixelRefusal
  <1> QED
    BY <1>1 DEF BeginRefusal, SamplesRefusal, ImageRefusal, NormalizerRefusal
-----------------------------------------------------------------------------
(* The chunks of the image sat on.                                         *)

\* The row of the data unit that row r of the stream is, for selection s.
UnitRow(s, r) == IF s = None THEN r ELSE s * header.geometry.height + r

\* The rows a stream has, for selection s.
RowsIn(s) == header.geometry.height * (IF s = None THEN header.geometry.channels ELSE 1)

\* Dividing a row of the unit by the height gives the channel selected.
LEMMA ChannelOfRow ==
    ASSUME NEW s \in Nat, NEW h \in Nat, NEW r \in 0 .. h - 1
    PROVE  (s * h + r) \div h = s
  OBVIOUS

\* Told from the header in force, the chunks of the current image are its rows in order.
LEMMA ChunksOfCurrent ==
    ASSUME IInv, pixels_started
    PROVE  ChunksOf(current.hdu, selected_channel) =
              [n \in 1 .. RowsIn(selected_channel) |->
                  [channel |-> UnitRow(selected_channel, n - 1) \div header.geometry.height,
                   start   |-> (n - 1) * header.geometry.width,
                   from    |-> DataAt(current.hdu) + RowBytes * UnitRow(selected_channel, n - 1)]]
  <1>1. header = BuildHeader(file.hdus[current.hdu].cards, file.hdus[1].cards)
    BY DEF IInv, CallDiscipline, HeaderIsCurrents, Cards
  <1> QED
    BY <1>1 DEF ChunksOf, ChunksIn, UnitRow, RowBytes, RowsIn, DataAt
\* What the numbers of a decode under way are.
LEMMA DecodeTypes ==
    ASSUME IInv, pixels_started
    PROVE  /\ header.geometry.width \in Nat /\ header.geometry.channels \in Nat
           /\ header.geometry.height \in Nat \ {0}
           /\ RowBytes \in Nat /\ RowsIn(selected_channel) \in Nat
           /\ selected_channel \in Option(Nat) /\ Len(stream) \in Nat
           /\ current \in ParsedHdu
  <1>1. header.geometry # None /\ header.bytes # None
    BY DEF IInv, CallDiscipline
  <1>2. /\ header.geometry.width \in 1 .. MaxAxis /\ header.geometry.height \in 1 .. MaxAxis
        /\ header.geometry.channels \in 1 .. MaxAxis /\ header.bytes \in 1 .. 8
        /\ current \in ParsedHdu
    BY <1>1, Decoding DEF Option
  <1>3. selected_channel \in Option(Nat) /\ Len(stream) \in Nat
    BY DEF IInv, TypeOK, Option
  <1>4. RowBytes \in Nat /\ RowsIn(selected_channel) \in Nat
    BY <1>2 DEF RowBytes, RowsIn
  <1> QED
    BY <1>2, <1>3, <1>4

\* The chunk a row becomes is the next chunk of the image (next_chunk).
LEMMA NextChunkIsRight ==
    ASSUME SInv, pixels_started, pixels # None, pixels.next_file_row < RowsToDeliver,
           NEW o \in ReadRow, o.res = "ok"
    PROVE  /\ Len(stream) + 1 \in 1 .. RowsIn(selected_channel)
           /\ ChunkOf(o.pos) = ChunksOf(current.hdu, selected_channel)[Len(stream) + 1]
           /\ ChunkOf(o.pos).from + RowBytes <= length
  <1> DEFINE r == Len(stream)
             h == header.geometry.height
  <1>1. /\ header.geometry.width \in Nat /\ h \in Nat \ {0} /\ header.geometry.channels \in Nat
        /\ RowBytes \in Nat /\ RowsIn(selected_channel) \in Nat /\ r \in Nat
        /\ selected_channel \in Option(Nat) /\ current \in ParsedHdu
    BY DecodeTypes DEF SInv
  <1>2. pixels = [data_start |-> DataAt(current.hdu), row_bytes |-> RowBytes,
                  selected |-> selected_channel, next_file_row |-> r]
    <2>1. current # None
      BY DEF SInv, IInv, CallDiscipline, HeaderIsCurrents
    <2> QED
      BY <2>1 DEF SInv, Planned, Located
  <1>3. RowsToDeliver = RowsIn(selected_channel)
    BY <1>2 DEF RowsToDeliver, RowsIn
  <1>4. r + 1 \in 1 .. RowsIn(selected_channel)
    BY <1>1, <1>2, <1>3
  <1>5. FileRow = UnitRow(selected_channel, r)
    BY <1>2 DEF FileRow, UnitRow
  <1>6. FileRow \in Nat
    BY <1>1, <1>5 DEF UnitRow, Option
  <1>7. /\ o.pos = DataAt(current.hdu) + RowBytes * FileRow + RowBytes
        /\ o.pos <= length
    <2>1. TypeOK
      BY DEF SInv, IInv
    <2> QED
      BY <1>2, <1>6, <2>1, ReadRowLands
  <1>8. DataAt(current.hdu) \in Nat /\ RowBytes * FileRow \in Nat
    <2>1. current.hdu \in DOMAIN file.hdus /\ file \in Files
      BY <1>1 DEF ParsedHdu, SInv, IInv, TypeOK
    <2>2. file.hdus[current.hdu].at \in Nat /\ file.hdus[current.hdu].blocks \in Nat
      BY <2>1, FilesAssumption
    <2>3. DataAt(current.hdu) \in Nat
      BY <2>2, BlockAssumption DEF DataAt
    <2>4. \A m, n \in Nat : m * n \in Nat
      OBVIOUS
    <2> QED
      BY <1>1, <1>6, <2>3, <2>4
  <1>9. o.pos - RowBytes = DataAt(current.hdu) + RowBytes * FileRow /\ o.pos \in Nat
    BY <1>1, <1>7, <1>8
  <1>10. (IF selected_channel = None THEN FileRow \div h ELSE selected_channel)
            = UnitRow(selected_channel, r) \div h
    <2>1. CASE selected_channel = None
      BY <1>5, <2>1
    <2>2. CASE selected_channel # None
      <3>1. selected_channel \in Nat /\ r \in 0 .. h - 1
        BY <1>1, <1>4, <2>2 DEF RowsIn, Option
      <3>2. UnitRow(selected_channel, r) = selected_channel * h + r
        BY <2>2 DEF UnitRow
      <3>3. (selected_channel * h + r) \div h = selected_channel
        <4> HIDE DEF h, r
        <4> QED
          BY <1>1, <3>1, ChannelOfRow
      <3> QED
        BY <2>2, <3>2, <3>3
    <2> QED
      BY <2>1, <2>2
  <1>11. ChunkOf(o.pos) = [channel |-> UnitRow(selected_channel, r) \div h,
                           start   |-> r * header.geometry.width,
                           from    |-> DataAt(current.hdu) + RowBytes * FileRow]
    BY <1>2, <1>9, <1>10 DEF ChunkOf
  <1>12. ChunksOf(current.hdu, selected_channel)[r + 1]
            = [channel |-> UnitRow(selected_channel, (r + 1) - 1) \div h,
               start   |-> ((r + 1) - 1) * header.geometry.width,
               from    |-> DataAt(current.hdu) + RowBytes * UnitRow(selected_channel, (r + 1) - 1)]
    BY <1>4, ChunksOfCurrent DEF SInv
  <1>13. (r + 1) - 1 = r
    BY <1>1
  <1>14. ChunkOf(o.pos).from + RowBytes <= length
    BY <1>1, <1>7, <1>8, <1>11
  <1> QED
    BY <1>4, <1>5, <1>11, <1>12, <1>13, <1>14
-----------------------------------------------------------------------------
(* The calls.                                                              *)

\* What SInv asks beyond IInv.
Sound == Located /\ Planned /\ Delivered /\ Ended

\* The facts about what was delivered outlive a step that touches nothing they are about.
LEMMA Undisturbed ==
    ASSUME SInv,
           UNCHANGED <<stream, pixels_started, header, current, selected_channel, file, length>>
    PROVE  /\ Delivered'
           /\ ret' = ret /\ pc = "idle" => Ended'
  BY DEF SInv, Delivered, Ended, ChunksOf, RowBytes

\* A step that starts over has delivered nothing.
LEMMA StartsOver ==
    ASSUME ~pixels_started', stream' = <<>>
    PROVE  Planned' /\ Delivered'
  BY DEF Planned, Delivered

\* A call moves no HDU.
LEMMA CallLocated ==
    ASSUME SInv, UNCHANGED <<sourceVars, header, decoderVars>>
    PROVE  Located'
  BY DEF SInv, Located, DataAt, decoderVars

\* A call that only answers, or that leaves the image's delivery alone.
LEMMA QuietCall ==
    ASSUME SInv, UNCHANGED <<sourceVars, header, decoderVars>>,
           UNCHANGED <<stream, pixels_started, selected_channel, phase>>,
           pc' = "begin_pixels" => ~pixels_started
    PROVE  Planned' /\ Delivered'
  BY Undisturbed DEF SInv, Planned, RowBytes, decoderVars, sourceVars

\* next_image, as far as the decoder (next_image).
LEMMA NextImageSound ==
    ASSUME SInv, Calls(NextImage)
    PROVE  Sound'
  <1> USE DEF Calls, NextImage, ResetForNextImage
  <1>1. Planned' /\ Delivered'
    <2>1. CASE pixels_started
      BY <2>1, QuietCall DEF readerVars
    <2>2. CASE ~pixels_started
      BY <2>2, StartsOver
    <2> QED
      BY <2>1, <2>2
  <1>2. Ended'
    BY DEF Ended
  <1> QED
    BY <1>1, <1>2, CallLocated DEF Sound

\* A range or a channel set or refused (set_bounds, select_channel).
LEMMA ConfigurationSound ==
    ASSUME SInv, NEW valid, NEW k, Calls(SetBounds(valid)) \/ Calls(SelectChannel(k))
    PROVE  Sound'
  <1> USE DEF Calls, SetBounds, SelectChannel, Answers, Returns
  <1>1. Planned' /\ Delivered'
    <2>1. CASE selected_channel' = selected_channel
      BY <2>1, QuietCall DEF readerVars
    <2>2. CASE selected_channel' # selected_channel
      <3>1. phase # "pixel" /\ UNCHANGED <<stream, pixels_started>>
        BY <2>2 DEF readerVars
      <3>2. ~pixels_started /\ stream = <<>>
        BY <3>1 DEF SInv, Planned
      <3> QED
        BY <3>1, <3>2, StartsOver
    <2> QED
      BY <2>1, <2>2
  <1>2. Ended'
    BY DEF Ended
  <1> QED
    BY <1>1, <1>2, CallLocated DEF Sound

\* A cursor opened or dropped (chunks).
LEMMA CursorSound ==
    ASSUME SInv, Calls(Chunks) \/ Calls(DropChunks)
    PROVE  Sound'
  <1> USE DEF Calls, Chunks, DropChunks, Opens, Returns
  <1>1. CASE Calls(Chunks)
    BY <1>1, StartsOver, CallLocated DEF Sound, Ended
  <1>2. CASE Calls(DropChunks)
    BY <1>2, QuietCall, Undisturbed, CallLocated DEF Sound, readerVars, decoderVars, sourceVars
  <1> QED
    BY <1>1, <1>2

\* The next chunk asked for (advance_chunk_inner).
LEMMA NextChunkSound ==
    ASSUME SInv, Calls(NextChunk)
    PROVE  Sound'
  <1> USE DEF Calls, NextChunk, ChunkFails, Answers, Returns
  <1>1. Planned' /\ Delivered'
    BY QuietCall DEF readerVars
  <1>2. Ended'
    BY RefusalAnswers DEF SInv, Ended
  <1> QED
    BY <1>1, <1>2, CallLocated DEF Sound

\* A pushed decode begun or refused (for_each_chunk).
LEMMA ForEachChunkSound ==
    ASSUME SInv, Calls(ForEachChunk)
    PROVE  Sound'
  <1> USE DEF Calls, ForEachChunk, Opens, Returns
  <1>1. Planned' /\ Delivered'
    BY StartsOver
  <1>2. Ended'
    BY RefusalAnswers DEF SInv, Ended
  <1> QED
    BY <1>1, <1>2, CallLocated DEF Sound

\* A tier-2 decode begun or refused (read_samples_into, read_image_into).
LEMMA DecodesSound ==
    ASSUME SInv, NEW driver \in {"samples", "image"}, NEW refusal, refusal # "end",
           Calls(Decodes(driver, refusal))
    PROVE  Sound'
  <1> USE DEF Calls, Decodes, Opens, Answers, Returns
  <1>1. Planned' /\ Delivered'
    <2>1. CASE refusal = "ok"
      BY <2>1, StartsOver
    <2>2. CASE refusal # "ok"
      BY <2>2, QuietCall DEF readerVars
    <2> QED
      BY <2>1, <2>2
  <1>2. Ended'
    BY DEF Ended
  <1> QED
    BY <1>1, <1>2, CallLocated DEF Sound

-----------------------------------------------------------------------------
(* The steps of the decoder.                                               *)

\* A step of the walk, which runs with nothing delivered and nothing being read.
LEMMA WalkStep ==
    ASSUME SInv, pc \in {"next_image", "walk", "read_next_hdu"},
           UNCHANGED <<stream, pixels_started>>
    PROVE  Planned' /\ Delivered'
  <1>1. ~pixels_started /\ stream = <<>>
    BY DEF SInv, IInv, CallDiscipline
  <1> QED
    BY <1>1, StartsOver

\* The pixels under way given up (abandon).
LEMMA AbandonSound ==
    ASSUME SInv, Abandon
    PROVE  Sound'
  <1> USE DEF Abandon, AbandonReturns, ResetForNextImage, Answers, Returns
  <1>1. PICK o \in ConsumeCurrent :
           /\ Moves(o)
           /\ pixels' = IF o.res = "ok" THEN None ELSE pixels
           /\ AbandonReturns(o.res)
    OBVIOUS
  <1>2. Planned' /\ Delivered'
    <2>1. CASE o.res = "ok"
      BY <1>1, <2>1, StartsOver
    <2>2. CASE o.res # "ok"
      <3>1. Delivered'
        BY <1>1, <2>2, Undisturbed DEF readerVars, walkVars, Moves
      <3>2. Planned'
        BY <1>1, <2>2 DEF SInv, Planned, RowBytes, readerVars, walkVars
      <3> QED
        BY <3>1, <3>2
    <2> QED
      BY <2>1, <2>2
  <1>3. Ended'
    BY <1>1, WalkAnswers DEF Ended
  <1>4. Located'
    BY DEF SInv, Located, DataAt, walkVars
  <1> QED
    BY <1>2, <1>3, <1>4 DEF Sound

\* The walk's steps that read nothing (Decoder::next_image).
LEMMA StillWalkSound ==
    ASSUME SInv, AfterTheEnd \/ FromTheStart \/ EndOfSource \/ SitOnImage
    PROVE  Sound'
  <1> USE DEF AfterTheEnd, FromTheStart, EndOfSource, SitOnImage, NextImageReturns, Returns
  <1>1. Planned' /\ Delivered'
    BY WalkStep DEF readerVars
  <1>2. Ended'
    BY DEF Ended
  <1>3. Located'
    BY DEF SInv, Located, DataAt, walkVars
  <1> QED
    BY <1>1, <1>2, <1>3 DEF Sound

\* The walk's steps that move the cursor, but parse no HDU (consume_current, skip_data_unit).
LEMMA MovingWalkSound ==
    ASSUME SInv, FromAnImage \/ StepOver
    PROVE  Sound'
  <1> USE DEF FromAnImage, StepOver, WalkFails, NextImageReturns, Returns
  <1>1. Planned' /\ Delivered'
    BY WalkStep DEF readerVars
  <1>2. Ended'
    BY WalkAnswers DEF Ended, Outcome
  <1>3. Located'
    BY DEF SInv, Located, DataAt
  <1> QED
    BY <1>1, <1>2, <1>3 DEF Sound

\* The next HDU parsed, or not (read_next_hdu).
LEMMA ReadNextHduSound ==
    ASSUME SInv, ReadNextHdu
    PROVE  Sound'
  <1> USE DEF ReadNextHdu, WalkFails, NextImageReturns, Returns
  <1>1. Planned' /\ Delivered'
    BY WalkStep DEF readerVars
  <1>2. Ended'
    BY DEF Ended
  <1>3. Located'
    <2> DEFINE found == CHOOSE i \in DOMAIN file.hdus : file.hdus[i].at = pos
    <2>1. file' = file /\ current' = current
      OBVIOUS
    <2>2. PICK o \in NextHdu :
             IF o.res \in {"ok", "end"}
             THEN pending' = IF o.res = "end" THEN None
                             ELSE [hdu |-> found, data_start |-> o.pos]
             ELSE UNCHANGED pending
      OBVIOUS
    <2>3. o.res = "ok" => o.pos = DataAt(found)
      BY NextHduLands DEF SInv, IInv
    <2> HIDE DEF found
    <2>4. \A i : DataAt(i)' = DataAt(i)
      BY <2>1 DEF DataAt
    <2>5. current' # None => current'.data_start = DataAt(current'.hdu)
      BY <2>1 DEF SInv, Located
    <2>6. pending' # None => pending'.data_start = DataAt(pending'.hdu)
      <3>1. CASE o.res = "ok"
        BY <2>2, <2>3, <3>1
      <3>2. CASE o.res # "ok"
        BY <2>2, <3>2 DEF SInv, Located
      <3> QED
        BY <3>1, <3>2
    <2> QED
      BY <2>1, <2>5, <2>6 DEF Located, DataAt
  <1> QED
    BY <1>1, <1>2, <1>3 DEF Sound

\* A decode begins: its plan is the current image's and nothing was delivered (begin_pixels).
LEMMA BeginPixelsSound ==
    ASSUME SInv, BeginPixels
    PROVE  Sound'
  <1> USE DEF BeginPixels, BeginPixelsReturns, ChunkFails, Returns
  <1>1. PICK o \in IF BeginRefusal = "ok" THEN SeekTo(current.data_start)
                   ELSE {Outcome(BeginRefusal, pos)} :
           /\ Moves(o)
           /\ pixels' = IF o.res # "ok" THEN pixels
                        ELSE [data_start |-> current.data_start, row_bytes |-> RowBytes,
                              selected |-> selected_channel, next_file_row |-> 0]
           /\ BeginPixelsReturns(o.res)
    OBVIOUS
  <1>2. ~pixels_started /\ stream = <<>> /\ phase = "pixel" /\ stream' = stream
    BY <1>1 DEF SInv, IInv, CallDiscipline, Planned
  <1>3. Planned' /\ Delivered'
    <2>1. CASE o.res # "ok"
      BY <1>1, <1>2, <2>1, StartsOver
    <2>2. CASE o.res = "ok"
      <3>1. UNCHANGED <<header, current, selected_channel, file>> /\ Len(stream') = 0 /\ pixels_started'
        BY <1>1, <1>2, <2>2 DEF walkVars
      <3>2. Planned'
        BY <1>1, <1>2, <2>2, <3>1 DEF Planned, RowBytes
      <3>3. IInv'
        BY BeginPixelsPreserves DEF SInv
      <3>4. Len(ChunksOf(current.hdu, selected_channel))' \in Nat
        BY <3>1, <3>3, ChunksOfCurrent, DecodeTypes
      <3>5. Delivered'
        BY <1>2, <3>1, <3>4 DEF Delivered
      <3> QED
        BY <3>2, <3>5
    <2> QED
      BY <2>1, <2>2
  <1>4. Ended'
    BY <1>1, SeekToAnswers, RefusalAnswers DEF SInv, Ended, Outcome
  <1>5. Located'
    BY DEF SInv, Located, DataAt, walkVars
  <1> QED
    BY <1>3, <1>4, <1>5 DEF Sound

\* A row delivered is the next chunk of the image; one that failed delivers nothing
\* (Decoder::next_chunk).
LEMMA DeliverRowSound ==
    ASSUME SInv, DeliverRow
    PROVE  Sound'
  <1> USE DEF DeliverRow, ChunkReturns, ChunkFails, Returns
  <1>1. PICK o \in ReadRow :
           IF o.res # "ok" THEN ChunkFails(o.res) /\ UNCHANGED pixels
           ELSE /\ ChunkReturns(ChunkOf(o.pos))
                /\ pixels' = [pixels EXCEPT !.next_file_row = @ + 1]
    OBVIOUS
  <1>2. /\ pixels_started /\ pixels # None /\ pixels.next_file_row < RowsToDeliver
        /\ UNCHANGED <<header, current, file, length>>
    BY DEF SInv, IInv, CallDiscipline, walkVars, Moves
  <1>3. Located'
    BY DEF SInv, Located, DataAt, walkVars
  <1>4. CASE o.res # "ok"
    <2>1. Delivered'
      BY <1>1, <1>2, <1>4, Undisturbed
    <2>2. Planned'
      BY <1>1, <1>2, <1>4 DEF SInv, Planned, RowBytes
    <2>3. Ended'
      BY <1>1, <1>4, ReadRowAnswers DEF Ended
    <2> QED
      BY <1>3, <2>1, <2>2, <2>3 DEF Sound
  <1>5. CASE o.res = "ok"
    <2> DEFINE chunk  == ChunkOf(o.pos)
               chunks == ChunksOf(current.hdu, selected_channel)
    <2>1. /\ Len(stream) + 1 \in 1 .. RowsIn(selected_channel)
          /\ chunk = chunks[Len(stream) + 1]
          /\ chunk.from + RowBytes <= length
      BY <1>2, <1>5, NextChunkIsRight
    <2>2. Len(chunks) = RowsIn(selected_channel)
      BY <1>2, ChunksOfCurrent, DecodeTypes DEF SInv
    <2>3. /\ stream' = Append(stream, chunk)
          /\ UNCHANGED <<phase, selected_channel, pixels_started>>
          /\ pixels' = [pixels EXCEPT !.next_file_row = @ + 1]
      BY <1>1, <1>5 DEF readerVars
    <2>4. stream \in Seq(Chunk) /\ chunks' = chunks /\ RowBytes' = RowBytes
      BY <1>2, <2>3 DEF SInv, IInv, TypeOK, ChunksOf, RowBytes
    <2> HIDE DEF chunk, chunks
    <2>5. /\ Len(stream') = Len(stream) + 1
          /\ \A n \in DOMAIN stream' : IF n = Len(stream) + 1 THEN stream'[n] = chunk
                                       ELSE n \in DOMAIN stream /\ stream'[n] = stream[n]
      BY <2>3, <2>4
    <2>6. Planned'
      <3>1. pc' # "begin_pixels"
        BY <1>1, <1>5
      <3>2. pixels' = [data_start |-> current.data_start, row_bytes |-> RowBytes,
                       selected |-> selected_channel, next_file_row |-> Len(stream) + 1]
        BY <1>2, <2>3 DEF SInv, Planned
      <3> QED
        BY <1>2, <2>3, <2>4, <2>5, <3>1, <3>2 DEF SInv, Planned
    <2>7. Delivered'
      <3>1. \A n \in DOMAIN stream : stream[n] = chunks[n] /\ stream[n].from + RowBytes <= length
        BY <1>2 DEF SInv, Delivered, chunks
      <3>2. Len(stream') <= Len(chunks)
        BY <2>1, <2>2, <2>4, <2>5
      <3>3. \A n \in DOMAIN stream' :
               stream'[n] = chunks[n] /\ stream'[n].from + RowBytes <= length
        BY <2>1, <2>5, <3>1
      <3> QED
        BY <1>2, <2>4, <3>2, <3>3 DEF Delivered, chunks
    <2>8. Ended'
      BY <1>1, <1>5 DEF Ended
    <2> QED
      BY <1>3, <2>6, <2>7, <2>8 DEF Sound
  <1> QED
    BY <1>4, <1>5

\* The end of an image is answered when every chunk of it was delivered (Decoder::next_chunk).
LEMMA FinishImageSound ==
    ASSUME SInv, FinishImage
    PROVE  Sound'
  <1> USE DEF FinishImage, ImageEnds, Returns
  <1>1. /\ pixels_started /\ pixels.next_file_row >= RowsToDeliver
        /\ UNCHANGED <<stream, readerVars, header, current, file, length, pixels>>
    BY DEF SInv, IInv, CallDiscipline, walkVars, sourceVars
  <1>2. Delivered'
    BY <1>1, Undisturbed DEF readerVars
  <1>3. Planned'
    BY <1>1 DEF SInv, Planned, RowBytes, readerVars
  <1>4. Len(stream) = Len(ChunksOf(current.hdu, selected_channel))
    <2>1. RowsToDeliver = RowsIn(selected_channel) /\ pixels.next_file_row = Len(stream)
      BY <1>1 DEF SInv, Planned, RowsToDeliver, RowsIn
    <2>2. Len(ChunksOf(current.hdu, selected_channel)) = RowsIn(selected_channel)
      BY <1>1, ChunksOfCurrent, DecodeTypes DEF SInv
    <2>3. Len(stream) <= RowsIn(selected_channel)
      BY <1>1, <2>2 DEF SInv, Delivered
    <2>4. Len(stream) \in Nat /\ RowsIn(selected_channel) \in Nat
      BY <1>1, DecodeTypes DEF SInv
    <2> QED
      BY <1>1, <2>1, <2>2, <2>3, <2>4
  <1>5. Ended'
    BY <1>1, <1>4 DEF Ended, ChunksOf, readerVars
  <1>6. Located'
    BY DEF SInv, Located, DataAt, walkVars
  <1> QED
    BY <1>2, <1>3, <1>5, <1>6 DEF Sound

-----------------------------------------------------------------------------
(* The theorems.                                                           *)

\* A reader just built has delivered nothing (Reader::build).
LEMMA InitSInv == Init => SInv
  <1> SUFFICES ASSUME Init PROVE SInv
    OBVIOUS
  <1>1. Located
    BY DEF Init, Located
  <1>2. Planned /\ Delivered /\ Ended
    BY DEF Init, Planned, Delivered, Ended
  <1> QED
    BY <1>1, <1>2, InitIInv DEF SInv

\* No call and no step breaks SInv: it is inductive.
LEMMA NextSound == SInv /\ [Next]_vars => SInv'
  <1> SUFFICES ASSUME SInv, [Next]_vars PROVE Sound'
    BY NextPreserves DEF SInv, Sound
  <1>1. CASE Calls(NextImage)
    BY <1>1, NextImageSound
  <1>2. CASE \/ \E valid \in BOOLEAN : Calls(SetBounds(valid))
             \/ \E k \in 0 .. MaxChannel : Calls(SelectChannel(k))
    BY <1>2, ConfigurationSound
  <1>3. CASE Calls(Chunks) \/ Calls(DropChunks)
    BY <1>3, CursorSound
  <1>4. CASE Calls(NextChunk)
    BY <1>4, NextChunkSound
  <1>5. CASE Calls(ForEachChunk)
    BY <1>5, ForEachChunkSound
  <1>6. CASE \E len \in Destinations, variant \in BOOLEAN : Calls(ReadSamples(len, variant))
    <2>1. PICK len \in Destinations, variant \in BOOLEAN :
             Calls(Decodes("samples", SamplesRefusal(len, variant)))
      BY <1>6 DEF ReadSamples, Calls
    <2>2. SamplesRefusal(len, variant) # "end"
      BY RefusalAnswers DEF SInv
    <2> QED
      BY <2>1, <2>2, DecodesSound
  <1>7. CASE \E len \in Destinations : Calls(ReadImage(len))
    <2>1. PICK len \in Destinations : Calls(Decodes("image", ImageRefusal(len)))
      BY <1>7 DEF ReadImage, Calls
    <2>2. ImageRefusal(len) # "end"
      BY RefusalAnswers DEF SInv
    <2> QED
      BY <2>1, <2>2, DecodesSound
  <1>8. CASE DecoderStep
    BY <1>8, AbandonSound, StillWalkSound, MovingWalkSound, ReadNextHduSound, BeginPixelsSound,
       DeliverRowSound, FinishImageSound DEF DecoderStep
  <1>9. CASE UNCHANGED vars
    <2>1. UNCHANGED <<sourceVars, header, decoderVars>> /\ UNCHANGED <<readerVars, callVars>>
      BY <1>9 DEF vars
    <2>2. Located'
      BY <2>1, CallLocated
    <2>3. Delivered' /\ (pc = "idle" => Ended')
      BY <2>1, Undisturbed DEF readerVars, callVars, decoderVars, sourceVars
    <2>4. Ended'
      BY <2>1, <2>3 DEF Ended, callVars
    <2>5. Planned'
      BY <2>1 DEF SInv, Planned, RowBytes, readerVars, callVars, decoderVars
    <2> QED
      BY <2>2, <2>3, <2>4, <2>5 DEF Sound
  <1> QED
    BY <1>1, <1>2, <1>3, <1>4, <1>5, <1>6, <1>7, <1>8, <1>9 DEF Next

\* SInv holds throughout a session: what the two theorems below follow from.
THEOREM SoundInvariance == Spec => []SInv
  BY InitSInv, NextSound, PTL DEF Spec

\* What a cursor delivered is, chunk for chunk, the beginning of the current image for the
\* selected channel, each read from its own bytes, all of which the source holds.
THEOREM RowsAreExact == Spec => []StreamIsExact
  <1>1. SInv => StreamIsExact
    <2> SUFFICES ASSUME SInv, stream # <<>>
                 PROVE  /\ current # None
                        /\ IsPrefix(stream, ChunksOf(current.hdu, selected_channel))
                        /\ \A n \in DOMAIN stream : stream[n].from + RowBytes <= length
      BY DEF StreamIsExact
    <2> DEFINE chunks == ChunksOf(current.hdu, selected_channel)
    <2>1. pixels_started
      BY DEF SInv, Planned
    <2>2. current # None
      BY <2>1 DEF SInv, IInv, CallDiscipline, HeaderIsCurrents
    <2>3. /\ Len(stream) <= Len(chunks)
          /\ \A n \in DOMAIN stream : stream[n] = chunks[n] /\ stream[n].from + RowBytes <= length
      BY <2>1 DEF SInv, Delivered
    <2>4. stream \in Seq(Chunk) /\ Len(chunks) \in Nat
      BY <2>1, ChunksOfCurrent, DecodeTypes DEF SInv, IInv, TypeOK
    <2> HIDE DEF chunks
    <2>5. IsPrefix(stream, chunks)
      BY <2>3, <2>4 DEF IsPrefix
    <2> QED
      BY <2>2, <2>3, <2>5 DEF chunks
  <1> QED
    BY <1>1, SoundInvariance, PTL

\* A decode that ended, by whatever call, delivered the image whole.
THEOREM ImagesAreWhole == Spec => []WholeImage
  <1>1. SInv => WholeImage
    <2> SUFFICES ASSUME SInv, pc = "idle", ret.res = "end"
                 PROVE  stream = ChunksOf(current.hdu, selected_channel)
      BY DEF WholeImage
    <2> DEFINE chunks == ChunksOf(current.hdu, selected_channel)
    <2>1. pixels_started /\ Len(stream) = Len(chunks)
      BY DEF SInv, Ended
    <2>2. \A n \in DOMAIN stream : stream[n] = chunks[n]
      BY <2>1 DEF SInv, Delivered
    <2>3. stream \in Seq(Chunk) /\ DOMAIN chunks = 1 .. Len(chunks)
      BY <2>1, ChunksOfCurrent, DecodeTypes DEF SInv, IInv, TypeOK
    <2>4. chunks = [n \in DOMAIN chunks |-> chunks[n]]
      BY <2>1, ChunksOfCurrent DEF SInv
    <2> HIDE DEF chunks
    <2>5. DOMAIN stream = DOMAIN chunks /\ stream = [n \in DOMAIN stream |-> stream[n]]
      BY <2>1, <2>3
    <2>6. stream = chunks
      BY <2>2, <2>4, <2>5
    <2> QED
      BY <2>6 DEF chunks
  <1> QED
    BY <1>1, SoundInvariance, PTL
-----------------------------------------------------------------------------
(* The caps.  Every check of a size is made once, before the decode it is  *)
(* about; Capped says its verdict still stands while that decode runs.     *)

\* The checks of current_header_for_pixels stand over a decode that is begun, those of
\* begin_pixels over one under way, and the output cap over a tier-2 decode.
Capped ==
    /\ pc = "begin_pixels" => PixelRefusal = "ok"
    /\ pixels_started => PixelRefusal = "ok" /\ RowBytes <= Limits.materialized_bytes
    /\ cursor = "samples" /\ header.bytes # None =>
          DestinationLen * header.bytes <= Limits.decoded_output_bytes
    /\ cursor = "image" => DestinationLen * 4 <= Limits.decoded_output_bytes

\* A channel selected is one the current image has.
Selected ==
    selected_channel # None =>
        header # None /\ header.geometry # None /\ selected_channel < header.geometry.channels

\* A step that begins nothing leaves every verdict standing.
LEMMA VerdictsStand ==
    ASSUME Capped, UNCHANGED header, pc' # "begin_pixels",
           pixels_started' => pixels_started,
           cursor' \in {"samples", "image"} => UNCHANGED <<cursor, selected_channel>>
    PROVE  Capped'
  <1>1. PixelRefusal' = PixelRefusal /\ RowBytes' = RowBytes
    BY DEF PixelRefusal, TooManySamples, RowBytes
  <1>2. cursor' \in {"samples", "image"} => DestinationLen' = DestinationLen
    BY DEF DestinationLen
  <1> QED
    BY <1>1, <1>2 DEF Capped

\* A cursor that is no tier-2 decode's begins a decode once its image passed the checks.
LEMMA BeginsChecked ==
    ASSUME UNCHANGED header, PixelRefusal = "ok", ~pixels_started',
           cursor' \notin {"samples", "image"}
    PROVE  Capped'
  <1>1. PixelRefusal' = PixelRefusal
    BY DEF PixelRefusal, TooManySamples
  <1> QED
    BY <1>1 DEF Capped

\* A destination the check passed is within the output cap in true integers, although the
\* check multiplies in u64 (check_output).
LEMMA OutputCapHolds ==
    ASSUME NEW width \in Nat, ~OverOutputCap(width), DestinationLen \in Nat
    PROVE  DestinationLen * width <= Limits.decoded_output_bytes
  <1>1. CheckedMul(DestinationLen, width) # None
    BY DEF OverOutputCap
  <1>2. CheckedMul(DestinationLen, width) = DestinationLen * width
    BY <1>1 DEF CheckedMul, Fit
  <1>3. ~(CheckedMul(DestinationLen, width) > Limits.decoded_output_bytes)
    BY DEF OverOutputCap
  <1>4. DestinationLen * width \in Nat
    <2>1. \A m, n \in Nat : m * n \in Nat
      OBVIOUS
    <2> QED
      BY <2>1
  <1> QED
    BY <1>2, <1>3, <1>4, LimitsAssumption

\* The destination of a decode has a length (destination_len_of).
LEMMA DestinationType ==
    ASSUME header.geometry \in Geometry, selected_channel \in Option(Nat)
    PROVE  DestinationLen \in Nat
  <1>1. \A m, n : SaturatingMul(m, n) \in U
    BY MaxUAssumption DEF SaturatingMul, U
  <1> QED
    BY <1>1, MaxUAssumption DEF DestinationLen, TotalSamples, U

\* A tier-2 decode begins once its image and its destination passed the checks, whichever of
\* the two destinations it is (read_samples_into, read_image_into).
LEMMA DecodesCapped ==
    ASSUME SInv, Capped, NEW driver \in {"samples", "image"}, NEW refusal,
           Calls(Decodes(driver, refusal)),
           refusal = "ok" => /\ PixelRefusal = "ok" /\ header.geometry # None
                             /\ driver = "samples" =>
                                   header.bytes # None /\ ~OverOutputCap(header.bytes)
                             /\ driver = "image" => ~OverOutputCap(4)
    PROVE  Capped'
  <1> USE DEF Calls, Decodes, Opens, Answers, Returns
  <1>1. CASE refusal # "ok"
    BY <1>1, VerdictsStand DEF readerVars
  <1>2. CASE refusal = "ok"
    <2>1. /\ UNCHANGED <<header, selected_channel>> /\ ~pixels_started' /\ cursor' = driver
          /\ PixelRefusal' = PixelRefusal
      BY <1>2 DEF PixelRefusal, TooManySamples
    <2>2. header = BuildHeader(Cards(current), file.hdus[1].cards)
      BY <1>2, PixelRefusalOk, HeaderDecline DEF SInv, IInv, HeaderIsCurrents
    <2>3. DestinationLen \in Nat
      BY <1>2, <2>2, GeometryType, DestinationType
         DEF BuildHeader, Option, SInv, IInv, TypeOK
    <2>4. CASE driver = "samples"
      <3>1. header.bytes \in Nat
        BY <1>2, <2>2, <2>4, SampleBytesType DEF BuildHeader, Option
      <3>2. DestinationLen * header.bytes <= Limits.decoded_output_bytes
        BY <1>2, <2>3, <2>4, <3>1, OutputCapHolds
      <3> QED
        BY <1>2, <2>1, <2>4, <3>2 DEF Capped, DestinationLen
    <2>5. CASE driver = "image"
      <3>1. DestinationLen * 4 <= Limits.decoded_output_bytes
        BY <1>2, <2>3, <2>5, OutputCapHolds
      <3> QED
        BY <1>2, <2>1, <2>5, <3>1 DEF Capped, DestinationLen
    <2> QED
      BY <2>4, <2>5
  <1> QED
    BY <1>1, <1>2
\* A decode under way is one whose row passed the cap too (begin_pixels).
LEMMA BeginPixelsCapped ==
    ASSUME SInv, Capped, BeginPixels
    PROVE  Capped'
  <1> USE DEF BeginPixels, BeginPixelsReturns, ChunkFails, Returns
  <1>1. PICK o \in IF BeginRefusal = "ok" THEN SeekTo(current.data_start)
                   ELSE {Outcome(BeginRefusal, pos)} :
           BeginPixelsReturns(o.res)
    OBVIOUS
  <1>2. UNCHANGED header
    BY DEF walkVars
  <1>3. CASE o.res # "ok"
    BY <1>1, <1>2, <1>3, VerdictsStand
  <1>4. CASE o.res = "ok"
    <2>1. UNCHANGED <<selected_channel, cursor>> /\ pc' = "next_chunk"
      BY <1>1, <1>4
    <2>2. BeginRefusal = "ok" /\ PixelRefusal = "ok"
      BY <1>1, <1>4 DEF Outcome, Capped
    <2>3. header.geometry # None /\ header.bytes # None /\ ~(RowBytes > Limits.materialized_bytes)
      BY <2>2 DEF BeginRefusal
    <2>4. RowBytes \in Nat /\ Limits.materialized_bytes \in Nat
      BY <2>3, Decoding, LimitsAssumption DEF SInv, RowBytes, Option
    <2>5. /\ PixelRefusal' = PixelRefusal /\ RowBytes' = RowBytes
          /\ DestinationLen' = DestinationLen
      BY <1>2, <2>1 DEF PixelRefusal, TooManySamples, RowBytes, DestinationLen
    <2> QED
      BY <1>2, <2>1, <2>2, <2>3, <2>4, <2>5 DEF Capped
  <1> QED
    BY <1>3, <1>4

\* Every other step of the decoder leaves the verdicts standing, or leaves the image.
LEMMA DecoderStepCapped ==
    ASSUME SInv, Capped, DecoderStep
    PROVE  Capped'
  <1> USE DEF Returns, NextImageReturns, readerVars, walkVars
  <1>1. CASE Abandon
    <2>1. cursor' = "none" /\ pc' # "begin_pixels" /\ (pixels_started' => pixels_started)
      BY <1>1 DEF SInv, IInv, CallDiscipline, Abandon, AbandonReturns, ResetForNextImage, Answers
    <2> QED
      BY <1>1, <2>1, VerdictsStand DEF Abandon
  <1>2. CASE AfterTheEnd \/ FromTheStart
    BY <1>2, VerdictsStand DEF AfterTheEnd, FromTheStart
  <1>3. CASE FromAnImage \/ ReadNextHdu \/ StepOver
    BY <1>3, VerdictsStand DEF FromAnImage, ReadNextHdu, StepOver, WalkFails
  <1>4. CASE EndOfSource \/ SitOnImage
    <2>1. cursor' = "none" /\ ~pixels_started' /\ pc' = "idle"
      BY <1>4 DEF EndOfSource, SitOnImage, SInv, IInv, CallDiscipline
    <2> QED
      BY <2>1 DEF Capped
  <1>5. CASE DeliverRow \/ FinishImage
    BY <1>5, VerdictsStand DEF DeliverRow, FinishImage, ChunkReturns, ChunkFails, ImageEnds
  <1> QED
    BY <1>1, <1>2, <1>3, <1>4, <1>5, BeginPixelsCapped DEF DecoderStep

\* No call and no step loses a verdict.
LEMMA NextCapped ==
    ASSUME SInv, Capped, [Next]_vars
    PROVE  Capped'
  <1> USE DEF Calls, Answers, Returns, readerVars
  <1>1. CASE Calls(NextImage)
    BY <1>1, VerdictsStand DEF NextImage, ResetForNextImage
  <1>2. ASSUME NEW valid, NEW k, Calls(SetBounds(valid)) \/ Calls(SelectChannel(k))
        PROVE  Capped'
    BY <1>2, VerdictsStand DEF SetBounds, SelectChannel
  <1>3. CASE Calls(Chunks) \/ Calls(DropChunks)
    BY <1>3, VerdictsStand DEF Chunks, DropChunks, Opens
  <1>4. CASE Calls(NextChunk)
    <2>1. CASE pc' = "begin_pixels"
      BY <1>4, <2>1, BeginsChecked DEF NextChunk, ChunkFails
    <2>2. CASE pc' # "begin_pixels"
      BY <1>4, <2>2, VerdictsStand DEF NextChunk, ChunkFails
    <2> QED
      BY <2>1, <2>2
  <1>5. CASE Calls(ForEachChunk)
    <2>1. CASE PixelRefusal = "ok"
      BY <1>5, <2>1, BeginsChecked DEF ForEachChunk, Opens
    <2>2. CASE PixelRefusal # "ok"
      BY <1>5, <2>2, VerdictsStand DEF ForEachChunk
    <2> QED
      BY <2>1, <2>2
  <1>6. ASSUME NEW len, NEW variant, Calls(ReadSamples(len, variant))
        PROVE  Capped'
    <2>1. SamplesRefusal(len, variant) = "ok" =>
             /\ PixelRefusal = "ok" /\ header.geometry # None
             /\ header.bytes # None /\ ~OverOutputCap(header.bytes)
      BY DEF SamplesRefusal
    <2> QED
      BY <1>6, <2>1, DecodesCapped DEF ReadSamples
  <1>7. ASSUME NEW len, Calls(ReadImage(len))
        PROVE  Capped'
    <2>1. ImageRefusal(len) = "ok" =>
             PixelRefusal = "ok" /\ header.geometry # None /\ ~OverOutputCap(4)
      BY DEF ImageRefusal
    <2> QED
      BY <1>7, <2>1, DecodesCapped DEF ReadImage
  <1>8. CASE UNCHANGED vars
    <2>1. UNCHANGED <<header, pc, pixels_started, cursor, selected_channel>>
      BY <1>8 DEF vars, callVars
    <2>2. PixelRefusal' = PixelRefusal /\ RowBytes' = RowBytes /\ DestinationLen' = DestinationLen
      BY <2>1 DEF PixelRefusal, TooManySamples, RowBytes, DestinationLen
    <2> QED
      BY <2>1, <2>2 DEF Capped
  <1> QED
    BY <1>1, <1>2, <1>3, <1>4, <1>5, <1>6, <1>7, <1>8, DecoderStepCapped DEF Next

\* However the calls are ordered, no chunk of an image past the total-samples or the row cap is
\* delivered, and no tier-2 decode fills a destination past the output cap: a read_samples in
\* samples of the file's width, a read_image in f32, whatever the file's width.
THEOREM CapsAreKept == Spec => []CapsHold
  <1>1. Init => Capped
    BY DEF Init, Capped
  <1>2. SInv /\ Capped /\ [Next]_vars => Capped'
    BY NextCapped
  <1>3. SInv /\ Capped => CapsHold
    <2> SUFFICES ASSUME SInv, Capped, stream # <<>>
                 PROVE  /\ TotalSamples(header.geometry) <= Limits.total_samples
                        /\ RowBytes <= Limits.materialized_bytes
                        /\ cursor = "samples" =>
                              DestinationLen * header.bytes <= Limits.decoded_output_bytes
                        /\ cursor = "image" =>
                              DestinationLen * 4 <= Limits.decoded_output_bytes
      BY DEF CapsHold
    <2>1. pixels_started /\ PixelRefusal = "ok"
      BY DEF SInv, Planned, Capped
    <2>2. header.geometry # None /\ header.bytes # None
      BY <2>1 DEF SInv, IInv, CallDiscipline
    <2>3. ~TooManySamples
      BY <2>1, PixelRefusalOk, HeaderDecline DEF SInv, PixelRefusal
    <2>4. TotalSamples(header.geometry) <= Limits.total_samples
      <3>1. TotalSamples(header.geometry) \in Nat
        BY MaxUAssumption DEF TotalSamples, SaturatingMul, U
      <3>2. Limits.total_samples \in Nat
        BY LimitsAssumption
      <3>3. ~(TotalSamples(header.geometry) > Limits.total_samples)
        BY <2>2, <2>3 DEF TooManySamples
      <3> QED
        BY <3>1, <3>2, <3>3
    <2> QED
      BY <2>1, <2>2, <2>4 DEF Capped
  <1> QED
    BY <1>1, <1>2, <1>3, SoundInvariance, PTL DEF Spec

-----------------------------------------------------------------------------
(***************************************************************************)
(* The walk.  Over a file written as the FITS standard says it finds every *)
(* image, once, and nothing else: AlignedWalk, EveryImageOnce and          *)
(* BoundedAdvance, for every such file, every cap, every cut of the source *)
(* and every order of calls; and the session as a whole keeps the promise  *)
(* of FrameSession.                                                        *)
(*                                                                         *)
(* The decoder keeps no offset of the next header: it computes one from    *)
(* the image it sat on, wherever pixel work left the cursor.  WInv ties    *)
(* the three together.  While the walk runs, traversed counts the HDUs     *)
(* passed since that image, none of them an image (Strides); while an      *)
(* image is sat on, the cursor has not passed the end of its data unit     *)
(* (Parked), which holds because what a decode reads lies inside the unit  *)
(* (SamplesFit).                                                           *)
(***************************************************************************)

-----------------------------------------------------------------------------
(* How far a move takes the cursor, and where one that succeeds lands.     *)

\* A read, whether it succeeds, runs out of bytes or fails, moves forward and no further than
\* the bytes asked for (read_exact).
LEMMA ReadExactStops ==
    ASSUME SourceOK, NEW at \in Nat, NEW n \in Nat, NEW o \in ReadExact(at, n)
    PROVE  o.pos \in at .. at + n
  BY DEF SourceOK, ReadExact, IoWhileReading, Outcome, Least, Greatest

\* So does the skip of a source with no length, which is capped too (Sequential::skip).
LEMMA SkipByReadingStops ==
    ASSUME SourceOK, NEW n \in Nat, NEW o \in SkipByReading(n)
    PROVE  /\ o.pos \in pos .. pos + n
           /\ o.pos - pos <= Limits.skipped_block_bytes
           /\ o.res = "ok" => o.pos = pos + n
  <1>1. Limits.skipped_block_bytes \in Nat
    BY LimitsAssumption
  <1>2. CASE n > Limits.skipped_block_bytes \/ n = 0
    BY <1>1, <1>2 DEF SkipByReading, Outcome, SourceOK
  <1>3. CASE ~(n > Limits.skipped_block_bytes \/ n = 0)
    <2>1. o \in ReadExact(pos, n)
      BY <1>3 DEF SkipByReading
    <2> QED
      BY <1>1, <1>3, <2>1, ReadExactStops, ReadExactLands DEF SourceOK
  <1> QED
    BY <1>2, <1>3

\* A skip, by reading or by seeking, moves forward and no further than it was asked to
\* (Source::skip).
LEMMA SkipStops ==
    ASSUME SourceOK, NEW n \in Nat, NEW o \in Skip(n)
    PROVE  /\ o.pos \in pos .. pos + n
           /\ o.res = "ok" => o.pos = pos + n
           /\ ~seekable => o.pos - pos <= Limits.skipped_block_bytes
  <1>1. CASE ~seekable
    BY <1>1, SkipByReadingStops DEF Skip
  <1>2. CASE seekable
    BY <1>2 DEF Skip, SeekAbsolute, Outcome, SourceOK
  <1> QED
    BY <1>1, <1>2

\* A move to an offset leaves the cursor there, on the way there or where it was (seek_to).
LEMMA SeekToStops ==
    ASSUME SourceOK, NEW target \in Nat, NEW o \in SeekTo(target)
    PROVE  /\ o.pos \in Nat /\ (o.pos <= pos \/ o.pos <= target)
           /\ ~seekable => o.pos \in pos .. pos + Limits.skipped_block_bytes
  <1>1. CASE seekable
    BY <1>1 DEF SeekTo, SeekAbsolute, Outcome, SourceOK
  <1>2. CASE ~seekable /\ target < pos
    BY <1>2, LimitsAssumption DEF SeekTo, Outcome, SourceOK
  <1>3. CASE ~seekable /\ ~(target < pos)
    <2>1. o \in SkipByReading(target - pos) /\ target - pos \in Nat
      BY <1>3 DEF SeekTo, SourceOK
    <2> QED
      BY <1>3, <2>1, SkipByReadingStops, LimitsAssumption DEF SourceOK
  <1> QED
    BY <1>1, <1>2, <1>3

-----------------------------------------------------------------------------
(* The file as it is laid out.                                             *)

\* What a file written as the standard says promises, of the file at hand.
LEMMA LaidOut ==
    ASSUME FilesConform, TypeOK
    PROVE  /\ file.hdus \in Seq(Range(file.hdus)) /\ DOMAIN file.hdus = 1 .. Len(file.hdus)
           /\ Len(file.hdus) \in Nat /\ 1 \in DOMAIN file.hdus
           /\ \A i \in DOMAIN file.hdus : /\ file.hdus[i].at \in Nat /\ DataAt(i) \in Nat
                                          /\ file.hdus[i].at < DataAt(i) /\ DataAt(i) <= file.end
           /\ \A i, j \in DOMAIN file.hdus : i < j => file.hdus[i].at < file.hdus[j].at
           /\ file.end \in Nat /\ length \in Nat /\ DataAt(1) <= length
  <1>1. file \in Files /\ Conforming(file) /\ length \in file.lengths
    BY DEF FilesConform, TypeOK
  <1>2. \A i \in DOMAIN file.hdus : file.hdus[i].at \in Nat /\ file.hdus[i].blocks \in Nat
    BY <1>1, FilesAssumption
  <1>3. \A m \in Nat : BLOCK * m \in Nat
    BY BlockAssumption
  <1>4. file.hdus \in Seq(Range(file.hdus)) /\ 1 \in DOMAIN file.hdus /\ length \in Nat
    BY <1>1, FilesAssumption DEF Conforming
  <1>5. \A s \in Seq(Range(file.hdus)) : DOMAIN s = 1 .. Len(s) /\ Len(s) \in Nat
    OBVIOUS
  <1>6. \A i \in DOMAIN file.hdus :
           DataAt(i) \in Nat /\ file.hdus[i].at < DataAt(i) /\ DataAt(i) <= file.end
    <2> SUFFICES ASSUME NEW i \in DOMAIN file.hdus
                 PROVE  DataAt(i) \in Nat /\ file.hdus[i].at < DataAt(i) /\ DataAt(i) <= file.end
      OBVIOUS
    <2>1. file.hdus[i].at < DataAt(i) /\ DataAt(i) <= file.end
      BY <1>1 DEF Conforming, DataAt
    <2>2. DataAt(i) \in Nat
      BY <1>2, <1>3 DEF DataAt
    <2> QED
      BY <2>1, <2>2
  <1>7. file.end \in Nat /\ DataAt(1) <= length
    BY <1>1 DEF Conforming, DataAt
  <1>8. \A i, j \in DOMAIN file.hdus : i < j => file.hdus[i].at < file.hdus[j].at
    BY <1>1 DEF Conforming
  <1> QED
    BY <1>2, <1>4, <1>5, <1>6, <1>7, <1>8

\* The padded end of an HDU, where it has one, is where the next one starts or the file ends:
\* the decoder computes it from the cards, the file has it from its layout (data_unit_size).
LEMMA PaddedEndIsNext ==
    ASSUME FilesConform, TypeOK, NEW hdu \in ParsedHdu, hdu.data_start = DataAt(hdu.hdu),
           PaddedEnd(hdu) # None
    PROVE  /\ PaddedEnd(hdu) = After(file, hdu.hdu)
           /\ UnitSize(hdu) \in Nat /\ PaddedEnd(hdu) = hdu.data_start + UnitSize(hdu)
           /\ UnitSize(hdu) = DataUnitSize(file.hdus[hdu.hdu].cards)
           /\ hdu.data_start \in Nat /\ PaddedEnd(hdu) \in Nat
  <1>1. file \in Files /\ Conforming(file) /\ hdu.hdu \in DOMAIN file.hdus /\ hdu.data_start \in Nat
    BY DEF FilesConform, TypeOK, ParsedHdu
  <1>2. UnitSize(hdu) = DataUnitSize(file.hdus[hdu.hdu].cards)
    BY <1>1 DEF UnitSize, UnitSizes
  <1>3. UnitSize(hdu) # None
    BY DEF PaddedEnd, CheckedAdd
  <1>4. UnitSize(hdu) \in Nat
    BY <1>1, <1>3, UnitSizeFits, MaxUAssumption DEF Option, U
  <1>5. PaddedEnd(hdu) = hdu.data_start + UnitSize(hdu)
    BY DEF PaddedEnd, CheckedAdd, Fit
  <1>6. DataAt(hdu.hdu) + DataUnitSize(file.hdus[hdu.hdu].cards) = After(file, hdu.hdu)
    BY <1>1, <1>2, <1>3 DEF Conforming, DataAt
  <1> QED
    BY <1>1, <1>2, <1>4, <1>5, <1>6

-----------------------------------------------------------------------------
(* Where the decoder's moves leave the cursor.                             *)

\* Leaving an image ends where the next HDU starts, unless pixel work passed it; a failed one
\* stays short of it (consume_current).
LEMMA ConsumeCurrentLands ==
    ASSUME FilesConform, TypeOK, current # None, current.data_start = DataAt(current.hdu),
           NEW o \in ConsumeCurrent, PaddedEnd(current) # None => pos <= PaddedEnd(current)
    PROVE  /\ o.res = "ok" => o.pos = After(file, current.hdu)
           /\ PaddedEnd(current) # None => o.pos <= PaddedEnd(current)
           /\ o.pos \in Nat /\ o.pos >= pos
           /\ ~seekable => o.pos - pos <= Limits.skipped_block_bytes
  <1>1. SourceOK
    BY SourceTypes
  <1>2. current \in ParsedHdu
    BY DEF TypeOK, Option
  <1>3. CASE PaddedEnd(current) = None
    BY <1>1, <1>3, LimitsAssumption DEF ConsumeCurrent, Outcome, SourceOK
  <1>4. CASE PaddedEnd(current) # None
    <2>1. PaddedEnd(current) = After(file, current.hdu) /\ PaddedEnd(current) \in Nat
      BY <1>2, <1>4, PaddedEndIsNext
    <2>2. CASE pos < PaddedEnd(current)
      <3>1. o \in Skip(PaddedEnd(current) - pos) /\ PaddedEnd(current) - pos \in Nat
        BY <1>1, <1>4, <2>1, <2>2 DEF ConsumeCurrent, SourceOK
      <3> QED
        BY <1>1, <2>1, <3>1, SkipStops DEF SourceOK
    <2>3. CASE ~(pos < PaddedEnd(current))
      BY <1>1, <1>4, <2>1, <2>3, LimitsAssumption DEF ConsumeCurrent, Outcome, SourceOK
    <2> QED
      BY <2>2, <2>3
  <1> QED
    BY <1>3, <1>4

\* Stepping over the HDU just parsed ends where the next one starts (skip_data_unit).
LEMMA SkipDataUnitLands ==
    ASSUME FilesConform, TypeOK, pending # None, pending.data_start = DataAt(pending.hdu),
           pos = pending.data_start, NEW o \in SkipDataUnit
    PROVE  /\ o.res = "ok" => o.pos = After(file, pending.hdu)
           /\ o.pos \in Nat /\ o.pos >= pos
           /\ ~seekable => o.pos - pos <= Limits.skipped_block_bytes
  <1>1. SourceOK
    BY SourceTypes
  <1>2. pending \in ParsedHdu /\ file \in Files /\ Conforming(file)
    BY DEF TypeOK, Option, FilesConform
  <1>3. UnitSize(pending) = DataUnitSize(file.hdus[pending.hdu].cards)
    BY <1>2 DEF UnitSize, UnitSizes, ParsedHdu
  <1>4. CASE UnitSize(pending) = None
    BY <1>1, <1>4, LimitsAssumption DEF SkipDataUnit, Outcome, SourceOK
  <1>5. CASE UnitSize(pending) # None
    <2>1. UnitSize(pending) \in Nat /\ o \in Skip(UnitSize(pending))
      BY <1>2, <1>5, UnitSizeFits, MaxUAssumption DEF SkipDataUnit, Option, U
    <2>2. DataAt(pending.hdu) + UnitSize(pending) = After(file, pending.hdu)
      BY <1>2, <1>3, <1>5 DEF Conforming, DataAt, ParsedHdu
    <2> QED
      BY <1>1, <2>1, <2>2, SkipStops DEF SourceOK
  <1> QED
    BY <1>4, <1>5

\* A header costs no more than its cap, or one block (read_header_region_from).
LEMMA HeaderCost ==
    /\ BLOCK * HeaderCap \in Nat
    /\ BLOCK * HeaderCap <= Greatest(BLOCK, Limits.fits_header_bytes)
  <1>1. BLOCK \in Nat \ {0} /\ Limits.fits_header_bytes \in Nat
    BY BlockAssumption, LimitsAssumption
  <1>2. \A b \in Nat \ {0}, n \in Nat : n \div b \in Nat /\ b * (n \div b) <= n
    OBVIOUS
  <1>3. CASE HeaderCap = 1
    BY <1>1, <1>3 DEF Greatest
  <1>4. CASE HeaderCap # 1
    <2>1. HeaderCap = Limits.fits_header_bytes \div BLOCK
      BY <1>4 DEF HeaderCap, Greatest
    <2>2. BLOCK * HeaderCap <= Limits.fits_header_bytes
      BY <1>1, <1>2, <2>1
    <2>3. BLOCK * HeaderCap \in Nat
      BY <1>1, HeaderCapType
    <2> QED
      BY <1>1, <2>2, <2>3 DEF Greatest
  <1> QED
    BY <1>3, <1>4

\* Reading a header moves forward by no more than it may cost (read_header_region).
LEMMA HeaderRegionStops ==
    ASSUME TypeOK, NEW i \in DOMAIN file.hdus, NEW o \in HeaderRegion(i)
    PROVE  o.pos \in pos .. pos + BLOCK * HeaderCap /\ o.res # "end"
  <1> DEFINE n == BLOCK * Least(file.hdus[i].blocks, HeaderCap)
  <1>1. SourceOK
    BY SourceTypes
  <1>2. /\ file.hdus[i].blocks \in Nat /\ HeaderCap \in Nat /\ BLOCK \in Nat
        /\ file.hdus[i].defect # "end"
    BY FilesAssumption, HeaderCapType, BlockAssumption DEF TypeOK
  <1>3. n \in Nat /\ n <= BLOCK * HeaderCap /\ BLOCK * HeaderCap \in Nat
    <2>1. Least(file.hdus[i].blocks, HeaderCap) \in 0 .. HeaderCap
      BY <1>2 DEF Least
    <2>2. \A b, k \in Nat : \A m \in 0 .. k : b * m \in Nat /\ b * m <= b * k /\ b * k \in Nat
      OBVIOUS
    <2> QED
      BY <1>2, <2>1, <2>2
  <1>4. PICK r \in ReadExact(pos, n) :
           o = IF r.res # "ok" THEN r
               ELSE IF file.hdus[i].blocks > HeaderCap THEN Outcome("LimitExceeded", r.pos)
               ELSE Outcome(file.hdus[i].defect, r.pos)
    BY DEF HeaderRegion
  <1> HIDE DEF n
  <1>5. r.pos \in pos .. pos + n /\ r.res # "end"
    <2>1. r.res # "end"
      BY DEF ReadExact, IoWhileReading, Outcome
    <2> QED
      BY <1>1, <1>3, <2>1, ReadExactStops DEF SourceOK
  <1>6. o.pos = r.pos /\ o.res # "end"
    BY <1>2, <1>4, <1>5 DEF Outcome
  <1> QED
    BY <1>1, <1>3, <1>5, <1>6 DEF SourceOK

\* From the end of an HDU the walk finds the next one, or the end of the source, or says what
\* is wrong; it never takes other bytes for a header (read_next_hdu).
LEMMA NextHduFinds ==
    ASSUME FilesConform, TypeOK, NEW i \in DOMAIN file.hdus, pos = After(file, i),
           NEW o \in NextHdu
    PROVE  /\ o.pos \in pos .. pos + BLOCK * HeaderCap
           /\ o.res = "ok" =>
                 /\ pos < length
                 /\ i + 1 \in DOMAIN file.hdus /\ file.hdus[i + 1].at = pos
                 /\ (CHOOSE j \in DOMAIN file.hdus : file.hdus[j].at = pos) = i + 1
           /\ o.res = "end" => o.pos = pos /\ pos >= length
  <1> DEFINE here == {j \in DOMAIN file.hdus : file.hdus[j].at = pos}
  <1>1. SourceOK /\ BLOCK * HeaderCap \in Nat
    BY SourceTypes, HeaderCost
  <1>2. \A j \in here : i + 1 \in DOMAIN file.hdus /\ j = i + 1
    <2>1. CASE i + 1 \in DOMAIN file.hdus
      BY <2>1, FilesAssumption DEF TypeOK, After
    <2>2. CASE i + 1 \notin DOMAIN file.hdus
      <3>1. \A j \in DOMAIN file.hdus : file.hdus[j].at < file.end
        <4>1. \A j \in DOMAIN file.hdus : /\ file.hdus[j].at \in Nat /\ DataAt(j) \in Nat
                                          /\ file.hdus[j].at < DataAt(j) /\ DataAt(j) <= file.end
          BY LaidOut
        <4> QED
          BY <4>1, LaidOut
      <3> QED
        BY <2>2, <3>1, LaidOut DEF After
    <2> QED
      BY <2>1, <2>2
  <1>3. CASE pos >= length
    <2>1. o \in {Outcome("end", pos)} \cup IoWhileReading(pos, BLOCK)
      BY <1>3 DEF NextHdu
    <2>2. o.pos = pos /\ o.res # "ok"
      BY <1>1, <1>3, <2>1, BlockAssumption DEF SourceOK, IoWhileReading, Outcome, Least, Greatest
    <2> QED
      BY <1>1, <1>3, <2>2 DEF SourceOK
  <1>4. CASE pos < length /\ here = {}
    <2>1. o \in NoHeaderRegion
      BY <1>1, <1>4 DEF NextHdu, SourceOK
    <2>2. o.res # "ok" /\ o.res # "end"
      BY <2>1 DEF NoHeaderRegion, IoWhileReading, Outcome
    <2>3. o.pos \in pos .. pos + BLOCK * HeaderCap
      <3>1. CASE o \in IoWhileReading(pos, BLOCK * HeaderCap)
        BY <1>1, <3>1, ReadExactStops DEF ReadExact, SourceOK
      <3>2. CASE o \notin IoWhileReading(pos, BLOCK * HeaderCap)
        <4> DEFINE cost == BLOCK * HeaderCap
        <4>1. cost \in Nat
          BY <1>1
        <4>2. o.pos \in pos .. Least(length, pos + cost)
          BY <2>1, <3>2 DEF NoHeaderRegion, Outcome
        <4> HIDE DEF cost
        <4>3. o.pos \in pos .. pos + cost
          BY <1>1, <4>1, <4>2 DEF SourceOK, Least
        <4> QED
          BY <4>3 DEF cost
      <3> QED
        BY <3>1, <3>2
    <2> QED
      BY <2>2, <2>3
  <1>5. CASE pos < length /\ here # {}
    <2>1. PICK j \in here : o \in HeaderRegion(j)
      BY <1>1, <1>5 DEF NextHdu, SourceOK
    <2>2. o.pos \in pos .. pos + BLOCK * HeaderCap /\ o.res # "end"
      BY <2>1, HeaderRegionStops
    <2>3. /\ i + 1 \in DOMAIN file.hdus /\ file.hdus[i + 1].at = pos
          /\ \A k \in DOMAIN file.hdus : file.hdus[k].at = pos => k = i + 1
      BY <1>2, <2>1
    <2>4. (CHOOSE k \in DOMAIN file.hdus : file.hdus[k].at = pos) = i + 1
      BY <2>3
    <2> QED
      BY <1>5, <2>2, <2>3, <2>4
  <1> QED
    BY <1>1, <1>3, <1>4, <1>5 DEF SourceOK

\* Reading a row goes no further than the row, or than the cursor was (next_chunk).
LEMMA ReadRowStops ==
    ASSUME TypeOK, pixels # None, FileRow \in Nat, NEW o \in ReadRow
    PROVE  /\ o.pos \in Nat
           /\ \/ o.pos <= pos
              \/ o.pos <= pixels.data_start + pixels.row_bytes * FileRow + pixels.row_bytes
           /\ ~seekable => o.pos \in pos .. pos + Limits.skipped_block_bytes + pixels.row_bytes
  <1>1. SourceOK /\ pixels.row_bytes \in Nat /\ pixels.data_start \in Nat
        /\ Limits.skipped_block_bytes \in Nat
    BY SourceTypes, LimitsAssumption DEF TypeOK, Option, PixelState
  <1>2. CASE RowOffset = None
    BY <1>1, <1>2 DEF ReadRow, Outcome, SourceOK
  <1>3. CASE RowOffset # None
    <2>1. RowOffset \in Nat /\ RowOffset = pixels.data_start + pixels.row_bytes * FileRow
      <3>1. CheckedMul(pixels.row_bytes, FileRow) # None
        BY <1>3 DEF RowOffset, CheckedAdd
      <3>2. CheckedMul(pixels.row_bytes, FileRow) = pixels.row_bytes * FileRow
        BY <3>1 DEF CheckedMul, Fit
      <3>3. RowOffset = pixels.data_start + CheckedMul(pixels.row_bytes, FileRow)
        BY <1>3 DEF RowOffset, CheckedAdd, Fit
      <3>4. RowOffset \in U
        BY <1>3 DEF RowOffset, CheckedAdd, Fit
      <3> QED
        BY <3>2, <3>3, <3>4, MaxUAssumption DEF U
    <2>2. PICK s \in SeekTo(RowOffset) :
             o \in IF s.res = "ok" THEN ReadExact(s.pos, pixels.row_bytes) ELSE {s}
      BY <1>3 DEF ReadRow
    <2>3. /\ s.pos \in Nat /\ (s.pos <= pos \/ s.pos <= RowOffset)
          /\ ~seekable => s.pos \in pos .. pos + Limits.skipped_block_bytes
          /\ s.res = "ok" => s.pos = RowOffset
      BY <1>1, <2>1, <2>2, SeekToStops, SeekToLands
    <2>4. CASE s.res # "ok"
      BY <1>1, <2>1, <2>2, <2>3, <2>4 DEF SourceOK
    <2>5. CASE s.res = "ok"
      <3>1. o.pos \in s.pos .. s.pos + pixels.row_bytes
        BY <1>1, <2>2, <2>3, <2>5, ReadExactStops
      <3>2. s.pos = pixels.data_start + pixels.row_bytes * FileRow
        BY <2>1, <2>3, <2>5
      <3>3. \A a, b, c, d, e \in Nat : /\ d \in a .. a + b /\ e \in d .. d + c
                                       => e \in a .. a + b + c
        OBVIOUS
      <3> QED
        BY <1>1, <2>3, <2>5, <3>1, <3>2 DEF SourceOK
    <2> QED
      BY <2>4, <2>5
  <1> QED
    BY <1>2, <1>3

-----------------------------------------------------------------------------
(* The inductive invariant.                                                *)

Walking == pc \in {"walk", "read_next_hdu"}

\* The image the walk set out from, and the last HDU it has passed.
Base == IF current = None THEN 0 ELSE current.hdu
Passed == Base + traversed

\* What is sat on is an image the source holds the beginning of; before the first advance the
\* cursor stands at the primary's data.
Positioned ==
    /\ position = "Start" => current = None
    /\ position = "OnImage" => current # None
    /\ current # None => /\ IsImagePosition(Cards(current))
                         /\ file.hdus[current.hdu].at < length
    /\ position = "Start" /\ ~Walking =>
          pending # None /\ pending.hdu = 1 /\ pos = pending.data_start

\* The walk has passed as many HDUs as it counted, none of them an image, and stands at the
\* data of the next one or where the next one's header would be.
Strides ==
    Walking =>
        /\ position # "Done"
        /\ traversed \in 0 .. Limits.hdus_per_advance
        /\ \A i \in ImageHdus : ~(Base < i /\ i <= Passed)
        /\ IF pc = "walk" /\ pending # None
           THEN /\ pending.hdu = Passed + 1 /\ pos = pending.data_start
                /\ file.hdus[pending.hdu].at < length
           ELSE /\ Passed \in DOMAIN file.hdus /\ pos = After(file, Passed)
                /\ pc = "walk" => pos >= length

\* While an image is sat on the cursor has not passed the end of its data unit.
Parked ==
    position = "OnImage" /\ ~Walking /\ PaddedEnd(current) # None => pos <= PaddedEnd(current)

Walks == Selected /\ Positioned /\ Strides /\ Parked /\ EveryImageOnce

WInv == SInv /\ Capped /\ Walks

\* A row of a decode under way lies inside the data unit of its image (RowOffset, SamplesFit).
LEMMA RowInside ==
    ASSUME FilesConform, SInv, Selected, Positioned,
           pixels_started, pixels # None, pixels.next_file_row < RowsToDeliver
    PROVE  /\ FileRow \in Nat
           /\ PaddedEnd(current) # None =>
                 pixels.data_start + pixels.row_bytes * FileRow + pixels.row_bytes
                    <= PaddedEnd(current)
  <1> DEFINE g == header.geometry
             b == header.bytes
             r == Len(stream)
             end == PaddedEnd(current)
  <1>1. /\ g.width \in Nat /\ g.height \in Nat \ {0} /\ g.channels \in Nat
        /\ RowBytes \in Nat /\ RowsIn(selected_channel) \in Nat /\ r \in Nat
        /\ selected_channel \in Option(Nat) /\ current \in ParsedHdu
    BY DecodeTypes DEF SInv
  <1>2. /\ current # None /\ header.decline = None /\ g # None /\ b # None
        /\ header = BuildHeader(Cards(current), file.hdus[1].cards)
    BY DEF SInv, IInv, CallDiscipline, HeaderIsCurrents
  <1>3. pixels = [data_start |-> DataAt(current.hdu), row_bytes |-> RowBytes,
                  selected |-> selected_channel, next_file_row |-> r]
    BY <1>2 DEF SInv, Planned, Located
  <1>4. /\ r < RowsIn(selected_channel)
        /\ FileRow = UnitRow(selected_channel, r)
    BY <1>3 DEF RowsToDeliver, RowsIn, FileRow, UnitRow
  <1>5. b \in Nat /\ RowBytes = g.width * b
    BY <1>2, Decoding DEF SInv, Option, RowBytes
  <1> HIDE DEF g, b, r
  <1>6. FileRow \in Nat /\ FileRow + 1 <= g.height * g.channels
    <2>1. CASE selected_channel = None
      <3>1. FileRow = r /\ RowsIn(selected_channel) = g.height * g.channels
        BY <1>4, <2>1 DEF RowsIn, UnitRow, g
      <3> QED
        BY <1>1, <1>4, <3>1
    <2>2. CASE selected_channel # None
      <3>1. /\ FileRow = selected_channel * g.height + r
            /\ RowsIn(selected_channel) = g.height * 1
        BY <1>4, <2>2 DEF RowsIn, UnitRow, g
      <3>2. selected_channel \in Nat /\ selected_channel < g.channels
        BY <1>1, <2>2 DEF Selected, Option, g
      <3>3. \A s, c, h \in Nat : s < c => s * h + h <= c * h /\ s * h \in Nat /\ c * h \in Nat
        <4> SUFFICES ASSUME NEW s \in Nat, NEW c \in Nat, NEW h \in Nat, s < c
                     PROVE  s * h + h <= c * h /\ s * h \in Nat /\ c * h \in Nat
          OBVIOUS
        <4>1. s * h + h = (s + 1) * h
          OBVIOUS
        <4>2. \A m \in 0 .. c : m * h <= c * h
          OBVIOUS
        <4>3. s + 1 \in 0 .. c
          OBVIOUS
        <4> QED
          BY <4>1, <4>2, <4>3
      <3>4. /\ selected_channel * g.height + g.height <= g.channels * g.height
            /\ selected_channel * g.height \in Nat /\ g.channels * g.height \in Nat
        BY <1>1, <3>2, <3>3
      <3>5. r < g.height /\ g.height * g.channels = g.channels * g.height
        BY <1>1, <1>4, <3>1
      <3> QED
        BY <1>1, <3>1, <3>4, <3>5
    <2> QED
      BY <2>1, <2>2
  <1>7. ASSUME end # None
        PROVE  DataAt(current.hdu) + RowBytes * FileRow + RowBytes <= end
    <2>1. /\ end = DataAt(current.hdu) + DataUnitSize(Cards(current))
          /\ DataUnitSize(Cards(current)) \in Nat /\ DataAt(current.hdu) \in Nat
      <3>1. TypeOK /\ current.data_start = DataAt(current.hdu)
        BY <1>2 DEF SInv, IInv, Located
      <3> QED
        BY <1>1, <1>7, <3>1, PaddedEndIsNext DEF Cards
    <2>2. Gcount(Cards(current)) # 0
      BY <1>1, <1>2 DEF FilesConform, Conforming, SInv, IInv, TypeOK, Positioned, Cards, ParsedHdu
    <2>3. g.width * g.height * g.channels * b <= DataUnitSize(Cards(current))
      BY <1>2, <2>1, <2>2, NoneAssumption, SamplesFit DEF g, b
    <2>4. RowBytes * FileRow + RowBytes <= g.width * g.height * g.channels * b
      <3>1. \A m, n \in Nat : m * n \in Nat
        OBVIOUS
      <3>2. g.height * g.channels \in Nat
        BY <1>1, <3>1
      <3>3. RowBytes * FileRow + RowBytes = RowBytes * (FileRow + 1)
        BY <1>1, <1>6
      <3>4. \A k, m, n \in Nat : m <= n => k * m <= k * n
        OBVIOUS
      <3>5. RowBytes * (FileRow + 1) <= RowBytes * (g.height * g.channels)
        BY <1>1, <1>6, <3>2, <3>4
      <3>6. \A w, h, c, k \in Nat : (w * k) * (h * c) = w * h * c * k
        OBVIOUS
      <3>7. RowBytes * (g.height * g.channels) = g.width * g.height * g.channels * b
        BY <1>1, <1>5, <3>6
      <3> QED
        BY <3>3, <3>5, <3>7
    <2>5. RowBytes * FileRow + RowBytes \in Nat /\ g.width * g.height * g.channels * b \in Nat
          /\ RowBytes * FileRow \in Nat
      <3>1. \A m, n \in Nat : m * n \in Nat /\ m + n \in Nat
        OBVIOUS
      <3> QED
        BY <1>1, <1>5, <1>6, <3>1
    <2> QED
      BY <1>1, <2>1, <2>3, <2>4, <2>5
  <1> QED
    BY <1>3, <1>6, <1>7

-----------------------------------------------------------------------------
(* The calls, and the decoder's steps within an image.                     *)

\* What is known of the file and of the image sat on outlives a step that leaves them alone.
LEMMA SameImage ==
    ASSUME WInv, UNCHANGED <<file, current>>
    PROVE  /\ ImageHdus' = ImageHdus /\ Base' = Base
           /\ PaddedEnd(current)' = PaddedEnd(current)
           /\ \A i : After(file, i)' = After(file, i)
  BY DEF ImageHdus, ImagesOf, Base, PaddedEnd, UnitSize, After

\* The count of the images outlives a step that sits on none and does not end the walk in
\* good order.
LEMMA CountStands ==
    ASSUME WInv, UNCHANGED <<file, current, advances, length>>,
           position' = "Done" /\ ~broken' => UNCHANGED <<position, broken>>
    PROVE  EveryImageOnce'
  BY SameImage DEF WInv, Walks, EveryImageOnce, ImageHdus, ImagesOf

\* A channel selected stays one of the image's while both stand, and none is selected after
\* a reset.
LEMMA SelectionStands ==
    ASSUME WInv, \/ selected_channel' = None
                 \/ UNCHANGED <<header, selected_channel>>
    PROVE  Selected'
  BY DEF WInv, Walks, Selected

\* A call moves nothing the walk is about.
LEMMA CallWalks ==
    ASSUME WInv, pc = "idle", ~Walking', UNCHANGED <<sourceVars, header, decoderVars, advances>>,
           Selected'
    PROVE  Walks'
  <1> USE DEF sourceVars, decoderVars
  <1>1. EveryImageOnce'
    BY CountStands
  <1>2. Positioned' /\ Strides' /\ Parked'
    BY SameImage DEF WInv, Walks, Positioned, Strides, Parked, Walking, Cards
  <1> QED
    BY <1>1, <1>2 DEF Walks

\* The header shown has a geometry of the right type, or none.
LEMMA HeaderGeometry ==
    ASSUME IInv, header # None
    PROVE  header.geometry \in Option(Geometry)
  BY GeometryType DEF IInv, HeaderIsCurrents, BuildHeader

\* Every call of the reader, whatever it answers.
LEMMA CallsWalk ==
    ASSUME WInv, [Next]_vars, ~DecoderStep
    PROVE  Walks'
  <1> USE DEF Calls, Answers, Returns, readerVars, Walking
  <1>1. CASE Calls(NextImage)
    BY <1>1, CallWalks, SelectionStands DEF NextImage, ResetForNextImage
  <1>2. ASSUME NEW valid, Calls(SetBounds(valid))
        PROVE  Walks'
    BY <1>2, CallWalks, SelectionStands DEF SetBounds
  <1>3. ASSUME NEW k \in 0 .. MaxChannel, Calls(SelectChannel(k))
        PROVE  Walks'
    <2>1. Selected'
      <3>1. CASE selected_channel' = selected_channel
        BY <1>3, <3>1, SelectionStands
      <3>2. CASE selected_channel' # selected_channel
        <4>1. /\ header # None /\ header.geometry # None /\ ~(k >= header.geometry.channels)
              /\ selected_channel' = k /\ UNCHANGED header
          BY <1>3, <3>2 DEF SelectChannel
        <4>2. header.geometry.channels \in Nat /\ k \in Nat
          BY <4>1, HeaderGeometry, MaxChannelAssumption DEF WInv, SInv, Option, Geometry
        <4> QED
          BY <4>1, <4>2 DEF Selected
      <3> QED
        BY <3>1, <3>2
    <2> QED
      BY <1>3, <2>1, CallWalks DEF SelectChannel
  <1>4. CASE Calls(Chunks) \/ Calls(DropChunks)
    BY <1>4, CallWalks, SelectionStands DEF Chunks, DropChunks, Opens
  <1>5. CASE Calls(NextChunk)
    BY <1>5, CallWalks, SelectionStands DEF NextChunk, ChunkFails
  <1>6. CASE Calls(ForEachChunk)
    BY <1>6, CallWalks, SelectionStands DEF ForEachChunk, Opens
  <1>7. ASSUME NEW driver, NEW refusal, Calls(Decodes(driver, refusal))
        PROVE  Walks'
    BY <1>7, CallWalks, SelectionStands DEF Decodes, Opens
  <1>8. CASE UNCHANGED vars
    <2> USE <1>8 DEF vars, callVars, sourceVars, decoderVars
    <2>1. EveryImageOnce' /\ Selected'
      BY CountStands, SelectionStands
    <2>2. Positioned' /\ Strides' /\ Parked'
      BY SameImage DEF WInv, Walks, Positioned, Strides, Parked, Cards, Passed
    <2> QED
      BY <2>1, <2>2 DEF Walks
  <1> QED
    BY <1>1, <1>2, <1>3, <1>4, <1>5, <1>6, <1>7, <1>8 DEF Next, ReadSamples, ReadImage

\* A step of the pixel phase leaves the walk where it was, as long as it stays in the unit.
LEMMA PixelStepWalks ==
    ASSUME WInv, ~Walking, ~Walking', position # "Start" \/ pos' = pos,
           UNCHANGED <<file, current, pending, position, broken, advances, length>>,
           position = "OnImage" /\ PaddedEnd(current) # None => pos' <= PaddedEnd(current),
           Selected'
    PROVE  Walks'
  <1>1. EveryImageOnce'
    BY CountStands
  <1>2. Positioned' /\ Strides' /\ Parked'
    BY SameImage DEF WInv, Walks, Positioned, Strides, Parked, Cards
  <1> QED
    BY <1>1, <1>2 DEF Walks

\* A decode, or its end, has an image to be of: nothing is read before the first advance.
LEMMA ReadsAnImage ==
    ASSUME WInv, pixels_started \/ pc = "begin_pixels"
    PROVE  /\ current # None /\ current.data_start = DataAt(current.hdu)
           /\ position # "Start" /\ current \in ParsedHdu
  <1>1. current # None
    BY DEF WInv, SInv, IInv, CallDiscipline, HeaderIsCurrents
  <1> QED
    BY <1>1 DEF WInv, SInv, IInv, TypeOK, Located, Walks, Positioned, Option

\* The image under way given up: the cursor goes to its padded end, or stops short of it.
LEMMA AbandonWalks ==
    ASSUME FilesConform, WInv, Abandon
    PROVE  Walks'
  <1> USE DEF Abandon, AbandonReturns, ResetForNextImage, Answers, Returns, readerVars, walkVars
  <1>1. PICK o \in ConsumeCurrent : Moves(o) /\ AbandonReturns(o.res)
    OBVIOUS
  <1>2. pixels_started
    BY DEF WInv, SInv, IInv, CallDiscipline
  <1>3. TypeOK /\ ~Walking /\ ~Walking'
    BY <1>1 DEF WInv, SInv, IInv, Walking
  <1>4. position = "OnImage" /\ PaddedEnd(current) # None => pos' <= PaddedEnd(current)
    <2> SUFFICES ASSUME position = "OnImage", PaddedEnd(current) # None
                 PROVE  o.pos <= PaddedEnd(current)
      BY <1>1 DEF Moves
    <2>1. pos <= PaddedEnd(current)
      BY <1>3 DEF WInv, Walks, Parked
    <2> QED
      BY <1>2, <1>3, <2>1, ReadsAnImage, ConsumeCurrentLands
  <1>5. UNCHANGED <<length, advances>> /\ Selected'
    BY <1>1, SelectionStands DEF Moves
  <1> QED
    BY <1>2, <1>3, <1>4, <1>5, ReadsAnImage, PixelStepWalks

\* A decode begun: the cursor goes to the unit's first byte, or stays short of it.
LEMMA BeginPixelsWalks ==
    ASSUME FilesConform, WInv, BeginPixels
    PROVE  Walks'
  <1> USE DEF BeginPixels, BeginPixelsReturns, ChunkFails, Returns, walkVars
  <1>1. PICK o \in IF BeginRefusal = "ok" THEN SeekTo(current.data_start)
                   ELSE {Outcome(BeginRefusal, pos)} :
           Moves(o) /\ BeginPixelsReturns(o.res)
    OBVIOUS
  <1>2. TypeOK /\ SourceOK /\ ~Walking /\ ~Walking'
    BY <1>1, SourceTypes DEF WInv, SInv, IInv, Walking
  <1>3. current # None /\ current \in ParsedHdu /\ current.data_start = DataAt(current.hdu)
        /\ position # "Start"
    BY ReadsAnImage
  <1>4. position = "OnImage" /\ PaddedEnd(current) # None => pos' <= PaddedEnd(current)
    <2> SUFFICES ASSUME position = "OnImage", PaddedEnd(current) # None
                 PROVE  o.pos <= PaddedEnd(current)
      BY <1>1 DEF Moves
    <2>1. pos <= PaddedEnd(current)
      BY <1>2 DEF WInv, Walks, Parked
    <2>2. /\ current.data_start \in Nat /\ PaddedEnd(current) \in Nat
          /\ current.data_start <= PaddedEnd(current)
      BY <1>2, <1>3, PaddedEndIsNext
    <2>3. CASE BeginRefusal = "ok"
      BY <1>1, <1>2, <2>1, <2>2, <2>3, SeekToStops DEF SourceOK
    <2>4. CASE BeginRefusal # "ok"
      BY <1>1, <2>1, <2>4 DEF Outcome
    <2> QED
      BY <2>3, <2>4
  <1>5. UNCHANGED <<length, advances>> /\ Selected'
    BY <1>1, SelectionStands DEF Moves
  <1> QED
    BY <1>2, <1>3, <1>4, <1>5, PixelStepWalks

\* A row read, or not: what is read lies inside the unit.
LEMMA DeliverRowWalks ==
    ASSUME FilesConform, WInv, DeliverRow
    PROVE  Walks'
  <1> USE DEF DeliverRow, ChunkReturns, ChunkFails, Returns, readerVars, walkVars
  <1>1. PICK o \in ReadRow :
           /\ Moves(o)
           /\ IF o.res # "ok" THEN ChunkFails(o.res) ELSE ChunkReturns(ChunkOf(o.pos))
    OBVIOUS
  <1>2. /\ pixels_started /\ pixels # None /\ pixels.next_file_row < RowsToDeliver
        /\ TypeOK /\ SourceOK /\ ~Walking /\ ~Walking'
    BY <1>1, SourceTypes DEF WInv, SInv, IInv, CallDiscipline, Walking
  <1>3. current # None /\ current \in ParsedHdu /\ current.data_start = DataAt(current.hdu)
        /\ position # "Start"
    BY <1>2, ReadsAnImage
  <1>4. position = "OnImage" /\ PaddedEnd(current) # None => pos' <= PaddedEnd(current)
    <2> SUFFICES ASSUME position = "OnImage", PaddedEnd(current) # None
                 PROVE  o.pos <= PaddedEnd(current)
      BY <1>1 DEF Moves
    <2>1. pos <= PaddedEnd(current) /\ pos \in Nat
      BY <1>2 DEF WInv, Walks, Parked, SourceOK
    <2>2. PaddedEnd(current) \in Nat
      BY <1>2, <1>3, PaddedEndIsNext
    <2>3. /\ FileRow \in Nat
          /\ pixels.data_start + pixels.row_bytes * FileRow + pixels.row_bytes
                <= PaddedEnd(current)
      BY <1>2, RowInside DEF WInv, Walks
    <2>4. /\ o.pos \in Nat
          /\ \/ o.pos <= pos
             \/ o.pos <= pixels.data_start + pixels.row_bytes * FileRow + pixels.row_bytes
      BY <1>2, <2>3, ReadRowStops
    <2>5. pixels.data_start + pixels.row_bytes * FileRow + pixels.row_bytes \in Nat
      <3>1. pixels.row_bytes \in Nat /\ pixels.data_start \in Nat
        BY <1>2 DEF TypeOK, Option, PixelState
      <3>2. \A m, n \in Nat : m * n \in Nat
        OBVIOUS
      <3> QED
        BY <2>3, <3>1, <3>2
    <2> QED
      BY <2>1, <2>2, <2>3, <2>4, <2>5
  <1>5. UNCHANGED <<length, advances>> /\ Selected'
    BY <1>1, SelectionStands DEF Moves
  <1> QED
    BY <1>2, <1>3, <1>4, <1>5, PixelStepWalks

\* The end of an image answered: nothing moves.
LEMMA FinishImageWalks ==
    ASSUME WInv, FinishImage
    PROVE  Walks'
  <1> USE DEF FinishImage, ImageEnds, Returns, readerVars, walkVars, sourceVars
  <1>1. ~Walking /\ ~Walking' /\ Selected'
    BY SelectionStands DEF Walking
  <1>2. position = "OnImage" /\ PaddedEnd(current) # None => pos' <= PaddedEnd(current)
    BY <1>1 DEF WInv, Walks, Parked
  <1> QED
    BY <1>1, <1>2, PixelStepWalks

-----------------------------------------------------------------------------
(* The walk's own steps.                                                   *)

\* The walk runs with no channel selected.
LEMMA WalkSelectsNone ==
    ASSUME WInv, pc \in {"next_image", "walk", "read_next_hdu"}, UNCHANGED selected_channel
    PROVE  Selected'
  BY SelectionStands DEF WInv, SInv, IInv, CallDiscipline

\* An error ends the walk; what is sat on stays what it was (next_image).
LEMMA WalkFailureWalks ==
    ASSUME WInv, pc \in {"next_image", "walk", "read_next_hdu"}, NEW res, WalkFails(res),
           res # "true", UNCHANGED <<file, current, length>>
    PROVE  Walks'
  <1> USE DEF WalkFails, NextImageReturns, Returns, Walking
  <1>1. EveryImageOnce'
    BY CountStands
  <1>2. Positioned' /\ Strides' /\ Parked'
    BY SameImage DEF WInv, Walks, Positioned, Strides, Parked, Cards
  <1> QED
    BY <1>1, <1>2, WalkSelectsNone DEF Walks

\* After the end of source the walk answers so again.
LEMMA AfterTheEndWalks ==
    ASSUME WInv, AfterTheEnd
    PROVE  Walks'
  <1> USE DEF AfterTheEnd, NextImageReturns, Returns, Walking, walkVars, sourceVars
  <1>1. EveryImageOnce'
    BY CountStands
  <1>2. Positioned' /\ Strides' /\ Parked'
    BY SameImage DEF WInv, Walks, Positioned, Strides, Parked, Cards
  <1> QED
    BY <1>1, <1>2, WalkSelectsNone DEF Walks

\* The first advance sets out from the primary, whose data the constructor left ahead.
LEMMA FromTheStartWalks ==
    ASSUME FilesConform, WInv, FromTheStart
    PROVE  Walks'
  <1> USE DEF FromTheStart, Walking, sourceVars, readerVars
  <1>1. EveryImageOnce'
    BY CountStands
  <1>2. TypeOK /\ current = None /\ pending # None /\ pending.hdu = 1 /\ pos = pending.data_start
    BY DEF WInv, SInv, IInv, Walks, Positioned
  <1>3. Positioned' /\ Parked'
    BY <1>2 DEF Positioned, Parked
  <1>4. Strides'
    <2>1. Base' = 0 /\ Passed' = 0 /\ ImageHdus' = ImageHdus
      BY <1>2, SameImage DEF Base, Passed
    <2>2. ImageHdus \subseteq Nat
      BY <1>2, LaidOut DEF ImageHdus, ImagesOf
    <2>3. file.hdus[1].at < length
      <3>1. /\ file.hdus[1].at \in Nat /\ DataAt(1) \in Nat /\ length \in Nat
            /\ file.hdus[1].at < DataAt(1) /\ DataAt(1) <= length
        BY <1>2, LaidOut
      <3> QED
        BY <3>1
    <2>4. 0 \in 0 .. Limits.hdus_per_advance
      BY LimitsAssumption
    <2> QED
      BY <1>2, <2>1, <2>2, <2>3, <2>4 DEF Strides
  <1> QED
    BY <1>1, <1>3, <1>4, WalkSelectsNone DEF Walks

\* Every other advance sets out from the end of the image sat on.
LEMMA FromAnImageWalks ==
    ASSUME FilesConform, WInv, FromAnImage
    PROVE  Walks'
  <1> USE DEF FromAnImage
  <1>1. PICK o \in ConsumeCurrent :
           /\ Moves(o)
           /\ IF o.res # "ok" THEN WalkFails(o.res)
              ELSE /\ pc' = "read_next_hdu"
                   /\ UNCHANGED <<readerVars, cursor, ret, stream, position, broken>>
    OBVIOUS
  <1>2. TypeOK /\ current # None /\ current \in ParsedHdu /\ position = "OnImage"
        /\ current.data_start = DataAt(current.hdu)
    BY DEF WInv, SInv, IInv, TypeOK, Option, Walks, Positioned, Located
  <1>3. UNCHANGED <<file, current, length, seekable>> /\ pos' = o.pos
    BY <1>1 DEF Moves
  <1>4. CASE o.res # "ok"
    <2>1. o.res # "true"
      BY DEF ConsumeCurrent, Skip, SkipByReading, SeekAbsolute, ReadExact, IoWhileReading, Outcome
    <2> QED
      BY <1>1, <1>3, <1>4, <2>1, WalkFailureWalks
  <1>5. CASE o.res = "ok"
    <2> USE DEF readerVars, Walking
    <2>1. EveryImageOnce'
      BY <1>1, <1>3, <1>5, CountStands
    <2>2. Positioned' /\ Parked'
      BY <1>1, <1>2, <1>3, <1>5, SameImage DEF WInv, Walks, Positioned, Parked, Cards
    <2>3. Strides'
      <3>1. PaddedEnd(current) # None => pos <= PaddedEnd(current)
        BY <1>2 DEF WInv, Walks, Parked
      <3>2. o.pos = After(file, current.hdu)
        BY <1>2, <1>5, <3>1, ConsumeCurrentLands
      <3>3. current.hdu \in DOMAIN file.hdus /\ current.hdu \in Nat
        BY <1>2, LaidOut DEF ParsedHdu
      <3>4. /\ traversed' = 0 /\ Base' = current.hdu /\ Passed' = current.hdu
            /\ ImageHdus' = ImageHdus
        BY <1>2, <1>3, <3>3, SameImage DEF Base, Passed
      <3>5. ImageHdus \subseteq Nat /\ 0 \in 0 .. Limits.hdus_per_advance
        BY <1>2, LaidOut, LimitsAssumption DEF ImageHdus, ImagesOf
      <3>6. After(file, current.hdu)' = After(file, current.hdu)
        BY <1>3 DEF After
      <3> QED
        BY <1>1, <1>2, <1>3, <1>5, <3>2, <3>3, <3>4, <3>5 DEF Strides, After
    <2> QED
      BY <1>1, <1>5, <2>1, <2>2, <2>3, WalkSelectsNone DEF Walks
  <1> QED
    BY <1>4, <1>5

\* The header where the walk stands is read: the next HDU, or the end of the source.
LEMMA ReadNextHduWalks ==
    ASSUME FilesConform, WInv, ReadNextHdu
    PROVE  Walks'
  <1> USE DEF ReadNextHdu
  <1> DEFINE found == CHOOSE i \in DOMAIN file.hdus : file.hdus[i].at = pos
  <1>1. PICK o \in NextHdu :
           /\ Moves(o)
           /\ IF o.res \in {"ok", "end"}
              THEN /\ pending' = IF o.res = "end" THEN None
                                 ELSE [hdu |-> found, data_start |-> o.pos]
                   /\ pc' = "walk"
                   /\ UNCHANGED <<readerVars, cursor, ret, stream, position, broken>>
              ELSE WalkFails(o.res)
    OBVIOUS
  <1>2. /\ TypeOK /\ Passed \in DOMAIN file.hdus /\ pos = After(file, Passed)
        /\ position # "Done" /\ traversed \in 0 .. Limits.hdus_per_advance
        /\ \A i \in ImageHdus : ~(Base < i /\ i <= Passed)
    BY DEF WInv, SInv, IInv, Walks, Strides, Walking
  <1>3. UNCHANGED <<file, current, length, traversed>> /\ pos' = o.pos
    BY <1>1 DEF Moves
  <1>4. /\ o.res = "ok" =>
              /\ pos < length
              /\ Passed + 1 \in DOMAIN file.hdus /\ file.hdus[Passed + 1].at = pos
              /\ found = Passed + 1
        /\ o.res = "end" => o.pos = pos /\ pos >= length
    BY <1>2, NextHduFinds
  <1> HIDE DEF found
  <1>5. CASE o.res \notin {"ok", "end"}
    <2>1. o.res # "true"
      <3>1. \A i \in DOMAIN file.hdus : file.hdus[i].defect # "true"
        BY <1>2, FilesAssumption DEF TypeOK
      <3> QED
        BY <3>1 DEF NextHdu, NoHeaderRegion, HeaderRegion, ReadExact, IoWhileReading, Outcome
    <2> QED
      BY <1>1, <1>3, <1>5, <2>1, WalkFailureWalks
  <1>6. CASE o.res \in {"ok", "end"}
    <2> USE DEF readerVars, Walking
    <2>1. EveryImageOnce'
      BY <1>1, <1>3, <1>6, CountStands
    <2>2. Positioned' /\ Parked'
      BY <1>1, <1>3, <1>6, SameImage DEF WInv, Walks, Positioned, Parked, Cards
    <2>3. Passed' = Passed /\ Base' = Base /\ ImageHdus' = ImageHdus
      BY <1>3, SameImage DEF Passed
    <2>4. Strides'
      <3>1. CASE o.res = "ok"
        <4>1. pending' = [hdu |-> Passed + 1, data_start |-> pos'] /\ pc' = "walk"
          BY <1>1, <1>3, <1>4, <3>1
        <4>2. pending' # None
          <5>1. Passed + 1 \in Nat /\ pos' \in Nat
            <6>1. o.pos \in pos .. pos + BLOCK * HeaderCap
              BY <1>2, NextHduFinds
            <6>2. Passed + 1 \in DOMAIN file.hdus /\ DOMAIN file.hdus = 1 .. Len(file.hdus)
              BY <1>2, <1>4, <3>1, LaidOut
            <6>3. pos \in Nat /\ length \in Nat
              BY <1>2, SourceTypes DEF SourceOK
            <6>4. pos' = o.pos /\ BLOCK * HeaderCap \in Nat /\ Passed \in DOMAIN file.hdus
              BY <1>2, <1>3, HeaderCost
            <6> HIDE DEF Passed
            <6> QED
              BY <6>1, <6>2, <6>3, <6>4
          <5> QED
            BY <4>1, <5>1, NoHduAssumption
        <4> QED
          BY <1>1, <1>2, <1>3, <1>4, <1>6, <2>3, <3>1, <4>1, <4>2 DEF Strides
      <3>2. CASE o.res = "end"
        BY <1>1, <1>2, <1>3, <1>4, <1>6, <2>3, <3>2 DEF Strides, After
      <3> QED
        BY <1>6, <3>1, <3>2
    <2> QED
      BY <1>1, <1>6, <2>1, <2>2, <2>4, WalkSelectsNone DEF Walks
  <1> QED
    BY <1>5, <1>6

\* At the end of the source, every image it holds the beginning of has been reported.
LEMMA EndOfSourceWalks ==
    ASSUME FilesConform, WInv, EndOfSource
    PROVE  Walks'
  <1> USE DEF EndOfSource, NextImageReturns, Returns, Walking, sourceVars
  <1>1. /\ TypeOK /\ Passed \in DOMAIN file.hdus /\ pos = After(file, Passed) /\ pos >= length
        /\ traversed \in Nat /\ \A i \in ImageHdus : ~(Base < i /\ i <= Passed)
    BY DEF WInv, SInv, IInv, TypeOK, Walks, Strides
  <1>2. current # None => current \in ParsedHdu /\ file.hdus[current.hdu].at < length
    BY <1>1 DEF WInv, Walks, Positioned, TypeOK, Option
  <1>3. \A i \in ImageHdus : (current # None /\ i <= current.hdu) <=> file.hdus[i].at < length
    <2> TAKE i \in ImageHdus
    <2>1. /\ DOMAIN file.hdus \subseteq Nat /\ DOMAIN file.hdus = 1 .. Len(file.hdus)
          /\ Len(file.hdus) \in Nat /\ length \in Nat
          /\ \A j \in DOMAIN file.hdus : file.hdus[j].at \in Nat
          /\ \A j, k \in DOMAIN file.hdus : j < k => file.hdus[j].at < file.hdus[k].at
      BY <1>1, LaidOut
    <2>2. i \in DOMAIN file.hdus /\ Passed \in Nat
      BY <1>1, <2>1 DEF ImageHdus, ImagesOf
    <2>3. CASE i <= Passed
      <3>1. current # None /\ i <= current.hdu
        BY <1>1, <1>2, <2>1, <2>2, <2>3 DEF Base, Passed, ParsedHdu
      <3>2. current.hdu \in DOMAIN file.hdus
        BY <1>2, <3>1 DEF ParsedHdu
      <3>3. file.hdus[i].at <= file.hdus[current.hdu].at
        BY <2>1, <2>2, <3>1, <3>2
      <3> QED
        BY <1>2, <2>1, <2>2, <3>1, <3>2, <3>3
    <2>4. CASE ~(i <= Passed)
      <3>1. Passed + 1 \in DOMAIN file.hdus /\ Passed + 1 <= i
        BY <1>1, <2>1, <2>2, <2>4
      <3>2. file.hdus[Passed + 1].at <= file.hdus[i].at
        BY <2>1, <2>2, <3>1
      <3>3. file.hdus[Passed + 1].at = pos
        BY <1>1, <3>1 DEF After
      <3>4. ~(file.hdus[i].at < length)
        BY <1>1, <2>1, <2>2, <3>1, <3>2, <3>3
      <3>5. ~(current # None /\ i <= current.hdu)
        BY <1>1, <1>2, <2>1, <2>2, <2>4 DEF Base, Passed, ParsedHdu
      <3> QED
        BY <3>4, <3>5
    <2> QED
      BY <2>3, <2>4
  <1>4. EveryImageOnce'
    <2>1. {i \in ImageHdus : current # None /\ i <= current.hdu}
             = {i \in ImageHdus : file.hdus[i].at < length}
      BY <1>3
    <2>2. advances = Cardinality({i \in ImageHdus : current # None /\ i <= current.hdu})
      BY DEF WInv, Walks, EveryImageOnce
    <2>3. UNCHANGED <<file, current, advances, length>> /\ ImageHdus' = ImageHdus
      BY SameImage
    <2> QED
      BY <2>1, <2>2, <2>3 DEF EveryImageOnce
  <1>5. Positioned' /\ Strides' /\ Parked'
    BY SameImage DEF WInv, Walks, Positioned, Strides, Parked, Cards
  <1> QED
    BY <1>4, <1>5, WalkSelectsNone DEF Walks

\* The image reported is the next one: none stands between it and the one before.
LEMMA NextImageIsNext ==
    ASSUME FilesConform, WInv, pc = "walk", pending # None, IsImagePosition(Cards(pending))
    PROVE  /\ pending \in ParsedHdu /\ pending.hdu \in ImageHdus /\ pending.hdu = Passed + 1
           /\ IsFiniteSet({i \in ImageHdus : i <= pending.hdu})
           /\ Cardinality({i \in ImageHdus : i <= pending.hdu}) = advances + 1
  <1> DEFINE before == {i \in ImageHdus : current # None /\ i <= current.hdu}
             upto   == {i \in ImageHdus : i <= pending.hdu}
  <1>1. /\ TypeOK /\ pending \in ParsedHdu /\ pending.hdu = Passed + 1
        /\ traversed \in Nat /\ \A i \in ImageHdus : ~(Base < i /\ i <= Passed)
        /\ advances = Cardinality(before)
    BY DEF WInv, SInv, IInv, TypeOK, Option, Walks, Strides, Walking, EveryImageOnce
  <1>2. /\ DOMAIN file.hdus = 1 .. Len(file.hdus) /\ Len(file.hdus) \in Nat
        /\ pending.hdu \in DOMAIN file.hdus
        /\ current # None => current.hdu \in DOMAIN file.hdus
    BY <1>1, LaidOut DEF ParsedHdu, TypeOK, Option
  <1>3. ImageHdus \subseteq DOMAIN file.hdus /\ pending.hdu \in ImageHdus
    BY <1>2 DEF ImageHdus, ImagesOf, Cards
  <1>4. Base \in Nat /\ (current # None => Base = current.hdu) /\ (current = None => Base = 0)
    BY <1>2 DEF Base
  <1>5. upto = before \cup {pending.hdu} /\ pending.hdu \notin before
    <2>1. \A i \in ImageHdus : i \in Nat /\ i > 0
      BY <1>2, <1>3
    <2>2. \A i \in ImageHdus : i <= Base <=> current # None /\ i <= current.hdu
      BY <1>4, <2>1
    <2>3. \A i \in ImageHdus : i <= pending.hdu <=> i <= Base \/ i = pending.hdu
      <3>1. \A b, t \in Nat : \A i \in Nat :
               ~(b < i /\ i <= b + t) => (i <= b + t + 1 <=> i <= b \/ i = b + t + 1)
        OBVIOUS
      <3> QED
        BY <1>1, <1>4, <2>1, <3>1 DEF Passed
    <2>4. ~(pending.hdu <= Base)
      BY <1>1, <1>4 DEF Passed
    <2> QED
      BY <1>3, <2>2, <2>3, <2>4
  <1>6. IsFiniteSet(before)
    <2>1. IsFiniteSet(1 .. Len(file.hdus))
      BY <1>2, FS_Interval
    <2>2. before \subseteq 1 .. Len(file.hdus)
      BY <1>2, <1>3
    <2> QED
      BY <2>1, <2>2, FS_Subset
  <1>7. IsFiniteSet(upto) /\ Cardinality(upto) = Cardinality(before) + 1
    BY <1>5, <1>6, FS_AddElement
  <1> QED
    BY <1>1, <1>3, <1>7

\* An image position is sat on: one more is counted, and the cursor is at its data.
LEMMA SitOnImageWalks ==
    ASSUME FilesConform, WInv, SitOnImage
    PROVE  Walks'
  <1> USE DEF SitOnImage, NextImageReturns, Returns, Walking, sourceVars
  <1>1. /\ TypeOK /\ pos = pending.data_start /\ file.hdus[pending.hdu].at < length
        /\ position # "Done" /\ pending.data_start = DataAt(pending.hdu)
    BY DEF WInv, SInv, IInv, Walks, Strides, Located
  <1>2. /\ pending \in ParsedHdu
        /\ Cardinality({i \in ImageHdus : i <= pending.hdu}) = advances + 1
    BY NextImageIsNext
  <1>3. /\ UNCHANGED <<file, length, pos>> /\ current' = pending /\ pending # None
        /\ position' = "OnImage" /\ pc' = "idle" /\ advances' = advances + 1
    BY DEF NextImageReturns, Returns
  <1>4. EveryImageOnce'
    <2>1. ImageHdus' = ImageHdus
      BY <1>3 DEF ImageHdus, ImagesOf
    <2>2. {i \in ImageHdus : current' # None /\ i <= current'.hdu}
             = {i \in ImageHdus : i <= pending.hdu}
      BY <1>3
    <2> QED
      BY <1>2, <1>3, <2>1, <2>2 DEF EveryImageOnce
  <1>5. Positioned' /\ Strides'
    BY <1>1, <1>3 DEF Positioned, Strides, Cards
  <1>6. Parked'
    <2>1. PaddedEnd(current)' = PaddedEnd(pending)
      BY <1>3 DEF PaddedEnd, UnitSize
    <2>2. PaddedEnd(pending) # None => pos <= PaddedEnd(pending)
      <3> SUFFICES ASSUME PaddedEnd(pending) # None PROVE pos <= PaddedEnd(pending)
        OBVIOUS
      <3>1. /\ UnitSize(pending) \in Nat /\ pending.data_start \in Nat
            /\ PaddedEnd(pending) = pending.data_start + UnitSize(pending)
        BY <1>1, <1>2, PaddedEndIsNext
      <3> QED
        BY <1>1, <3>1
    <2> QED
      BY <1>3, <2>1, <2>2 DEF Parked
  <1> QED
    BY <1>4, <1>5, <1>6, WalkSelectsNone DEF Walks

\* An HDU that is no image position is counted and stepped over.
LEMMA StepOverWalks ==
    ASSUME FilesConform, WInv, StepOver
    PROVE  Walks'
  <1> USE DEF StepOver
  <1>1. PICK o \in IF traversed + 1 > Limits.hdus_per_advance
                   THEN {Outcome("LimitExceeded", pos)} ELSE SkipDataUnit :
           /\ Moves(o)
           /\ IF o.res # "ok" THEN WalkFails(o.res)
              ELSE /\ pc' = "read_next_hdu"
                   /\ UNCHANGED <<readerVars, cursor, ret, stream, position, broken>>
    OBVIOUS
  <1>2. /\ TypeOK /\ pending \in ParsedHdu /\ pending.hdu = Passed + 1
        /\ pos = pending.data_start /\ pending.data_start = DataAt(pending.hdu)
        /\ position # "Done" /\ traversed \in Nat
        /\ \A i \in ImageHdus : ~(Base < i /\ i <= Passed)
    BY DEF WInv, SInv, IInv, TypeOK, Option, Walks, Strides, Walking, Located
  <1>3. UNCHANGED <<file, current, length>> /\ pos' = o.pos
    BY <1>1 DEF Moves
  <1>4. CASE o.res # "ok"
    <2>1. o.res # "true"
      BY <1>1 DEF SkipDataUnit, Skip, SkipByReading, SeekAbsolute, ReadExact, IoWhileReading, Outcome
    <2> QED
      BY <1>1, <1>3, <1>4, <2>1, WalkFailureWalks
  <1>5. CASE o.res = "ok"
    <2> USE DEF readerVars, Walking
    <2>1. EveryImageOnce'
      BY <1>1, <1>3, <1>5, CountStands
    <2>2. Positioned' /\ Parked'
      BY <1>1, <1>3, <1>5, SameImage DEF WInv, Walks, Positioned, Parked, Cards
    <2>3. traversed + 1 <= Limits.hdus_per_advance /\ o \in SkipDataUnit
      <3>1. ~(traversed + 1 > Limits.hdus_per_advance)
        BY <1>1, <1>5 DEF Outcome
      <3> QED
        BY <1>1, <1>2, <3>1, LimitsAssumption
    <2>4. o.pos = After(file, pending.hdu)
      BY <1>2, <1>5, <2>3, SkipDataUnitLands
    <2>5. /\ pending.hdu \in DOMAIN file.hdus /\ DOMAIN file.hdus = 1 .. Len(file.hdus)
          /\ current # None => current.hdu \in DOMAIN file.hdus
      BY <1>2, LaidOut DEF ParsedHdu, TypeOK, Option
    <2>6. Base \in Nat /\ Base' = Base /\ ImageHdus' = ImageHdus /\ traversed' = traversed + 1
      BY <1>2, <1>3, <2>5, SameImage, LaidOut DEF Base
    <2>7. Passed' = pending.hdu
      BY <1>2, <2>6 DEF Passed
    <2>8. \A i \in ImageHdus : ~(Base < i /\ i <= pending.hdu)
      <3>1. ImageHdus \subseteq Nat /\ pending.hdu \notin ImageHdus
        BY <2>5 DEF ImageHdus, ImagesOf, Cards
      <3> QED
        BY <1>2, <2>6, <3>1 DEF Passed
    <2>9. Strides'
      BY <1>1, <1>2, <1>3, <1>5, <2>3, <2>4, <2>5, <2>6, <2>7, <2>8, LimitsAssumption
      DEF Strides, After
    <2> QED
      BY <1>1, <1>5, <2>1, <2>2, <2>9, WalkSelectsNone DEF Walks
  <1> QED
    BY <1>4, <1>5

-----------------------------------------------------------------------------
(* The theorems.                                                           *)

\* A reader just built stands at the primary's data (Reader::build).
LEMMA InitWInv == FilesConform /\ Init => WInv
  <1> SUFFICES ASSUME FilesConform, Init PROVE WInv
    OBVIOUS
  <1> USE DEF Init
  <1>1. SInv /\ TypeOK /\ Capped
    BY InitSInv DEF SInv, IInv, Capped
  <1>2. Positioned
    BY NoHduAssumption, <1>1, LaidOut DEF Positioned, Walking
  <1>3. Selected /\ Strides /\ Parked
    BY DEF Selected, Strides, Parked, Walking
  <1>4. EveryImageOnce
    <2>1. {i \in ImageHdus : current # None /\ i <= current.hdu} = {}
      OBVIOUS
    <2> QED
      BY <2>1, FS_EmptySet DEF EveryImageOnce
  <1> QED
    BY <1>1, <1>2, <1>3, <1>4 DEF WInv, Walks

\* No call and no step breaks WInv: it is inductive.
LEMMA NextWalks == FilesConform /\ WInv /\ [Next]_vars => WInv'
  <1> SUFFICES ASSUME FilesConform, WInv, [Next]_vars PROVE WInv'
    OBVIOUS
  <1>1. SInv' /\ Capped'
    BY NextSound, NextCapped DEF WInv
  <1>2. CASE ~DecoderStep
    BY <1>1, <1>2, CallsWalk DEF WInv
  <1>3. CASE DecoderStep
    <2>1. Walks'
      BY <1>3, AbandonWalks, AfterTheEndWalks, FromTheStartWalks, FromAnImageWalks,
         ReadNextHduWalks, EndOfSourceWalks, SitOnImageWalks, StepOverWalks,
         BeginPixelsWalks, DeliverRowWalks, FinishImageWalks DEF DecoderStep
    <2> QED
      BY <1>1, <2>1 DEF WInv
  <1> QED
    BY <1>2, <1>3

\* WInv holds throughout a session over files written as the standard says.
THEOREM WalkInvariance == ASSUME FilesConform PROVE Spec => []WInv
  <1>1. Init => WInv
    BY InitWInv
  <1>2. WInv /\ [Next]_vars => WInv'
    BY NextWalks
  <1> QED
    BY <1>1, <1>2, PTL DEF Spec

\* The walk reads a header only where one stands, whatever was read, dropped or retried of the
\* image before (consume_current, skip_data_unit).
THEOREM WalkIsAligned == ASSUME FilesConform PROVE Spec => []AlignedWalk
  <1>1. WInv => AlignedWalk
    <2> SUFFICES ASSUME WInv, pc = "read_next_hdu" PROVE pos \in HeaderOffsets
      BY DEF AlignedWalk
    <2>1. pos = After(file, Passed)
      BY DEF WInv, Walks, Strides, Walking
    <2> QED
      BY <2>1 DEF After, HeaderOffsets
  <1> QED
    BY <1>1, WalkInvariance, PTL

\* Every image position up to the current one was reported once, and a walk that ended in good
\* order reported every image the source holds (Decoder::next_image).
THEOREM ImagesAreReportedOnce == ASSUME FilesConform PROVE Spec => []EveryImageOnce
  <1>1. WInv => EveryImageOnce
    BY DEF WInv, Walks
  <1> QED
    BY <1>1, WalkInvariance, PTL


\* Leaving an image moves forward only, and no further than a skip may.
LEMMA ConsumeCurrentForward ==
    ASSUME TypeOK, NEW o \in ConsumeCurrent, ~seekable
    PROVE  o.pos \in pos .. pos + Limits.skipped_block_bytes
  <1>1. SourceOK /\ Limits.skipped_block_bytes \in Nat
    BY SourceTypes, LimitsAssumption
  <1>2. CASE o = Outcome("ok", pos) \/ o = Outcome("Malformed", pos)
    BY <1>1, <1>2 DEF Outcome, SourceOK
  <1>3. CASE ~(o = Outcome("ok", pos) \/ o = Outcome("Malformed", pos))
    <2>1. /\ current # None /\ PaddedEnd(current) # None /\ pos < PaddedEnd(current)
          /\ o \in Skip(PaddedEnd(current) - pos)
      BY <1>3 DEF ConsumeCurrent
    <2>2. PaddedEnd(current) - pos \in Nat
      BY <1>1, <2>1, PaddedEndFits DEF Option, U, SourceOK
    <2> QED
      BY <1>1, <2>1, <2>2, SkipStops DEF SourceOK
  <1> QED
    BY <1>2, <1>3

\* Reading the next header moves forward by no more than a header may cost, whatever stands at
\* the cursor (read_next_hdu).
LEMMA NextHduForward ==
    ASSUME TypeOK, NEW o \in NextHdu
    PROVE  o.pos \in pos .. pos + BLOCK * HeaderCap
  <1> DEFINE here == {j \in DOMAIN file.hdus : file.hdus[j].at = pos}
             cost == BLOCK * HeaderCap
  <1>1. SourceOK /\ cost \in Nat
    BY SourceTypes, HeaderCost
  <1>2. CASE pos >= length
    <2>1. o \in {Outcome("end", pos)} \cup IoWhileReading(pos, BLOCK)
      BY <1>2 DEF NextHdu
    <2>2. o.pos = pos
      BY <1>1, <1>2, <2>1, BlockAssumption DEF SourceOK, IoWhileReading, Outcome, Least, Greatest
    <2> HIDE DEF cost
    <2>3. o.pos \in pos .. pos + cost
      BY <1>1, <2>2 DEF SourceOK
    <2> QED
      BY <2>3 DEF cost
  <1>3. CASE pos < length /\ here = {}
    <2>1. o \in NoHeaderRegion
      BY <1>1, <1>3 DEF NextHdu, SourceOK
    <2>2. CASE o \in IoWhileReading(pos, cost)
      BY <1>1, <2>2, ReadExactStops DEF ReadExact, SourceOK
    <2>3. CASE o \notin IoWhileReading(pos, cost)
      <3>1. o.pos \in pos .. Least(length, pos + cost)
        BY <2>1, <2>3 DEF NoHeaderRegion, Outcome
      <3> HIDE DEF cost
      <3>2. o.pos \in pos .. pos + cost
        BY <1>1, <3>1 DEF SourceOK, Least
      <3> QED
        BY <3>2 DEF cost
    <2> QED
      BY <2>2, <2>3
  <1>4. CASE pos < length /\ here # {}
    <2>1. PICK j \in here : o \in HeaderRegion(j)
      BY <1>1, <1>4 DEF NextHdu, SourceOK
    <2> QED
      BY <2>1, HeaderRegionStops
  <1> QED
    BY <1>1, <1>2, <1>3, <1>4 DEF SourceOK

\* What a step over a source with no length reads: forward only, and no more than a skip and a
\* row, or a header.  Nothing is asked of the file: a data unit of no size, of a size that lies
\* or of no bytes at all costs no more.
LEMMA ReadsForward ==
    ASSUME SInv, Capped, DecoderStep, ~seekable
    PROVE  /\ pos' \in Nat /\ pos' >= pos
           /\ \/ pos' - pos <= Limits.skipped_block_bytes + Limits.materialized_bytes
              \/ pos' - pos <= Greatest(BLOCK, Limits.fits_header_bytes)
  <1> DEFINE skip == Limits.skipped_block_bytes
             row  == Limits.materialized_bytes
             head == Greatest(BLOCK, Limits.fits_header_bytes)
  <1>1. SourceOK /\ TypeOK /\ skip \in Nat /\ row \in Nat
    BY SourceTypes, LimitsAssumption DEF SInv, IInv
  <1> HIDE DEF skip, row, head
  <1>2. CASE UNCHANGED pos
    BY <1>1, <1>2 DEF SourceOK, skip, row
  <1>3. CASE Abandon \/ FromAnImage
    <2>1. PICK o \in ConsumeCurrent : Moves(o)
      BY <1>3 DEF Abandon, FromAnImage
    <2>2. o.pos \in pos .. pos + skip
      BY <1>1, <2>1, ConsumeCurrentForward DEF skip
    <2> QED
      BY <1>1, <2>1, <2>2 DEF Moves, SourceOK, skip, row
  <1>4. CASE ReadNextHdu
    <2>1. PICK o \in NextHdu : Moves(o)
      BY <1>4 DEF ReadNextHdu
    <2>3. o.pos \in pos .. pos + BLOCK * HeaderCap
      BY <1>1, <2>1, NextHduForward
    <2>4. BLOCK * HeaderCap \in Nat /\ BLOCK * HeaderCap <= head
      BY HeaderCost DEF head
    <2> HIDE DEF HeaderCap
    <2>5. head \in Nat
      BY LimitsAssumption, BlockAssumption DEF head, Greatest
    <2>6. \A a, b, c, d \in Nat : d \in a .. a + b /\ b <= c => d >= a /\ d - a <= c
      OBVIOUS
    <2>7. o.pos \in Nat
      BY <1>1, <2>3, <2>4 DEF SourceOK
    <2> QED
      BY <1>1, <2>1, <2>3, <2>4, <2>5, <2>6, <2>7 DEF Moves, SourceOK, head
  <1>5. CASE StepOver
    <2>1. PICK o \in IF traversed + 1 > Limits.hdus_per_advance
                     THEN {Outcome("LimitExceeded", pos)} ELSE SkipDataUnit : Moves(o)
      BY <1>5 DEF StepOver
    <2>2. pending \in ParsedHdu
      BY <1>1, <1>5 DEF StepOver, TypeOK, Option
    <2>3. o.pos \in Nat /\ o.pos >= pos /\ o.pos - pos <= skip
      <3>1. CASE o.pos = pos
        BY <1>1, <3>1 DEF SourceOK
      <3>2. CASE o.pos # pos
        <4>1. UnitSize(pending) # None /\ o \in Skip(UnitSize(pending))
          BY <2>1, <3>2 DEF SkipDataUnit, Outcome
        <4>2. UnitSize(pending) \in Nat
          BY <1>1, <2>2, <4>1, UnitSizeFits, MaxUAssumption DEF TypeOK, Option, U
        <4> QED
          BY <1>1, <4>1, <4>2, SkipStops DEF SourceOK, skip
      <3> QED
        BY <3>1, <3>2
    <2> QED
      BY <1>1, <2>1, <2>3 DEF Moves, SourceOK, skip, row
  <1>6. CASE BeginPixels
    <2>1. PICK o \in IF BeginRefusal = "ok" THEN SeekTo(current.data_start)
                     ELSE {Outcome(BeginRefusal, pos)} : Moves(o)
      BY <1>6 DEF BeginPixels
    <2>2. current.data_start \in Nat
      <3>1. current # None
        BY <1>6 DEF BeginPixels, SInv, IInv, CallDiscipline, HeaderIsCurrents
      <3> QED
        BY <1>1, <3>1 DEF TypeOK, Option, ParsedHdu
    <2>3. o.pos \in pos .. pos + skip
      BY <1>1, <2>1, <2>2, SeekToStops DEF Outcome, SourceOK, skip
    <2> QED
      BY <1>1, <2>1, <2>3 DEF Moves, SourceOK, skip, row
  <1>7. CASE DeliverRow
    <2>1. PICK o \in ReadRow : Moves(o)
      BY <1>7 DEF DeliverRow
    <2>2. /\ pixels_started /\ pixels # None
          /\ pixels.row_bytes = RowBytes /\ pixels.selected = selected_channel
      BY <1>7 DEF DeliverRow, SInv, IInv, CallDiscipline, Planned
    <2>3. FileRow \in Nat
      <3>1. header.geometry.height \in Nat /\ selected_channel \in Option(Nat)
        BY <2>2, DecodeTypes DEF SInv
      <3>2. pixels.next_file_row \in Nat
        BY <1>1, <2>2 DEF TypeOK, Option, PixelState
      <3> QED
        BY <2>2, <3>1, <3>2 DEF FileRow, Option
    <2>4. o.pos \in pos .. pos + skip + pixels.row_bytes
      BY <1>1, <2>1, <2>2, <2>3, ReadRowStops DEF skip
    <2>5. pixels.row_bytes \in Nat /\ pixels.row_bytes <= row
      BY <1>1, <2>2 DEF Capped, TypeOK, Option, PixelState, row
    <2> QED
      BY <1>1, <2>1, <2>4, <2>5 DEF Moves, SourceOK, skip, row
  <1> QED
    BY <1>2, <1>3, <1>4, <1>5, <1>6, <1>7
    DEF DecoderStep, AfterTheEnd, FromTheStart, EndOfSource, SitOnImage, FinishImage, sourceVars

\* Calls move nothing.
LEMMA CallsStandStill ==
    ASSUME [Next]_vars, ~DecoderStep
    PROVE  UNCHANGED <<pos, current>>
  BY DEF Next, Calls, vars, sourceVars, decoderVars

\* While the walk runs it has counted no more positions than the cap lets it.
Counted == Walking => traversed <= Limits.hdus_per_advance

\* The walk starts from a count of none and goes on from a position only within the cap
\* (next_image's loop).
LEMMA NextCounted ==
    ASSUME SInv, Counted, [Next]_vars
    PROVE  Counted'
  <1> USE DEF Counted, Walking
  <1>1. traversed \in Nat /\ Limits.hdus_per_advance \in Nat
    BY LimitsAssumption DEF SInv, IInv, TypeOK
  <1>2. CASE ~DecoderStep
    <2>1. UNCHANGED traversed
      BY <1>2 DEF Next, Calls, vars, decoderVars
    <2>2. Walking' => Walking
      BY <1>2 DEF Next, Calls, vars, callVars, NextImage, ResetForNextImage, SetBounds,
         SelectChannel, Chunks, DropChunks, NextChunk, ForEachChunk, ReadSamples, ReadImage,
         Decodes, Opens, ChunkFails, Answers, Returns
    <2> QED
      BY <2>1, <2>2
  <1>3. CASE FromTheStart \/ FromAnImage
    BY <1>1, <1>3 DEF FromTheStart, FromAnImage
  <1>4. CASE StepOver
    <2>1. CASE traversed + 1 > Limits.hdus_per_advance
      BY <1>4, <2>1 DEF StepOver, WalkFails, NextImageReturns, Returns, Outcome
    <2>2. CASE ~(traversed + 1 > Limits.hdus_per_advance)
      BY <1>1, <1>4, <2>2 DEF StepOver
    <2> QED
      BY <2>1, <2>2
  <1>5. CASE ReadNextHdu
    BY <1>5 DEF ReadNextHdu
  <1>6. CASE Abandon \/ AfterTheEnd \/ EndOfSource \/ SitOnImage
    BY <1>6 DEF Abandon, AbandonReturns, ResetForNextImage, Answers, AfterTheEnd, EndOfSource,
       SitOnImage, NextImageReturns, Returns
  <1>7. CASE BeginPixels \/ DeliverRow \/ FinishImage
    BY <1>7 DEF BeginPixels, BeginPixelsReturns, DeliverRow, FinishImage, ChunkReturns, ChunkFails,
       ImageEnds, Returns
  <1> QED
    BY <1>2, <1>3, <1>4, <1>5, <1>6, <1>7 DEF DecoderStep

\* An image is sat on by one step alone.
LEMMA SittingMoves ==
    ASSUME [Next]_vars, current' # current
    PROVE  SitOnImage
  BY CallsStandStill DEF DecoderStep, Abandon, AfterTheEnd, FromTheStart, FromAnImage,
     ReadNextHdu, EndOfSource, StepOver, BeginPixels, DeliverRow, FinishImage, walkVars

\* One advance steps over no more positions than the cap, and no step over a source with no
\* length goes back or reads more than a skip and a row, or a header, may cost.  It holds of
\* every file: of one whose data units lie about their size, of one whose GCOUNT is 0, of one
\* that is no FITS file after its primary header (Decoder::next_image, Sequential::skip).
THEOREM StepsAreBounded == Spec => [][BoundedStep]_vars
  <1>1. Init => Capped /\ Counted
    BY DEF Init, Capped, Counted, Walking
  <1>2. SInv /\ Capped /\ Counted /\ [Next]_vars => (Capped /\ Counted)'
    BY NextCapped, NextCounted
  <1>3. ASSUME SInv, Capped, Counted, [Next]_vars
        PROVE  BoundedStep
    <2>1. current' # current => traversed <= Limits.hdus_per_advance
      BY <1>3, SittingMoves DEF SitOnImage, Counted, Walking
    <2>2. ASSUME ~seekable
          PROVE  pos' - pos \in
                    0 .. Limits.skipped_block_bytes +
                         Greatest(Greatest(BLOCK, Limits.fits_header_bytes),
                                  Limits.materialized_bytes)
      <3>1. SourceOK /\ Limits \in [fits_header_bytes : Nat, hdus_per_advance : Nat,
                                    total_samples : Nat, decoded_output_bytes : Nat,
                                    materialized_bytes : Nat, skipped_block_bytes : Nat,
                                    images_per_source : Nat]
        BY <1>3, SourceTypes, LimitsAssumption DEF SInv, IInv
      <3>2. /\ pos' \in Nat /\ pos' >= pos
            /\ \/ pos' - pos <= Limits.skipped_block_bytes + Limits.materialized_bytes
               \/ pos' - pos <= Greatest(BLOCK, Limits.fits_header_bytes)
        <4>1. CASE DecoderStep
          BY <1>3, <2>2, <4>1, ReadsForward
        <4>2. CASE ~DecoderStep
          BY <1>3, <3>1, <4>2, CallsStandStill DEF SourceOK
        <4> QED
          BY <4>1, <4>2
      <3>3. \A p, q, s, h, r \in Nat :
               q >= p /\ (q - p <= s + r \/ q - p <= h) => q - p \in 0 .. s + Greatest(h, r)
        BY DEF Greatest
      <3>4. Greatest(BLOCK, Limits.fits_header_bytes) \in Nat
        BY <3>1, BlockAssumption DEF Greatest
      <3> QED
        BY <3>1, <3>2, <3>3, <3>4 DEF SourceOK
    <2> QED
      BY <2>1, <2>2 DEF BoundedStep
  <1>4. Spec => [](Capped /\ Counted)
    BY <1>1, <1>2, SoundInvariance, PTL DEF Spec
  <1> QED
    BY <1>3, <1>4, SoundInvariance, PTL DEF Spec

\* Of a file laid out as the standard says, an advance moreover passes no more of the HDUs that
\* really stand between two images than the cap: what the walk counts is what the file has.
THEOREM AdvancesAreBounded == ASSUME FilesConform PROVE Spec => BoundedAdvance
  <1> DEFINE passes ==
               current' # current =>
                  LET before == IF current = None THEN 0 ELSE current.hdu
                  IN  current'.hdu - before - 1 \in 0 .. Limits.hdus_per_advance
  <1>1. ASSUME WInv, [Next]_vars
        PROVE  passes
    <2> SUFFICES ASSUME current' # current
                 PROVE  current'.hdu - Base - 1 \in 0 .. Limits.hdus_per_advance
      BY DEF Base
    <2>1. SitOnImage
      BY <1>1, SittingMoves
    <2>2. /\ current' = pending /\ pending.hdu = Passed + 1
          /\ traversed \in 0 .. Limits.hdus_per_advance
      BY <1>1, <2>1 DEF SitOnImage, WInv, Walks, Strides, Walking
    <2>3. Base \in Nat
      <3>1. TypeOK
        BY <1>1 DEF WInv, SInv, IInv
      <3>2. current # None => current.hdu \in DOMAIN file.hdus
        BY <3>1 DEF TypeOK, Option, ParsedHdu
      <3> QED
        BY <3>1, <3>2, LaidOut DEF Base
    <2> QED
      BY <2>2, <2>3, LimitsAssumption DEF Passed
  <1> QED
    BY <1>1, StepsAreBounded, WalkInvariance, PTL DEF BoundedAdvance, Spec

-----------------------------------------------------------------------------
(* The refinement: what each step of the session does to the promise.      *)

\* The promise sees nothing of a step that leaves these alone.
LEMMA PromiseStutters ==
    ASSUME UNCHANGED <<file, advances, position, selected_channel, phase, pixels_failed, stream>>
    PROVE  UNCHANGED Session!vars
  BY DEF Session!vars

\* Going to the next image clears what the one before left: a step of the promise.
LEMMA PromiseLeaves ==
    ASSUME UNCHANGED <<file, advances, position>>, selected_channel' = None, phase' = "header",
           pixels_failed' = FALSE, stream' = <<>>
    PROVE  Session!Next
  BY DEF Session!Next, Session!Leave

\* An image advanced to is one frame further, with frames left to advance to.
LEMMA PromiseAdvances ==
    ASSUME UNCHANGED <<file, selected_channel, phase, pixels_failed, stream>>,
           advances < Len(Frames[file]), advances' = advances + 1,
           position # "Done", position' # "Done", phase = "header"
    PROVE  Session!Next
  BY DEF Session!Next, Session!Advance

\* The end of the file is the end of the frames.
LEMMA PromiseEnds ==
    ASSUME UNCHANGED <<file, advances, selected_channel, phase, pixels_failed, stream>>,
           position # "Done", position' = "Done", phase = "header"
    PROVE  Session!Next
  BY DEF Session!Next, Session!End

\* A channel is selected outside a pixel phase.
LEMMA PromiseSelects ==
    ASSUME UNCHANGED <<file, advances, position, phase, pixels_failed, stream>>,
           selected_channel' \in Nat, phase # "pixel"
    PROVE  Session!Next
  BY DEF Session!Next, Session!Select

\* A cursor opens with nothing delivered.
LEMMA PromiseOpens ==
    ASSUME UNCHANGED <<file, advances, position, selected_channel>>,
           phase' = "pixel", pixels_failed' \in BOOLEAN, stream' = <<>>
    PROVE  Session!Next
  BY DEF Session!Next, Session!Open

\* A cursor fails with what it delivered as it was.
LEMMA PromiseFails ==
    ASSUME UNCHANGED <<file, advances, position, selected_channel, phase, stream>>,
           phase = "pixel", pixels_failed = FALSE, pixels_failed' = TRUE
    PROVE  Session!Next
  BY DEF Session!Next, Session!Fail

\* A chunk delivered is the next of the frame under the selection.
LEMMA PromiseDelivers ==
    ASSUME UNCHANGED <<file, advances, position, selected_channel, phase, pixels_failed>>,
           phase = "pixel", pixels_failed = FALSE, advances > 0,
           selected_channel \in DOMAIN Frames[file][advances],
           Len(stream) < Len(Frames[file][advances][selected_channel]),
           stream' = Append(stream, Frames[file][advances][selected_channel][Len(stream) + 1])
    PROVE  Session!Next
  BY DEF Session!Next, Session!Deliver

\* The images of a file are finitely many of its HDUs.
LEMMA ImagesAreFinite ==
    ASSUME FilesConform, TypeOK
    PROVE  /\ IsFiniteSet(ImageHdus)
           /\ ImageHdus \subseteq 1 .. Len(file.hdus) /\ Len(file.hdus) \in Nat
  <1>1. ImageHdus \subseteq 1 .. Len(file.hdus) /\ Len(file.hdus) \in Nat
    BY LaidOut DEF ImageHdus, ImagesOf
  <1>2. IsFiniteSet(1 .. Len(file.hdus))
    BY <1>1, FS_Interval
  <1> QED
    BY <1>1, <1>2, FS_Subset

\* The images up to one of them are fewer than those up to a later one, so the number of an
\* image in its file tells it from the others.
LEMMA NumberTells ==
    ASSUME FilesConform, TypeOK,
           NEW i \in ImageHdus, NEW k \in ImageHdus,
           Cardinality({j \in ImageHdus : j <= i}) = Cardinality({j \in ImageHdus : j <= k})
    PROVE  i = k
  <1>1. IsFiniteSet(ImageHdus) /\ ImageHdus \subseteq Nat
    BY ImagesAreFinite
  <1>2. ASSUME NEW p \in ImageHdus, NEW q \in ImageHdus, p < q,
               Cardinality({j \in ImageHdus : j <= p}) = Cardinality({j \in ImageHdus : j <= q})
        PROVE  FALSE
    <2> DEFINE P == {j \in ImageHdus : j <= p}
               Q == {j \in ImageHdus : j <= q}
    <2>1. P \in SUBSET Q /\ q \in Q /\ q \notin P
      <3>1. p \in Nat /\ q \in Nat /\ \A j \in ImageHdus : j \in Nat
        BY <1>1
      <3>2. \A j \in ImageHdus : j <= p => j <= q
        BY <1>2, <3>1
      <3>3. q <= q /\ ~(q <= p)
        BY <1>2, <3>1
      <3> QED
        BY <3>2, <3>3
    <2>2. IsFiniteSet(Q)
      BY <1>1, FS_Subset
    <2>3. Cardinality(P) = Cardinality(Q)
      BY <1>2
    <2> HIDE DEF P, Q
    <2>4. Q = P
      BY <2>1, <2>2, <2>3, FS_Subset
    <2> QED
      BY <2>1, <2>4
  <1>3. i < k \/ k < i \/ i = k
    BY <1>1
  <1> QED
    BY <1>2, <1>3

\* The frame the promise has its caller sit on is the current image: its chunks, for the
\* selections it has.
LEMMA FrameOfCurrent ==
    ASSUME FilesConform, WInv, current # None
    PROVE  /\ advances > 0
           /\ Frames[file][advances] =
                 LET h == BuildHeader(Cards(current), file.hdus[1].cards) IN
                 [s \in IF h.decline # None THEN {} ELSE Option(0 .. h.geometry.channels - 1) |->
                     ChunksOf(current.hdu, s)]
  <1> DEFINE upto(i) == {j \in ImageHdus : j <= i}
             h(i)    == BuildHeader(file.hdus[i].cards, file.hdus[1].cards)
             chunked(i) ==
               [s \in IF h(i).decline # None THEN {} ELSE Option(0 .. h(i).geometry.channels - 1) |->
                   ChunksIn(file, i, s)]
             hdu(n) == CHOOSE i \in ImageHdus : Cardinality(upto(i)) = n
  <1>1. TypeOK /\ file \in Files /\ IsImagePosition(Cards(current)) /\ current \in ParsedHdu
    BY DEF WInv, SInv, IInv, TypeOK, Walks, Positioned, Option
  <1>2. current.hdu \in ImageHdus /\ current.hdu \in DOMAIN file.hdus
    BY <1>1 DEF ImageHdus, ImagesOf, Cards, ParsedHdu
  <1>3. /\ ImageHdus \subseteq 1 .. Len(file.hdus) /\ Len(file.hdus) \in Nat
        /\ IsFiniteSet(ImageHdus)
    BY <1>1, ImagesAreFinite
  <1>4. advances = Cardinality(upto(current.hdu))
    <2>1. upto(current.hdu) = {i \in ImageHdus : current # None /\ i <= current.hdu}
      OBVIOUS
    <2> QED
      BY <2>1 DEF WInv, Walks, EveryImageOnce
  <1>5. hdu(advances) = current.hdu
    <2>1. \A i \in ImageHdus : Cardinality(upto(i)) = advances => i = current.hdu
      BY <1>1, <1>2, <1>4, NumberTells
    <2> QED
      BY <1>2, <1>4, <2>1
  <1>6. advances \in 1 .. Cardinality(ImageHdus)
    <2>1. upto(current.hdu) \in SUBSET ImageHdus /\ current.hdu \in upto(current.hdu)
      BY <1>2, <1>3
    <2>2. /\ IsFiniteSet(upto(current.hdu))
          /\ Cardinality(upto(current.hdu)) <= Cardinality(ImageHdus)
      BY <1>3, <2>1, FS_Subset
    <2>3. Cardinality(upto(current.hdu)) # 0
      BY <2>1, <2>2, FS_EmptySet
    <2>4. Cardinality(upto(current.hdu)) \in Nat /\ Cardinality(ImageHdus) \in Nat
      BY <1>3, <2>2, FS_CardinalityType
    <2> QED
      BY <1>4, <2>2, <2>3, <2>4
  <1>7. Frames[file] = [n \in 1 .. Cardinality(ImageHdus) |-> chunked(hdu(n))]
    BY <1>1 DEF Frames, FramesIn, ImageHdus
  <1>8. Frames[file][advances] = chunked(current.hdu)
    <2> HIDE DEF hdu, chunked
    <2> QED
      BY <1>5, <1>6, <1>7
  <1> QED
    BY <1>6, <1>8 DEF ChunksOf, Cards

\* What each public call is to the promise.
LEMMA CallsKeepThePromise ==
    ASSUME WInv, Next, ~DecoderStep
    PROVE  [Session!Next]_(Session!vars)
  <1> USE DEF Calls, Answers, Returns, readerVars, decoderVars
  <1>1. /\ phase \in {"header", "pixel"} /\ pixels_failed \in BOOLEAN
        /\ cursor # "none" => phase = "pixel"
    BY DEF WInv, SInv, IInv, TypeOK, CallDiscipline
  <1>2. CASE Calls(NextImage)
    BY <1>2, PromiseStutters, PromiseLeaves DEF NextImage, ResetForNextImage
  <1>3. ASSUME NEW valid, Calls(SetBounds(valid))
        PROVE  [Session!Next]_(Session!vars)
    BY <1>3, PromiseStutters DEF SetBounds
  <1>4. ASSUME NEW k \in 0 .. MaxChannel, Calls(SelectChannel(k))
        PROVE  [Session!Next]_(Session!vars)
    <2>1. k \in Nat
      BY MaxChannelAssumption
    <2> QED
      BY <1>4, <2>1, PromiseStutters, PromiseSelects DEF SelectChannel
  <1>5. CASE Calls(Chunks)
    BY <1>5, PromiseOpens DEF Chunks, Opens
  <1>6. CASE Calls(DropChunks)
    BY <1>6, PromiseStutters DEF DropChunks
  <1>7. CASE Calls(NextChunk)
    <2>1. CASE UNCHANGED readerVars
      BY <1>7, <2>1, PromiseStutters DEF NextChunk, ChunkFails
    <2>2. CASE ~UNCHANGED readerVars
      <3>1. phase = "pixel" /\ pixels_failed = FALSE /\ pixels_failed' = TRUE
        BY <1>1, <1>7, <2>2 DEF NextChunk, ChunkFails
      <3>2. UNCHANGED <<file, advances, position, selected_channel, phase, stream>>
        BY <1>7 DEF NextChunk, ChunkFails
      <3> QED
        BY <3>1, <3>2, PromiseFails
    <2> QED
      BY <2>1, <2>2
  <1>8. CASE Calls(ForEachChunk)
    BY <1>8, PromiseOpens DEF ForEachChunk, Opens
  <1>9. ASSUME NEW driver, NEW refusal, Calls(Decodes(driver, refusal))
        PROVE  [Session!Next]_(Session!vars)
    BY <1>9, PromiseStutters, PromiseOpens DEF Decodes, Opens
  <1> QED
    BY <1>2, <1>3, <1>4, <1>5, <1>6, <1>7, <1>8, <1>9 DEF Next, ReadSamples, ReadImage

\* What each step of the walk is: only a position sat on is an advance, only an answer of no
\* more images, or an error, is the end.
LEMMA WalkKeepsThePromise ==
    ASSUME FilesConform, WInv,
           \/ AfterTheEnd \/ FromTheStart \/ FromAnImage \/ ReadNextHdu
           \/ EndOfSource \/ SitOnImage \/ StepOver
    PROVE  [Session!Next]_(Session!vars)
  <1>1. pc \in {"next_image", "walk", "read_next_hdu"} => phase = "header"
    BY DEF WInv, SInv, IInv, CallDiscipline
  <1>2. pc \in {"walk", "read_next_hdu"} => position # "Done"
    BY DEF WInv, Walks, Strides, Walking
  <1>3. ASSUME NEW res, WalkFails(res), res # "true", phase = "header", position # "Done",
               UNCHANGED file
        PROVE  Session!Next
    BY <1>3, PromiseEnds DEF WalkFails, NextImageReturns
  <1>4. CASE AfterTheEnd \/ FromTheStart
    BY <1>4, PromiseStutters DEF AfterTheEnd, FromTheStart, NextImageReturns, walkVars, readerVars
  <1>5. CASE FromAnImage \/ ReadNextHdu \/ StepOver
    <2>1. UNCHANGED file /\ phase = "header" /\ position # "Done"
      BY <1>1, <1>2, <1>5 DEF FromAnImage, ReadNextHdu, StepOver
    <2>2. \/ \E res : res # "true" /\ WalkFails(res)
          \/ UNCHANGED <<readerVars, stream, position>>
      <3>1. CASE FromAnImage
        <4>1. \A o \in ConsumeCurrent : o.res # "true"
          BY DEF ConsumeCurrent, Skip, SkipByReading, SeekAbsolute, ReadExact, IoWhileReading, Outcome
        <4> QED
          BY <3>1, <4>1 DEF FromAnImage
      <3>2. CASE ReadNextHdu
        <4>1. \A i \in DOMAIN file.hdus : file.hdus[i].defect # "true"
          BY FilesAssumption DEF WInv, SInv, IInv, TypeOK
        <4>2. \A o \in NextHdu : o.res # "true"
          BY <4>1 DEF NextHdu, NoHeaderRegion, HeaderRegion, ReadExact, IoWhileReading, Outcome
        <4> QED
          BY <3>2, <4>2 DEF ReadNextHdu
      <3>3. CASE StepOver
        <4>1. /\ Outcome("LimitExceeded", pos).res # "true"
              /\ \A o \in SkipDataUnit : o.res # "true"
          BY DEF SkipDataUnit, Skip, SkipByReading, SeekAbsolute, ReadExact, IoWhileReading, Outcome
        <4> QED
          BY <3>3, <4>1 DEF StepOver
      <3> QED
        BY <1>5, <3>1, <3>2, <3>3
    <2> QED
      BY <1>3, <2>1, <2>2, PromiseStutters DEF readerVars
  <1>6. CASE EndOfSource
    BY <1>1, <1>2, <1>6, PromiseEnds DEF EndOfSource, NextImageReturns
  <1>7. CASE SitOnImage
    <2>1. /\ pc = "walk" /\ pending # None /\ IsImagePosition(Cards(pending)) /\ TypeOK
          /\ phase = "header" /\ position # "Done"
      BY <1>1, <1>2, <1>7 DEF SitOnImage, WInv, SInv, IInv
    <2>2. advances < Len(Frames[file])
      <3>1. Cardinality({i \in ImageHdus : i <= pending.hdu}) = advances + 1
        BY <2>1, NextImageIsNext
      <3>2. IsFiniteSet(ImageHdus) /\ {i \in ImageHdus : i <= pending.hdu} \in SUBSET ImageHdus
        BY <2>1, ImagesAreFinite
      <3>3. Cardinality({i \in ImageHdus : i <= pending.hdu}) <= Cardinality(ImageHdus)
        BY <3>2, FS_Subset
      <3>4. Cardinality(ImageHdus) \in Nat /\ advances \in Nat
        BY <2>1, <3>2, FS_CardinalityType DEF TypeOK
      <3>5. Len(Frames[file]) = Cardinality(ImageHdus)
        BY <2>1, <3>4 DEF Frames, FramesIn, ImageHdus, TypeOK
      <3> QED
        BY <3>1, <3>3, <3>4, <3>5
    <2> QED
      BY <1>7, <2>1, <2>2, PromiseAdvances DEF SitOnImage, NextImageReturns
  <1> QED
    BY <1>4, <1>5, <1>6, <1>7

\* What each step within an image is: every chunk delivered is the next one promised.
LEMMA PixelsKeepThePromise ==
    ASSUME FilesConform, WInv, Abandon \/ BeginPixels \/ DeliverRow \/ FinishImage
    PROVE  [Session!Next]_(Session!vars)
  <1> USE DEF readerVars, walkVars, Answers, Returns
  <1>1. /\ pc \in {"begin_pixels", "next_chunk"} => phase = "pixel" /\ pixels_failed = FALSE
        /\ pc = "next_chunk" => pixels_started
    BY DEF WInv, SInv, IInv, TypeOK, CallDiscipline
  <1>2. ASSUME NEW res, ChunkFails(res), pc \in {"begin_pixels", "next_chunk"},
               UNCHANGED <<file, position>>
        PROVE  Session!Next
    BY <1>1, <1>2, PromiseFails DEF ChunkFails
  <1>3. CASE Abandon
    BY <1>3, PromiseStutters, PromiseLeaves DEF Abandon, AbandonReturns, ResetForNextImage
  <1>4. CASE BeginPixels
    BY <1>2, <1>4, PromiseStutters DEF BeginPixels, BeginPixelsReturns
  <1>5. CASE FinishImage
    BY <1>5, PromiseStutters DEF FinishImage, ImageEnds
  <1>6. CASE DeliverRow
    <2>1. PICK o \in ReadRow : IF o.res # "ok" THEN ChunkFails(o.res) ELSE ChunkReturns(ChunkOf(o.pos))
      BY <1>6 DEF DeliverRow
    <2>2. /\ pc = "next_chunk" /\ pixels # None /\ pixels.next_file_row < RowsToDeliver
          /\ UNCHANGED <<file, position>> /\ pixels_started /\ current # None
      BY <1>1, <1>6, ReadsAnImage DEF DeliverRow
    <2>3. CASE o.res # "ok"
      BY <1>2, <2>1, <2>2, <2>3
    <2>4. CASE o.res = "ok"
      <3> DEFINE chunks == ChunksOf(current.hdu, selected_channel)
      <3>1. /\ Len(stream) + 1 \in 1 .. RowsIn(selected_channel)
            /\ ChunkOf(o.pos) = chunks[Len(stream) + 1]
        BY <2>2, <2>4, NextChunkIsRight DEF WInv
      <3>2. Len(chunks) = RowsIn(selected_channel) /\ RowsIn(selected_channel) \in Nat
            /\ Len(stream) \in Nat /\ selected_channel \in Option(Nat)
            /\ header.geometry.channels \in Nat
        BY <2>2, ChunksOfCurrent, DecodeTypes DEF WInv, SInv
      <3>3. advances > 0 /\ selected_channel \in DOMAIN Frames[file][advances]
            /\ Frames[file][advances][selected_channel] = chunks
        <4>1. /\ header = BuildHeader(Cards(current), file.hdus[1].cards)
              /\ header.decline = None /\ header.geometry # None
          BY <2>2 DEF WInv, SInv, IInv, CallDiscipline, HeaderIsCurrents
        <4>2. selected_channel \in Option(0 .. header.geometry.channels - 1)
          BY <3>2, <4>1 DEF WInv, Walks, Selected, Option
        <4> HIDE DEF chunks
        <4>3. /\ advances > 0
              /\ Frames[file][advances] =
                    [s \in Option(0 .. header.geometry.channels - 1) |-> ChunksOf(current.hdu, s)]
          BY <2>2, <4>1, FrameOfCurrent
        <4> QED
          BY <4>2, <4>3 DEF chunks
      <3>4. UNCHANGED readerVars /\ stream' = Append(stream, ChunkOf(o.pos))
        BY <2>1, <2>4 DEF ChunkReturns
      <3>5. Len(stream) < Len(chunks)
        BY <3>1, <3>2
      <3> HIDE DEF chunks
      <3> QED
        BY <1>1, <2>2, <3>1, <3>3, <3>4, <3>5, PromiseDelivers
    <2> QED
      BY <2>3, <2>4
  <1> QED
    BY <1>3, <1>4, <1>5, <1>6

\* The FITS reader keeps the promise: over files written as the standard says, every session is
\* one of FrameSession's, frame for frame and chunk for chunk.
THEOREM ReaderKeepsThePromise == ASSUME FilesConform PROVE Spec => KeepsThePromise
  <1>1. Init => Session!Init
    BY DEF Init, Session!Init
  <1>2. ASSUME WInv, [Next]_vars
        PROVE  [Session!Next]_(Session!vars)
    <2>1. CASE UNCHANGED vars
      BY <2>1, PromiseStutters DEF vars, readerVars, callVars, decoderVars
    <2>2. CASE Next /\ ~DecoderStep
      BY <1>2, <2>2, CallsKeepThePromise
    <2>3. CASE DecoderStep
      BY <1>2, <2>3, WalkKeepsThePromise, PixelsKeepThePromise DEF DecoderStep
    <2> QED
      BY <1>2, <2>1, <2>2, <2>3
  <1> QED
    BY <1>1, <1>2, WalkInvariance, PTL DEF Spec, KeepsThePromise, Session!Spec
=============================================================================
