------------------------------ MODULE XisfDecoder ------------------------------
(***************************************************************************)
(* The XISF decoder (src/src/xisf/decoder.rs): construction from the       *)
(* preamble and the header, the walk over the image occurrences, and the   *)
(* delivery of a block's rows, streamed or from the block held whole, as   *)
(* the steps that answer the reader's calls.                               *)
(*                                                                         *)
(* A unit is [declared, parse, version, doc, lengths, shows]: the header   *)
(* length the preamble declares, what parsing the header makes of it ("ok" *)
(* or an error), the root's version attribute, the document, how many of   *)
(* its bytes a source may hold, and what its images really show, which     *)
(* only the properties look at.  Bytes are names, as in SubblockWalk.      *)
(*                                                                         *)
(* A Slip operator is the definition after it with a plausible mistake.    *)
(***************************************************************************)
EXTENDS Reader, SubblockWalk, XisfDocument

CONSTANTS Units,       \* the units a session may be given
          PREAMBLE,    \* signature, header length and reserved field
          MIN_HEADER   \* the length of an empty header

ASSUME UnitsAssumption ==
    \A u \in Units : /\ u.declared \in Nat /\ u.lengths \subseteq Nat
                     /\ u.parse \in {"ok", "Malformed", "LimitExceeded", "Unsupported"}
ASSUME HeaderAssumption == PREAMBLE \in Nat /\ MIN_HEADER \in Nat
ASSUME OneCapAssumption == ImagesPerSource = Limits.images_per_source

VARIABLES
  unit,
  occurrences,   \* [header, plan], in the order they are advanced to
  current,       \* the occurrence sat on, None before the first and after the last
  next,          \* how many have been advanced to
  pixels,        \* PixelState: None, or [plan, selected, chunks_total, chunks_done,
                 \* whole, raw, raw_row, walk, stream_row]
  pixels_read

decoderVars == <<unit, occurrences, current, next, pixels, pixels_read>>
pixelVars == <<pixels, pixels_read>>
walkVars == <<unit, occurrences, current, next, header>>

-----------------------------------------------------------------------------
(* Construction.                                                           *)

Declined(o, class) ==
    [o EXCEPT !.header.decline = class, !.header.granularity = WholeImageFloor, !.plan = None]

\* Slip: the header is taken to start the file.
SlipRefuseAttachmentsInsideTheHeader(all, u) ==
    [i \in DOMAIN all |->
        IF /\ all[i].plan # None /\ all[i].plan.location.mode = "attachment"
           /\ all[i].plan.location.position < u.declared
        THEN Declined(all[i], "Malformed") ELSE all[i]]

\* refuse_attachments_inside_the_header.
RefuseAttachmentsInsideTheHeader(all, u) ==
    [i \in DOMAIN all |->
        IF /\ all[i].plan # None /\ all[i].plan.location.mode = "attachment"
           /\ all[i].plan.location.position < PREAMBLE + u.declared
        THEN Declined(all[i], "Malformed") ELSE all[i]]

\* What verifying an occurrence's resident block says, "ok" when there is nothing to verify.
Verified(o) ==
    IF o.plan = None THEN "ok"
    ELSE IF o.plan.checksum = None \/ o.plan.materialized = None THEN "ok"
    ELSE Verify(o.plan.checksum)

\* verify_materialized_blocks, [res, out]: an algorithm this build lacks declines the position,
\* a digest that does not match fails the source.
VerifyMaterializedBlocks(all) ==
    [res |-> IF \E i \in DOMAIN all : Verified(all[i]) \notin {"ok", "Unsupported"}
             THEN "Checksum" ELSE "ok",
     out |-> [i \in DOMAIN all |-> IF Verified(all[i]) = "Unsupported"
                                   THEN Declined(all[i], "Unsupported") ELSE all[i]]]

Fails(res) == [res |-> res, out |-> <<>>]

\* The occurrences of a walk that succeeded, refused and verified.
Settle(u, walked) ==
    IF walked.res # "ok" THEN Fails(walked.res)
    ELSE VerifyMaterializedBlocks(RefuseAttachmentsInsideTheHeader(walked.out, u))

\* Decoder::new once the header is read.
Construct(u) ==
    IF u.parse # "ok" THEN Fails(u.parse)
    ELSE IF u.version = None THEN Fails("Malformed")
    ELSE IF u.version # "1.0" THEN Fails("Unsupported")
    ELSE Settle(u, WalkOccurrences(u.doc))

\* The reads of Reader::build and Decoder::new: nothing of a header that is too short or past
\* its cap is read.
ReadHeader(u) ==
    UNION {IF o.res # "ok" THEN {o}
           ELSE IF u.declared < MIN_HEADER THEN {Outcome("Malformed", o.pos)}
           ELSE IF u.declared > XisfLimits.xml_header_bytes THEN {Outcome("LimitExceeded", o.pos)}
           ELSE ReadExact(o.pos, u.declared)
              : o \in ReadExact(pos, PREAMBLE)}

\* The constructor returns what it made, or the error that leaves no reader.
BuildReturns(made) ==
    /\ occurrences' = made.out
    /\ ret' = [op |-> "build", res |-> made.res]
    /\ pc' = IF made.res = "ok" THEN "idle" ELSE "refused"

Build ==
    /\ pc = "build"
    /\ \E o \in ReadHeader(unit) :
          /\ Moves(o)
          /\ BuildReturns(IF o.res = "ok" THEN Construct(unit) ELSE Fails(o.res))
    /\ UNCHANGED <<readerVars, header, cursor, stream, unit, current, next, pixels, pixels_read>>

-----------------------------------------------------------------------------
(* The walk: blocks are located, not walked past.                          *)

Abandon ==
    /\ pc = "abandon"
    /\ pixels' = None
    /\ AbandonReturns("ok")
    /\ UNCHANGED <<sourceVars, walkVars, pixels_read>>

AfterTheLast ==
    /\ pc = "next_image" /\ next >= Len(occurrences)
    /\ current' = None /\ header' = None
    /\ NextImageReturns("false")
    /\ UNCHANGED <<sourceVars, unit, occurrences, next, pixels, pixels_read>>

\* Slip: the occurrence reports the first one's header.
SlipToTheNext ==
    /\ pc = "next_image" /\ next < Len(occurrences)
    /\ current' = next + 1 /\ next' = next + 1 /\ header' = occurrences[1].header
    /\ pixels' = None /\ pixels_read' = FALSE
    /\ NextImageReturns("true")
    /\ UNCHANGED <<sourceVars, unit, occurrences>>

ToTheNext ==
    /\ pc = "next_image" /\ next < Len(occurrences)
    /\ current' = next + 1 /\ next' = next + 1 /\ header' = occurrences[next + 1].header
    /\ pixels' = None /\ pixels_read' = FALSE
    /\ NextImageReturns("true")
    /\ UNCHANGED <<sourceVars, unit, occurrences>>

-----------------------------------------------------------------------------
(* begin_pixels.                                                           *)

StoredCap(plan) ==
    Greatest(SaturatingMul(plan.implied_bytes, XisfLimits.stored_block_multiple),
             XisfLimits.stored_block_floor_bytes)

\* What an attachment is refused for before any of it is read.
AttachmentRefusal(plan) ==
    LET at == plan.location IN
    IF at.mode # "attachment" THEN "ok"
    ELSE IF seekable /\ Least(MaxU, at.position + at.size) > length THEN "Malformed"
    ELSE IF at.size > StoredCap(plan) THEN "LimitExceeded"
    ELSE IF plan.compression = None /\ at.size # plan.implied_bytes THEN "Malformed"
    ELSE "ok"

\* The samples and the bytes of a row of the block, None past u64.
RowSamples(plan) ==
    plan.geometry.width * (IF plan.storage = "Normal" THEN plan.geometry.channels ELSE 1)
RowLength(plan) == CheckedMul(RowSamples(plan), plan.bytes)

\* Slip: only what is read is measured, not what it becomes.
SlipStagingRefusal(plan) ==
    LET row == RowLength(plan) IN
    IF row = None \/ row > Limits.materialized_bytes THEN "LimitExceeded" ELSE "ok"

\* The staging row and, for a block that cannot be streamed, the block are held in memory.
StagingRefusal(plan) ==
    LET row == RowLength(plan) IN
    IF row = None \/ row > Limits.materialized_bytes THEN "LimitExceeded"
    ELSE IF ~IsStreamable(plan) /\ plan.implied_bytes > Limits.materialized_bytes
    THEN "LimitExceeded" ELSE "ok"

\* begin_pixels' checks, in order; "ok" leaves the reading to do.
BeginRefusal(plan) ==
    IF plan = None THEN "InvalidRequest"
    ELSE IF pixels_read /\ ~seekable THEN "Unsupported"
    ELSE IF AttachmentRefusal(plan) # "ok" THEN AttachmentRefusal(plan)
    ELSE IF plan.compression # None /\ plan.compression.uncompressed_size # plan.implied_bytes
    THEN "Malformed"
    ELSE StagingRefusal(plan)

\* The outcomes of a materialize that may only fail to read, [res, pos, dst].
Resident(o, d) == [res |-> d.res, pos |-> o.pos, dst |-> d.dst]

\* materialize: the stored block, read or already resident, through the pipeline.
Materialize(plan) ==
    LET at     == plan.location
        Read   == {IF o.res # "ok" THEN Resident(o, Decoded(o.res, <<>>))
                   ELSE Resident(o, Pipeline(plan, FileBytes(at.position, at.size)))
                      : o \in ReadAt(at.position, at.size)}
        Here(d) == {Resident(Outcome(d.res, pos), d)}
    IN  IF at.mode = "attachment"
        THEN IF at.size > Limits.materialized_bytes THEN Here(Decoded("LimitExceeded", <<>>))
             ELSE Read
        ELSE IF at.mode = "embedded" /\ plan.materialized # None
        THEN Here(Pipeline(plan, plan.materialized))
        ELSE Here(Decoded("Malformed", <<>>))

\* A decode of the block of this plan.
PixelStates(plan) ==
    [plan : {plan}, selected : Option(Nat), chunks_total : Nat, chunks_done : Nat,
     whole : Option(Seq(Byte)), raw : Seq(Byte), raw_row : Option(Nat), walk : WalkType,
     stream_row : Nat]

\* Slip: one chunk a row, whatever the storage interleaves.
SlipChunksTotal(plan, selected) ==
    plan.geometry.height * (IF selected = None /\ plan.storage = "Planar"
                            THEN plan.geometry.channels ELSE 1)

\* One chunk for each (channel, row) the decode delivers.
ChunksTotal(plan, selected) ==
    plan.geometry.height * (IF selected = None THEN plan.geometry.channels ELSE 1)

\* The PixelState a successful begin_pixels leaves.
Began(plan, whole, w) ==
    [plan |-> plan, selected |-> selected_channel,
     chunks_total |-> ChunksTotal(plan, selected_channel), chunks_done |-> 0,
     whole |-> whole, raw |-> <<>>, raw_row |-> None, walk |-> w, stream_row |-> 0]

\* begin_pixels ends with res, and on "ok" with the state `began'.
Begins(res, began) ==
    /\ pixels' = IF res = "ok" THEN began ELSE pixels
    /\ pixels_read' = (pixels_read /\ res # "ok")
    /\ BeginPixelsReturns(res)

Plan == occurrences[current].plan

\* The walk that has nothing open, at the block's first byte.
AtBlock(plan) == [Unopened EXCEPT !.next_at = plan.location.position]

BeginRefused ==
    /\ pc = "begin_pixels" /\ BeginRefusal(Plan) # "ok"
    /\ Begins(BeginRefusal(Plan), None)
    /\ UNCHANGED <<sourceVars, walkVars>>

\* A streamed block: the seek to its first byte, and for a compressed one the first pair.
BeginStream ==
    /\ pc = "begin_pixels" /\ BeginRefusal(Plan) = "ok" /\ IsStreamable(Plan)
    /\ \E o \in SeekTo(Plan.location.position) :
          /\ Moves(o)
          /\ IF o.res = "ok" /\ Plan.compression # None
             THEN pc' = "begin_walk" /\ UNCHANGED <<readerVars, cursor, ret, stream, pixelVars>>
             ELSE Begins(o.res, Began(Plan, None, AtBlock(Plan)))
    /\ UNCHANGED walkVars

BeginWalk ==
    /\ pc = "begin_walk"
    /\ \E r \in Open(Plan, AtBlock(Plan)) :
          /\ Moves(r)
          /\ Begins(r.res, Began(Plan, None, r.walk))
    /\ UNCHANGED walkVars

BeginWhole ==
    /\ pc = "begin_pixels" /\ BeginRefusal(Plan) = "ok" /\ ~IsStreamable(Plan)
    /\ \E m \in Materialize(Plan) :
          /\ Moves(m)
          /\ Begins(m.res, Began(Plan, m.dst, Unopened))
    /\ UNCHANGED walkVars
=============================================================================
