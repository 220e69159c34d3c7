------------------------------ MODULE XisfCodec ------------------------------
(***************************************************************************)
(* Decompressing a resident XISF block (src/src/xisf/codec.rs): the        *)
(* verification of its digest, the pairs it is split into, and what a      *)
(* codec's refusal means for each kind of pair.                            *)
(*                                                                         *)
(* A codec is external: plan.contents[i] is what it makes of the stored    *)
(* bytes of pair i, [output, ends, needs, window, kept].  output is every  *)
(* byte it can deliver; ends says whether it then stops rather than        *)
(* refuses its input; needs is how many stored bytes it has consumed by    *)
(* then; window that it is a zstd frame declaring a window above the cap;  *)
(* kept that it is a zstd frame whose stored bytes run out on a block      *)
(* boundary short of its end, after blocks that gave bytes, every one of   *)
(* them kept back in the window.  What a codec makes of a pair is taken to *)
(* depend on the bytes alone, not on the lengths they are fed in; what the *)
(* code makes of it is another matter.  A byte is a name for itself, so    *)
(* that a misplaced byte shows.                                            *)
(***************************************************************************)
EXTENDS XisfBlock

CONSTANTS ChecksumBuilt,   \* the crate's `checksum` feature
          Zero             \* the byte a fresh buffer holds

ASSUME ChecksumBuiltAssumption == ChecksumBuilt \in BOOLEAN

\* A byte is its origin, the file or what made it, and its number there.
Byte == ({"file"} \cup STRING) \X Nat

ASSUME NoBytesAssumption == None \notin Seq(Byte)

\* What a codec makes of a pair: bytes of its own and no byte of the file.
ConformingContent(content, codec) ==
    /\ content.output \in Seq(Byte) /\ content.needs \in Nat
    /\ \A k \in DOMAIN content.output : content.output[k][1] # "file"
    /\ content.window \/ content.kept => codec = "zstd"
    /\ content.kept => content.output = <<>> /\ ~content.ends /\ ~content.window

\* verify, of a digest that matches the stored bytes or does not.
Verify(checksum) ==
    IF ~ChecksumBuilt THEN "Unsupported"
    ELSE IF checksum = "match" THEN "ok"
    ELSE "Checksum"

\* decompress_one into a fresh destination of len bytes: how the attempt ended, and what it
\* left there.  A codec that has more to give, or ran out early, is as corrupt as one that refused.
DecompressOne(content, len) ==
    [fault |-> IF content.window THEN "Refused"
               ELSE IF content.ends /\ Len(content.output) = len THEN "none"
               ELSE "Corrupt",
     dst   |-> [k \in 1 .. len |->
                  IF content.window \/ k \notin DOMAIN content.output THEN Zero
                  ELSE content.output[k]]]

Decoded(res, dst) == [res |-> res, dst |-> dst]

\* Slip: what the failed attempt wrote survives.
SlipDecodePair(kind, content, stored, len) ==
    LET attempt == DecompressOne(content, len) IN
    IF kind = "Raw" THEN Decoded("ok", stored)
    ELSE IF attempt.fault = "Refused" THEN Decoded("LimitExceeded", <<>>)
    ELSE IF attempt.fault = "none" THEN Decoded("ok", attempt.dst)
    ELSE IF kind = "Probe"
    THEN Decoded("ok", [k \in 1 .. len |-> IF attempt.dst[k] = Zero THEN stored[k]
                                           ELSE attempt.dst[k]])
    ELSE Decoded("Malformed", <<>>)

\* decode_pair: a probe falls back on its stored bytes when the codec calls them corrupt, and
\* on nothing else.
DecodePair(kind, content, stored, len) ==
    LET attempt == DecompressOne(content, len) IN
    IF kind = "Raw" THEN Decoded("ok", stored)
    ELSE IF attempt.fault = "Refused" THEN Decoded("LimitExceeded", <<>>)
    ELSE IF attempt.fault = "none" THEN Decoded("ok", attempt.dst)
    ELSE IF kind = "Probe" THEN Decoded("ok", stored)
    ELSE Decoded("Malformed", <<>>)

\* One turn of decompress' loop, after the pairs that gave sofar.dst and end at sofar.at.
DecodeNext(plan, stored, sofar, i) ==
    LET pair == PairOf(plan, i)
        one  == DecodePair(Classify(pair, plan.reading), plan.contents[i],
                           SubSeq(stored, sofar.at + 1, sofar.at + pair[1]), pair[2])
    IN  IF \/ sofar.at + pair[1] > Len(stored)
           \/ Len(sofar.dst) + pair[2] > plan.implied_bytes
        THEN [sofar EXCEPT !.res = "Malformed"]
        ELSE [res |-> one.res, at |-> sofar.at + pair[1], dst |-> sofar.dst \o one.dst]

\* decompress: the pairs one after the other, stopping at the first that is refused.
Decompress(plan, stored) ==
    FoldLeft(LAMBDA sofar, i : IF sofar.res = "ok" THEN DecodeNext(plan, stored, sofar, i) ELSE sofar,
             [res |-> "ok", at |-> 0, dst |-> <<>>], [i \in 1 .. PairCount(plan) |-> i])

\* Slip: the stored bytes of an uncompressed block are the block, however many they are.
SlipPipeline(plan, stored) ==
    LET verdict == IF plan.checksum = None THEN "ok" ELSE Verify(plan.checksum)
        d       == Decompress(plan, stored) IN
    IF verdict # "ok" THEN Decoded(verdict, <<>>)
    ELSE IF plan.compression = None THEN Decoded("ok", stored) ELSE Decoded(d.res, d.dst)

\* The pipeline of materialize once the stored bytes are resident, in its fixed order:
\* verify, then sizes and sums, then decompress.
Pipeline(plan, stored) ==
    LET verdict == IF plan.checksum = None THEN "ok" ELSE Verify(plan.checksum)
        sums    == IF plan.subblocks = None THEN "ok"
                   ELSE CheckSubblockSums(plan.subblocks, Len(stored), plan.implied_bytes)
    IN  IF verdict # "ok" THEN Decoded(verdict, <<>>)
        ELSE IF plan.compression = None
        THEN IF Len(stored) = plan.implied_bytes THEN Decoded("ok", stored)
             ELSE Decoded("Malformed", <<>>)
        ELSE IF sums # "ok" THEN Decoded(sums, <<>>)
        ELSE LET d == Decompress(plan, stored) IN Decoded(d.res, d.dst)
=============================================================================
