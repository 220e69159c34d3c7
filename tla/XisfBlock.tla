------------------------------ MODULE XisfBlock ------------------------------
(***************************************************************************)
(* XISF data blocks (src/src/xisf/block.rs and the BlockPlan of image.rs): *)
(* where a block lives, how it is compressed and split into subblocks, how *)
(* each pair is read, and where a shuffled byte sits.                      *)
(*                                                                         *)
(* An attribute's text is given as the fields it splits into, a number     *)
(* that does not parse being None; parsing yields [res, value], res being  *)
(* "ok" or the class of error.  A subblock is the pair <<compressed,       *)
(* uncompressed>> of its lengths.  A Slip operator is the definition after *)
(* it with a plausible mistake in it.                                      *)
(***************************************************************************)
EXTENDS Checked, SequencesExt

CONSTANT XisfLimits   \* the caps of Limits that only the XISF side applies

ASSUME XisfLimitsAssumption ==
    XisfLimits \in [xml_header_bytes : Nat, stored_block_multiple : Nat,
                    stored_block_floor_bytes : Nat, subblock_count : Nat]
ASSUME NoPairAssumption == None \notin Nat \X Nat

Accept(value) == [res |-> "ok", value |-> value]
Refuse(class) == [res |-> class, value |-> None]

-----------------------------------------------------------------------------
(* The attributes.                                                         *)

\* location: [form, encoding, fields], the fields being an attachment's.
ParseLocation(text) ==
    IF text.form = "embedded" THEN Accept([mode |-> "embedded"])
    ELSE IF text.form = "inline" THEN
        IF text.encoding \in {"base64", "hex"} THEN Accept([mode |-> "inline"])
        ELSE Refuse("Malformed")
    ELSE IF text.form \in {"url", "path"} THEN Accept([mode |-> "external"])
    ELSE IF /\ text.form \in {"attachment", "attached"}
            /\ Len(text.fields) = 2 /\ None \notin Range(text.fields)
    THEN Accept([mode |-> "attachment", position |-> text.fields[1], size |-> text.fields[2]])
    ELSE Refuse("Malformed")

Codecs == {"zlib", "lz4", "lz4hc", "zstd"}

\* compression: [codec, shuffled, fields], the fields being those after the codec's name.
ParseCompression(text) ==
    IF text.codec \notin Codecs THEN Refuse("Unsupported")
    ELSE IF \/ Len(text.fields) # (IF text.shuffled THEN 2 ELSE 1)
            \/ None \in Range(text.fields)
            \/ text.shuffled /\ text.fields[2] = 0
    THEN Refuse("Malformed")
    ELSE Accept([codec |-> text.codec, shuffled |-> text.shuffled,
                 uncompressed_size |-> text.fields[1],
                 item_size |-> IF text.shuffled THEN text.fields[2] ELSE None])

\* subblocks: a list of pairs, a pair being None when it has no comma.  The cap is looked at
\* before the pair it stops at, and a pair before it that does not parse is reported instead.
ParseSubblocks(list) ==
    LET spelled(i) == list[i] # None /\ None \notin Range(list[i])
        stops      == {i \in DOMAIN list : i > XisfLimits.subblock_count \/ ~spelled(i)}
    IN  IF stops = {} THEN Accept(list)
        ELSE IF Min(stops) > XisfLimits.subblock_count THEN Refuse("LimitExceeded")
        ELSE Refuse("Malformed")

\* Slip: sums in wrapping arithmetic.
SlipSumsOf(subblocks) ==
    FoldLeft(LAMBDA sums, pair : <<(sums[1] + pair[1]) % (MaxU + 1),
                                   (sums[2] + pair[2]) % (MaxU + 1)>>,
             <<0, 0>>, subblocks)

\* The running sums of check_subblock_sums, None once one overflows.
SumsOf(subblocks) ==
    FoldLeft(LAMBDA sums, pair : <<CheckedAdd(sums[1], pair[1]), CheckedAdd(sums[2], pair[2])>>,
             <<0, 0>>, subblocks)

CheckSubblockSums(subblocks, stored, implied) ==
    IF SumsOf(subblocks) = <<stored, implied>> THEN "ok" ELSE "Malformed"

\* checksum: [spelled, known, digest], whether it is algorithm:digest, of a known algorithm,
\* and the digest, None when it is not Base16; what it says of a block is whether it matches.
ParseChecksum(text) ==
    IF ~text.spelled THEN Refuse("Malformed")
    ELSE IF ~text.known THEN Refuse("Unsupported")
    ELSE IF text.digest = None THEN Refuse("Malformed")
    ELSE Accept(text.digest)

-----------------------------------------------------------------------------
(* How a pair is read.                                                     *)

\* classify, under the EqualLengthSubblocks reading in force.
Classify(pair, reading) ==
    IF pair[1] # pair[2] THEN "Compressed"
    ELSE IF pair[1] = 0 \/ reading = "Uncompressed" THEN "Raw"
    ELSE "Probe"

\* Whether the codec has to hold a subblock whole to produce any of it.
HoldsWholeSubblocks(codec, subblocks, stored, implied, reading) ==
    \/ codec \in {"lz4", "lz4hc"}
    \/ subblocks # None /\ \E i \in DOMAIN subblocks : Classify(subblocks[i], reading) = "Probe"
    \/ subblocks = None /\ stored # None /\ Classify(<<stored, implied>>, reading) = "Probe"

\* unshuffled_byte: where byte `offset' of the original block sits in the shuffled one.
UnshuffledIndex(len, item, offset) ==
    LET items == len \div item IN
    IF item <= 1 \/ offset >= items * item THEN offset
    ELSE (offset % item) * items + offset \div item

-----------------------------------------------------------------------------
(* The block plan: [location, compression, subblocks, checksum, storage,   *)
(* geometry, bytes, big_endian, implied_bytes, materialized, reading].     *)

\* The stored length, where the header phase knows it.
StoredSize(location, materialized) ==
    IF location # None /\ location.mode = "attachment" THEN location.size
    ELSE IF location # None /\ location.mode = "embedded" /\ materialized # None
    THEN Len(materialized)
    ELSE None

\* The i-th pair, from 1: a block with no subblocks is one pair.
PairOf(plan, i) ==
    LET stored == StoredSize(plan.location, plan.materialized) IN
    IF plan.subblocks # None
    THEN IF i \in DOMAIN plan.subblocks THEN plan.subblocks[i] ELSE None
    ELSE IF i = 1 /\ stored # None THEN <<stored, plan.implied_bytes>> ELSE None

PairCount(plan) == IF plan.subblocks = None THEN 1 ELSE Len(plan.subblocks)

\* Slip: a checksummed block is streamed like any other.
SlipIsStreamable(plan) ==
    /\ plan.location.mode = "attachment"
    /\ LET c == plan.compression IN
       c # None =>
          /\ ~c.shuffled
          /\ HoldsWholeSubblocks(c.codec, plan.subblocks,
                                 StoredSize(plan.location, plan.materialized),
                                 plan.implied_bytes, plan.reading)
                => plan.subblocks # None

\* is_streamable: whether rows can be pulled straight from the source.
IsStreamable(plan) ==
    /\ plan.location.mode = "attachment" /\ plan.checksum = None
    /\ LET c == plan.compression IN
       c # None =>
          /\ ~c.shuffled
          /\ HoldsWholeSubblocks(c.codec, plan.subblocks,
                                 StoredSize(plan.location, plan.materialized),
                                 plan.implied_bytes, plan.reading)
                => plan.subblocks # None
=============================================================================
