------------------------------- MODULE XisfImage -------------------------------
(***************************************************************************)
(* One Image element of an XISF header (src/src/xisf/attributes.rs and     *)
(* image.rs): what each attribute reads as, the order faults are taken in, *)
(* where the pixel block lives, how it may be delivered, and the block     *)
(* plan a decode will follow.                                              *)
(*                                                                         *)
(* A reader yields [value, fault]: the two are separate questions, a value *)
(* that can be read being reported even where it declines the position.  A *)
(* Slip operator is the definition after it with a plausible mistake.      *)
(***************************************************************************)
EXTENDS XisfDoc, XisfBlock

CONSTANT NaN   \* a floating point spelling that is no finite number

Reads(value, fault) == [value |-> value, fault |-> fault]

-----------------------------------------------------------------------------
(* The attributes, None when absent.                                       *)

\* geometry: its fields, None for one that is no u32.
ReadGeometry(fields) ==
    IF fields = None \/ Len(fields) < 2 \/ None \in Range(fields) THEN Reads(None, "Malformed")
    ELSE IF Len(fields) # 3 THEN Reads(None, "Unsupported")
    ELSE Reads([width |-> fields[1], height |-> fields[2], channels |-> fields[3]],
               IF 0 \in Range(fields) THEN "Malformed" ELSE None)

ReadColorSpace(name) ==
    IF name \in {None, "Gray"} THEN Reads("Gray", None)
    ELSE IF name = "RGB" THEN Reads("Rgb", None)
    ELSE IF name = "CIELab" THEN Reads("CieLab", "Unsupported")
    ELSE Reads(None, "Malformed")

SampleFormats ==
    [UInt8   |-> [bytes |-> 1, integer |-> TRUE],  UInt16  |-> [bytes |-> 2, integer |-> TRUE],
     UInt32  |-> [bytes |-> 4, integer |-> TRUE],  UInt64  |-> [bytes |-> 8, integer |-> TRUE],
     Float32 |-> [bytes |-> 4, integer |-> FALSE], Float64 |-> [bytes |-> 8, integer |-> FALSE]]

ReadSampleFormat(name) ==
    IF name = None THEN Reads(None, "Malformed")
    ELSE IF name \in DOMAIN SampleFormats THEN Reads(SampleFormats[name], None)
    ELSE IF name \in {"Complex32", "Complex64"} THEN Reads(None, "Unsupported")
    ELSE Reads(None, "Malformed")

\* byteOrder: whether big-endian.
ReadByteOrder(name) ==
    IF name \in {None, "little"} THEN Reads(FALSE, None)
    ELSE IF name = "big" THEN Reads(TRUE, None)
    ELSE Reads(FALSE, "Malformed")

ReadPixelStorage(name) ==
    IF name \in {None, "Planar"} THEN Reads("Planar", None)
    ELSE IF name = "Normal" THEN Reads("Normal", None)
    ELSE Reads(None, "Malformed")

\* offset: one field, which is reported whatever its sign.
ReadOffset(fields) ==
    IF fields = None THEN Reads(0, None)
    ELSE IF fields[1] = None THEN Reads(0, "Malformed")
    ELSE Reads(fields[1], IF fields[1] = NaN \/ fields[1] < 0 THEN "Malformed" ELSE None)

ReadChecksum(text) ==
    IF text = None THEN Reads(None, None)
    ELSE LET parsed == ParseChecksum(text) IN
         IF parsed.res = "ok" THEN Reads(parsed.value, None) ELSE Reads(None, parsed.res)

\* SampleRange::new, between endpoints whose width is a normal f32 or no range at all.
IsSampleRange(lo, hi) == lo # NaN /\ hi # NaN /\ lo < hi

\* bounds: evaluated here, refused at normalization, never a decline.
ReadBounds(fields, format) ==
    IF fields # None
    THEN IF Len(fields) = 2 /\ None \notin Range(fields) /\ IsSampleRange(fields[1], fields[2])
         THEN "Declared" ELSE "InvalidDeclared"
    ELSE IF format = None THEN "NoFormatDefault"
    ELSE IF format.integer THEN "FormatDefault"
    ELSE "InvalidDeclared"

-----------------------------------------------------------------------------
(* The data block.                                                         *)

\* implied_bytes: saturating, and zero where the geometry or the format did not read.
ImpliedBytes(g, format) ==
    IF g = None \/ format = None THEN 0
    ELSE LET bytes == CheckedMul(CheckedMul(CheckedMul(g.width, g.height), g.channels), format.bytes)
         IN  IF bytes = None THEN MaxU ELSE bytes

\* The child Data element that serializes an embedded block.
DataChild(doc, image) ==
    LET kids  == Children(doc, image)
        datas == {k \in DOMAIN kids : NameOf(doc, kids[k]) = "Data"}
    IN  IF datas = {} THEN None ELSE kids[Min(datas)]

\* [attrs_on, materialized, fault] of an embedded block: the element its compression is read
\* from and, decoded from the header, its stored bytes.
EmbeddedSite(doc, image) ==
    LET data == DataChild(doc, image) IN
    IF data = None THEN [attrs_on |-> image, materialized |-> None, fault |-> "Malformed"]
    ELSE IF Attr(doc, data, "encoding") \notin {"base64", "hex"} \/ doc.nodes[data].text = None
    THEN [attrs_on |-> data, materialized |-> None, fault |-> "Malformed"]
    ELSE [attrs_on |-> data, materialized |-> doc.nodes[data].text, fault |-> None]

\* read_block_site: [location, attrs_on, materialized, fault].
ReadBlockSite(doc, image) ==
    LET text   == Attr(doc, image, "location")
        parsed == IF text = None THEN Refuse("Malformed") ELSE ParseLocation(text)
        plain  == [attrs_on |-> image, materialized |-> None,
                   fault |-> IF parsed.res # "ok" THEN parsed.res
                             ELSE IF parsed.value.mode \in {"inline", "external"} THEN "Malformed"
                             ELSE None]
        site   == IF parsed.res = "ok" /\ parsed.value.mode = "embedded"
                  THEN EmbeddedSite(doc, image) ELSE plain
    IN  [location |-> parsed.value, attrs_on |-> site.attrs_on,
         materialized |-> site.materialized, fault |-> site.fault]

\* The subblocks attribute, beside a compression that was accepted: [subblocks, fault].
ReadSubblocks(list, compression, stored, implied) ==
    LET split == ParseSubblocks(list) IN
    IF list = None THEN [subblocks |-> None, fault |-> None]
    ELSE IF compression = None THEN [subblocks |-> None, fault |-> "Malformed"]
    ELSE IF split.res # "ok" THEN [subblocks |-> None, fault |-> split.res]
    ELSE [subblocks |-> split.value,
          fault |-> IF stored # None /\ CheckSubblockSums(split.value, stored, implied) # "ok"
                    THEN "Malformed" ELSE None]

\* The compression attribute as it parses, `parsed', and the subblocks beside it.
Packing(parsed, list, stored, implied) ==
    LET c     == parsed.value
        split == IF parsed.res # "ok" THEN [subblocks |-> None, fault |-> parsed.res]
                 ELSE IF c # None /\ c.item_size # None /\ implied > 0 /\ c.item_size > implied
                 THEN [subblocks |-> None, fault |-> "Malformed"]
                 ELSE ReadSubblocks(list, c, stored, implied)
    IN  [compression |-> c, subblocks |-> split.subblocks, fault |-> split.fault]

\* read_compression: [compression, subblocks, fault].
ReadCompression(doc, attrs_on, stored, implied) ==
    LET text == Attr(doc, attrs_on, "compression") IN
    Packing(IF text = None THEN Accept(None) ELSE ParseCompression(text),
            Attr(doc, attrs_on, "subblocks"), stored, implied)

-----------------------------------------------------------------------------
(* Granularity: the worst of the floors.                                   *)

Floor(name, subblocks) == [floor |-> name, subblocks |-> subblocks]
WholeImageFloor == Floor("WholeImage", 0)

\* Slip: a split block is delivered by its subblocks, whatever else it is.
SlipGranularityOf(location, compression, subblocks, checksum, held_whole, declined) ==
    IF declined \/ (location # None /\ location.mode = "embedded") THEN WholeImageFloor
    ELSE IF checksum = None /\ (compression = None \/ ~compression.shuffled) /\ ~held_whole
    THEN Floor("Rows", 0)
    ELSE IF subblocks # None THEN Floor("Block", Len(subblocks))
    ELSE WholeImageFloor

\* granularity: the shuffle and the digest ignore the subblock split, the codec does not.
GranularityOf(location, compression, subblocks, checksum, held_whole, declined) ==
    LET split_immune == checksum # None \/ (compression # None /\ compression.shuffled) IN
    IF declined \/ (location # None /\ location.mode = "embedded") THEN WholeImageFloor
    ELSE IF ~split_immune /\ ~held_whole THEN Floor("Rows", 0)
    ELSE IF subblocks # None /\ ~split_immune THEN Floor("Block", Len(subblocks))
    ELSE WholeImageFloor

-----------------------------------------------------------------------------
(* One occurrence.                                                         *)

FirstFault(faults) ==
    LET real == {i \in DOMAIN faults : faults[i] # None} IN
    IF real = {} THEN None ELSE faults[Min(real)]

\* The attributes of an Image element that describe the samples.
ReadAttributes(doc, image) ==
    LET A(name) == Attr(doc, image, name) IN
    [geometry |-> ReadGeometry(A("geometry")), color    |-> ReadColorSpace(A("colorSpace")),
     format   |-> ReadSampleFormat(A("sampleFormat")), order |-> ReadByteOrder(A("byteOrder")),
     storage  |-> ReadPixelStorage(A("pixelStorage")), offset |-> ReadOffset(A("offset")),
     checksum |-> ReadChecksum(A("checksum")), bounds |-> A("bounds")]

\* The order faults are taken in.
DeclineOf(reads, site, packing, ancillary) ==
    FirstFault(<<reads.geometry.fault, reads.color.fault, reads.format.fault, reads.order.fault,
                 reads.storage.fault, site.fault, packing.fault, reads.offset.fault>>
               \o ancillary \o <<reads.checksum.fault>>)

HeaderOf(reads, site, packing, held, decline) ==
    LET format == reads.format.value IN
    [geometry |-> reads.geometry.value, bytes |-> IF format = None THEN None ELSE format.bytes,
     decline |-> decline, bounds |-> ReadBounds(reads.bounds, format),
     granularity |-> GranularityOf(site.location, packing.compression, packing.subblocks,
                                   reads.checksum.value, held, decline # None)]

PlanOf(reads, site, packing, implied, reading, contents) ==
    [location |-> site.location, compression |-> packing.compression,
     subblocks |-> packing.subblocks, checksum |-> reads.checksum.value,
     storage |-> reads.storage.value, geometry |-> reads.geometry.value,
     bytes |-> reads.format.value.bytes, big_endian |-> reads.order.value,
     implied_bytes |-> implied, materialized |-> site.materialized, reading |-> reading,
     contents |-> contents]

\* The occurrence whose attributes, block and packing read as these; a declined one has no plan.
Occurrence(reads, site, packing, implied, reading, contents, decline) ==
    LET c    == packing.compression
        held == c # None /\ HoldsWholeSubblocks(c.codec, packing.subblocks,
                                                StoredSize(site.location, site.materialized),
                                                implied, reading)
    IN  [header |-> HeaderOf(reads, site, packing, held, decline),
         plan   |-> IF decline # None THEN None
                    ELSE PlanOf(reads, site, packing, implied, reading, contents)]

\* The block of that image: what its bytes are packed in, and then whether it is declined.
WithPacking(reads, site, packing, implied, reading, contents, ancillary) ==
    Occurrence(reads, site, packing, implied, reading, contents,
               DeclineOf(reads, site, packing, ancillary))

WithSite(doc, reads, site, implied, reading, ancillary) ==
    WithPacking(reads, site,
                ReadCompression(doc, site.attrs_on, StoredSize(site.location, site.materialized),
                                implied),
                implied, reading, Attr(doc, site.attrs_on, "contents"), ancillary)

WithAttributes(doc, image, reads, reading, ancillary) ==
    WithSite(doc, reads, ReadBlockSite(doc, image),
             ImpliedBytes(reads.geometry.value, reads.format.value), reading, ancillary)

\* build_occurrence, [header, plan], of an Image element whose ancillary children carry these
\* faults.  What a codec would make of the block's pairs stands with its attributes.
BuildOccurrence(doc, image, reading, ancillary) ==
    WithAttributes(doc, image, ReadAttributes(doc, image), reading, ancillary)
=============================================================================
