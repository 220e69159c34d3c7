----------------------------- MODULE MCXisfReader -----------------------------
(***************************************************************************)
(* Small XISF units for TLC: a preamble of two bytes, headers of four, so  *)
(* that blocks start at byte 6, and images of at most four samples a row   *)
(* of the block.  What each image shows is written out by hand.            *)
(***************************************************************************)
EXTENDS XisfReader

HeaderEnd == 6

\* The byte of the file at p, the k-th of an embedded block, the k-th a codec gives for pair i,
\* and samples of one byte.
F(p) == <<"file", p>>
E(k) == <<"embedded", k>>
D(i, k) == <<ToString(i), k>>
One(byte) == <<byte>>

Codec(i, len, ends, needs) ==
    [output |-> [k \in 1 .. len |-> D(i, k)], ends |-> ends, needs |-> needs, window |-> FALSE,
     kept |-> FALSE]

\* An Image element with a block of its own.
Image(geometry, format, location) ==
    [name |-> "Image", text |-> None, children |-> <<>>,
     attrs |-> [geometry |-> geometry, sampleFormat |-> format, location |-> location]]

With(element, attrs) == [element EXCEPT !.attrs = attrs @@ @]

At(position, size) == [form |-> "attachment", encoding |-> None, fields |-> <<position, size>>]
Packed(codec, shuffled, fields) ==
    [compression |-> [codec |-> codec, shuffled |-> shuffled, fields |-> fields]]
Digest(says) == [checksum |-> [spelled |-> TRUE, known |-> TRUE, digest |-> says]]
Normal == [pixelStorage |-> "Normal"]

\* The document with these elements under its root; the last one's child, if any, comes last.
Document(elements) ==
    [nodes |-> <<[name |-> "xisf", attrs |-> <<>>, text |-> None,
                  children |-> [k \in DOMAIN elements |-> k + 1]]>> \o elements]

Unit(elements, shows, lengths) ==
    [declared |-> 4, parse |-> "ok", version |-> "1.0", doc |-> Document(elements),
     lengths |-> lengths, shows |-> shows]

Shows(storage, width, planes) ==
    [storage |-> storage, width |-> width, planes |-> planes, sound |-> TRUE, trusted |-> TRUE]
Unsound(show) == [show EXCEPT !.sound = FALSE]

-----------------------------------------------------------------------------
(* Uncompressed blocks.                                                    *)

\* Two channels interleaved, big-endian samples of two bytes, shared by a Reference, in a
\* source that may end in the middle of the row.
Interleaved ==
    LET show == Shows("Normal", 2, <<<<<<<<F(6), F(7)>>, <<F(10), F(11)>>>>>>,
                                     <<<<<<F(8), F(9)>>, <<F(12), F(13)>>>>>>>>)
    IN  Unit(<<With(Image(<<2, 1, 2>>, "UInt16", At(6, 8)),
                    Normal @@ [byteOrder |-> "big", uid |-> "a"]),
               [name |-> "Reference", text |-> None, children |-> <<>>, attrs |-> [ref |-> "a"]]>>,
             <<show, show>>, {14, 12})

\* Two little-endian planes, of a block that stands behind the next image's.
Planes ==
    Unit(<<Image(<<1, 1, 2>>, "UInt16", At(8, 4)), Image(<<2, 1, 1>>, "UInt8", At(6, 2))>>,
         <<Shows("Planar", 1, <<<<<<<<F(9), F(8)>>>>>>, <<<<<<F(11), F(10)>>>>>>>>),
           Shows("Planar", 2, <<<<<<One(F(6)), One(F(7))>>>>>>)>>,
         {12})

\* A block placed in the header, and one that is not the size its geometry implies.
Misplaced ==
    Unit(<<Image(<<1, 1, 1>>, "UInt8", At(5, 1)), Image(<<1, 2, 1>>, "UInt8", At(6, 3))>>,
         <<None, None>>, {9})

-----------------------------------------------------------------------------
(* Streamed blocks.                                                        *)

\* Two planes of a row each, over three pairs that the rows straddle, the last of which owes
\* nothing and may be no stream at all.
Split(ends) ==
    LET show == Shows("Planar", 2, <<<<<<One(D(1, 1)), One(D(2, 1))>>>>,
                                     <<<<One(D(2, 2)), One(D(2, 3))>>>>>>)
    IN  Unit(<<With(Image(<<2, 1, 2>>, "UInt8", At(6, 5)),
                    Packed("zlib", FALSE, <<4>>) @@
                    [subblocks |-> <<<<2, 1>>, <<2, 3>>, <<1, 0>>>>,
                     contents |-> <<Codec(1, 1, TRUE, 2), Codec(2, 3, TRUE, 1),
                                    Codec(3, 0, ends, 1)>>])>>,
             <<IF ends THEN show ELSE Unsound(show)>>, {11, 10})

\* Two interleaved channels in one zstd frame, which holds what it should or one byte more.
Framed(len) ==
    LET show == Shows("Normal", 1, <<<<<<One(D(1, 1))>>, <<One(D(1, 3))>>>>,
                                     <<<<One(D(1, 2))>>, <<One(D(1, 4))>>>>>>)
    IN  Unit(<<With(Image(<<1, 2, 2>>, "UInt8", At(6, 3)),
                    Normal @@ Packed("zstd", FALSE, <<4>>) @@
                    [contents |-> <<Codec(1, len, TRUE, 3)>>])>>,
             <<IF len = 4 THEN show ELSE Unsound(show)>>, {9})

\* A frame that owes nothing and never ends, behind the one that gives both rows.
Unfinished ==
    Unit(<<With(Image(<<1, 2, 1>>, "UInt8", At(6, 4)),
                Packed("zstd", FALSE, <<2>>) @@
                [subblocks |-> <<<<3, 2>>, <<1, 0>>>>,
                 contents |-> <<Codec(1, 2, TRUE, 3), [Codec(2, 0, FALSE, 1) EXCEPT !.kept = TRUE]>>])>>,
         <<Shows("Planar", 1, <<<<<<One(D(1, 1))>>, <<One(D(1, 2))>>>>>>)>>,
         {10})

\* Bare LZ4 held a subblock at a time, after an empty pair: the last is stored as it is.
Held2 ==
    Unit(<<With(Image(<<1, 2, 2>>, "UInt8", At(6, 4)),
                Packed("lz4", FALSE, <<4>>) @@
                [subblocks |-> <<<<0, 0>>, <<2, 2>>, <<2, 2>>>>,
                 contents |-> <<Codec(1, 0, TRUE, 0), Codec(2, 2, TRUE, 2), Codec(3, 1, FALSE, 2)>>])>>,
         <<Shows("Planar", 1, <<<<<<One(D(2, 1))>>, <<One(D(2, 2))>>>>,
                                <<<<One(F(8))>>, <<One(F(9))>>>>>>)>>,
         {10})

\* Bare LZ4 a row to the first pair, in one stored byte, and the others to the second.
Uneven(stored, rows) ==
    LET Row(i, r) == <<<<D(i, 2 * r), D(i, 2 * r - 1)>>>> IN
    Unit(<<With(Image(<<1, 1 + rows, 1>>, "UInt16", At(6, 1 + stored)),
                Packed("lz4", FALSE, <<2 + 2 * rows>>) @@
                [subblocks |-> <<<<1, 2>>, <<stored, 2 * rows>>>>,
                 contents |-> <<Codec(1, 2, TRUE, 1), Codec(2, 2 * rows, TRUE, stored)>>])>>,
         <<Shows("Planar", 1, <<<<Row(1, 1)>> \o [r \in 1 .. rows |-> Row(2, r)]>>)>>,
         {7 + stored})

\* Two rows behind a pair of no bytes.
Trickle ==
    Unit(<<With(Image(<<1, 2, 1>>, "UInt8", At(6, 3)),
                Packed("zlib", FALSE, <<2>>) @@
                [subblocks |-> <<<<0, 0>>, <<3, 2>>>>,
                 contents |-> <<Codec(1, 0, TRUE, 0), Codec(2, 2, TRUE, 3)>>])>>,
         <<Shows("Planar", 1, <<<<<<One(D(2, 1))>>, <<One(D(2, 2))>>>>>>)>>,
         {9, 7})

\* A declared uncompressed size that is not what the geometry implies.
Overdeclared ==
    Unit(<<With(Image(<<1, 2, 1>>, "UInt8", At(6, 1)),
                Packed("zlib", FALSE, <<3>>) @@ [contents |-> <<Codec(1, 2, TRUE, 1)>>])>>,
         <<None>>, {7})

-----------------------------------------------------------------------------
(* Blocks held whole.                                                      *)

\* Shuffled two-byte samples, behind a digest that is the bytes' or is not.
Shuffled(says) ==
    Unit(<<With(Image(<<1, 2, 1>>, "UInt16", At(6, 3)),
                Packed("zlib", TRUE, <<4, 2>>) @@ Digest(says) @@
                [contents |-> <<Codec(1, 4, TRUE, 3)>>])>>,
         <<[Shows("Planar", 1, <<<<<<<<D(1, 3), D(1, 1)>>>>, <<<<D(1, 4), D(1, 2)>>>>>>>>)
               EXCEPT !.trusted = (says = "match" /\ ChecksumBuilt)]>>,
         {9, 8})

\* One LZ4 block of two-byte samples, which no subblocks split.
Resident1 ==
    Unit(<<With(Image(<<1, 2, 1>>, "UInt16", At(6, 3)),
                Packed("lz4hc", FALSE, <<4>>) @@ [contents |-> <<Codec(1, 4, TRUE, 3)>>])>>,
         <<Shows("Planar", 1, <<<<<<<<D(1, 2), D(1, 1)>>>>, <<<<D(1, 4), D(1, 3)>>>>>>>>)>>,
         {9})

\* One of a single byte, which takes more to store.
Swollen ==
    Unit(<<With(Image(<<1, 1, 1>>, "UInt8", At(6, 4)),
                Packed("lz4hc", FALSE, <<1>>) @@ [contents |-> <<Codec(1, 1, TRUE, 4)>>])>>,
         <<Shows("Planar", 1, <<<<<<One(D(1, 1))>>>>>>)>>,
         {10})

\* Bytes stored as they are, behind a digest that is not theirs.
Sealed ==
    Unit(<<With(Image(<<1, 2, 1>>, "UInt8", At(6, 2)), Digest("mismatch"))>>,
         <<[Shows("Planar", 1, <<<<<<One(F(6))>>, <<One(F(7))>>>>>>) EXCEPT !.trusted = FALSE]>>,
         {8})

\* A block in the header, decoded at once and verified at construction, of n bytes.
Embedded(says, n) ==
    LET show == [Shows("Planar", 1, <<<<<<One(E(1))>>, <<One(E(2))>>>>>>)
                    EXCEPT !.trusted = (says = "match" /\ ChecksumBuilt)]
        unread == Unit(<<>>, <<show>>, {6})
    IN
    [unread EXCEPT
        !.doc = [nodes |->
        <<[name |-> "xisf", attrs |-> <<>>, text |-> None, children |-> <<2>>],
          [With(Image(<<1, 2, 1>>, "UInt8", [form |-> "embedded", encoding |-> None, fields |-> <<>>]),
                Digest(says)) EXCEPT !.children = <<3>>],
          [name |-> "Data", attrs |-> [encoding |-> "base64"], text |-> [k \in 1 .. n |-> E(k)],
           children |-> <<>>]>>],
        !.shows = IF n = 2 THEN @ ELSE <<None>>]

-----------------------------------------------------------------------------
(* Headers that are refused.                                               *)

Unreadable ==
    LET u == Unit(<<>>, <<>>, {6}) IN
    {[u EXCEPT !.declared = 2], [u EXCEPT !.declared = 32, !.lengths = {40}],
     [u EXCEPT !.parse = "Malformed"], [u EXCEPT !.version = None], [u EXCEPT !.version = "1.1"],
     [u EXCEPT !.lengths = {1, 5}]}

Sessions ==
    {Interleaved, Planes, Misplaced, Split(TRUE), Split(FALSE), Framed(4), Framed(5), Unfinished, Held2,
     Trickle, Overdeclared, Shuffled("match"), Shuffled("mismatch"), Sealed, Resident1,
     Uneven(3, 1), Uneven(4, 1), Uneven(2, 2), Swollen,
     Embedded("match", 2), Embedded("match", 3), Embedded("mismatch", 2)} \cup Unreadable

Roomy ==
    [fits_header_bytes |-> 0, hdus_per_advance |-> 0, total_samples |-> 100,
     decoded_output_bytes |-> 100, materialized_bytes |-> 100, skipped_block_bytes |-> 100,
     images_per_source |-> 2]

Wide == [xml_header_bytes |-> 20, stored_block_multiple |-> 4, stored_block_floor_bytes |-> 2,
         subblock_count |-> 4]

\* Caps every one of which some unit runs into.
Tight ==
    [fits_header_bytes |-> 0, hdus_per_advance |-> 0, total_samples |-> 3,
     decoded_output_bytes |-> 5, materialized_bytes |-> 3, skipped_block_bytes |-> 1,
     images_per_source |-> 1]
Narrow == [Wide EXCEPT !.xml_header_bytes = 4]
=============================================================================
