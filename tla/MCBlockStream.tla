---------------------------- MODULE MCBlockStream ----------------------------
(***************************************************************************)
(* Every small compressed block: one, two or three pairs, each of up to    *)
(* two stored and two decoded bytes, holding a stream that is exact, short, *)
(* too long, corrupt, cut before its last stored byte, over the window cap *)
(* or kept back in its window, for a codec of each container shape and     *)
(* both readings of a pair of equal lengths.                               *)
(***************************************************************************)
EXTENDS BlockStream

Position == 3

\* What a codec may find in the stored bytes of pair i.
Contents1(i, pair, windows) ==
    [output : {[k \in 1 .. n |-> <<ToString(i), k>>] : n \in {0, pair[2], pair[2] + 1}},
     ends : BOOLEAN,
     needs : {pair[1], Greatest(0, pair[1] - 1)},
     window : windows, kept : {FALSE}]

\* A frame that gives its bytes to its window and stops before its end.
Kept(codec, pair) ==
    {[output |-> <<>>, ends |-> FALSE, needs |-> pair[1], window |-> FALSE, kept |-> TRUE] :
        c \in {codec} \cap {"zstd"}, n \in {pair[1]} \ {0}}

\* An exact stream, and one that is refused after its only byte.
Plain(i, pair) ==
    {[output |-> [k \in 1 .. pair[2] |-> <<ToString(i), k>>], ends |-> e,
      needs |-> pair[1], window |-> FALSE, kept |-> FALSE] : e \in BOOLEAN}

Total(pairs, k) == FoldLeft(LAMBDA n, p : n + p[k], 0, pairs)

Block(codec, reading, pairs, contents) ==
    [location |-> [mode |-> "attachment", position |-> Position, size |-> Total(pairs, 1)],
     compression |-> [codec |-> codec, shuffled |-> FALSE, item_size |-> None,
                      uncompressed_size |-> Total(pairs, 2)],
     subblocks |-> pairs, checksum |-> None, materialized |-> None,
     implied_bytes |-> Total(pairs, 2), reading |-> reading, contents |-> contents]

Pairs == (0 .. 2) \X (0 .. 2)
Readings == {"Uncompressed", "TryDecompress"}
Windows(codec) == IF codec = "zstd" THEN BOOLEAN ELSE {FALSE}

\* One pair, with or without a subblocks attribute.
Single ==
    UNION {{[Block(c, r, <<p>>, <<s>>) EXCEPT !.subblocks = l] :
               s \in Contents1(1, p, Windows(c)) \cup Kept(c, p), l \in {None, <<p>>}} :
           c \in {"zlib", "zstd", "lz4"}, r \in Readings, p \in Pairs}

Double ==
    UNION {{Block(c, "TryDecompress", <<p, q>>, <<s, t>>) :
               s \in Contents1(1, p, Windows(c)) \cup Kept(c, p),
               t \in Plain(2, q) \cup Kept(c, q)} :
           c \in {"zlib", "zstd", "lz4"}, p \in Pairs, q \in {<<1, 1>>, <<2, 1>>, <<1, 0>>, <<0, 1>>}}

\* A stored pair between two compressed ones, and trailing pairs that owe nothing.
Triple ==
    UNION {{Block(c, r, <<<<2, 1>>, q, <<2, 0>>>>, <<s, t, u>>) :
               s \in Plain(1, <<2, 1>>), t \in Contents1(2, q, {FALSE}), u \in Plain(3, <<2, 0>>)} :
           c \in {"zlib", "lz4"}, r \in Readings, q \in {<<1, 1>>, <<1, 2>>, <<2, 0>>, <<0, 0>>}}

SmallBlocks == {p \in Single \cup Double \cup Triple : p.implied_bytes > 0}

\* A source that ends with the block, or one or two bytes before.
NearTheEnd(p) ==
    LET end == p.location.position + p.location.size IN
    {end} \cup {n \in {end - 1, end - 2} : n >= p.location.position}

Roomy ==
    [fits_header_bytes |-> 0, hdus_per_advance |-> 0, total_samples |-> 100,
     decoded_output_bytes |-> 100, materialized_bytes |-> 100, skipped_block_bytes |-> 100,
     images_per_source |-> 1]
RoomyXisf ==
    [xml_header_bytes |-> 100, stored_block_multiple |-> 100, stored_block_floor_bytes |-> 100,
     subblock_count |-> 100]
=============================================================================
