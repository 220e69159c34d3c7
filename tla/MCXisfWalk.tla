------------------------------ MODULE MCXisfWalk ------------------------------
(***************************************************************************)
(* Small headers, of two kinds.  Shared ones: elements to refer to, images *)
(* that hold some of their own and refer to the others, in any order and   *)
(* more than once, and references to an image, with Metadata before,       *)
(* between or after, up to two images past the cap.  And one image alone,  *)
(* with every small combination of what its attributes may say of its      *)
(* block, the subblocks attribute written pair by pair, past the cap on    *)
(* pairs and past what a u64 sum holds, before the walk begins.            *)
(***************************************************************************)
EXTENDS XisfWalk

Leaf(name, attrs) == [name |-> name, attrs |-> attrs, kids |-> <<>>]
Ref(uid) == Leaf("Reference", [ref |-> uid])

Value(content) == [form |-> "quoted", content |-> content, named |-> None]
KeywordAttrs(word, content, comment) ==
    [name |-> [word |-> word, rest |-> None], value |-> Value(content), comment |-> comment]
Keyed(uid, element) == [element EXCEPT !.attrs = @ @@ [uid |-> uid]]

Opener   == Leaf("FITSKeyword", KeywordAttrs("OBJECT", <<"a", Amp>>, "opens"))
Continued == Leaf("FITSKeyword", KeywordAttrs("CONTINUE", <<"b", Amp>>, "continues"))
Ends     == Leaf("FITSKeyword", KeywordAttrs("CONTINUE", <<"c">>, ""))
SetBy(v) == Leaf("Property", [id |-> "p", type |-> "Int", value |-> v])
Mosaic   == Leaf("ColorFilterArray", [pattern |-> "RGGB", width |-> 2, height |-> 2])
Finely   == Leaf("Resolution", [horizontal |-> 300, vertical |-> NaN])
Stretch  == Leaf("DisplayFunction", [m |-> <<1, 1, 1, 1>>, s |-> <<0, 0, None, 0>>])
Garbled  == Leaf("ColorFilterArray", [width |-> 2])
Nameless == Leaf("FITSKeyword", [value |-> Value(<<"a", Amp>>)])
Untyped  == Leaf("Property", [id |-> "p", value |-> 3])

ImageAttrs ==
    [geometry |-> <<1, 2, 1>>, sampleFormat |-> "UInt8",
     location |-> [form |-> "attachment", encoding |-> None, fields |-> <<16, 2>>]]

Holding(kids) == [name |-> "Image", attrs |-> ImageAttrs, kids |-> kids]
Metadata(kids) == [name |-> "Metadata", attrs |-> <<>>, kids |-> kids]

\* Flattened in document order, two levels under the root.
Node(e, text) == [name |-> e.name, attrs |-> e.attrs, text |-> text, children |-> <<>>]

Append2(nodes, e) ==
    LET here == Len(nodes) + 1 IN
    nodes \o <<[Node(e, None) EXCEPT !.children = [k \in DOMAIN e.kids |-> here + k]]>>
          \o [k \in DOMAIN e.kids |-> Node(e.kids[k], None)]

Flatten(elements) ==
    LET placed == FoldLeft(LAMBDA s, e : [nodes |-> Append2(s.nodes, e),
                                          tops |-> Append(s.tops, Len(s.nodes) + 1)],
                           [nodes |-> <<Node(Metadata(<<>>), None)>>, tops |-> <<>>], elements)
    IN  [nodes |-> [placed.nodes EXCEPT ![1].name = "xisf", ![1].children = placed.tops]]

Shared == <<Keyed("k0", Opener), Keyed("k1", Continued), Keyed("k2", Ends),
            Keyed("p", SetBy(7)), Keyed("c", Garbled),
            Keyed("r", Finely), Keyed("d", Stretch), Keyed("u", Untyped)>>

\* What an image may hold.
ChainKids == {<<Ref("k0"), Ref("k1")>>, <<Ref("k0"), Ref("k2")>>, <<Ref("k0"), Ref("k1"), Ref("k2")>>,
              <<Ref("k0"), Ref("k1"), Ref("k1")>>, <<Ref("k1")>>, <<Opener, Ref("k1")>>,
              <<Ref("k0"), Continued, Ref("none")>>, <<Ref("k0"), Ref("k0"), Ref("k2")>>,
              <<Ref("k0"), Nameless, Ref("k2")>>}
OtherKids == {<<Ref("p"), SetBy(1)>>, <<SetBy(1), Ref("p")>>, <<Ref("c"), Mosaic>>,
              <<Mosaic, Ref("c")>>, <<>>, <<Ref("r")>>, <<Ref("d"), Mosaic>>,
              <<Ref("u"), SetBy(1), Ref("u")>>}
MetaKids  == {<<Ref("p")>>, <<SetBy(2), Ref("u"), Ref("p"), Ref("k0")>>}

SomeImages == {Keyed("i", Holding(k)) : k \in ChainKids \cup OtherKids}

SmallDocs ==
    {Flatten(Shared \o d) :
        d \in {<<a, b, Ref("i")>> : a \in SomeImages, b \in SomeImages}
              \cup {<<Ref("i"), a, b>> : a \in SomeImages, b \in {Metadata(k) : k \in MetaKids}}
              \cup {<<Metadata(k), a, Metadata(l), Ref("i"), Ref("i")>> :
                       a \in SomeImages, k \in MetaKids, l \in MetaKids}
              \cup {<<Ref("i"), a, Holding(<<>>), b, c>> :
                       a \in SomeImages, b \in {Ref("i"), Metadata(<<>>)},
                       c \in {Ref("i"), Holding(<<SetBy(3)>>)}}
              \cup {<<Holding(p), a, b>> : p \in ChainKids, a \in SomeImages, b \in {Ref("i"), Ref("p")}}}

-----------------------------------------------------------------------------
(* One image and its block.                                                *)

Shapes == {[geometry |-> <<1, 2, 1>>, sampleFormat |-> "UInt8"],
           [geometry |-> <<4, 4, 4>>, sampleFormat |-> "Float32"],
           [geometry |-> <<1, 2, 0>>, sampleFormat |-> "UInt8"],
           [geometry |-> <<1, 1, 1>>, sampleFormat |-> "Complex32"]}

At(position, size) == [form |-> "attachment", encoding |-> None, fields |-> <<position, size>>]
Form(form) == [form |-> form, encoding |-> None, fields |-> <<>>]
Located == {At(8, 2), At(8, 31), At(8, None), Form("url"), None}

Packed(codec, shuffled, fields) == [codec |-> codec, shuffled |-> shuffled, fields |-> fields]
Packings == {None, Packed("zlib", FALSE, <<2>>), Packed("lz4", FALSE, <<2>>),
             Packed("zlib", TRUE, <<2, 2>>), Packed("zstd", TRUE, <<2, 3>>),
             Packed("lzma", FALSE, <<2>>)}

Digest(known) == [spelled |-> TRUE, known |-> known, digest |-> "match"]
Digests == {None, Digest(TRUE), Digest(FALSE)}

Present(attrs) == [name \in {a \in DOMAIN attrs : attrs[a] # None} |-> attrs[name]]

\* A codec that makes nothing of any pair.
Contents(packing) ==
    IF packing = None THEN None
    ELSE [i \in 1 .. 3 |-> [output |-> <<>>, ends |-> TRUE, needs |-> 0, window |-> FALSE,
                          kept |-> FALSE]]
Compressed(packing) == [compression |-> packing, contents |-> Contents(packing)]

\* An image whose block its own attributes describe, or those of its Data child.
Alone(attrs, packing) ==
    [nodes |-> <<[Node(Metadata(<<>>), None) EXCEPT !.name = "xisf", !.children = <<2>>],
                 [name |-> "Image", attrs |-> Present(attrs), text |-> None, children |-> <<3>>],
                 [name |-> "Data", attrs |-> Present([encoding |-> "base64"] @@ packing),
                  text |-> <<<<"data", 1>>, <<"data", 2>>>>, children |-> <<>>]>>]

Blocks ==
    {Alone(shape @@ [location |-> l, checksum |-> d] @@ Compressed(p), <<>>) :
        shape \in Shapes, l \in Located, p \in Packings, d \in Digests}
    \cup {Alone(shape @@ [location |-> Form("embedded"), checksum |-> d] @@ Compressed(p),
                Compressed(q)) :
            shape \in Shapes, p \in {None, Packed("lz4", FALSE, <<2>>)}, q \in Packings,
            d \in Digests}

SmallHeaders == SmallDocs \cup Blocks

\* The element the block's own attributes stand on.
Carrier == IF Attr(doc, 2, "location") = Form("embedded") THEN 3 ELSE 2

Pairs == {<<1, 1>>, <<2, 1>>, <<31, 1>>, <<3, 1>>, None}

WritePair ==
    LET before == Attr(doc, Carrier, "subblocks")
        written == IF before = None THEN <<>> ELSE before
    IN  /\ at = 0 /\ Len(RootChildren) = 1 /\ Len(written) < 3
        /\ \E pair \in Pairs :
              LET longer == [doc EXCEPT !.nodes[Carrier].attrs =
                                [subblocks |-> Append(written, pair)] @@ @] IN
              doc' = longer /\ walk' = WalkStart(longer)
        /\ UNCHANGED at

HeaderSpec == Init /\ [][WritePair \/ Next]_vars

Two == [xml_header_bytes |-> 31, stored_block_multiple |-> 4, stored_block_floor_bytes |-> 10,
        subblock_count |-> 2]
=============================================================================
