----------------------------- MODULE XisfDocument -----------------------------
(***************************************************************************)
(* The image occurrences of an XISF header (walk_occurrences of            *)
(* src/src/xisf/image.rs): the root's children in document order, a        *)
(* Reference followed one hop, an image's ancillary children read once     *)
(* whichever element refers to them, and one memo over the whole walk.     *)
(*                                                                         *)
(* An occurrence is [header, plan] of BuildOccurrence with the header's    *)
(* keywords, own properties, the split they interleave at, and ancillary   *)
(* values.  A property stands beside the position it was found at.         *)
(***************************************************************************)
EXTENDS XisfImage, XisfKeywords

CONSTANTS Reading,        \* ReaderOptions::equal_length_subblocks
          ValueBytes,     \* Limits::keyword_value_bytes
          ImagesPerSource \* Limits::images_per_source

ASSUME ImagesPerSourceAssumption == ImagesPerSource \in Nat

-----------------------------------------------------------------------------
(* The children of an image.                                               *)

\* The element a child stands for: itself, or what a Reference resolves to.
Target(doc, child) == IF NameOf(doc, child) = "Reference" THEN Resolve(doc, child) ELSE child
IsReferenced(doc, child) == NameOf(doc, child) = "Reference"

AttrOr(doc, node, name, default) ==
    IF Attr(doc, node, name) = None THEN default ELSE Attr(doc, node, name)

\* read_keyword, of an element that has a name.
RawKeyword(doc, node, referenced) ==
    [node |-> node, name |-> Attr(doc, node, "name"),
     value |-> AttrOr(doc, node, "value", [form |-> "bare", content |-> <<>>, named |-> None]),
     comment |-> AttrOr(doc, node, "comment", ""),
     origin |-> IF referenced THEN "Reference" ELSE "Image"]

\* read_property, None without an id or a type.
ReadProperty(doc, node, scope) ==
    LET A(name) == Attr(doc, node, name) IN
    IF A("id") = None \/ A("type") = None THEN None
    ELSE [id |-> A("id"), type |-> A("type"), scope |-> scope,
          value |-> IF A("value") # None THEN A("value")
                    ELSE IF A("location") # None THEN "Unavailable"
                    ELSE doc.nodes[node].text]

\* read_cfa: its value is None where an attribute it must carry does not read.
ReadCfa(doc, node) ==
    LET must == [a \in {"pattern", "width", "height"} |-> Attr(doc, node, a)] IN
    IF None \in Range(must) THEN Reads(None, "Malformed") ELSE Reads(must, None)

\* read_resolution: an axis, None when absent, is reported where it parses, and 72 otherwise.
ReadResolution(doc, node) ==
    LET axis(name) ==
            LET v == Attr(doc, node, name) IN
            IF v = None THEN Reads(72, "Malformed")
            ELSE Reads(v, IF v = NaN \/ v <= 0 THEN "Malformed" ELSE None)
        h == axis("horizontal")
        v == axis("vertical")
    IN  Reads(<<h.value, v.value>>, FirstFault(<<h.fault, v.fault>>))

IdentityDisplay == [m |-> 50, s |-> 0, h |-> 100, l |-> 0, r |-> 100]

\* read_display_function: five parameters, each reported where it reads and the identity's
\* otherwise, the first fault among them in their order.
ReadDisplayFunction(doc, node) ==
    LET reads(p) == Attr(doc, node, p) # None /\ Len(Attr(doc, node, p)) = 4
                       /\ None \notin Range(Attr(doc, node, p)) IN
    Reads([p \in DOMAIN IdentityDisplay |->
              IF reads(p) THEN Attr(doc, node, p) ELSE IdentityDisplay[p]],
          IF \A p \in DOMAIN IdentityDisplay : reads(p) THEN None ELSE "Malformed")

\* The scope is part of a property's value, and so of its key.
PropertyKey(node, scope) == <<node, scope>>

Uncollected ==
    [keywords |-> <<>>, properties |-> <<>>, cfa |-> None, resolution |-> None,
     display_function |-> None]

\* The first element of a kind is the image's, whatever it reads as.
CollectAncillary(kind, s, node, referenced, read) ==
    LET m == Memoized(s.cache[kind], node, referenced, read) IN
    IF s.got[kind] # None THEN s
    ELSE [s EXCEPT !.got[kind] = m.value, !.cache[kind] = m.map]

\* A property that has no id or no type is none of the image's.
CollectProperty(s, child, m) ==
    [s EXCEPT !.cache.properties = m.map,
              !.got.properties = IF m.value = None THEN @ ELSE Append(@, <<child, m.value>>)]

\* One turn of collect_children's loop, s being [got, cache].
CollectChild(doc, s, child) ==
    LET node       == Target(doc, child)
        referenced == IsReferenced(doc, child)
        name       == IF node = None THEN None ELSE NameOf(doc, node)
    IN  IF name = "FITSKeyword" /\ Attr(doc, node, "name") # None
        THEN [s EXCEPT !.got.keywords = Append(@, RawKeyword(doc, node, referenced))]
        ELSE IF name = "Property"
        THEN CollectProperty(s, child,
                 Memoized(s.cache.properties, PropertyKey(node, "Image"), referenced,
                          ReadProperty(doc, node, "Image")))
        ELSE IF name = "ColorFilterArray"
        THEN CollectAncillary("cfa", s, node, referenced, ReadCfa(doc, node))
        ELSE IF name = "Resolution"
        THEN CollectAncillary("resolution", s, node, referenced, ReadResolution(doc, node))
        ELSE IF name = "DisplayFunction"
        THEN CollectAncillary("display_function", s, node, referenced,
                              ReadDisplayFunction(doc, node))
        ELSE s

\* collect_children.
CollectChildren(doc, image, cache) ==
    FoldLeft(LAMBDA s, child : CollectChild(doc, s, child),
             [got |-> Uncollected, cache |-> cache], Children(doc, image))

-----------------------------------------------------------------------------
(* The properties every image shares.                                      *)

\* The children of the root's Metadata elements, in document order.
MetadataChildren(doc) ==
    FoldLeft(LAMBDA all, child :
                 IF NameOf(doc, child) = "Metadata" THEN all \o Children(doc, child) ELSE all,
             <<>>, Children(doc, 1))

ShareProperty(s, node, m) ==
    [s EXCEPT !.cache.properties = m.map,
              !.shared = IF m.value = None THEN @ ELSE Append(@, <<node, m.value>>)]

\* One turn of metadata_properties' loop, s being [shared, cache].
MetadataProperty(doc, s, node) ==
    LET target == Target(doc, node) IN
    IF target = None THEN s
    ELSE IF NameOf(doc, target) # "Property" THEN s
    ELSE ShareProperty(s, node,
             Memoized(s.cache.properties, PropertyKey(target, "Metadata"), IsReferenced(doc, node),
                      ReadProperty(doc, target, "Metadata")))

\* metadata_properties.
MetadataProperties(doc, cache) ==
    FoldLeft(LAMBDA s, node : MetadataProperty(doc, s, node),
             [shared |-> <<>>, cache |-> cache], MetadataChildren(doc))

-----------------------------------------------------------------------------
(* The walk.                                                               *)

\* Slip: the image's own properties come after every shared one.
SlipSplitOf(shared, image) == Len(shared)

\* Where an image's own properties go among the shared ones.
SplitOf(shared, image) == Cardinality({k \in DOMAIN shared : shared[k][1] < image})

ValueOr(ancillary, default) == IF ancillary = None THEN Reads(default, None) ELSE ancillary

\* An occurrence, its image's children collected and their keywords folded.
OccurrenceWith(doc, image, shared, got, keywords) ==
    LET cfa        == ValueOr(got.cfa, None)
        resolution == ValueOr(got.resolution, <<72, 72>>)
        display    == ValueOr(got.display_function, IdentityDisplay)
        o          == BuildOccurrence(doc, image, Reading,
                                      <<cfa.fault, resolution.fault, display.fault>>)
    IN  [res |-> keywords.res, cache |-> keywords.cache,
         occurrence |->
            [header |-> [geometry |-> o.header.geometry, bytes |-> o.header.bytes,
                         decline |-> o.header.decline, bounds |-> o.header.bounds,
                         granularity |-> o.header.granularity,
                         keywords |-> keywords.out, own |-> got.properties,
                         split |-> SplitOf(shared, image), cfa |-> cfa.value,
                         resolution |-> resolution.value, display_function |-> display.value],
             plan   |-> o.plan]]

BuildFrom(doc, image, shared, c) ==
    OccurrenceWith(doc, image, shared, c.got, FoldRecords(c.got.keywords, ValueBytes, c.cache))

\* The rest of build_occurrence, [res, occurrence, cache]; keywords past their cap fail the walk.
BuildAt(doc, image, shared, cache) ==
    BuildFrom(doc, image, shared, CollectChildren(doc, image, cache))

\* The image a root child is an occurrence of, None for any other child.
ImageAt(doc, child) ==
    LET node == Target(doc, child) IN
    IF node = None THEN None ELSE IF NameOf(doc, node) = "Image" THEN node ELSE None

\* Slip: every occurrence is kept.
SlipPastTheCap(out) == FALSE

\* One occurrence past the cap is kept, for next_image to refuse.
PastTheCap(out) == Len(out) > ImagesPerSource

\* Before the first root child: the shared properties.
WalkFrom(m) ==
    [res |-> "ok", out |-> <<>>, built |-> <<>>, shared |-> m.shared, cache |-> m.cache]
WalkStart(doc) == WalkFrom(MetadataProperties(doc, EmptyCache))

\* A fresh occurrence joins the walk, remembered if a Reference reached its image.
Enter(s, image, referenced, fresh) ==
    IF fresh.res # "ok" THEN [s EXCEPT !.res = fresh.res]
    ELSE [s EXCEPT !.out = Append(@, fresh.occurrence), !.cache = fresh.cache,
                   !.built = IF referenced THEN Remembering(@, image, fresh.occurrence) ELSE @]

\* One turn of walk_occurrences' loop: [res, out, built, shared, cache].
WalkChild(doc, s, child) ==
    LET image == ImageAt(doc, child) IN
    IF s.res # "ok" \/ PastTheCap(s.out) \/ image = None THEN s
    ELSE IF image \in DOMAIN s.built THEN [s EXCEPT !.out = Append(@, s.built[image])]
    ELSE Enter(s, image, IsReferenced(doc, child), BuildAt(doc, image, s.shared, s.cache))

\* walk_occurrences.
WalkOccurrences(doc) ==
    FoldLeft(LAMBDA s, child : WalkChild(doc, s, child), WalkStart(doc), Children(doc, 1))
=============================================================================
