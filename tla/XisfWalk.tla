------------------------------- MODULE XisfWalk -------------------------------
(***************************************************************************)
(* The walk over a header's image occurrences, one root child at a time,   *)
(* against the header read with no memo at all.                            *)
(***************************************************************************)
EXTENDS XisfConforming

CONSTANT Docs   \* the headers a walk may be given

ASSUME DocsAssumption == \A d \in Docs : ConformingDoc(d)

\* None is not what an ancillary element reads as.
ASSUME NoReadingAssumption ==
    \A d \in Docs : \A n \in DOMAIN d.nodes :
        /\ NameOf(d, n) = "ColorFilterArray" => ReadCfa(d, n) # None
        /\ NameOf(d, n) = "Resolution" => ReadResolution(d, n) # None
        /\ NameOf(d, n) = "DisplayFunction" => ReadDisplayFunction(d, n) # None

VARIABLES doc, at, walk   \* at: the root children visited

vars == <<doc, at, walk>>

RootChildren == Children(doc, 1)

Init == doc \in Docs /\ at = 0 /\ walk = WalkStart(doc)

Visit ==
    /\ at < Len(RootChildren)
    /\ at' = at + 1 /\ walk' = WalkChild(doc, walk, RootChildren[at + 1])
    /\ UNCHANGED doc

Done == at = Len(RootChildren) /\ UNCHANGED vars
Next == Visit \/ Done
Spec == Init /\ [][Next]_vars

-----------------------------------------------------------------------------
(* The header read without a memo.                                         *)

\* Every read of a fold under a key of its own.
Unshared(raw) == [i \in DOMAIN raw |-> [raw[i] EXCEPT !.node = i]]

\* A child stands for an element of this kind, itself or through a Reference.
StandsFor(c, kind) == Target(doc, c) # None /\ NameOf(doc, Target(doc, c)) = kind

\* The records of an image, each read where it stands; an element without a name is none.
RecordsOf(image) ==
    FoldLeft(LAMBDA all, c :
                 IF StandsFor(c, "FITSKeyword") /\ Attr(doc, Target(doc, c), "name") # None
                 THEN Append(all, RawKeyword(doc, Target(doc, c), IsReferenced(doc, c))) ELSE all,
             <<>>, Children(doc, image))

\* The properties children stand for, beside their positions; one that does not read is none.
PropertiesOf(children, scope) ==
    FoldLeft(LAMBDA all, c :
                 IF StandsFor(c, "Property") /\ ReadProperty(doc, Target(doc, c), scope) # None
                 THEN Append(all, <<c, ReadProperty(doc, Target(doc, c), scope)>>) ELSE all,
             <<>>, children)

\* What reading the first child of a kind gives, the default without one.
FirstOf(image, kind, Read(_, _), default) ==
    LET kids == Children(doc, image)
        all  == {k \in DOMAIN kids : StandsFor(kids[k], kind)}
    IN  IF all = {} THEN Reads(default, None) ELSE Read(doc, Target(doc, kids[Min(all)]))

\* The root children an image stands at, in document order.
Images ==
    FoldLeft(LAMBDA all, c : IF ImageAt(doc, c) = None THEN all ELSE Append(all, c),
             <<>>, RootChildren)

\* The occurrences that have a block to decode.
Decodable == {k \in DOMAIN walk.out : walk.out[k].plan # None}

-----------------------------------------------------------------------------
(* Properties.                                                             *)

\* The memo is invisible: every occurrence reads as though nothing had been read before it,
\* however many references reached its elements and from whichever image (cache.rs); and a
\* chain past the cap refuses the header at whichever image assembles it, and no other does.
MemoIsInvisible ==
    /\ at = Len(RootChildren) =>
        (walk.res = "ok" <=>
            \A k \in DOMAIN Images :
                k <= ImagesPerSource + 1 =>
                    FoldRecords(Unshared(RecordsOf(ImageAt(doc, Images[k]))), ValueBytes,
                                EmptyCache).res = "ok")
    /\ \A k \in DOMAIN walk.out :
        LET image == ImageAt(doc, Images[k])
            says  == walk.out[k].header
            cfa   == FirstOf(image, "ColorFilterArray", ReadCfa, None)
            resolution == FirstOf(image, "Resolution", ReadResolution, <<72, 72>>)
            display    == FirstOf(image, "DisplayFunction", ReadDisplayFunction, IdentityDisplay) IN
        /\ says.keywords = FoldRecords(Unshared(RecordsOf(image)), ValueBytes, EmptyCache).out
        /\ says.own = PropertiesOf(Children(doc, image), "Image")
        /\ <<says.cfa, says.resolution, says.display_function>>
              = <<cfa.value, resolution.value, display.value>>
        /\ walk.out[k].plan = BuildOccurrence(doc, image, Reading,
                                   <<cfa.fault, resolution.fault, display.fault>>).plan

\* The delivery a header promises is the one the decoder takes: it streams exactly the blocks
\* that were not reported whole, and holds none of its subblocks where rows were promised
\* (granularity in image.rs and is_streamable in decoder.rs decide apart).
GranularityMatchesThePath ==
    \A k \in Decodable :
        LET plan     == walk.out[k].plan
            promised == walk.out[k].header.granularity IN
        /\ promised.floor # "WholeImage" <=> IsStreamable(plan)
        /\ promised.floor = "Rows" /\ plan.compression # None =>
              ~HoldsWholeSubblocks(plan.compression.codec, plan.subblocks,
                                   StoredSize(plan.location, plan.materialized),
                                   plan.implied_bytes, Reading)
        /\ promised.floor = "Block" => promised.subblocks = PairCount(plan)

\* The pairs of a plan tile the stored block and the image exactly, in true sums and within the
\* cap on their number, so that no offset computed from them leaves either (check_subblock_sums).
PairsTileTheBlock ==
    \A k \in Decodable :
        LET plan     == walk.out[k].plan
            Total(n) == FoldLeft(LAMBDA sum, pair : sum + pair[n], 0, plan.subblocks) IN
        plan.subblocks # None =>
            /\ Total(1) = StoredSize(plan.location, plan.materialized)
            /\ Total(2) = plan.implied_bytes
            /\ Len(plan.subblocks) <= XisfLimits.subblock_count

\* Interleaved at its split, an image's properties stand in document order, and every property
\* of the document's Metadata and of the image is there (PropertySet of metadata.rs).
PropertiesInDocumentOrder ==
    \A k \in DOMAIN walk.out :
        LET h      == walk.out[k].header
            merged == SubSeq(walk.shared, 1, h.split) \o h.own
                         \o SubSeq(walk.shared, h.split + 1, Len(walk.shared)) IN
        /\ \A i, j \in DOMAIN merged : i < j => merged[i][1] < merged[j][1]
        /\ Range(merged) = Range(PropertiesOf(MetadataChildren(doc), "Metadata"))
                              \cup Range(PropertiesOf(Children(doc, ImageAt(doc, Images[k])), "Image"))

\* The occurrences are the document's, in order, and the walk keeps one past the cap and no
\* more: next_image can refuse it, and nothing is built that no caller reaches.
OnePastTheCap ==
    /\ Len(walk.out) <= ImagesPerSource + 1
    /\ at = Len(RootChildren) /\ walk.res = "ok" =>
          Len(walk.out) = IF Len(Images) > ImagesPerSource THEN ImagesPerSource + 1 ELSE Len(Images)
=============================================================================
