---------------------------- MODULE XisfConforming ----------------------------
(***************************************************************************)
(* What an XISF header is by the time its occurrences are walked: a tree   *)
(* of elements whose attributes were split into fields that read or did    *)
(* not, whatever they say.  The proofs about the walk and the reader start *)
(* from it, and every document given to TLC is held against it.            *)
(***************************************************************************)
EXTENDS XisfCodec, XisfDocument

\* An attribute, when the element carries it, is of this kind.
Carries(attrs, name, kind) == name \in DOMAIN attrs => attrs[name] \in kind

\* The attributes the block and its samples are read from, each split into fields that are a
\* u64 or did not read as one.
ConformingAttrs(attrs) ==
    /\ Carries(attrs, "geometry", Seq(Option(U)))
    /\ Carries(attrs, "subblocks", Seq(Option(Option(U) \X Option(U))))
    /\ "location" \in DOMAIN attrs => attrs.location.fields \in Seq(Option(U))
    /\ "compression" \in DOMAIN attrs =>
          attrs.compression.fields \in Seq(Option(U)) /\ attrs.compression.shuffled \in BOOLEAN

\* What codecs make of the pairs of a compressed block stands beside its attributes.
ConformingContents(attrs) ==
    "compression" \in DOMAIN attrs =>
        /\ "contents" \in DOMAIN attrs
        /\ \A i \in {1} \cup (IF "subblocks" \in DOMAIN attrs THEN DOMAIN attrs.subblocks ELSE {}) :
              ConformingContent(attrs.contents[i], attrs.compression.codec)

\* The bytes a Data element decodes to are its own, and no byte of the file.
ConformingData(node) ==
    node.name = "Data" /\ node.text # None =>
        /\ node.text \in Seq(Byte)
        /\ \A k \in DOMAIN node.text : node.text[k][1] # "file"

\* The elements stand in document order (the indices `parse' of xml.rs gives them): an element
\* has one parent, before it, and what stands between a parent and its child is not the child of
\* an element before the parent.
InDocumentOrder(doc) ==
    LET Kids(n) == doc.nodes[n].children IN
    \A n \in DOMAIN doc.nodes :
        /\ \A i, j \in DOMAIN Kids(n) : i < j => Kids(n)[i] < Kids(n)[j]
        /\ \A i \in DOMAIN Kids(n) :
              /\ n < Kids(n)[i]
              /\ \A m \in DOMAIN doc.nodes : \A j \in DOMAIN Kids(m) :
                    /\ Kids(m)[j] = Kids(n)[i] => m = n
                    /\ n < Kids(m)[j] /\ Kids(m)[j] < Kids(n)[i] => n <= m

ConformingDoc(doc) ==
    /\ DOMAIN doc.nodes \subseteq Nat \ {0} /\ 1 \in DOMAIN doc.nodes /\ NameOf(doc, 1) = "xisf"
    /\ InDocumentOrder(doc)
    /\ \A n \in DOMAIN doc.nodes :
          /\ doc.nodes[n].children \in Seq(DOMAIN doc.nodes)
          /\ ConformingAttrs(doc.nodes[n].attrs)
          /\ ConformingContents(doc.nodes[n].attrs)
          /\ ConformingData(doc.nodes[n])

\* None is no fault, no value an attribute reads as, no place a block may stand at, and no
\* element's name.
ASSUME NoFaultAssumption == None \notin {"Malformed", "Unsupported", "LimitExceeded"}
ASSUME NoValueAssumption ==
    None \notin Range(SampleFormats) \cup [width : U, height : U, channels : U]
ASSUME NoLocationAssumption ==
    None \notin [mode : {"attachment"}, position : Nat, size : Nat] \cup [mode : {"embedded"}]
ASSUME NoNameAssumption == None \notin Referenceable
=============================================================================
