-------------------------------- MODULE XisfDoc --------------------------------
(***************************************************************************)
(* A parsed XISF header (Doc of src/src/xisf/xml.rs): elements in one      *)
(* sequence, in document order, each naming its children by index.  A node *)
(* is [name, attrs, text, children]: attrs maps the names of the attributes*)
(* present to their values, each already split into what its reader takes  *)
(* it apart into, and text is None or what the element's text decodes to.  *)
(***************************************************************************)
EXTENDS Checked, SequencesExt

Attr(doc, node, name) ==
    IF name \in DOMAIN doc.nodes[node].attrs THEN doc.nodes[node].attrs[name] ELSE None

Children(doc, node) == doc.nodes[node].children
NameOf(doc, node) == doc.nodes[node].name

\* REFERENCEABLE: what a Reference may resolve to.
Referenceable ==
    {"FITSKeyword", "Property", "ColorFilterArray", "Resolution", "DisplayFunction", "Image"}

UidBearers(nodes, uid) ==
    {i \in DOMAIN nodes : /\ nodes[i].name \in Referenceable
                          /\ "uid" \in DOMAIN nodes[i].attrs /\ nodes[i].attrs.uid = uid}

\* collect_uids and the lookup in it: of several elements with a uid, the first.
NodeWithUid(nodes, uid) ==
    IF UidBearers(nodes, uid) = {} THEN None ELSE Min(UidBearers(nodes, uid))

\* resolve, exactly one hop.
Resolve(doc, node) ==
    LET uid    == Attr(doc, node, "ref")
        target == IF uid = None THEN None ELSE NodeWithUid(doc.nodes, uid)
    IN  IF target = None \/ NameOf(doc, target) = "Reference" THEN None ELSE target
=============================================================================
