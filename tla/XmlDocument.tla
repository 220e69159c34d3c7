------------------------------ MODULE XmlDocument ------------------------------
(***************************************************************************)
(* A header written tag by tag into the parse of XmlHeader, cut anywhere.  *)
(* A ghost keeps the document as it was written: of every element its tag, *)
(* the elements it stands in, itself last, and its character data.         *)
(***************************************************************************)
EXTENDS XmlHeader

CONSTANTS Tags,        \* the start tags a header may hold
          MaxPieces    \* bound on the pieces of character data in a header

\* Nothing stands between two colons of a name or before one but its parts.
Named(name) == name # <<>> /\ name \in Seq(ToSet(name))

ASSUME TagsAssumption ==
    \A tag \in Tags :
        /\ Named(tag.name) /\ tag.attrs \in Seq(ToSet(tag.attrs))
        /\ \A a \in ToSet(tag.attrs) :
              Named(a.key) /\ {"key", "value", "length", "defect"} \subseteq DOMAIN a

\* No namespace is none.
ASSUME XisfAssumption == Xisf # None

VARIABLES written, open

documentVars == <<xmlVars, written, open>>

DocumentInit == XmlInit /\ written = <<>> /\ open = <<>>

\* A tag the parse took is written into the ghost.
Write(tag) ==
    IF outcome' # "parsing" THEN UNCHANGED <<written, open>>
    ELSE LET path == Append(open, Len(written) + 1) IN
         written' = Append(written, [tag |-> tag, path |-> path, text |-> <<>>]) /\ open' = path

Pieces == FoldLeft(LAMBDA n, w : n + Len(w.text), 0, written)
WriteText(piece) ==
    written' = IF open = <<>> THEN written ELSE [written EXCEPT ![Last(open)].text = Append(@, piece)]

StartEvent == \E tag \in Tags : StartTag(tag) /\ Write(tag)
EndEvent == EndTag /\ open' = Front(open) /\ UNCHANGED written
TextEvent == Pieces < MaxPieces /\ CharacterData("text") /\ WriteText("text") /\ UNCHANGED open
ReferenceEvent ==
    /\ Pieces < MaxPieces
    /\ \E piece \in {"&", None} :
          /\ Reference(piece)
          /\ IF piece = None THEN UNCHANGED written ELSE WriteText(piece)
    /\ UNCHANGED open
OtherEvent ==
    /\ \/ \E encoding \in {None, "utf-8", "utf-16"} : Declaration(encoding)
       \/ DocTypeOrBroken
       \/ Eof
    /\ UNCHANGED <<written, open>>

DocumentNext == StartEvent \/ EndEvent \/ TextEvent \/ ReferenceEvent \/ OtherEvent

DocumentSpec == DocumentInit /\ [][DocumentNext]_documentVars

-----------------------------------------------------------------------------
\* The namespace a prefix is in at the end of a path of a document, by the declarations written
\* along it.
Lexical(doc, path, prefix) ==
    LET says(k) == {a \in ToSet(doc[path[k]].tag.attrs) : Declares(a.key) /\ Tail(a.key) = prefix}
        sayers  == {k \in DOMAIN path : says(k) # {}}
        uri     == (CHOOSE a \in says(Max(sayers)) : TRUE).value
    IN  IF sayers = {} \/ uri = "" THEN None ELSE uri

\* An element is known by a core name only when it is in the XISF namespace, or has no prefix
\* and is in none; an attribute only when it has no prefix, or is no declaration and its prefix is
\* bound to XISF: by the innermost declaration around it, however many elements declared, shadowed
\* or undeclared a prefix and were closed since (Namespaces keeps no scopes, only what each
\* binding shadowed).
ForeignNeverBare ==
    \A i \in DOMAIN nodes :
        LET tag   == written[i].tag
            space(qname) == Lexical(written, written[i].path, Front(qname))
        IN  /\ Len(nodes[i].name) = 1 <=>
                  space(tag.name) = Xisf \/ (Len(tag.name) = 1 /\ space(tag.name) = None)
            /\ \A k \in DOMAIN tag.attrs :
                  LET key == tag.attrs[k].key IN
                  Len(nodes[i].attrs[k][1]) = 1 <=>
                     Len(key) = 1 \/ (key[1] # "xmlns" /\ space(key) = Xisf)

\* The nodes are the elements in document order, each with its own children in theirs and with
\* its own character data, however it was broken up by references and by the children.
TreeIsTheDocument ==
    \A i \in DOMAIN nodes :
        LET children == nodes[i].children IN
        /\ nodes[i].text = written[i].text
        /\ ToSet(children) = {j \in DOMAIN nodes : written[j].path = Append(written[i].path, j)}
        /\ \A k, l \in DOMAIN children : k < l => children[k] < children[l]

\* A header cut short is never taken for a whole one.
AcceptedIsWhole == outcome = "ok" => open = <<>> /\ nodes[root].name = <<"xisf">>
=============================================================================
