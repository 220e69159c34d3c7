------------------------------ MODULE XmlHeader ------------------------------
(***************************************************************************)
(* The parse of an XISF header's XML (src/src/xisf/xml.rs): the events of  *)
(* the XML reader, in any order it may give them, become one Doc or one    *)
(* error.                                                                  *)
(*                                                                         *)
(* A qualified name is the sequence of what its colons separate, and an    *)
(* interned name the sequence of the parts the code concatenates.  A start *)
(* tag is [name, attrs], an attribute [key, value, length, defect], the    *)
(* defect being one the reader reports when it comes to the attribute      *)
(* ("malformed") or to its value ("unresolvable"), or None.  The XML       *)
(* reader itself (quick-xml) is external: it keeps end tags in step with   *)
(* start tags and reports anything else as broken.  One `value' stands for *)
(* both the raw value that a namespace is bound to and the normalized one  *)
(* that is kept: what is told of either does not depend on how they        *)
(* differ.  The limit of 4 GiB on interned text is not modelled.           *)
(***************************************************************************)
EXTENDS Checked, SequencesExt

CONSTANTS XmlLimits,   \* the caps of Limits on the header's XML
          Xisf         \* XISF_NAMESPACE

ASSUME XmlLimitsAssumption ==
    XmlLimits \in [xml_elements : Nat, xml_depth : Nat, attributes_per_element : Nat,
                   attribute_value_bytes : Nat]

VARIABLES nodes,        \* the elements in document order: [name, attrs, text, children]
          stack,        \* the open elements, the innermost last
          root,         \* the first element, or None
          elements,     \* start tags met
          namespaces,   \* Namespaces
          outcome       \* "parsing", "ok", or the class of the error

xmlVars == <<nodes, stack, root, elements, namespaces, outcome>>

-----------------------------------------------------------------------------
(* Namespaces: every binding in declaration order, the innermost one of    *)
(* each prefix, the default namespace being that of no prefix, and how     *)
(* many bindings there were when each open element began.                  *)

NoNamespaces == [bindings |-> <<>>, innermost |-> [p \in {} |-> 0], marks |-> <<>>]

InnermostOf(ns, prefix) ==
    IF prefix \in DOMAIN ns.innermost THEN ns.innermost[prefix] ELSE None

\* xmlns:xmlns declares nothing.
Declares(key) == key[1] = "xmlns" /\ key # <<"xmlns", "xmlns">>

Bind(ns, attr) ==
    LET prefix == Tail(attr.key)
        index  == Len(ns.bindings) + 1
    IN  [bindings  |-> Append(ns.bindings, [prefix |-> prefix, uri |-> attr.value,
                                            shadowed |-> InnermostOf(ns, prefix)]),
         innermost |-> [p \in DOMAIN ns.innermost \cup {prefix} |->
                           IF p = prefix THEN index ELSE ns.innermost[p]],
         marks     |-> ns.marks]

\* What start.attributes() yields: a key written twice is malformed the second time.
Yields(tag) ==
    [i \in DOMAIN tag.attrs |->
        IF \E j \in 1 .. i - 1 : tag.attrs[j].key = tag.attrs[i].key
        THEN [tag.attrs[i] EXCEPT !.defect = "malformed"] ELSE tag.attrs[i]]

\* open: attributes past the cap and malformed ones declare nothing.
OpenScope(ns, tag) ==
    LET items == Yields(tag)
        Declare(scope, i) ==
            IF /\ i <= XmlLimits.attributes_per_element
               /\ items[i].defect # "malformed" /\ Declares(items[i].key)
            THEN Bind(scope, items[i]) ELSE scope
    IN  FoldLeft(Declare, [ns EXCEPT !.marks = Append(@, Len(ns.bindings))],
                 [i \in DOMAIN items |-> i])

Unbind(innermost, binding) ==
    IF binding.shadowed = None
    THEN [p \in DOMAIN innermost \ {binding.prefix} |-> innermost[p]]
    ELSE [innermost EXCEPT ![binding.prefix] = binding.shadowed]

\* Slip: what a binding shadowed is forgotten.
SlipCloseScope(ns) ==
    LET mark == Last(ns.marks)
        gone == SubSeq(ns.bindings, mark + 1, Len(ns.bindings))
    IN  [bindings  |-> SubSeq(ns.bindings, 1, mark),
         innermost |-> [p \in DOMAIN ns.innermost \ {gone[i].prefix : i \in DOMAIN gone} |->
                           ns.innermost[p]],
         marks     |-> Front(ns.marks)]

\* close: the innermost element's bindings are undone, the last one first.
CloseScope(ns) ==
    LET mark == Last(ns.marks)
        gone == SubSeq(ns.bindings, mark + 1, Len(ns.bindings))
    IN  [bindings  |-> SubSeq(ns.bindings, 1, mark),
         innermost |-> FoldLeft(Unbind, ns.innermost, Reverse(gone)),
         marks     |-> Front(ns.marks)]

\* resolve: xmlns="" shadows, and stands for no namespace.
ResolvePrefix(ns, prefix) ==
    LET index == InnermostOf(ns, prefix) IN
    IF index = None \/ ns.bindings[index].uri = "" THEN None ELSE ns.bindings[index].uri

InXisfOrNoNamespace(prefix, resolved) ==
    IF resolved = None THEN prefix = <<>> ELSE resolved = Xisf

-----------------------------------------------------------------------------
(* One start tag.                                                          *)

ElementName(ns, qname) ==
    LET prefix   == Front(qname)
        resolved == ResolvePrefix(ns, prefix)
    IN  IF InXisfOrNoNamespace(prefix, resolved) THEN <<Last(qname)>>
        ELSE IF resolved # None THEN <<"{", resolved, "}", Last(qname)>>
        ELSE <<"{">> \o prefix \o <<":}", Last(qname)>>

\* The key an attribute is kept under.
AttributeKey(ns, key) ==
    IF /\ key[1] # "xmlns" /\ Front(key) # <<>>
       /\ ResolvePrefix(ns, Front(key)) = Xisf
    THEN <<Last(key)>> ELSE key

\* Why the i-th attribute is refused, the ones before it being accepted.
AttributeRefusal(ns, items, i) ==
    IF items[i].defect = "malformed" THEN "Malformed"
    ELSE IF \/ i > XmlLimits.attributes_per_element
            \/ items[i].length > XmlLimits.attribute_value_bytes
    THEN "LimitExceeded"
    ELSE IF \/ items[i].defect = "unresolvable"
            \/ \E j \in 1 .. i - 1 :
                  AttributeKey(ns, items[j].key) = AttributeKey(ns, items[i].key)
    THEN "Malformed"
    ELSE "ok"

\* read_attributes: [res, attrs].
ReadAttributes(ns, tag) ==
    LET items   == Yields(tag)
        refused == {i \in DOMAIN items : AttributeRefusal(ns, items, i) # "ok"}
    IN  IF refused # {} THEN [res |-> AttributeRefusal(ns, items, Min(refused)), attrs |-> <<>>]
        ELSE [res   |-> "ok",
              attrs |-> [i \in DOMAIN items |-> <<AttributeKey(ns, items[i].key), items[i].value>>]]

\* What refuses a start tag, ns being the scope it opens.
TagRefusal(tag, ns) ==
    LET prefix == Front(tag.name) IN
    IF elements + 1 > XmlLimits.xml_elements \/ Len(stack) >= XmlLimits.xml_depth
    THEN "LimitExceeded"
    ELSE IF stack = <<>> /\ ~InXisfOrNoNamespace(prefix, ResolvePrefix(ns, prefix))
    THEN "Malformed"
    ELSE ReadAttributes(ns, tag).res

-----------------------------------------------------------------------------
(* One action per event.                                                   *)

XmlInit ==
    /\ nodes = <<>> /\ stack = <<>> /\ root = None /\ elements = 0
    /\ namespaces = NoNamespaces /\ outcome = "parsing"

\* parse returns an error and drops the document.
Fail(class) ==
    outcome' = class /\ UNCHANGED <<nodes, stack, root, namespaces>>

\* The document with an element more, the last child of the innermost open one.
Grown(node) ==
    Append(IF stack = <<>> THEN nodes
           ELSE [nodes EXCEPT ![Last(stack)].children = Append(@, Len(nodes) + 1)], node)

StartTag(tag) ==
    LET ns == OpenScope(namespaces, tag) IN
    /\ outcome = "parsing"
    /\ elements' = elements + 1
    /\ IF TagRefusal(tag, ns) # "ok" THEN Fail(TagRefusal(tag, ns))
       ELSE /\ nodes' = Grown([name |-> ElementName(ns, tag.name), text |-> <<>>, children |-> <<>>,
                               attrs |-> ReadAttributes(ns, tag).attrs])
            /\ stack' = Append(stack, Len(nodes) + 1)
            /\ root' = IF root = None THEN Len(nodes) + 1 ELSE root
            /\ namespaces' = ns /\ UNCHANGED outcome

\* What parse returns once the root is closed.
Accepted == IF nodes[root].name = <<"xisf">> THEN "ok" ELSE "Malformed"

EndTag ==
    /\ outcome = "parsing" /\ stack # <<>>
    /\ stack' = Front(stack) /\ namespaces' = CloseScope(namespaces)
    /\ outcome' = IF Last(stack) = root THEN Accepted ELSE "parsing"
    /\ UNCHANGED <<nodes, root, elements>>

\* Slip: text goes to the element met last.
SlipWithText(piece) ==
    IF stack = <<>> THEN nodes ELSE [nodes EXCEPT ![Len(nodes)].text = Append(@, piece)]

\* Character data goes to the innermost open element; outside the root it goes nowhere.
WithText(piece) ==
    IF stack = <<>> THEN nodes ELSE [nodes EXCEPT ![Last(stack)].text = Append(@, piece)]

\* Text and CData.
CharacterData(piece) ==
    /\ outcome = "parsing" /\ nodes' = WithText(piece)
    /\ UNCHANGED <<stack, root, elements, namespaces, outcome>>

\* GeneralRef: a character reference or one of XML's five entities, or neither.
Reference(piece) ==
    /\ outcome = "parsing"
    /\ IF piece = None THEN Fail("Malformed")
       ELSE nodes' = WithText(piece) /\ UNCHANGED <<stack, root, namespaces, outcome>>
    /\ UNCHANGED elements

\* Decl: an XML declaration, the encoding it names or None.
Declaration(encoding) ==
    /\ outcome = "parsing"
    /\ IF encoding \notin {None, "utf-8", "utf8"} THEN Fail("Unsupported")
       ELSE UNCHANGED <<nodes, stack, root, namespaces, outcome>>
    /\ UNCHANGED elements

\* A DOCTYPE, or anything the XML reader does not take for XML in UTF-8.
DocTypeOrBroken == outcome = "parsing" /\ Fail("Malformed") /\ UNCHANGED elements

\* Slip: the end of the input closes whatever is open.
SlipEof ==
    /\ outcome = "parsing" /\ outcome' = IF root = None THEN "Malformed" ELSE Accepted
    /\ UNCHANGED <<nodes, stack, root, elements, namespaces>>

\* The end of the input: an element is still open, or there was no root.
Eof == outcome = "parsing" /\ Fail("Malformed") /\ UNCHANGED elements
=============================================================================
