----------------------------- MODULE MCXmlHeader -----------------------------
(***************************************************************************)
(* Every small header: a few start tags that bind, shadow, undeclare and   *)
(* misuse namespaces, nested and following one another in every way, and a *)
(* few the parse refuses.                                                  *)
(***************************************************************************)
EXTENDS XmlDocument

Caps == [xml_elements |-> 4, xml_depth |-> 3, attributes_per_element |-> 3,
         attribute_value_bytes |-> 9]

Says(key, value) == [key |-> key, value |-> value, length |-> 1, defect |-> None]
Tag(name, attrs) == [name |-> name, attrs |-> attrs]

Xmlns == <<"xmlns">>
Geometry == <<"geometry">>
TakenTags ==
    {Tag(<<"xisf">>, <<>>),
     Tag(<<"p", "xisf">>, <<Says(<<"xmlns", "p">>, Xisf), Says(Xmlns, Xisf)>>),
     Tag(<<"Image">>, <<Says(Xmlns, "other"), Says(<<"xmlns", "p">>, "")>>),
     Tag(<<"Image">>, <<Says(<<"q", "geometry">>, "b"), Says(Xmlns, "")>>),
     Tag(<<"p", "Image">>, <<Says(Geometry, "a"), Says(<<"p", "geometry">>, "b")>>),
     Tag(<<"q", "Image">>, <<Says(<<"xmlns", "p">>, "other"), Says(<<"p", "geometry">>, "a"),
                             Says(<<"xmlns", "q">>, Xisf)>>),
     Tag(<<"xmlns", "Image">>, <<Says(<<"xmlns", "xmlns">>, Xisf), Says(<<"xmlns", "xmlns", "a">>, Xisf),
                                 Says(<<"xmlns", "a", "b">>, "other")>>)}

Flawed(defect, length) == [key |-> Geometry, value |-> "a", length |-> length, defect |-> defect]
RefusedTags ==
    {Tag(<<"xisf">>, attrs) : attrs \in
        {<<Flawed("malformed", 1)>>, <<Flawed("unresolvable", 1)>>, <<Flawed(None, 10)>>,
         <<Says(Geometry, "a"), Says(Geometry, "a")>>,
         [i \in 1 .. 4 |-> Says(<<<<"a", "b", "c", "d">>[i]>>, "a")]}}

SmallTags == TakenTags \cup RefusedTags
=============================================================================
