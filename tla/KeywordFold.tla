------------------------------ MODULE KeywordFold ------------------------------
(***************************************************************************)
(* The same logical keyword records read from either container, one record *)
(* at a time: fold_cards (src/src/fits/cards.rs) over the cards a writer   *)
(* makes of them, fold_records (src/src/xisf/keywords.rs) over the         *)
(* FITSKeyword elements.  The one builds a chain's value as it grows, the  *)
(* other measures it and builds it when it closes.                         *)
(*                                                                         *)
(* A logical record is [word, words, form, content, comment]: its keyword  *)
(* name, the words a HIERARCH record is named by (or None), its value and  *)
(* its comment, "" where it has none.                                      *)
(***************************************************************************)
EXTENDS FitsCards, XisfKeywords

CONSTANTS LogicalRecords,   \* the records a writer may serialize
          MaxRecords,       \* bound: the records of one header
          ValueBytes        \* Limits::keyword_value_bytes

VARIABLES records, fits, xisf, ended

vars == <<records, fits, xisf, ended>>

Symbols == {"'"} \cup UNION {ToSet(r.content) : r \in LogicalRecords}
Texts == Seq(Symbols)
Comments == {r.comment : r \in LogicalRecords}

\* A record is no END card, and a HIERARCH record is named by words or by none.
ASSUME RecordsAssumption ==
    \A r \in LogicalRecords :
        /\ r.word # "END" /\ r.words \notin {NoText, "Malformed"}
        /\ r.form \in {"quoted", "bare"} /\ r.content \in Seq(ToSet(r.content))
ASSUME MaxRecordsAssumption == MaxRecords \in Nat

\* None is no text and no chain.
ASSUME NoTextAssumption == None \notin Texts /\ None # "Malformed"
ASSUME NoChainAssumption ==
    /\ None \notin [index : Nat, first_comment : Option(Comments), value : Option(Texts),
                    comment : Option(Comments)]
    /\ None \notin [index : Nat, opener : Nat, last : Nat, comment : Option(Comments), len : Int,
                    amps : Int]

\* The card a writer makes of a record; an empty comment is written without its separator.
CardOf(r) ==
    [word |-> r.word, ascii |-> TRUE, words |-> r.words, ascii_words |-> TRUE,
     indicator |-> r.word # "CONTINUE",
     value |-> [form |-> r.form, content |-> r.content, ascii |-> TRUE],
     comment |-> IF r.comment = "" THEN None ELSE r.comment, text |-> r.content]

\* The FITSKeyword element a writer makes of it: the HIERARCH words stay in its value.
ElementOf(r, node) ==
    [node |-> node, name |-> [word |-> r.word, rest |-> None],
     value |-> [form |-> r.form, content |-> r.content, named |-> r.words],
     comment |-> r.comment, origin |-> "Direct"]

EndCard ==
    [word |-> "END", ascii |-> TRUE, words |-> None, ascii_words |-> TRUE, indicator |-> FALSE,
     value |-> [form |-> "bare", content |-> <<>>, ascii |-> TRUE], comment |-> None, text |-> NoText]

Raw == [i \in DOMAIN records |-> ElementOf(records[i], i)]

Init ==
    /\ records = <<>> /\ ended = FALSE
    /\ fits = FoldCardsStart /\ xisf = FoldStart(EmptyCache)

\* Cards enough that the card cap is not the one under test.
CardCap == MaxRecords + 1

Read(r) ==
    /\ ~ended /\ Len(records) < MaxRecords
    /\ records' = Append(records, r)
    /\ fits' = FoldCard(CardCap, ValueBytes, fits, CardOf(r))
    /\ xisf' = FoldRecord(Raw', ValueBytes, xisf, Len(records'))
    /\ UNCHANGED ended

End ==
    /\ ~ended
    /\ ended' = TRUE
    /\ fits' = FoldCardsEnd(FoldCard(CardCap, ValueBytes, fits, EndCard))
    /\ xisf' = FoldEnd(Raw, xisf)
    /\ UNCHANGED records

Done == ended /\ UNCHANGED vars

Next == (\E r \in LogicalRecords : Read(r)) \/ End \/ Done

Spec == Init /\ [][Next]_vars

-----------------------------------------------------------------------------
(* FITS 4.0 section 4.2.1.2, told of a list of records and not of a fold.  *)

Text(r) == TrimEnd([i \in DOMAIN r.content |-> IF r.content[i] = Pair THEN "'" ELSE r.content[i]])

\* The string assembled when a record has been read after one that assembled this text, None
\* where none is.
Joined(text, r) ==
    IF r.form # "quoted" THEN None
    ELSE IF r.word # "CONTINUE" THEN Text(r)
    ELSE IF text # None /\ EndsOpen(text) THEN Front(text) \o Text(r)
    ELSE None

Assembled(recs, i) == FoldLeft(Joined, None, SubSeq(recs, 1, i))

\* Whether record i continues the one before it.
Folded(recs, i) == recs[i].word = "CONTINUE" /\ Assembled(recs, i) # None

\* The last record folded into the keyword of record i.
LastOf(recs, i) == Max({j \in i .. Len(recs) : \A k \in i + 1 .. j : Folded(recs, k)})

\* The records a keyword begins with.
Heads(recs) ==
    FoldLeft(LAMBDA heads, i : IF Folded(recs, i) THEN heads ELSE Append(heads, i), <<>>,
             [i \in DOMAIN recs |-> i])

NameOfRecord(r) == IF r.word = "HIERARCH" /\ r.words # None THEN r.words ELSE r.word

\* The name, value and kind of the keyword record i begins.
Heading(recs, i) ==
    LET r      == recs[i]
        orphan == r.word = "CONTINUE" IN
    [name  |-> NameOfRecord(r),
     value |-> IF orphan THEN <<>>
               ELSE IF r.form = "quoted" THEN Assembled(recs, LastOf(recs, i)) ELSE r.content,
     kind  |-> IF orphan THEN "Commentary"
               ELSE IF r.form = "quoted" THEN "CharacterString" ELSE "Other"]

\* Those of each keyword of the list.
Standard(recs) == LET heads == Heads(recs) IN [k \in DOMAIN heads |-> Heading(recs, heads[k])]

Outlined(list) ==
    [k \in DOMAIN list |-> [name |-> list[k].name, value |-> list[k].value, kind |-> list[k].kind]]

-----------------------------------------------------------------------------
(* Properties.                                                             *)

\* Both folds give the list the standard describes: chains assembled however they close, the
\* & of a chain nothing continues kept, an orphaned record kept apart (criteria 19 and 21 of
\* docs/design/2026-08-18-astroframe-library.md).
FoldsLikeTheStandard ==
    ended =>
        /\ fits.res = "ok" => Outlined(fits.out) = Standard(records)
        /\ xisf.res = "ok" => Outlined(xisf.out) = Standard(records)

\* The cap on an assembled value is the same on both surfaces: one refuses a header exactly
\* when the other does, and exactly when a chain of it grows past the cap.
CapAppliesToBoth ==
    /\ fits.res = xisf.res
    /\ fits.res = "LimitExceeded" <=>
          \E i \in DOMAIN records : Folded(records, i) /\ Len(Assembled(records, i)) > ValueBytes

\* What keywords.rs says of an assembled comment: the last continued record's when it has one,
\* and the first record's otherwise.
LastCommentElseFirst ==
    ended /\ xisf.res = "ok" =>
        LET heads == Heads(records) IN
        \A k \in DOMAIN heads :
            LET last == LastOf(records, heads[k])
                says == xisf.out[k].comment IN
            last > heads[k] =>
                says = IF records[last].comment # "" THEN records[last].comment
                       ELSE records[heads[k]].comment
=============================================================================
