---------------------------- MODULE MCKeywordFold ----------------------------
(***************************************************************************)
(* Every run of up to MaxRecords records drawn from strings that end in    *)
(* no &, one or several, with blanks after them and doubled quotes before, *)
(* continuations of each kind, and records that continue nothing.          *)
(***************************************************************************)
EXTENDS KeywordFold

Record(word, words, form, content, comment) ==
    [word |-> word, words |-> words, form |-> form, content |-> content, comment |-> comment]

Openers == {<<"a", Amp>>, <<Amp, Amp>>, <<Pair, Amp, Blank>>, <<Amp, "a">>}
Continuations == {<<>>, <<Amp>>, <<Amp, Amp, Blank>>, <<"b", Pair, Amp>>, <<"b">>}

SmallRecords ==
    {Record("OBJECT", None, "quoted", c, "") : c \in Openers}
    \cup {Record("CONTINUE", None, "quoted", c, "") : c \in Continuations}
    \cup {Record("CONTINUE", None, "bare", <<"b">>, ""),
          Record("GAIN", None, "bare", <<"7", Amp>>, ""),
          Record("HIERARCH", "ESO DET", "quoted", <<"h", Amp>>, "")}

CommentedRecords ==
    {Record("OBJECT", None, "quoted", <<"a", Amp>>, c) : c \in {"", "opens"}}
    \cup {Record("CONTINUE", None, "quoted", <<"b", Amp>>, c) : c \in {"", "continues"}}
=============================================================================
