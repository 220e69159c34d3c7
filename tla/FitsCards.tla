------------------------------- MODULE FitsCards -------------------------------
(***************************************************************************)
(* Folding the cards of a FITS header into its keyword list                *)
(* (src/src/fits/cards.rs): CONTINUE chains assembled as they grow,        *)
(* HIERARCH names spelled out, an orphaned CONTINUE kept as commentary.    *)
(*                                                                         *)
(* A card is [word, ascii, words, ascii_words, indicator, value, comment,  *)
(* text]: the name field; whether it is inside the header character set;   *)
(* the words before the first = of the body, None without one; whether     *)
(* they are; whether bytes 8 and 9 are the value indicator; what stands    *)
(* before the comment separator, [form, content, ascii], form "quoted",    *)
(* "unterminated" or "bare"; the comment, None without a separator; the    *)
(* body as text.  A Slip operator is the definition after it with a        *)
(* plausible mistake in it.                                                *)
(***************************************************************************)
EXTENDS KeywordText

CONSTANT NoText   \* the name or the body of a blank card

\* parse_quoted: doubled quotes made one, then trailing blanks off; None unless it closes.
ParseQuoted(value) ==
    IF value.form # "quoted" THEN None
    ELSE TrimEnd([i \in DOMAIN value.content |->
                    IF value.content[i] = Pair THEN "'" ELSE value.content[i]])

\* hierarch: the words a HIERARCH card is named by, None when it is none, "Malformed" when a
\* byte of them is outside the character set.
HierarchWords(card) ==
    IF card.word # "HIERARCH" \/ card.words = None THEN None
    ELSE IF ~card.ascii_words THEN "Malformed"
    ELSE IF card.words = NoText THEN None
    ELSE card.words

\* parse_value, [res, value, kind].
ParseValue(card) ==
    LET Parsed(res, value, kind) == [res |-> res, value |-> value, kind |-> kind] IN
    IF ~card.value.ascii \/ card.value.form = "unterminated" THEN Parsed("Malformed", <<>>, "Other")
    ELSE IF card.value.form = "quoted" THEN Parsed("ok", ParseQuoted(card.value), "CharacterString")
    ELSE Parsed("ok", card.value.content, "Other")

-----------------------------------------------------------------------------
(* The fold, [res, out, chain, seen, ended].  A chain is [index,           *)
(* first_comment, value, comment], value None until a continuation comes.  *)

FoldCardsStart == [res |-> "ok", out |-> <<>>, chain |-> None, seen |-> 0, ended |-> FALSE]

Stops(s, class) == [s EXCEPT !.res = class]

Continuable(chain) == chain # None /\ (chain.value = None \/ EndsOpen(chain.value))

\* close_chain, and the chain taken.
CloseChainOf(s) ==
    LET c == s.chain IN
    IF c = None \/ c.value = None THEN [s EXCEPT !.chain = None]
    ELSE [s EXCEPT !.chain = None,
                   !.out[c.index].value = c.value,
                   !.out[c.index].comment = IF c.comment = None THEN c.first_comment ELSE c.comment]

\* push: a string left open with & opens a chain.
PushKeyword(s, name, parsed, comment) ==
    [s EXCEPT !.out = Append(@, Keyword(name, parsed.value, comment, parsed.kind)),
              !.chain = IF parsed.kind = "CharacterString" /\ EndsOpen(parsed.value)
                        THEN [index |-> Len(s.out) + 1, first_comment |-> comment,
                              value |-> None, comment |-> None]
                        ELSE s.chain]

\* A CONTINUE record: the & before it popped and its text appended, or commentary.
FoldContinue(max_value_bytes, s, card) ==
    LET text    == ParseQuoted(card.value)
        sofar   == IF s.chain.value = None THEN s.out[s.chain.index].value ELSE s.chain.value
        value   == Front(sofar) \o text
        longer  == [s EXCEPT !.chain.value = value, !.chain.comment = card.comment]
    IN  IF text = None \/ ~Continuable(s.chain)
        THEN CloseChainOf([s EXCEPT !.out =
                               Append(@, Keyword("CONTINUE", <<>>, card.text, "Commentary"))])
        ELSE IF ~card.value.ascii THEN Stops(s, "Malformed")
        ELSE IF Len(value) > max_value_bytes THEN Stops(s, "LimitExceeded")
        ELSE IF EndsOpen(value) THEN longer
        ELSE CloseChainOf(longer)

\* Any other card, which breaks a chain.
FoldOther(s, card) ==
    LET broken == CloseChainOf(s)
        words  == HierarchWords(card)
        parsed == ParseValue(card)
    IN  IF words = "Malformed" THEN Stops(s, "Malformed")
        ELSE IF words # None
        THEN IF parsed.res # "ok" THEN Stops(s, parsed.res)
             ELSE PushKeyword(broken, words, parsed, card.comment)
        ELSE IF ~card.ascii THEN Stops(s, "Malformed")
        ELSE IF card.indicator
        THEN IF parsed.res # "ok" THEN Stops(s, parsed.res)
             ELSE PushKeyword(broken, card.word, parsed, card.comment)
        ELSE IF card.word = NoText /\ card.text = NoText THEN broken
        ELSE [broken EXCEPT !.out = Append(@, Keyword(card.word, <<>>, card.text, "Commentary"))]

\* One turn of fold_cards' loop.
FoldCard(max_cards, max_value_bytes, s, card) ==
    LET next == [s EXCEPT !.seen = @ + 1] IN
    IF s.res # "ok" \/ s.ended THEN s
    ELSE IF next.seen > max_cards THEN Stops(s, "LimitExceeded")
    ELSE IF card.word = "END" THEN [next EXCEPT !.ended = TRUE]
    ELSE IF card.word = "CONTINUE" THEN FoldContinue(max_value_bytes, next, card)
    ELSE FoldOther(next, card)

\* The cards have run out: a chain still open is assembled, and an END is required.
FoldCardsEnd(s) ==
    IF s.res # "ok" THEN s
    ELSE IF ~s.ended THEN Stops(CloseChainOf(s), "Malformed")
    ELSE CloseChainOf(s)

\* fold_cards.
FoldCards(cards, max_cards, max_value_bytes) ==
    FoldCardsEnd(FoldLeft(LAMBDA s, card : FoldCard(max_cards, max_value_bytes, s, card),
                          FoldCardsStart, cards))
=============================================================================
