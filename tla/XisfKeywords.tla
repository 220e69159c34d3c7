------------------------------ MODULE XisfKeywords ------------------------------
(***************************************************************************)
(* Folding an image's FITSKeyword elements into its keyword list           *)
(* (src/src/xisf/keywords.rs): CONTINUE chains assembled, HIERARCH names   *)
(* spelled out, an orphaned CONTINUE kept as commentary.                   *)
(*                                                                         *)
(* A record is [node, name, value, comment, origin].  A name is [word,     *)
(* rest], rest being the words after HIERARCH or None.  A value is [form,  *)
(* content, named]: form "quoted" or "bare", content the bytes between the *)
(* quotes or the bare text, named the words before an = no quote precedes. *)
(***************************************************************************)
EXTENDS KeywordText, XisfCache

\* unquote: trailing blanks off, doubled quotes made one.
Unquote(content) ==
    LET text == TrimEnd(content) IN
    [i \in DOMAIN text |-> IF text[i] = Pair THEN "'" ELSE text[i]]

\* Slip: counts a doubled quote as the two bytes it is spelled with.
SlipUnquotedShape(content) ==
    LET text  == TrimEnd(content)
        pairs == Cardinality({i \in DOMAIN text : text[i] = Pair})
    IN  [len |-> Len(text) + pairs, amps |-> TrailingAmps(text)]

\* unquoted_shape: what unquoting would give, measured on the text as it is spelled: its bytes
\* less one for each doubled quote, and its trailing run of &.
UnquotedShape(content) ==
    LET text  == TrimEnd(content)
        pairs == Cardinality({i \in DOMAIN text : text[i] = Pair})
    IN  [len |-> (Len(text) + pairs) - pairs, amps |-> TrailingAmps(text)]

\* hierarch: the name, and the value left to read.
Hierarch(r) ==
    IF r.name.word = "HIERARCH" /\ r.name.rest # None THEN r.name.rest
    ELSE IF r.name.word = "HIERARCH" /\ r.value.named # None THEN r.value.named
    ELSE r.name.word

\* The keyword a record that continues nothing is read as.
ReadRecord(r) ==
    [name |-> Hierarch(r), comment |-> r.comment, origin |-> r.origin,
     kind |-> IF r.value.form = "quoted" THEN "CharacterString" ELSE "Other",
     value |-> IF r.value.form = "quoted" THEN Unquote(r.value.content) ELSE r.value.content]

\* An orphaned CONTINUE: its two attributes rejoined as commentary.
Orphan(r) ==
    [name |-> "CONTINUE", comment |-> <<r.value, r.comment>>, origin |-> r.origin,
     kind |-> "Commentary", value |-> <<>>]

-----------------------------------------------------------------------------
(* The fold, [res, out, chain, cache], one record at a time.  A chain is   *)
(* [index, opener, last, comment, len, amps]: the keyword it assembles, the*)
(* records from opener to last, and its text measured, not built.          *)

Referenced(r) == r.origin = "Reference"

\* What close_chain builds: each continuation takes the place of the & before it.
Assemble(raw, opener, chain) ==
    [opener EXCEPT
        !.value = FoldLeft(LAMBDA text, i : Front(text) \o Unquote(raw[i].value.content),
                           opener.value, [k \in 1 .. chain.last - chain.opener |-> chain.opener + k]),
        !.comment = IF chain.comment = None THEN raw[chain.opener].comment ELSE chain.comment]

\* Slip: the memo knows a chain by its opener alone.
SlipChainKey(raw, chain) == raw[chain.opener].node

\* What an assembled chain is a function of.
ChainKey(raw, chain) ==
    <<raw[chain.opener].origin,
      [k \in 1 .. chain.last - chain.opener + 1 |-> raw[chain.opener + k - 1].node]>>

\* Slip: a chain the records run out on is forgotten.
SlipCloseChain(raw, s) == [s EXCEPT !.chain = None]

\* close_chain, and the chain taken.
CloseChain(raw, s) ==
    LET c    == s.chain
        memo == Memoized(s.cache.chains, ChainKey(raw, c), Referenced(raw[c.opener]),
                         Assemble(raw, s.out[c.index], c))
    IN  IF c = None \/ c.last = c.opener THEN [s EXCEPT !.chain = None]
        ELSE [s EXCEPT !.chain = None, !.out[c.index] = memo.value, !.cache.chains = memo.map]

\* The chain with record i folded in, measured: one & popped, the record's text appended.
Grow(chain, r, i) ==
    LET shape == UnquotedShape(r.value.content) IN
    [chain EXCEPT
        !.len = @ - 1 + shape.len,
        !.amps = IF shape.len = shape.amps THEN @ - 1 + shape.len ELSE shape.amps,
        !.last = i,
        !.comment = IF r.comment = "" THEN @ ELSE r.comment]

Continues(s, r) ==
    /\ r.name.word = "CONTINUE" /\ r.value.form = "quoted"
    /\ s.chain # None /\ (s.chain.last = s.chain.opener \/ s.chain.amps > 0)

\* One turn of fold_records' loop.
FoldRecord(raw, max_value_bytes, s, i) ==
    LET r     == raw[i]
        grown == Grow(s.chain, r, i)
        orphan == Memoized(s.cache.keywords, r.node, Referenced(r), Orphan(r))
        plain  == Memoized(s.cache.keywords, r.node, Referenced(r), ReadRecord(r))
        broken == CloseChain(raw, s)
        opens  == plain.value.kind = "CharacterString" /\ TrailingAmps(plain.value.value) > 0
    IN  IF s.res # "ok" THEN s
        ELSE IF Continues(s, r)
        THEN IF grown.len > max_value_bytes THEN [s EXCEPT !.res = "LimitExceeded"]
             ELSE IF grown.amps = 0 THEN CloseChain(raw, [s EXCEPT !.chain = grown])
             ELSE [s EXCEPT !.chain = grown]
        ELSE IF r.name.word = "CONTINUE"
        THEN [broken EXCEPT !.out = Append(@, orphan.value), !.cache.keywords = orphan.map]
        ELSE [broken EXCEPT
                 !.out = Append(@, plain.value), !.cache.keywords = plain.map,
                 !.chain = IF ~opens THEN None
                           ELSE [index |-> Len(s.out) + 1, opener |-> i, last |-> i, comment |-> None,
                                 len |-> Len(plain.value.value),
                                 amps |-> TrailingAmps(plain.value.value)]]

FoldStart(cache) == [res |-> "ok", out |-> <<>>, chain |-> None, cache |-> cache]

\* The records have run out: a chain still open is assembled from what it accumulated.
FoldEnd(raw, s) == IF s.res = "ok" /\ s.chain # None THEN CloseChain(raw, s) ELSE s

\* fold_records.
FoldRecords(raw, max_value_bytes, cache) ==
    FoldEnd(raw, FoldLeft(LAMBDA s, i : FoldRecord(raw, max_value_bytes, s, i), FoldStart(cache),
                          [i \in DOMAIN raw |-> i]))
=============================================================================
