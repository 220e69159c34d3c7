------------------------------ MODULE KeywordText ------------------------------
(***************************************************************************)
(* The text of a keyword's value, as far as folding it tells texts apart:  *)
(* a sequence of symbols, of which the blank, the & and the doubled quote  *)
(* are told from every other.  A doubled quote is the one symbol Pair, two *)
(* bytes long.                                                             *)
(***************************************************************************)
EXTENDS Checked, SequencesExt

Pair == "''"
Blank == " "
Amp == "&"

TrimEnd(text) ==
    LET solid == {i \in DOMAIN text : text[i] # Blank} IN
    SubSeq(text, 1, IF solid = {} THEN 0 ELSE Max(solid))

\* How many of the last symbols are &.
TrailingAmps(text) ==
    LET others == {i \in DOMAIN text : text[i] # Amp} IN
    Len(text) - (IF others = {} THEN 0 ELSE Max(others))

EndsOpen(text) == TrailingAmps(text) > 0

\* Keyword::new, its origin aside.
Keyword(name, value, comment, kind) ==
    [name |-> name, value |-> value, comment |-> comment, kind |-> kind]
=============================================================================
