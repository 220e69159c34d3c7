------------------------------ MODULE FitsSizing -----------------------------
(***************************************************************************)
(* Any header, written card by card: the cards that say what the HDU is,   *)
(* then its NAXISn in order, present, absent or of any value, whether or   *)
(* not NAXIS asked for them.  The properties compare the three readings    *)
(* the code makes of the same cards: the data unit's size, the class of    *)
(* the first fault, and the geometry reported.                             *)
(***************************************************************************)
EXTENDS FitsHdu

\* What a card may say, None when it is missing or does not read.
CONSTANTS Names,      \* XTENSION, None in a primary
          Bitpixes,   \* BITPIX
          Naxes,      \* NAXIS
          AxisValues, \* a NAXISn
          Counts,     \* PCOUNT and GCOUNT
          Scalings,   \* BSCALE
          AxisCards   \* how many NAXISn cards are written at most

ASSUME NumbersAssumption == Bitpixes \cup Naxes \cup AxisValues \cup Counts \subseteq Option(Int)
ASSUME AxisCardsAssumption == AxisCards \in Nat

VARIABLE cards

SizingInit ==
    \E x \in Names, bitpix \in Bitpixes, naxis \in Naxes, p \in Counts, g \in Counts,
       groups \in BOOLEAN, bscale \in Scalings :
        cards = [xtension |-> x, own |-> [bitpix |-> bitpix, naxis |-> naxis, axes |-> <<>>],
                 tile |-> [bitpix |-> 8, naxis |-> 2, axes |-> <<1, 1>>],
                 pcount |-> p, gcount |-> g, groups |-> groups, zimage |-> x = "BINTABLE",
                 inherit |-> FALSE, bscale |-> bscale, bzero |-> None, blank |-> None]

WriteAxis ==
    /\ Len(cards.own.axes) < AxisCards
    /\ \E n \in AxisValues : cards' = [cards EXCEPT !.own.axes = Append(@, n)]

SizingNext == WriteAxis

SizingSpec == SizingInit /\ [][SizingNext]_cards

-----------------------------------------------------------------------------
(* The size, told without the code's order of operations or its u64.       *)

Size == DataUnitSize(cards)
Groups == cards.groups /\ cards.xtension = None

\* The axes a size is the product of, when every one of them reads.
FirstCounted == IF Groups THEN 2 ELSE 1
Counted == FirstCounted .. cards.own.naxis

Readable ==
    /\ cards.own.bitpix \in {-64, -32, 8, 16, 32, 64} /\ cards.own.naxis \in Nat
    /\ \A i \in Counted :
          /\ i \in DOMAIN cards.own.axes
          /\ \A j \in 1 .. i : cards.own.axes[j] # None
          /\ cards.own.axes[i] >= 0
    /\ cards.own.naxis # 0 /\ (Groups \/ cards.xtension # None) =>
          \A n \in {cards.pcount, cards.gcount} : n # None /\ n >= 0

Product == FoldLeft(LAMBDA m, n : m * n, 1,
                    SubSeq(cards.own.axes, FirstCounted, cards.own.naxis))

\* The bits of one sample: BITPIX, negative when it is a floating-point number.
Bits == IF cards.own.bitpix < 0 THEN -cards.own.bitpix ELSE cards.own.bitpix

\* The bytes of the data unit, unpadded.
Bytes ==
    LET data == IF Groups /\ cards.own.naxis = 1 THEN 0 ELSE Product
        p    == IF Groups \/ cards.xtension # None THEN cards.pcount ELSE 0
        g    == IF Groups \/ cards.xtension # None THEN cards.gcount ELSE 1
    IN  IF cards.own.naxis = 0 THEN 0
        ELSE (Bits * (g * (p + data))) \div 8

\* A size is exact: it is the least whole number of blocks that holds the data, it exists only
\* when every sizing card reads, and it is missing then only when the arithmetic would leave
\* u64, as it may on its way to nothing or to an empty axis (data_unit_size).
SizedExactly ==
    /\ Size # None =>
          /\ Readable
          /\ Size % BLOCK = 0 /\ Size >= Bytes /\ Size - Bytes < BLOCK
    /\ Size = None /\ Readable =>
          Bytes + BLOCK - 1 > MaxU \/ Bytes = 0 \/ \E i \in Counted : cards.own.axes[i] = 0

\* The samples of a position that decodes lie inside its data unit, as long as it has one
\* group: what the cursor reads never passes the padded end the walk resumes from.
SamplesInsideUnit ==
    LET h == BuildHeader(cards, cards)
        g == h.geometry
    IN  IsImagePosition(cards) /\ h.decline = None /\ Size # None /\ cards.gcount # 0 =>
            g.width * g.height * g.channels * h.bytes <= Size

\* A position that is not declined has a geometry and a sample format, each at least one wide,
\* although the fault order, the geometry and the format read the cards separately; and its data
\* unit has a size, unless it passes u64 or a count of its extension is not a positive number.
DecodableIsReadable ==
    LET h == BuildHeader(cards, cards) IN
    h.decline = None /\ IsImagePosition(cards) =>
        /\ h.bytes # None
        /\ h.geometry # None
        /\ h.geometry.width > 0 /\ h.geometry.height > 0 /\ h.geometry.channels > 0
        /\ Size = None =>
              \/ cards.xtension # None /\ (cards.pcount < 0 \/ cards.gcount < 1)
              \/ Bytes + BLOCK - 1 > MaxU
=============================================================================
