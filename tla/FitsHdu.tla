------------------------------- MODULE FitsHdu -------------------------------
(***************************************************************************)
(* What one HDU's cards mean (src/src/fits/hdu.rs): whether the walk sits  *)
(* on the HDU, the class of its first fault, the size of its data unit and *)
(* the header it assembles into.  Everything here is a function of the     *)
(* cards; nothing reads, seeks or holds a position.                        *)
(*                                                                         *)
(* The cards of an HDU are a record                                        *)
(*   xtension   None (primary), "IMAGE", "BINTABLE" or any other name      *)
(*   own, tile  the array described by BITPIX/NAXIS/NAXISn and by the Z... *)
(*              cards: [bitpix, naxis, axes], each number None when its    *)
(*              card is missing, quoted or not an integer                  *)
(*   pcount, gcount                                                        *)
(*   groups, zimage, inherit     the logical cards that read as T          *)
(*   bscale     None, "one", "other", "bad"                                *)
(*   bzero      None, "0", "2^15", "2^31", "2^63", "other", "bad"          *)
(*   blank      None, "integer", "bad"                                     *)
(***************************************************************************)
EXTENDS Checked, Sequences, SequencesExt

CONSTANTS BLOCK,     \* bytes in a FITS block: 2880 in the code
          MaxAxis    \* u32::MAX, the longest axis a Geometry holds

ASSUME BlockAssumption == BLOCK \in Nat \ {0}
ASSUME MaxAxisAssumption == MaxAxis \in Nat \ {0}
ASSUME NoDeclineAssumption == None \notin {"Malformed", "Unsupported"}
ASSUME NoGeometryAssumption == None \notin [width : Nat, height : Nat, channels : Nat]

StandardBitpix == {8, 16, 32, 64, -32, -64}

\* sample_format_of, then SampleFormat::bytes: None outside the standard set.
SampleBytes(bitpix) ==
    IF bitpix = None \/ bitpix \notin StandardBitpix THEN None
    ELSE (IF bitpix < 0 THEN -bitpix ELSE bitpix) \div 8

\* NAXISi of the array a, or None when it, or an axis before it, did not read.
Axis(a, i) ==
    IF i \in DOMAIN a.axes /\ \A j \in 1 .. i : a.axes[j] # None
    THEN a.axes[i] ELSE None

IsPrimary(c) == c.xtension = None

IsImagePosition(c) ==
    \/ c.xtension \in {None, "IMAGE"} /\ c.own.naxis # 0
    \/ c.xtension = "BINTABLE" /\ c.zimage

-----------------------------------------------------------------------------
(* The class of the first fault, in the order the code looks for them.     *)

StructuralFault(c) ==
    LET a == c.own IN
    \/ SampleBytes(a.bitpix) = None
    \/ a.naxis = None \/ a.naxis < 0
    \/ \E i \in 1 .. a.naxis : Axis(a, i) = None \/ Axis(a, i) < 0
    \/ ~IsPrimary(c) /\ None \in {c.pcount, c.gcount}

\* Slip: an axis too long for a Geometry is let through.
SlipOutOfScope(c) ==
    LET a == c.own IN
    \/ c.groups
    \/ c.xtension = "BINTABLE"
    \/ a.naxis = 1 \/ a.naxis > 3
    \/ \E i \in 1 .. a.naxis : Axis(a, i) = 0

OutOfScope(c) ==
    LET a == c.own IN
    \/ c.groups
    \/ c.xtension = "BINTABLE"
    \/ a.naxis = 1 \/ a.naxis > 3
    \/ \E i \in 1 .. a.naxis : Axis(a, i) \notin 1 .. MaxAxis

ValueFault(c) == "bad" \in {c.bscale, c.bzero, c.blank}

FirstFault(c) ==
    IF StructuralFault(c) THEN "Malformed"
    ELSE IF OutOfScope(c) THEN "Unsupported"
    ELSE IF ValueFault(c) THEN "Malformed"
    ELSE None

-----------------------------------------------------------------------------
(* The data unit: |BITPIX|/8 * GCOUNT * (PCOUNT + product of the axes),    *)
(* padded to a block.  None is UnitSize::Unsizable.                        *)

RandomGroups(c) == IsPrimary(c) /\ c.groups

\* Slip: the axes of every group are sized from NAXIS2 on.
SlipSizedAxes(c) ==
    [j \in 1 .. (c.own.naxis - (IF c.groups THEN 1 ELSE 0)) |->
        Axis(c.own, IF c.groups THEN j + 1 ELSE j)]

\* The axes the product runs over: NAXIS1 is left out under random groups.
SizedAxes(c) == [j \in 1 .. (c.own.naxis - (IF RandomGroups(c) THEN 1 ELSE 0)) |->
                    Axis(c.own, IF RandomGroups(c) THEN j + 1 ELSE j)]

\* A negative axis has no reading as a size.
Unsigned(n) == IF n = None THEN None ELSE Fit(n)

Elements(c) ==
    FoldLeft(LAMBDA product, n : CheckedMul(product, Unsigned(n)),
             IF RandomGroups(c) /\ c.own.naxis < 2 THEN 0 ELSE 1,
             SizedAxes(c))

\* PCOUNT and GCOUNT, which a primary without random groups defaults.
Pcount(c) == IF IsPrimary(c) /\ ~c.groups THEN 0 ELSE Unsigned(c.pcount)
Gcount(c) == IF IsPrimary(c) /\ ~c.groups THEN 1 ELSE Unsigned(c.gcount)

\* Slip: the last, partly filled block is left out.
SlipPadded(n) == IF n = None THEN None ELSE (n \div BLOCK) * BLOCK

Padded(n) ==
    LET top == CheckedAdd(n, BLOCK - 1) IN
    IF top = None THEN None ELSE Fit((top \div BLOCK) * BLOCK)

DataUnitSize(c) ==
    LET a == c.own IN
    IF SampleBytes(a.bitpix) = None \/ a.naxis = None \/ a.naxis < 0 THEN None
    ELSE IF a.naxis = 0 THEN 0
    ELSE Padded(CheckedMul(CheckedMul(CheckedAdd(Elements(c), Pcount(c)), Gcount(c)),
                           SampleBytes(a.bitpix)))

-----------------------------------------------------------------------------
(* The header reported at an image position.                               *)

\* read_geometry: two or three axes that fit, or nothing.
ReadGeometry(a) ==
    IF /\ a.naxis \in {2, 3}
       /\ \A i \in 1 .. a.naxis : i \in DOMAIN a.axes /\ a.axes[i] \in 0 .. MaxAxis
    THEN [width    |-> a.axes[1], height |-> a.axes[2],
          channels |-> IF a.naxis = 3 THEN a.axes[3] ELSE 1]
    ELSE None

\* A card an extension may take from the primary p: its own, or under INHERIT = T p's.
Applied(own, c, inherited) ==
    IF own # None \/ IsPrimary(c) \/ ~c.inherit THEN own ELSE inherited

\* The BZERO that maps the signed storage type onto its unsigned range.
UnsignedZero(bitpix) ==
    CASE bitpix = 8 -> "0" [] bitpix = 16 -> "2^15" [] bitpix = 32 -> "2^31" [] OTHER -> "2^63"

\* A BSCALE or BZERO that is absent, or inherited and not a number, takes its default.
ValueOr(card, default) == IF card \in {None, "bad"} THEN default ELSE card

\* fits_bounds: the unsigned convention is the only pairing with a default range.
FitsBounds(c, p) ==
    LET bscale == ValueOr(Applied(c.bscale, c, p.bscale), "one")
        bzero  == ValueOr(Applied(c.bzero, c, p.bzero), "0")
    IN  IF /\ FirstFault(c) = None
           /\ c.own.bitpix > 0
           /\ bscale = "one"
           /\ bzero = UnsignedZero(c.own.bitpix)
        THEN "FormatDefault" ELSE "NoFormatDefault"

\* build_header: c's own cards, with p the primary's.
BuildHeader(c, p) ==
    LET a == IF c.xtension = "BINTABLE" THEN c.tile ELSE c.own IN
    [geometry |-> ReadGeometry(a),
     bytes    |-> SampleBytes(a.bitpix),
     decline  |-> FirstFault(c),
     bounds   |-> FitsBounds(c, p)]
=============================================================================
