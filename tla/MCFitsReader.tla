----------------------------- MODULE MCFitsReader -----------------------------
(***************************************************************************)
(* Small FITS sources for TLC: blocks of four bytes, numbers of eight bits *)
(* (MaxU = 255), images of at most four rows.  Every unit's length in      *)
(* blocks is written out by hand, not computed with the decoder's formula. *)
(***************************************************************************)
EXTENDS FitsReader

Array(bitpix, axes) == [bitpix |-> bitpix, naxis |-> Len(axes), axes |-> axes]
NoArray == [bitpix |-> None, naxis |-> None, axes |-> <<>>]

Primary(array) ==
    [xtension |-> None, own |-> array, tile |-> NoArray, pcount |-> None, gcount |-> None,
     groups |-> FALSE, zimage |-> FALSE, inherit |-> FALSE,
     bscale |-> None, bzero |-> None, blank |-> None]

Extension(name, array, pcount, gcount) ==
    [Primary(array) EXCEPT !.xtension = name, !.pcount = pcount, !.gcount = gcount]

ImageExt(array) == Extension("IMAGE", array, 0, 1)

\* An HDU written with so many header and data blocks.
Unit(cards, blocks, data) == [cards |-> cards, blocks |-> blocks, data |-> data, defect |-> "ok"]

\* The file of these units, read whole or cut to one of the lengths.
Size(units) == SumFunction([i \in DOMAIN units |-> BLOCK * (units[i].blocks + units[i].data)])

File(units, cuts) ==
    [hdus    |-> FoldLeft(LAMBDA hdus, i :
                    Append(hdus, [at     |-> Size(SubSeq(units, 1, i - 1)),
                                  blocks |-> units[i].blocks,
                                  defect |-> units[i].defect, cards |-> units[i].cards]),
                    <<>>, [i \in DOMAIN units |-> i]),
     end     |-> Size(units),
     lengths |-> {Size(units)} \cup cuts]

\* A mosaic: an image of three one-byte rows, a table with a heap, an IMAGE extension of no
\* axes, two channels of two-byte samples taking the primary's BSCALE and BZERO.
Mosaic ==
    File(<<Unit([Primary(Array(8, <<1, 3>>)) EXCEPT !.bzero = "2^15"], 1, 1),
           Unit(Extension("BINTABLE", Array(8, <<2, 1>>), 7, 1), 1, 3),
           Unit(ImageExt(Array(16, <<>>)), 1, 0),
           Unit([ImageExt(Array(16, <<1, 1, 2>>)) EXCEPT !.inherit = TRUE], 1, 1)>>,
         {6, 14, 26, 34, 38})

\* No image in the primary, a tile-compressed table, an image, a table of no known size.
Archive ==
    File(<<Unit(Primary(Array(8, <<>>)), 1, 0),
           Unit([Extension("BINTABLE", Array(8, <<1, 2>>), 0, 1) EXCEPT
                    !.zimage = TRUE, !.tile = Array(16, <<2, 2>>)], 1, 1),
           Unit([ImageExt(Array(-32, <<1, 2>>)) EXCEPT !.pcount = 1], 2, 3),
           Unit(Extension("TABLE", Array(8, <<1, 1>>), None, 1), 1, 1),
           Unit(ImageExt(Array(8, <<1, 1>>)), 1, 1)>>,
         {31})

\* An image whose PCOUNT is negative decodes, and nothing after it can be reached.
Unsizable ==
    File(<<Unit(Primary(Array(8, <<>>)), 1, 0),
           Unit(Extension("IMAGE", Array(8, <<1, 2>>), -1, 1), 1, 1),
           Unit(ImageExt(Array(8, <<1, 1>>)), 1, 1)>>,
         {})

\* A second header that is no FITS header, behind random groups that are declined.
Damaged ==
    File(<<Unit([Primary(Array(8, <<0, 2>>)) EXCEPT !.groups = TRUE, !.pcount = 1, !.gcount = 2],
                1, 2),
           [Unit(ImageExt(Array(8, <<1, 1>>)), 1, 1) EXCEPT !.defect = "Malformed"]>>,
         {})

Sessions == {Mosaic, Archive, Unsizable, Damaged}

\* Three two-byte rows, and an image of one row more.
Large ==
    File(<<Unit(Primary(Array(16, <<1, 3>>)), 1, 2), Unit(ImageExt(Array(8, <<1, 4>>)), 1, 1)>>, {})

CapSessions == Sessions \cup {Large}

\* These files are written as the standard says, damage to a header apart: what the walk is
\* proved to do it is proved to do for such files.
ASSUME SessionsConform == \A f \in CapSessions : Conforming(f)

Roomy ==
    [fits_header_bytes |-> 8, hdus_per_advance |-> 2, total_samples |-> 100,
     decoded_output_bytes |-> 100, materialized_bytes |-> 100, skipped_block_bytes |-> 100,
     images_per_source |-> 10]

\* Caps every one of which some file of CapSessions runs into.
Tight ==
    [fits_header_bytes |-> 4, hdus_per_advance |-> 1, total_samples |-> 3,
     decoded_output_bytes |-> 5, materialized_bytes |-> 3, skipped_block_bytes |-> 4,
     images_per_source |-> 1]

\* An IMAGE extension whose GCOUNT is 0: its data unit is empty, its axes are not.
NoGroups ==
    {File(<<Unit(Primary(Array(8, <<>>)), 1, 0),
            Unit(Extension("IMAGE", Array(8, <<1, 2>>), 0, 0), 1, 0),
            Unit(ImageExt(Array(8, <<1, 1>>)), 1, 1)>>,
          {})}
=============================================================================
