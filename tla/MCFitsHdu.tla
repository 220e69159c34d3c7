------------------------------ MODULE MCFitsHdu ------------------------------
(***************************************************************************)
(* Small headers: every size from nothing to past the largest u64, from    *)
(* axes that are absent, negative, zero or too long.                       *)
(***************************************************************************)
EXTENDS FitsSizing

AnyName    == {None, "IMAGE", "BINTABLE"}
AnyBitpix  == {None, 5, 8, 16, -32, -64}
AnyNaxis   == {None, -1, 0, 1, 2, 3}
AnyAxis    == {None, -1, 0, 2, 7, 9}
AnyCount   == {None, -1, 0, 1, 3}
AnyScaling == {None, "bad"}
=============================================================================
