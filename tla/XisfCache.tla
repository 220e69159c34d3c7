------------------------------- MODULE XisfCache -------------------------------
(***************************************************************************)
(* The memo one walk over an XISF header shares (src/src/xisf/cache.rs):   *)
(* maps from what was read to what reading it gave, kept for the whole     *)
(* document and consulted only for what a Reference reached.               *)
(***************************************************************************)

\* Cache::default.
EmptyCache ==
    [keywords |-> <<>>, chains |-> <<>>, properties |-> <<>>,
     cfa |-> <<>>, resolution |-> <<>>, display_function |-> <<>>]

\* The map with what was read at a key in it.
Remembering(map, key, read) ==
    [k \in DOMAIN map \cup {key} |-> IF k = key THEN read ELSE map[k]]

\* memoized: [value, map], the map with what was read in it.
Memoized(map, key, referenced, read) ==
    IF ~referenced THEN [value |-> read, map |-> map]
    ELSE IF key \in DOMAIN map THEN [value |-> map[key], map |-> map]
    ELSE [value |-> read, map |-> Remembering(map, key, read)]
=============================================================================
