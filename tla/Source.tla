-------------------------------- MODULE Source --------------------------------
(***************************************************************************)
(* The byte source a decoder walks forward through (src/src/source.rs): a  *)
(* Sequential one, which skips by reading and cannot go back, or a         *)
(* Seekable one, which knows its length.  What the bytes say is the        *)
(* decoder's business; this module says where a cursor move leaves the     *)
(* cursor and which error it raises.                                       *)
(*                                                                         *)
(* Each operation is the set of its outcomes [res, pos], pos being where   *)
(* the cursor stands afterwards.  A short read or skip leaves the cursor   *)
(* where the bytes ran out, and an I/O error strikes anywhere on the way;  *)
(* the faults left bound how often one does.                               *)
(***************************************************************************)
EXTENDS Checked

CONSTANTS Limits,   \* a record of the caps the source and the decoders apply
          Origin    \* where the stream's cursor stood when Seekable took it

ASSUME OriginAssumption == Origin \in Nat

\* The caps of Limits the FITS side applies (src/src/limits.rs).
ASSUME LimitsAssumption ==
    Limits \in [fits_header_bytes : Nat, hdus_per_advance : Nat, total_samples : Nat,
                decoded_output_bytes : Nat, materialized_bytes : Nat,
                skipped_block_bytes : Nat, images_per_source : Nat]

VARIABLES seekable,   \* Seekable rather than Sequential
          length,     \* bytes in the source, known to the program only when seekable
          pos,        \* Sequential::pos, Seekable::pos
          faults      \* I/O errors the environment may still raise (a bound)

sourceVars == <<seekable, length, pos, faults>>

Least(a, b) == IF a < b THEN a ELSE b
Greatest(a, b) == IF a > b THEN a ELSE b

Outcome(res, at) == [res |-> res, pos |-> at]

\* An I/O error after some, but not all, of the n bytes from at were read.
IoWhileReading(at, n) ==
    IF faults = 0 THEN {}
    ELSE {Outcome("Io", q) : q \in at .. Greatest(at, Least(at + n - 1, length))}

\* Slip: a read that comes up short is taken for the whole.
SlipReadExact(at, n) == {Outcome("ok", at + n)} \cup IoWhileReading(at, n)

\* read_exact from at, and the read-and-discard loop of a sequential skip.
ReadExact(at, n) ==
    {IF at + n <= length THEN Outcome("ok", at + n)
     ELSE Outcome("Malformed", Greatest(at, length))} \cup IoWhileReading(at, n)

SkipByReading(n) ==
    IF n > Limits.skipped_block_bytes THEN {Outcome("LimitExceeded", pos)}
    ELSE IF n = 0 THEN {Outcome("ok", pos)}
    ELSE ReadExact(pos, n)

\* Seekable::seek_to: free when the cursor is there already, never capped.
SeekAbsolute(target) ==
    IF target = pos THEN {Outcome("ok", pos)}
    ELSE IF CheckedAdd(Origin, target) = None THEN {Outcome("Malformed", pos)}
    ELSE {Outcome("ok", target)} \cup (IF faults = 0 THEN {} ELSE {Outcome("Io", pos)})

SeekTo(target) ==
    IF seekable THEN SeekAbsolute(target)
    ELSE IF target < pos THEN {Outcome("Unsupported", pos)}
    ELSE SkipByReading(target - pos)

Skip(n) ==
    IF ~seekable THEN SkipByReading(n)
    ELSE IF CheckedAdd(pos, n) = None THEN {Outcome("Malformed", pos)}
    ELSE SeekAbsolute(pos + n)

\* The step that has outcome o.
Moves(o) ==
    /\ pos' = o.pos
    /\ faults' = IF o.res = "Io" THEN faults - 1 ELSE faults
    /\ UNCHANGED <<seekable, length>>
=============================================================================
