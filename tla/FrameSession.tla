----------------------------- MODULE FrameSession -----------------------------
(***************************************************************************)
(* What a reader promises its caller, whatever the format: the frames of a *)
(* source are advanced through one at a time, in order and never past the  *)
(* last; a cursor delivers the chunks of the frame sat on, for the channel *)
(* selected, each once and in order; configuration is fixed once pixels    *)
(* are being read; and after an error nothing more is delivered until a    *)
(* fresh cursor or the next frame.                                         *)
(***************************************************************************)
EXTENDS Integers, Sequences

CONSTANT None   \* no channel selected

VARIABLES
  frames,      \* the source: for each frame, the chunks each selection delivers
  at,          \* frames advanced through, the last one being sat on
  over,        \* the walk has ended
  selection,   \* the channel selected, or None
  reading,     \* in the pixel phase
  failed,      \* the decode under way failed
  stream       \* the chunks the current cursor delivered

vars == <<frames, at, over, selection, reading, failed, stream>>

Init ==
    /\ at = 0 /\ over = FALSE
    /\ selection = None /\ reading = FALSE /\ failed = FALSE /\ stream = <<>>

\* Leaving a frame forgets what was configured and read on it.
Leave ==
    /\ selection' = None /\ reading' = FALSE /\ failed' = FALSE /\ stream' = <<>>
    /\ UNCHANGED <<frames, at, over>>

Advance ==
    /\ ~over /\ ~reading /\ at < Len(frames)
    /\ at' = at + 1
    /\ UNCHANGED <<frames, over, selection, reading, failed, stream>>

End ==
    /\ ~over /\ ~reading
    /\ over' = TRUE
    /\ UNCHANGED <<frames, at, selection, reading, failed, stream>>

Select ==
    /\ ~reading
    /\ selection' \in Nat
    /\ UNCHANGED <<frames, at, over, reading, failed, stream>>

\* A fresh cursor, refused at once or not.
Open ==
    /\ reading' = TRUE /\ failed' \in BOOLEAN /\ stream' = <<>>
    /\ UNCHANGED <<frames, at, over, selection>>

Deliver ==
    /\ reading /\ ~failed
    /\ at > 0 /\ selection \in DOMAIN frames[at]
    /\ Len(stream) < Len(frames[at][selection])
    /\ stream' = Append(stream, frames[at][selection][Len(stream) + 1])
    /\ UNCHANGED <<frames, at, over, selection, reading, failed>>

Fail ==
    /\ reading /\ ~failed
    /\ failed' = TRUE
    /\ UNCHANGED <<frames, at, over, selection, reading, stream>>

Next == Leave \/ Advance \/ End \/ Select \/ Open \/ Deliver \/ Fail

Spec == Init /\ [][Next]_vars
=============================================================================
