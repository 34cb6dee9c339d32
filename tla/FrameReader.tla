---------------------------- MODULE FrameReader ----------------------------
(***************************************************************************)
(* What util.eventstream.decode promises to a handler that iterates over    *)
(* it (internal/plugin/jshelper/eventstream.js): the sound frames of the    *)
(* stream, one by one and in the order they were sent, each only when all   *)
(* its bytes are there; a normal end only when what arrived is a whole      *)
(* number of frames and all of them were delivered; otherwise an error.     *)
(***************************************************************************)
EXTENDS Naturals, Sequences

VARIABLES stream,     \* [frames, size, end]: what the upstream sends
          arrived,    \* bytes of it that have been read from the connection
          delivered,  \* frames handed to the handler so far
          phase       \* "open", "ended", "failed" or "dropped" by the handler

fvars == <<stream, arrived, delivered, phase>>

Sound(f) == f.flaw = "none"
End(f) == f.from + f.len

FInit == arrived = 0 /\ delivered = 0 /\ phase = "open"

Arrive == arrived' \in Nat /\ arrived' >= arrived /\ UNCHANGED <<stream, delivered, phase>>

Deliver ==
  /\ phase = "open" /\ delivered < Len(stream.frames)
  /\ LET f == stream.frames[delivered + 1] IN Sound(f) /\ End(f) <= arrived
  /\ delivered' = delivered + 1
  /\ UNCHANGED <<stream, arrived, phase>>

\* Every byte that arrived belongs to a delivered frame.
Finish ==
  /\ phase = "open" /\ phase' = "ended"
  /\ arrived = IF delivered = 0 THEN 0 ELSE End(stream.frames[delivered])
  /\ UNCHANGED <<stream, arrived, delivered>>

Abort ==
  /\ phase = "open" /\ phase' \in {"failed", "dropped"}
  /\ UNCHANGED <<stream, arrived, delivered>>

FNext == Arrive \/ Deliver \/ Finish \/ Abort

FSpec == FInit /\ [][FNext]_fvars
=============================================================================
