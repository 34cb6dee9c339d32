--------------------------- MODULE MCEventStream ---------------------------
(* Streams for TLC: frames of 16 bytes and more, cut and broken anywhere. *)
EXTENDS EventStream

frame(from, len, flaw) == [from |-> from, len |-> len, flaw |-> flaw]

\* Two sound frames and a third one of any kind, all of them complete, or cut
\* after the bytes given.
MCStreams ==
  {[frames |-> <<frame(0, 16, "none"), frame(16, 21, "none"), frame(37, 17, flaw)>>,
    size |-> n, end |-> e] : flaw \in Flaws, n \in {0, 10, 16, 30, 37, 48, 54}, e \in {"eof", "broken"}}
=============================================================================
