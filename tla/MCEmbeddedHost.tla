--------------------------- MODULE MCEmbeddedHost ---------------------------
(* Small instances of EmbeddedHost for TLC.                                *)
EXTENDS EmbeddedHost

\* An application that prepares from the callbacks of an input entry, a hide or a preparation.
\* (Attach, Detach and ReplaceDevice refuse it while they run.)
Cautious == {"input", "hide", "prepare"}

\* What the rest of a frame can still read of it: two states that differ in nothing else behave
\* alike, and no property tells them apart.
Unread(f) == f.op \in {"input", "wake", "detach"} \/ f.at \in {"detach", "finish"}
Painted(f) == f.op = "interact" \/ (f.op = "prepare" /\ f.at \in {"content", "paint", "publish"})
ReadOf(f) ==
  IF Unread(f) \/ ~f.same THEN <<f.op, f.at, f.same>>
  ELSE IF ~f.current THEN <<f.op, f.at, "replaced">>
  ELSE <<f.op, f.at, f.op = "prepare" /\ f.clean, Painted(f) /\ f.tree, f.at = "cancel" /\ f.resized>>
Behaviour == <<host, view, visual, owed, adrift, [i \in DOMAIN stack |-> ReadOf(stack[i])]>>

=============================================================================
