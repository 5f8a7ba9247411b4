------------------------- MODULE MCUiActionDispatch -------------------------
(* Small instances of UiActionDispatch for TLC.                            *)
EXTENDS UiActionDispatch

CONSTANTS c1, c2, w1, action

Callers   == {c1, c2}
OneWindow == {w1}
Actions   == {action}

=============================================================================
