-------------------------- MODULE MCHostAnimation --------------------------
(* Small instances of HostAnimation for TLC.                               *)
EXTENDS HostAnimation

CONSTANTS h1, h2

TwoHosts == {h1, h2}

=============================================================================
