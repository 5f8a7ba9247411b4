---------------------------- MODULE MCTextStore ----------------------------
(***************************************************************************)
(* A small instance of TextStore.                                          *)
(***************************************************************************)
EXTENDS TextStore

=============================================================================
