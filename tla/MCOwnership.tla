---------------------------- MODULE MCOwnership ----------------------------
(***************************************************************************)
(* A small instance of Ownership.  Losses and ownership do not meet in the *)
(* code, so a behaviour has events or troubles, not both.                  *)
(***************************************************************************)
EXTENDS Ownership

Apart == events = << >> \/ troubles = 0
=============================================================================
