--------------------------- MODULE MCNetworkStore ---------------------------
(***************************************************************************)
(* Instances of NetworkStore for TLC.                                      *)
(***************************************************************************)
EXTENDS NetworkStoreProps

(* What others do to the store, a damaged file or a change of the zone, is *)
(* combined with at most one fault or death; a behaviour starts in the     *)
(* first zone.                                                             *)
Apart ==
  /\ edits + moves > 0 => faults + crashes <= 1 /\ edits + moves <= 1
  /\ moves = 0 => zone = 0
=============================================================================
