-------------------------- MODULE MCNetworkSampler --------------------------
(***************************************************************************)
(* Instances of NetworkSampler for TLC.  One unit of time is DriftLimit;   *)
(* what matters is that the limits are passed, not by how much.            *)
(***************************************************************************)
EXTENDS NetworkSampler

MCJumps == {-2, 2}
=============================================================================
