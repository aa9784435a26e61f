---------------------------- MODULE MCBatchHandoff --------------------------
(* Small instances of BatchHandoff.                                        *)
EXTENDS BatchHandoff, TLC

CONSTANTS s1, s2, s3

MCSlices == {s1, s2, s3}
MCSymmetry == Permutations(MCSlices)
=============================================================================
