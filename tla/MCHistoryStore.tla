--------------------------- MODULE MCHistoryStore ---------------------------
(* Small instances of HistoryStore.                                        *)
EXTENDS HistoryStoreProps, TLC

CONSTANTS b1, b2, b3

MCBatches == {b1, b2, b3}
MCGaps == {b3}
MCSymmetry == Permutations(MCBatches \ MCGaps)
=============================================================================
