----------------------------- MODULE MCDocCache -----------------------------
(***************************************************************************)
(* Small instances of DocCache for TLC.                                     *)
(***************************************************************************)
EXTENDS DocCache, TLC

CONSTANTS l1, l2

MCLoaders == {l1, l2}
MCServices == {"mapping", "kev", "scorecard"}
MCScorecard == {"scorecard"}
MCKev == {"kev"}
MCSymmetry == Permutations(MCLoaders)
=============================================================================
