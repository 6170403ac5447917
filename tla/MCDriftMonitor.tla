---------------------------- MODULE MCDriftMonitor ----------------------------
(* Instances of DriftMonitor for TLC. *)
EXTENDS DriftMonitor, TLC

\* Scores on the low threshold and in the high band, so that severities rise,
\* fall and stay; and a single one in the medium band.
MCTwoScores == {15, 40}
MCOneScore == {25}

AppSymmetry == Permutations(Apps)
================================================================================
