----------------------------- MODULE MCE2ESession -----------------------------
(* E2ESession with two attempts, two answers of the sink and two texts.   *)
EXTENDS E2ESession, TLC

CONSTANTS t1, t2
AllTexts == {t1, t2}
Symmetry == Permutations(AllTexts)
=============================================================================
