----------------------------- MODULE MCSession -----------------------------
(***************************************************************************)
(* Two users, two tokens that share a suffix, two requests at a time.      *)
(* The long session outlives RedisTtl, the short one does not.             *)
(***************************************************************************)
EXTENDS Session, TLC

CONSTANT x
MCSuffixOf == [t \in Token |-> x]

MCDurations == {1, 3}
MCSymmetry == Permutations(Proc) \cup Permutations(Id) \cup Permutations(Token)
=============================================================================
