--------------------------- MODULE MCProgressStore ---------------------------
(***************************************************************************)
(* Values for the constants of ProgressStore.  The learner imports one     *)
(* record with a text, or resets to the fresh one; the account brings      *)
(* another text and some practice.                                         *)
(***************************************************************************)
EXTENDS ProgressStore, TLC

CONSTANTS k1, x, y

MCImports == {FreshState, [FreshState EXCEPT !.notes = (k1 :> x)]}
OneMerge == {[FreshState EXCEPT !.notes = (k1 :> y), !.focusSeconds = 1]}
OneImport == {[FreshState EXCEPT !.notes = (k1 :> x)]}

TabSymmetry == Permutations(Tabs)
=============================================================================
