------------------------- MODULE MCEffectLifecycle -------------------------
(* Small instances of EffectLifecycle for TLC.                             *)
EXTENDS EffectLifecycle, TLC

CONSTANTS c1, c2, i1, t1

(* Creatures accept effects of type t1, items accept none. *)
MCMask == {t1} \X (Obj \cap {c1, c2})
Symmetric == Permutations(Slot) \cup Permutations(Obj \cap {c1, c2})
=============================================================================
