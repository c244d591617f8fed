---------------------------- MODULE MCAutoAttack ----------------------------
(* Small instances of AutoAttack for TLC. *)
EXTENDS AutoAttack

(* A negative number, none, and the ordinary case; the first becomes        *)
(* Wrap - 1, beyond every tick the host advances to from 0.                 *)
MCCooldowns == {-1, 0, 1}
=============================================================================
