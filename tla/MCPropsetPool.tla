--------------------------- MODULE MCPropsetPool ---------------------------
EXTENDS PropsetPool

(* One propset for creatures and one for every object *)
MCFor(p) == IF p = "stats" THEN "creature" ELSE "any"

(* All rows of an id share a line. *)
MCLine(p, i) == i
=============================================================================
