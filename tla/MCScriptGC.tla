----------------------------- MODULE MCScriptGC -----------------------------
(* Small instances of ScriptGC for TLC.  Addresses are interchangeable, and *)
(* so are registers: every run that checks invariants alone says so.        *)
EXTENDS ScriptGC, TLC

Symmetric == Permutations(Obj) \cup Permutations(Reg)
=============================================================================
