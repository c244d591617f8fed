-------------------------- MODULE MCVirtualMachine --------------------------
(* Instances of VirtualMachine for TLC *)
EXTENDS VirtualMachine

Functions == {[registers |-> 1, params |-> 0], [registers |-> 2, params |-> 1]}
=============================================================================
