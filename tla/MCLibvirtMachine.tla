-------------------------- MODULE MCLibvirtMachine --------------------------
(* LibvirtMachine for TLC: two UIDs are enough for a machine and its       *)
(* successor of the same name, or for a machine before and after a move.   *)
EXTENDS LibvirtMachine, TLC

\* UIDs are only compared for equality.  Sound for safety runs.
UIDSymmetry == Permutations(UIDs)
=============================================================================
