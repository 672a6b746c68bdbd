------------------------------ MODULE MC_Ext4Vfs ------------------------------
(* Ext4Vfs instantiated for TLC: the entry names are model values and      *)
(* every permutation of them is a symmetry of the namespace.               *)
EXTENDS Ext4Vfs, TLC

MCSymmetry == Permutations(Names)
====
