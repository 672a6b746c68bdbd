----------------------------- MODULE MC_Ext4Disk -----------------------------
(* Instantiation of Ext4Disk for TLC: byte values are model values, and    *)
(* nothing in the device code looks at a byte, so they are symmetric.      *)
EXTENDS Ext4Disk, TLC

MCSymmetry == Permutations(Vals)
=============================================================================
