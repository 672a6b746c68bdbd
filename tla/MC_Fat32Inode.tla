---------------------------- MODULE MC_Fat32Inode ----------------------------
(* Instantiation of Fat32Inode for TLC: inode names are model values.     *)
EXTENDS Fat32Inode
CONSTANTS f1, f2
MCFiles == {f1, f2}
MCOneFile == {f1}
MCSymmetry == Permutations(MCFiles)
====
