---------------------------- MODULE MCJsonStore -----------------------------
(* An inode for every holder there can be, and documents with the          *)
(* boundaries of the encoding in them: the last code of one byte and a     *)
(* surrogate pair; the ends of two bytes; a lone surrogate and the last    *)
(* code unit; each with a bracket, 125, at its end.                        *)
EXTENDS JsonStore, TLC

SomeDocs == {<<127, 55357, 56832, 125>>, <<128, 2047, 125>>, <<55296, 65535, 125>>}

Symmetry == Permutations(Inodes)
=============================================================================
