------------------------------- MODULE MCSdFat -------------------------------
(* Model-checking instance of SdFat *)
EXTENDS SdFat

CONSTANTS fileA, fileB, dirD, fileS, fileT, fileU

MCNames == {fileA, fileB}
MCSubNames == {fileS, fileT, fileU}

\* The file handler writes one byte after the other.
MCWrites == {<<1, 1>>, <<4>>}

\* Files in the root directory of a FAT32 volume, a directory on a FAT16 one.
MCKinds == {[calls |-> "files", fixed |-> FALSE], [calls |-> "tree", fixed |-> TRUE]}

\* The names of files are alike, in each directory.
Symmetry == Permutations(MCNames) \cup Permutations(MCSubNames)
=============================================================================
