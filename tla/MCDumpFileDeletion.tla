------------------------- MODULE MCDumpFileDeletion -------------------------
(* The instances of DumpFileDeletion that TLC checks. *)
EXTENDS DumpFileDeletion, TLC

CONSTANTS f1, f2

MCDumps == {f1, f2}

DumpSymmetry == Permutations(MCDumps)

=============================================================================
