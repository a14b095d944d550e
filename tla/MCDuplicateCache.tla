-------------------------- MODULE MCDuplicateCache --------------------------
(* The instance of DuplicateCache that TLC checks. *)
EXTENDS DuplicateCache, TLC

CONSTANTS t1, t2, s1, s2

MCThreads == {t1, t2}
MCStacks == {s1, s2}

CacheSymmetry == Permutations(MCThreads) \cup Permutations(MCStacks)

=============================================================================
