--------------------------- MODULE MCDumpProtocol ---------------------------
(* The instances of DumpProtocol that TLC checks. *)
EXTENDS DumpProtocol, TLC

CONSTANTS a1, a2

MCApp == {a1, a2}

MCTargets == {"Throwable", "StackOverflowError", "E"}
MCOverflow == <<"StackOverflowError", "Throwable">>

\* Automatic monitoring, a file that names E, and one that names both errors.
MCContents == {[targets |-> {"Throwable"}, signal |-> TRUE],
               [targets |-> {"E"}, signal |-> FALSE],
               [targets |-> {"E", "StackOverflowError"}, signal |-> TRUE]}

\* Liveness has no symmetry to reduce it, so its instance has fewer contents.
MCTwoContents == {[targets |-> {"Throwable"}, signal |-> TRUE],
                  [targets |-> {"E"}, signal |-> TRUE]}

AppSymmetry == Permutations(MCApp)

=============================================================================
