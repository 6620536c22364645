--------------------------- MODULE MCJournalLock ---------------------------
(* Instances of JournalLock for TLC.                                       *)
EXTENDS JournalLock, TLC

\* Processes are interchangeable (used in runs of safety properties only).
Symmetry == Permutations(Proc)
=============================================================================
