----------------------------- MODULE MCJournal -----------------------------
(***************************************************************************)
(* Small instances of the commit protocol: two table directories, a for    *)
(* one target, b for the other(s).                                         *)
(***************************************************************************)
EXTENDS Journal

CONSTANTS p, q, a, b

\* One directory per target.
TwoDirs == [x \in {p, q} |-> IF x = p THEN a ELSE b]
\* All targets in one directory.
OneDir == [x \in Target |-> a]

\* What outside edits leave: foreign bytes.
ForeignOnly == {Foreign}

=============================================================================
