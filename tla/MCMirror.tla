------------------------------ MODULE MCMirror ------------------------------
(***************************************************************************)
(* Two tables of one row file each, named alike, and neither told from the *)
(* other.  Two of the contents hold the same row in different styles, one  *)
(* holds no row; all are of one length.                                    *)
(***************************************************************************)
EXTENDS Mirror, TLC

CONSTANTS p, q, x

OwnTables == [f \in Path |-> f]
Contents == {[row |-> x, style |-> 1], [row |-> x, style |-> 2],
             [row |-> NoRow, style |-> 1]}
OneSize == [c \in Contents |-> 1]
Written == {[row |-> x, style |-> 1]}
Alike == Permutations(Path)

=============================================================================
