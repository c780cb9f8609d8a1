----------------------------- MODULE MCDatabase -----------------------------
(***************************************************************************)
(* A few commands on two row files.                                        *)
(***************************************************************************)
EXTENDS Database, TLC

CONSTANTS w, v, o, k

Script(a, b, c, key) ==
  [x \in {w, v, o} |-> CASE x = w -> [kind |-> a, key |-> key] [] x = v -> [kind |-> b, key |-> key]
                         [] x = o -> [kind |-> c, key |-> NoKey]]

\* A change and its retry, a reviewed change beside another, a repair.
Together == {Script("write", "write", "observe", k),
             Script("review", "write", "observe", NoKey),
             Script("repair", "write", "readonly", NoKey)}

\* Nothing tells one row file from another.
RowFiles == Permutations(Path)

\* Nothing else happens beside what version control brings.
CommandsSpec == Init /\ [][Next /\ (pulls' > 0 => Events' = 1)]_vars

=============================================================================
