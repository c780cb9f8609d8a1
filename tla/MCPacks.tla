------------------------------ MODULE MCPacks ------------------------------
(***************************************************************************)
(* Three kinds of histories.  "crashes": three names over a head, with     *)
(* kills and power losses, and nobody reading.  "readers": a reader beside *)
(* two names, from nothing, and nobody killed.  "damaged": packs are       *)
(* damaged or lost, and history begun anew (Lineages).                     *)
(***************************************************************************)
EXTENDS PackStore, Lineages

VARIABLE kind

packsVars == <<kind, vars, lineagesVars>>

PacksInit == /\ LineagesInit /\ Init
             /\ kind \in {"crashes", "readers", "damaged"} /\ (kind = "crashes" <=> Headed)

PacksNext ==
  /\ UNCHANGED kind
  /\ \/ kind = "crashes" /\ (Write \/ Kill \/ PowerLoss) /\ LineagesIdle
     \/ kind = "readers" /\ (Write \/ Read) /\ jnl' <= 2 /\ LineagesIdle
     \/ kind = "damaged" /\ LineagesNext /\ UNCHANGED vars

PacksSpec == PacksInit /\ [][PacksNext]_packsVars

\* What is kept is what names reach, all of it and no more: every name left after a
\* power loss reaches only objects that are left, no index is in place without its
\* pack, and a collection that ends leaves exactly what is reached (PackStore, Kept,
\* IndexHasPack and CollectsAll).
NamesKept == CollectsAll /\ (kind = "crashes" => Kept) /\ (kind = "readers" => IndexHasPack)

\* A reader is told that an object of history is missing only if collections
\* overtook it (PackStore, NoFalseMiss).
ReadersFind == kind = "readers" => NoFalseMiss

=============================================================================
