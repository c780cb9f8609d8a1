----------------------------- MODULE MCServing -----------------------------
(***************************************************************************)
(* What outlives a command: the packs history is kept in (MCPacks), and    *)
(* the server for agents.  A behaviour is about one question, of packs, of *)
(* plans and their commits, of a server that keeps one plan only, of       *)
(* subscriptions, or of pages; what it is not about stays as it begins.    *)
(***************************************************************************)
EXTENDS MCPacks, Mcp, TLC

VARIABLE subject

servingVars == <<subject, packsVars, mcpVars>>

Forgetful == INSTANCE Mcp WITH PlansKept <- 1

ServingInit ==
  /\ subject \in {"packs", "plans", "forgetful", "subscribers", "pages"}
  /\ PacksInit /\ McpInit
  /\ IF subject = "packs" THEN elicits /\ source[CHOOSE key \in Key : TRUE] = Gone
                           ELSE kind = "damaged"
  /\ Cardinality(RowsPresent(State)) >= Cardinality(Key) - (IF subject = "plans" THEN 1 ELSE 0)

\* One change is enough where the question is not about plans, which other programs
\* may spoil and spoil again, and other programs do not matter to subscribers.
AgentsNext ==
  /\ \/ subject # "forgetful" /\ \E a \in Agent : Call(a)
     \/ subject = "forgetful" /\ \E a \in Agent : Forgetful!Call(a)
     \/ subject = "subscribers" /\ Subscribing
     \/ subject = "pages" /\ Paging
     \/ Others
  /\ subject \in {"subscribers", "pages"} => serial' <= 1
  /\ subject \in {"subscribers", "forgetful"} => outsides' = 0
  /\ subject = "plans" => serial' + outsides' <= 3
  /\ subject = "pages" => serial' + outsides' <= 2

ServingNext ==
  /\ UNCHANGED subject
  /\ \/ subject = "packs" /\ PacksNext /\ UNCHANGED mcpVars
     \/ subject # "packs" /\ AgentsNext /\ UNCHANGED packsVars

ServingSpec == ServingInit /\ [][ServingNext]_servingVars

Interchangeable == Permutations(Agent)

=============================================================================
