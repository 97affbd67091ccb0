------------------------------ MODULE MCStacks ------------------------------
(* Instance of Stacks for model checking. *)
EXTENDS Stacks

(* The operations that are used together in one behaviour. *)
MCDeployScenarios == {{"update", "deploy"}, {"copy", "deploy"}, {"delenv", "deploy", "delete"}}
MCPairs == {{"create", "update"}, {"overwrite", "existing", "deployment"}, {"create", "import", "rename"}}
MCTriples == {{"create", "rename", "delete"}, {"update", "delete", "copy"}, {"create", "copy", "rename"}}
MCScenarios == MCDeployScenarios \cup MCPairs \cup MCTriples

MCMaxRequests == [s \in MCScenarios |-> IF s \in MCTriples THEN 3 ELSE 2]
MCDeployMaxRequests == [s \in MCDeployScenarios |-> 2]
=============================================================================
