--------------------------- MODULE MCUpdateChecks ---------------------------
(* Instance of UpdateChecks for model checking. *)
EXTENDS UpdateChecks

(* What is in use together in one behaviour, and how many requests it has. *)
MCScenarios == {
    {"push", "user", "fault", "restart", "named"}, {"push", "user", "update", "unversioned"},
    {"push", "user", "recreate"}, {"push", "auto", "recreate"}, {"push", "auto", "policy"}, {"auto", "restart", "user"},
    {"push", "auto", "compose"}, {"push", "policy", "update", "label"}, {"push", "update", "prune", "recreate"},
    {"push", "user", "platform"}, {"creds", "push", "user", "named"}, {"link"},
    {"push", "policy", "batch"}, {"batch", "label"}, {"self", "restart"}}
MCMaxRequests == [s \in MCScenarios |-> IF s \cap {"link", "self", "prune"} # {} THEN 4 ELSE 3]
=============================================================================
