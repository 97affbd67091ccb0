---------------------------- MODULE MCContainers ----------------------------
(* Instance of Containers for model checking. *)
EXTENDS Containers

(* What is in use together in one behaviour, and how many requests it has. *)
MCScenarios == {
    {"auto", "recreate", "daily"}, {"auto", "offline", "daily", "restart"}, {"health", "recreate", "daily"},
    {"health", "restart"}, {"health", "offline"}, {"batch", "restart", "offline"}}
MCMaxRequests == [s \in MCScenarios |-> IF "auto" \in s THEN 4 ELSE 3]

(* A health check, while its container is recreated and rows are cleaned up, *)
(* or while the backend is restarted.                                      *)
MCCleanup == {{"health", "recreate", "daily"}}
MCRestarts == {{"health", "recreate", "restart"}}
MCCleanupRequests == [s \in MCCleanup |-> 4]
MCRestartRequests == [s \in MCRestarts |-> 4]
=============================================================================
