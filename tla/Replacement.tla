----------------------------- MODULE Replacement -----------------------------
(***************************************************************************)
(* What an update promises to whoever owns the updated workload, without   *)
(* steps, failures and Docker calls: the name of the workload is held by   *)
(* the old container, by nobody, or by the new one; the old container      *)
(* disappears only after the new one has been verified, the new one only   *)
(* before that; and the outcome that is reported is true of the containers *)
(* at that moment.  An old container that is perishable may be taken away  *)
(* by others from the moment on that it was set aside; then nothing else   *)
(* protects the workload until the new one is verified.                    *)
(***************************************************************************)
VARIABLES
    exists,    \* which of the two containers exist
    holder,    \* who has the workload's name
    verified,  \* the new container is known to work
    outcome,   \* what was reported
    perishable \* the old container, once set aside, may be taken away

rvars == <<exists, holder, verified, outcome, perishable>>

OldNotGivenUp == "old" \in exists \/ perishable

Init ==
    /\ exists = {"old"} /\ holder = "old"
    /\ verified = FALSE /\ outcome = "none" /\ perishable \in BOOLEAN

SetAside ==
    /\ holder = "old" /\ ~verified
    /\ holder' = "nobody" /\ UNCHANGED <<exists, verified>>

Provide ==
    /\ holder = "nobody" /\ OldNotGivenUp /\ ~verified
    /\ exists' = exists \cup {"new"} /\ holder' = "new" /\ UNCHANGED verified

Verify ==
    /\ holder = "new" /\ ~verified
    /\ verified' = TRUE /\ UNCHANGED <<exists, holder>>

\* The old container is given up only for one that works ...
Retire ==
    /\ holder = "new" /\ verified
    /\ exists' = exists \ {"old"} /\ UNCHANGED <<holder, verified>>

\* ... and the new one only while the old one is there to be put back.
Withdraw ==
    /\ holder = "new" /\ ~verified /\ OldNotGivenUp
    /\ exists' = exists \ {"new"} /\ holder' = "nobody" /\ UNCHANGED verified

PutBack ==
    /\ holder = "nobody" /\ ~verified /\ "old" \in exists
    /\ holder' = "old" /\ UNCHANGED <<exists, verified>>

Move == SetAside \/ Provide \/ Verify \/ Retire \/ Withdraw \/ PutBack

\* A report is true of the containers as they are when it is made; nothing is
\* promised if the updater dies.
Report ==
    /\ outcome' \in {"success", "failed", "rolled_back", "killed"}
    /\ outcome' = "success" => holder' = "new" /\ verified'
    /\ outcome' = "failed" => OldNotGivenUp' /\ ~verified'
    /\ outcome' = "rolled_back" => exists' = {"old"} /\ holder' = "old"

\* What is left behind under the backup name is removed in the end, and a
\* perishable container at any time.
Expire ==
    /\ perishable
    /\ exists' = exists \ {"old"}
    /\ holder' = IF holder = "old" THEN "nobody" ELSE holder
    /\ UNCHANGED <<verified, outcome, perishable>>

Age ==
    /\ outcome # "none" /\ perishable' = TRUE
    /\ UNCHANGED <<exists, holder, verified, outcome>>

Next ==
    \/ /\ outcome = "none" /\ UNCHANGED perishable
       /\ Move \/ UNCHANGED <<exists, holder, verified>>
       /\ Report \/ UNCHANGED outcome
    \/ Expire \/ Age

Spec == Init /\ [][Next]_rvars
==============================================================================
