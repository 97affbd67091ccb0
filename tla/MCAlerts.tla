------------------------------ MODULE MCAlerts -------------------------------
(* Instances of Alerts for TLC.                                             *)
EXTENDS Alerts

Plain == [activeDelay |-> FALSE, clearDelay |-> FALSE, notifyDelay |-> FALSE,
          channels |-> TRUE, autoResolve |-> FALSE,
          autoResolveOnClear |-> TRUE, notifyOnResolve |-> TRUE]

\* A rule that fires and clears at once; one with every delay; one that
\* resolves its alert as soon as it was sent; one without channels.
MCRules == {Plain,
            [Plain EXCEPT !.activeDelay = TRUE, !.clearDelay = TRUE,
                          !.notifyDelay = TRUE],
            [Plain EXCEPT !.autoResolve = TRUE],
            [Plain EXCEPT !.channels = FALSE, !.autoResolveOnClear = FALSE]}
==============================================================================
