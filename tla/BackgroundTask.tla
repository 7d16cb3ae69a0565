--------------------------- MODULE BackgroundTask ---------------------------
(***************************************************************************)
(* What AgentRouter assumes of the background tasks of an agent: they run  *)
(* until the context of the agent is cancelled, and then they end.         *)
(***************************************************************************)
VARIABLES cancelled, running

Init == cancelled = FALSE /\ running = TRUE

Cancel == cancelled = FALSE /\ cancelled' = TRUE /\ UNCHANGED running
Exit == cancelled = TRUE /\ running = TRUE /\ running' = FALSE /\ UNCHANGED cancelled

Spec == Init /\ [][Cancel \/ Exit]_<<cancelled, running>> /\ WF_<<cancelled, running>>(Exit)
=============================================================================
