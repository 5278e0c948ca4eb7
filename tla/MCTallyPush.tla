---------------------------- MODULE MCTallyPush ----------------------------
(***************************************************************************)
(* TallyPush for TLC: what may go wrong in each run.  A tick is the length *)
(* the run's .cfg gives it through the windows; README.md lists them.      *)
(***************************************************************************)
EXTENDS TallyPushInv, TLC

\* Tally is open with the right company and answers in XML.
ReadyFaults == {"restart", "lost", "timeout", "refused", "check_failed", "blocked", "slow"}

\* Tally is closed at times, but the agent is alive and always reaches the backend.
WaitingFaults == {"not_ready", "timeout", "refused", "check_failed", "blocked"}

\* Everything.
AnyFaults == FaultKinds

\* What a shop that keeps asking must get over.
LiveFaults == {"restart", "lost", "timeout", "refused", "check_failed"}
=============================================================================
