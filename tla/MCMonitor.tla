----------------------------- MODULE MCMonitor ------------------------------
(***************************************************************************)
(* Model-checking instance of Monitor.                                     *)
(***************************************************************************)
EXTENDS Monitor, TLC

\* Three captures reach a success line after an error line, a short
\* chenggong line after an error, and a long line between them.
MCMaxCaptures == 3
MCMaxSent == 2
\* The default status of notify_claude_completion and a failure.
MCStatuses == {"chenggong_wancheng", "shibai"}

=============================================================================
