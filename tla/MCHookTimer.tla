---------------------------- MODULE MCHookTimer -----------------------------
(***************************************************************************)
(* Model-checking instance of HookTimer.                                   *)
(***************************************************************************)
EXTENDS HookTimer, TLC

CONSTANTS d1, d2, n1

\* Two timed calls (nested, or in any order), each decorated on _hook, d2
\* instead possibly a script timed by start_claude_task() on _flow_hook, and
\* one bare notify.
MCTimed == {d1, d2}
MCFlowTimed == {d2}
MCUntimed == {n1}
MCNoUntimed == {}
MCOneTimed == {d1}

\* Two ticks a second, so int() truncation shows; three seconds of clock.
MCGrain == 2
MCMaxTime == 5

\* Statuses callers pass: the enum's two and a free-text one (wancheng).
MCStatuses == {"success", "failed", "wancheng"}

\* Empty, short, and longer than every cap in the code (100, 200, 900).
MCLengths == {0, 150, 1000}

=============================================================================
