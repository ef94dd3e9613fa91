-------------------------- MODULE MCStatusMapping ---------------------------
(***************************************************************************)
(* Model-checking instance of StatusMapping.                               *)
(***************************************************************************)
EXTENDS StatusMapping, TLC

\* Words that meet the priority rules: a success and a failure word, the
\* failure word inside notify_test_execution's "N ge_shibai", a running word,
\* an upper-case English failure word, "token", which holds "ok", and a
\* warning word that no success, failure or running test matches.
MCAtoms == {"wancheng", "ge_shibai", "cuowu", "yunxingzhong", "token", "success",
            "FAILED", "jinggao"}

MCEmbeds == {<<"shibai", "ge_shibai">>, <<"yunxing", "yunxingzhong">>, <<"ok", "token">>,
             <<"fail", "failed">>}

MCLower == [w \in MCAtoms \cup PendingOutput |->
             CASE w = "FAILED" -> "failed"
               [] w = "Claude" -> "claude"
               [] OTHER        -> w]

MCMaxTests == 2

\* Captured command output of up to three lines.
MCMaxLines == 3

\* The hook CLI's duration argument: "2 minutes", "1xiaoshi30fenzhong",
\* "1.5 hours", "45miao", "45 seconds", "1.5hr", "2fenzhong", and two the
\* spec's rule does not cover: "2 days" and a bare "5".
MCDurations == {[num |-> 20, units |-> {"minutes"}],
                [num |-> 10, units |-> {"xiaoshi", "fenzhong"}],
                [num |-> 15, units |-> {"hours"}],
                [num |-> 450, units |-> {"miao"}],
                [num |-> 450, units |-> {"seconds"}],
                [num |-> 15, units |-> {"hr"}],
                [num |-> 20, units |-> {"fenzhong"}],
                [num |-> 20, units |-> {"days"}],
                [num |-> 50, units |-> {}]}

\* Status arguments of the fine-grained notifiers: their default "wancheng"
\* and a failure word.
MCTaskStatuses == {{"wancheng"}, {"cuowu"}}

=============================================================================
