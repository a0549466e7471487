----------------------------- MODULE StagePolicy -----------------------------
(***************************************************************************)
(* The stage transition policy of a file run (phase6/policy.py): which     *)
(* stage may follow which in the timeline of one file run.                 *)
(***************************************************************************)

\* FileStage, phase6/contracts.py
Stages == {"discovered", "workflow_started", "workflow_completed", "completed",
           "failed", "retry_queued", "retrying", "poisoned"}

\* latest_stage() of a file run that has no event yet is None
NoStage == "none"

\* Mutants: poisoned is not terminal; a retry may not start the workflow
AllowedWithReopen ==
    (Stages \X {"retry_queued", "failed", "poisoned"})
    \cup {<<"discovered", "workflow_started">>, <<"workflow_started", "workflow_completed">>,
          <<"workflow_completed", "completed">>, <<"retry_queued", "retrying">>,
          <<"retrying", "workflow_started">>}
AllowedWithoutRetries ==
    ({"discovered"} \X {"workflow_started", "failed"})
    \cup ({"workflow_started"} \X {"workflow_completed", "failed"})
    \cup ({"workflow_completed"} \X {"completed", "failed"})
    \cup ({"failed"} \X {"retry_queued", "poisoned"})
    \cup ({"retry_queued"} \X {"retrying"}) \cup ({"retrying"} \X {"failed"})

\* StageTransitionPolicyService._allowed, as a set of pairs
Allowed ==
    ({"discovered"} \X {"workflow_started", "retry_queued", "failed", "poisoned"})
    \cup ({"workflow_started"} \X {"workflow_completed", "failed", "retry_queued"})
    \cup ({"workflow_completed"} \X {"completed", "failed", "retry_queued"})
    \cup ({"failed"} \X {"retry_queued", "poisoned"})
    \cup ({"retry_queued"} \X {"retrying", "poisoned"})
    \cup ({"retrying"} \X {"workflow_started", "failed", "poisoned"})

\* assert_transition(from_stage, to_stage) raises nothing
Legal(from, to) ==
    IF from = NoStage THEN to \in {"discovered", "workflow_started"}
                      ELSE from = to \/ <<from, to>> \in Allowed

\* No stage follows these two
Terminal == {"completed", "poisoned"}

=============================================================================
