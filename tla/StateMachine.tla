---------------------------- MODULE StateMachine ----------------------------
(***************************************************************************)
(* The review workflow's status machine: work_items/state_machine.py and   *)
(* the enumerations of models/enums.py.  Pure data, no state.              *)
(***************************************************************************)

WorkItemStatus ==
  {"PENDING_REVIEW", "REGENERATING", "PROCESSING", "SENT", "FAILED", "REJECTED"}

BackgroundJobStatus == {"QUEUED", "RUNNING", "COMPLETED", "FAILED"}

LLMRunStatus == {"STARTED", "COMPLETED", "FAILED"}

WorkItemAction ==
  {"EDIT_DRAFT", "REGENERATE", "APPROVE", "REJECT", "REOPEN", "RETRY_PROCESSING"}

\* The statuses an item may move to from each status.
VALID_TRANSITIONS ==
  [PENDING_REVIEW |-> {"REGENERATING", "PROCESSING", "REJECTED"},
   REGENERATING   |-> {"PENDING_REVIEW"},
   PROCESSING     |-> {"SENT", "FAILED"},
   FAILED         |-> {"PROCESSING", "REGENERATING", "REJECTED"},
   SENT           |-> {},
   REJECTED       |-> {"PENDING_REVIEW"}]

\* The reviewer operations each status admits.
VALID_ACTIONS ==
  [PENDING_REVIEW |-> {"EDIT_DRAFT", "REGENERATE", "APPROVE", "REJECT"},
   FAILED         |-> {"EDIT_DRAFT", "REGENERATE", "APPROVE", "REJECT",
                       "RETRY_PROCESSING"},
   REGENERATING   |-> {},
   PROCESSING     |-> {"RETRY_PROCESSING"},
   SENT           |-> {},
   REJECTED       |-> {"REOPEN"}]

can_transition(from_status, to_status) == to_status \in VALID_TRANSITIONS[from_status]

\* As if the table let a reviewer reject an item that is being processed.
RejectWhileProcessing(status, action) ==
  \/ action \in VALID_ACTIONS[status]
  \/ status = "PROCESSING" /\ action = "REJECT"

\* As if the table let a reviewer regenerate an item while its draft is generated.
RegenerateAgain(status, action) ==
  \/ action \in VALID_ACTIONS[status]
  \/ status = "REGENERATING" /\ action = "REGENERATE"

can_perform_action(status, action) == action \in VALID_ACTIONS[status]

=============================================================================
