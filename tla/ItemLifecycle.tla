--------------------------- MODULE ItemLifecycle ----------------------------
(***************************************************************************)
(* What a reviewer is promised about one work item, without requests,      *)
(* versions, jobs, messages or workers: the draft that is emailed is the   *)
(* one that was approved, emails leave only while the item is PROCESSING,  *)
(* an item becomes SENT only after the approved draft went out, and no     *)
(* retry, edit or regeneration changes what was approved.                  *)
(***************************************************************************)
CONSTANTS
  Drafts,   \* email drafts
  NoDraft   \* nothing approved yet; not a draft

VARIABLES
  status,    \* the item's status
  draft,     \* the live draft
  approved,  \* the draft last approved
  reviewed,  \* every draft some reviewer approved
  emailed    \* the drafts that went out

lifecycle == <<status, draft, approved, reviewed, emailed>>

Reviewable == status \in {"PENDING_REVIEW", "FAILED"}

Init ==
  /\ draft \in Drafts
  /\ \/ status \in {"PENDING_REVIEW", "REJECTED"} /\ approved = NoDraft /\ reviewed = {}
     \/ status = "FAILED" /\ approved = draft /\ reviewed = {draft}
  /\ emailed = {}

Becomes(s) == status' = s

Edit ==
  /\ Reviewable
  /\ draft' \in Drafts
  /\ UNCHANGED <<status, approved, reviewed, emailed>>

Approve ==
  /\ Reviewable
  /\ Becomes("PROCESSING")
  /\ approved' = draft
  /\ reviewed' = reviewed \cup {draft}
  /\ UNCHANGED <<draft, emailed>>

\* A retry of an item that is still PROCESSING shows as no change at all.
Retry ==
  /\ status = "FAILED"
  /\ approved \in Drafts
  /\ Becomes("PROCESSING")
  /\ UNCHANGED <<draft, approved, reviewed, emailed>>

Send ==
  /\ status = "PROCESSING"
  /\ emailed' = emailed \cup {approved}
  /\ UNCHANGED <<status, draft, approved, reviewed>>

Deliver ==
  /\ status = "PROCESSING"
  /\ approved \in emailed
  /\ Becomes("SENT")
  /\ UNCHANGED <<draft, approved, reviewed, emailed>>

Fail ==
  /\ status = "PROCESSING"
  /\ Becomes("FAILED")
  /\ UNCHANGED <<draft, approved, reviewed, emailed>>

Regenerate ==
  /\ Reviewable
  /\ Becomes("REGENERATING")
  /\ UNCHANGED <<draft, approved, reviewed, emailed>>

\* The provider's draft, or the old one when the provider fails.
Regenerated ==
  /\ status = "REGENERATING"
  /\ Becomes("PENDING_REVIEW")
  /\ draft' \in Drafts
  /\ UNCHANGED <<approved, reviewed, emailed>>

Reject ==
  /\ Reviewable
  /\ Becomes("REJECTED")
  /\ UNCHANGED <<draft, approved, reviewed, emailed>>

Reopen ==
  /\ status = "REJECTED"
  /\ Becomes("PENDING_REVIEW")
  /\ UNCHANGED <<draft, approved, reviewed, emailed>>

Next ==
  \/ Edit \/ Approve \/ Retry \/ Send \/ Deliver \/ Fail
  \/ Regenerate \/ Regenerated \/ Reject \/ Reopen

Spec == Init /\ [][Next]_lifecycle

=============================================================================
