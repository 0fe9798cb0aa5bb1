---------------------------- MODULE Regeneration ----------------------------
(***************************************************************************)
(* POST /work-items/{id}/regenerate: a transaction that marks the item     *)
(* REGENERATING, the provider call outside any lock, and a second          *)
(* transaction that saves the draft or records the failure.                *)
(***************************************************************************)
EXTENDS ReviewApi

\* As if the item stayed reviewable during the provider call.
KeepReviewable == [item EXCEPT !.version = @ + 1]

MarkRegenerating == Moved(item, "REGENERATING")

RegenerateStart(r) ==
  /\ Requested(r, "REGENERATE")
  /\ item' = MarkRegenerating
  /\ \E n \in NextRun :
       /\ runs' = [runs EXCEPT ![n] = "STARTED"]
       /\ tab' = [tab EXCEPT ![r] = InRequest(@, "provider", NoKey, 0, n)]
  /\ UNCHANGED <<jobs, keys, queue, wk, emails, approvals>>

StillRegenerating == item.status = "REGENERATING"

apply_generation_success(n) == runs' = [runs EXCEPT ![n] = "COMPLETED"]
apply_generation_failure(n) == runs' = [runs EXCEPT ![n] = "FAILED"]

\* As if the provider's answer were saved without being validated.
UnvalidatedDrafts == Drafts \cup {NoDraft}

GeneratedDrafts == Drafts

\* The request fails, or its answer is not a valid GenerationResult.
ProviderRaises == "provider_fails" \in Faults

\* As if the second transaction kept the status.
SaveDraftOnly(d) == [item EXCEPT !.final_draft = d, !.version = @ + 1]

RegeneratedItem(d) == [Moved(item, "PENDING_REVIEW") EXCEPT !.final_draft = d]

RegenerateSave(r) ==
  /\ tab[r].pc = "provider"
  /\ StillRegenerating
  /\ \E d \in GeneratedDrafts : item' = RegeneratedItem(d)
  /\ apply_generation_success(tab[r].run)
  /\ tab' = [tab EXCEPT ![r] = Idle(@)]
  /\ UNCHANGED <<jobs, keys, queue, wk, emails, approvals>>

\* 409 REGENERATION_STATE_CHANGED: the run keeps its STARTED status.
RegenerateDiscarded(r) ==
  /\ tab[r].pc = "provider"
  /\ ~StillRegenerating
  /\ tab' = [tab EXCEPT ![r] = Idle(@)]
  /\ UNCHANGED <<dbVars, queue, wk, emails, approvals>>

mark_regeneration_failed(r) ==
  /\ ProviderRaises
  /\ tab[r].pc = "provider"
  /\ item' = IF StillRegenerating THEN Moved(item, "PENDING_REVIEW") ELSE item
  /\ apply_generation_failure(tab[r].run)
  /\ tab' = [tab EXCEPT ![r] = Idle(@)]
  /\ UNCHANGED <<jobs, keys, queue, wk, emails, approvals>>

=============================================================================
