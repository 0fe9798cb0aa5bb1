----------------------------- MODULE DetailPage -----------------------------
(***************************************************************************)
(* One work item page (frontend/app/work-items/[id]/page.tsx) against the  *)
(* server: the query cache and its polling, the draft editor, the review   *)
(* buttons and their requests, which may be lost on either way.  The       *)
(* server's handlers are those of ReviewApi and Regeneration, seen from a  *)
(* page: one step each, except the key lookup of an approval and the       *)
(* provider call.  Every change of the item raises its version, as it does *)
(* while no publish is ambiguous (Workbench!VersionAdvances).              *)
(***************************************************************************)
EXTENDS Naturals, Sequences, StateMachine

CONSTANTS
  Drafts,       \* texts of the draft
  Notes,        \* texts of the reviewer's note
  None,         \* no detail loaded, no request
  PageActions,  \* what the page's reviewer may click
  OtherActions, \* what reviewers elsewhere may do
  MaxVersion,   \* bound: versions from which an action is begun
  MaxRequests,  \* bound: requests of this page at a time
  MaxMishaps    \* bound: failed fetches, requests given up, and hidings of the tab

VARIABLES
  item,        \* the server's row
  keys,        \* the stored approval keys of this page, with what they were sent for
  request,     \* requests of the page, and of earlier clicks it has given up
  page,        \* the query's state, the editor and the tab
  refreshing,  \* actions whose onSuccess waits for the refetch
  mishaps,     \* those that have happened, for the bound
  acked,       \* history: the newest version an answered action has reported
  done         \* history: this page's clicks in the order they were carried out

vars == <<item, keys, request, page, refreshing, mishaps, acked, done>>

-----------------------------------------------------------------------------
Slots == 1..MaxRequests
Versions == Nat \ {0}
Detail == [status: WorkItemStatus, version: Versions, draft: Drafts]

ASSUME DetailPageAssumption ==
  /\ PageActions \cup OtherActions \subseteq WorkItemAction
  /\ {MaxVersion, MaxRequests, MaxMishaps} \subseteq Nat
  /\ None \notin Drafts \cup Detail
  /\ Notes # {}

\* A key belongs to the version the page showed, its request hash also to the note.
Key == [version: Versions, note: Notes]

\* base: the version whose draft was last put in the editor.  heard: the page
\* still waits for the answer.  repeat: an approval sent after the very same one
\* was stored.  made: the version that the answer reports.
Request ==
  [op: WorkItemAction, version: Versions, text: Drafts \cup {None}, note: Notes, base: Versions,
   heard: BOOLEAN, repeat: BOOLEAN, made: Nat,
   phase: {"sent", "looked_up", "generating", "ok", "refused"}]

\* A click that the server has carried out.
Deed == [op: WorkItemAction, version: Versions, base: Versions]

\* fetch: "none", "sent" to the server, or "read" with the copy on its way back.
\* watched: history, the tab was visible at the last render and has been since.
Page ==
  [shown: Detail \cup {None}, text: Drafts \cup {None}, base: Nat,
   fetch: {"none", "sent", "read"}, copy: Detail \cup {None},
   error: BOOLEAN, hidden: BOOLEAN, polling: BOOLEAN, watched: BOOLEAN]

TypeOK ==
  /\ item \in Detail
  /\ keys \subseteq Key
  /\ request \in [Slots -> Request \cup {None}]
  /\ page \in Page
  /\ refreshing \subseteq WorkItemAction
  /\ mishaps \in Nat /\ acked \in Nat
  /\ done \in Seq(Deed)

Init ==
  /\ item \in [status: {"PENDING_REVIEW", "REJECTED"}, version: {1}, draft: Drafts]
  /\ keys = {}
  /\ request = [i \in Slots |-> None]
  /\ page = [shown |-> None, text |-> None, base |-> 0, fetch |-> "sent", copy |-> None,
             error |-> FALSE, hidden |-> FALSE, polling |-> FALSE, watched |-> TRUE]
  /\ refreshing = {}
  /\ mishaps = 0
  /\ acked = 0
  /\ done = <<>>

-----------------------------------------------------------------------------
(* The query: refetchInterval, the effect on item.data, refreshAll. *)

Transient == {"PROCESSING", "REGENERATING"}
ShownIn(p, statuses) == p.shown # None /\ p.shown.status \in statuses

\* As if only a regeneration were polled.
RegenerationOnly(p) == ~p.error /\ ShownIn(p, {"REGENERATING"}) /\ ~p.hidden

Interval(p) == ~p.error /\ ShownIn(p, Transient) /\ ~p.hidden

\* Every render and every update of the query computes the interval anew.
Rendered(p) == [p EXCEPT !.polling = Interval(p), !.watched = ~p.hidden]

\* As if only the first load filled the editor, to spare what is being typed.
FilledOnce(p, copy) ==
  IF p.shown = None THEN [p EXCEPT !.text = copy.draft, !.base = copy.version] ELSE p

\* Structural sharing keeps the old object for equal data: the effect does not run.
Filled(p, copy) ==
  IF p.shown = copy THEN p ELSE [p EXCEPT !.text = copy.draft, !.base = copy.version]

Fetching(p) == [p EXCEPT !.fetch = "sent", !.copy = None]
Fetched(p) == [p EXCEPT !.fetch = "none", !.copy = None]

\* As if an invalidation joined the fetch that is under way.
JoinedFetch(p) == IF p.fetch = "none" THEN Fetching(p) ELSE p

\* invalidateQueries cancels a fetch that is under way and starts another.
Invalidated(p) == Fetching(p)

Mishap == mishaps < MaxMishaps /\ mishaps' = mishaps + 1

Read ==
  /\ page.fetch = "sent"
  /\ page' = [page EXCEPT !.fetch = "read", !.copy = item]
  /\ UNCHANGED <<item, keys, request, refreshing, mishaps, acked, done>>

\* The render and its effect: React runs effects before it handles another click.
Arrive ==
  /\ page.fetch = "read"
  /\ page' = Rendered(Fetched([Filled(page, page.copy) EXCEPT !.shown = page.copy, !.error = FALSE]))
  /\ refreshing' = {}
  /\ UNCHANGED <<item, keys, request, mishaps, acked, done>>

\* retry: false.  The data stay, the error stops the polling.
FetchFails ==
  /\ page.fetch # "none"
  /\ Mishap
  /\ page' = Rendered(Fetched([page EXCEPT !.error = TRUE]))
  /\ refreshing' = {}
  /\ UNCHANGED <<item, keys, request, acked, done>>

Poll ==
  /\ page.polling /\ ~page.hidden /\ page.fetch = "none"
  /\ page' = Rendered(Fetching(page))
  /\ UNCHANGED <<item, keys, request, refreshing, mishaps, acked, done>>

Hide ==
  /\ ~page.hidden
  /\ Mishap
  /\ page' = [page EXCEPT !.hidden = TRUE, !.watched = FALSE]
  /\ UNCHANGED <<item, keys, request, refreshing, acked, done>>

\* On focus only data older than staleTime are fetched; nothing else renders.
Show ==
  /\ page.hidden
  /\ \/ page' = [page EXCEPT !.hidden = FALSE]
     \/ page.fetch = "none" /\ page' = Rendered(Fetching([page EXCEPT !.hidden = FALSE]))
  /\ UNCHANGED <<item, keys, request, refreshing, mishaps, acked, done>>

-----------------------------------------------------------------------------
(* The editor and the buttons. *)

Sent(i) == request[i] # None
Waiting(op) == \E i \in Slots : Sent(i) /\ request[i].op = op /\ request[i].heard
Pending(op) == Waiting(op) \/ op \in refreshing

canAct == ShownIn(page, {"PENDING_REVIEW", "FAILED"})
isGenerating == Pending("REGENERATE") \/ ShownIn(page, {"REGENERATING"})
draftChanged == page.text # page.shown.draft

ButtonEnabled(op) ==
  /\ page.shown # None /\ ~page.hidden
  /\ ~Pending(op)
  /\ op \in {"EDIT_DRAFT", "REGENERATE", "APPROVE", "REJECT"} => canAct /\ ~isGenerating
  /\ op = "EDIT_DRAFT" => draftChanged
  /\ op = "REOPEN" => ShownIn(page, {"REJECTED"})
  /\ op = "RETRY_PROCESSING" => ShownIn(page, {"FAILED", "PROCESSING"})

Type(text) ==
  /\ canAct /\ ~isGenerating /\ ~page.hidden
  /\ page' = Rendered([page EXCEPT !.text = text])
  /\ UNCHANGED <<item, keys, request, refreshing, mishaps, acked, done>>

\* The key is made for the shown version only, however often the note is edited.
ApprovalKey(version, note) == [version |-> version, note |-> note]

NewRequest(op, note) ==
  [op |-> op, version |-> page.shown.version,
   text |-> IF op = "EDIT_DRAFT" THEN page.text ELSE None, note |-> note, base |-> page.base,
   heard |-> TRUE, repeat |-> op = "APPROVE" /\ ApprovalKey(page.shown.version, note) \in keys,
   made |-> 0, phase |-> "sent"]

\* The note in its box matters to an approval alone.
NotesOf(op) == IF op = "APPROVE" THEN Notes ELSE {CHOOSE note \in Notes : TRUE}

\* Bound: a click sends its request in the first free slot.
Click(op) ==
  /\ ButtonEnabled(op)
  /\ \E i \in Slots, note \in NotesOf(op) :
       /\ ~Sent(i) /\ \A j \in 1..(i - 1) : Sent(j)
       /\ request' = [request EXCEPT ![i] = NewRequest(op, note)]
  /\ page' = Rendered(page)
  /\ UNCHANGED <<item, keys, refreshing, mishaps, acked, done>>

Idle(i) == request' = [request EXCEPT ![i] = None]
NoLongerHeard(i) == ~request[i].heard /\ UNCHANGED <<page, refreshing, acked>>

\* onSuccess: refreshAll; an error changes nothing but the notice.
Answered(i) ==
  /\ Sent(i) /\ request[i].phase \in {"ok", "refused"}
  /\ Idle(i)
  /\ \/ NoLongerHeard(i)
     \/ /\ request[i].heard /\ request[i].phase = "ok"
        /\ page' = Rendered(Invalidated(page))
        /\ refreshing' = refreshing \cup {request[i].op}
        /\ acked' = IF request[i].made > acked THEN request[i].made ELSE acked
     \/ /\ request[i].heard /\ request[i].phase = "refused"
        /\ page' = Rendered(page)
        /\ UNCHANGED <<refreshing, acked>>
  /\ UNCHANGED <<item, keys, mishaps, done>>

\* The page gives the request up; the server may have carried it out, may do so
\* later, or may never see it.
RequestLost(i) ==
  /\ Sent(i) /\ request[i].heard
  /\ Mishap
  /\ \/ request' = [request EXCEPT ![i].heard = FALSE]
     \/ request[i].phase = "sent" /\ Idle(i)
  /\ page' = Rendered(page)
  /\ UNCHANGED <<item, keys, refreshing, acked, done>>

-----------------------------------------------------------------------------
(* The server. *)

NewStatus ==
  [REGENERATE |-> "REGENERATING", APPROVE |-> "PROCESSING", REJECT |-> "REJECTED",
   REOPEN |-> "PENDING_REVIEW", RETRY_PROCESSING |-> "PROCESSING"]

\* As if saving a draft kept the version.
SaveUnversioned(op, text) ==
  IF op = "EDIT_DRAFT" THEN [item EXCEPT !.draft = text]
  ELSE [item EXCEPT !.status = NewStatus[op], !.version = @ + 1]

\* The item after op, whose text only an edit saves.
After(op, text) ==
  IF op = "EDIT_DRAFT" THEN [item EXCEPT !.draft = text, !.version = @ + 1]
  ELSE [item EXCEPT !.status = NewStatus[op], !.version = @ + 1]

\* As if a handler looked at the status alone.
StatusOnly(op, version) == can_perform_action(item.status, op)

Admits(op, version) == version = item.version /\ can_perform_action(item.status, op)

\* As if the lookup came after the version check.
StoredAndCurrent(i) ==
  \E k \in keys : k.version = request[i].version /\ request[i].version = item.version

KeyStored(i) == \E k \in keys : k.version = request[i].version

SameRequest(i) == ApprovalKey(request[i].version, request[i].note) \in keys

Replies(i, phase) == request' = [request EXCEPT ![i].phase = phase]
Reports(i, phase, version) ==
  request' = [request EXCEPT ![i].phase = phase, ![i].made = version]

\* A stored key replays the approval, or is refused: IDEMPOTENCY_KEY_REUSED.
LookUpKey(i) ==
  /\ Sent(i) /\ request[i].op = "APPROVE" /\ request[i].phase = "sent"
  /\ \/ ~KeyStored(i) /\ Replies(i, "looked_up")
     \/ KeyStored(i) /\ SameRequest(i) /\ Reports(i, "ok", item.version)
     \/ KeyStored(i) /\ ~SameRequest(i) /\ Replies(i, "refused")
  /\ UNCHANGED <<item, keys, page, refreshing, mishaps, acked, done>>

Ready(i) ==
  Sent(i) /\ request[i].phase = IF request[i].op = "APPROVE" THEN "looked_up" ELSE "sent"

CarryOut(i) ==
  /\ Ready(i)
  /\ Admits(request[i].op, request[i].version)
  /\ item.version < MaxVersion
  /\ item' = After(request[i].op, request[i].text)
  /\ keys' = IF request[i].op = "APPROVE"
             THEN keys \cup {ApprovalKey(request[i].version, request[i].note)} ELSE keys
  /\ Reports(i, IF request[i].op = "REGENERATE" THEN "generating" ELSE "ok", item'.version)
  /\ done' = Append(done, [op |-> request[i].op, version |-> request[i].version,
                           base |-> request[i].base])
  /\ UNCHANGED <<page, refreshing, mishaps, acked>>

\* A retry of a PROCESSING item is also refused while its job is fresh.
Refuse(i) ==
  /\ Ready(i)
  /\ \/ ~Admits(request[i].op, request[i].version)
     \/ request[i].op = "RETRY_PROCESSING" /\ item.status = "PROCESSING"
  /\ Replies(i, "refused")
  /\ UNCHANGED <<item, keys, page, refreshing, mishaps, acked, done>>

Generating(i) == Sent(i) /\ request[i].phase = "generating"

\* The provider answers with a draft, or fails and the old draft stays.
Generated(i) ==
  /\ Generating(i)
  /\ \E draft \in Drafts, phase \in {"ok", "refused"} :
       /\ phase = "refused" => draft = item.draft
       /\ item' = [status |-> "PENDING_REVIEW", version |-> item.version + 1, draft |-> draft]
       /\ Reports(i, phase, item'.version)
  /\ UNCHANGED <<keys, page, refreshing, mishaps, acked, done>>

\* A reviewer elsewhere acts on the item.
OtherActs(op, text) ==
  /\ item.version < MaxVersion
  /\ Admits(op, item.version)
  /\ item' = After(op, text)
  /\ UNCHANGED <<keys, request, page, refreshing, mishaps, acked, done>>

\* The worker, or a failed enqueue, ends the processing; a regeneration that was
\* begun elsewhere ends.
Settle ==
  /\ \/ \E status \in {"SENT", "FAILED"} :
          /\ item.status = "PROCESSING"
          /\ item' = [item EXCEPT !.status = status, !.version = @ + 1]
     \/ \E draft \in Drafts :
          /\ item.status = "REGENERATING" /\ ~\E i \in Slots : Generating(i)
          /\ item' = [status |-> "PENDING_REVIEW", version |-> item.version + 1, draft |-> draft]
  /\ UNCHANGED <<keys, request, page, refreshing, mishaps, acked, done>>

-----------------------------------------------------------------------------
Next ==
  \/ Read \/ Arrive \/ FetchFails \/ Poll \/ Hide \/ Show
  \/ \E text \in Drafts : Type(text)
  \/ \E op \in PageActions : Click(op)
  \/ \E op \in OtherActions, text \in Drafts : OtherActs(op, text)
  \/ \E i \in Slots :
       \/ Answered(i) \/ RequestLost(i)
       \/ LookUpKey(i) \/ CarryOut(i) \/ Refuse(i) \/ Generated(i)
  \/ Settle

Spec == Init /\ [][Next]_vars

\* The browser's timer runs, the server answers reads, and work that has begun
\* ends (ProcessingSettles, RegenerationEnds); nobody has to click or come back.
FairSpec ==
  /\ Spec
  /\ WF_vars(Poll) /\ WF_vars(Read) /\ WF_vars(Arrive)
  /\ WF_vars(Settle) /\ WF_vars(\E i \in Slots : Generated(i))

-----------------------------------------------------------------------------
\* Once an action has been answered and the query is at rest without an error,
\* the page shows the item as that action left it, after a regeneration with its
\* new draft, or newer, even when a poll that read the item before was under way.
RefreshedAfterAnswer ==
  page.fetch = "none" /\ ~page.error /\ page.shown # None => page.shown.version >= acked

\* Of the clicks a reviewer makes while one version is shown, at most one is
\* carried out: Save and Approve never both act on the same version, and nothing
\* is done twice, in any order of arrival and whatever was lost and clicked again.
OneActionPerShownVersion ==
  \A i, j \in 1..Len(done) : done[i].version = done[j].version => i = j

\* A save that is carried out replaces the very draft its text was typed over, so
\* no edit made elsewhere is lost; this is why new data overwrite unsaved typing.
SaveReplacesWhatWasEdited ==
  \A i \in 1..Len(done) : done[i].op = "EDIT_DRAFT" => done[i].base = done[i].version

\* An approval sent again with the same note after the server has stored its key
\* is never reported to the reviewer as failed, however far the item has moved
\* since.  With another note it is: the note is in the request's hash, not in the
\* page's key.
RepeatedApproveSucceeds ==
  \A i \in Slots : Sent(i) /\ request[i].repeat => request[i].phase # "refused"

\* "This page polls until it becomes sent or failed", as far as that is so: no poll
\* fails and the tab stays visible.  A tab that comes back within staleTime after a
\* fetch has ended while it was hidden does not poll until something renders.
PollsUntilSettled ==
  (page.watched /\ ShownIn(page, Transient))
    ~> (~ShownIn(page, Transient) \/ page.error \/ page.hidden)

=============================================================================
