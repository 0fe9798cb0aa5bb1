-------------------------- MODULE DetailPageProofs --------------------------
(***************************************************************************)
(* Proofs about DetailPage.  The item's version grows with every change,   *)
(* an action is carried out only at the version it was clicked at, and the *)
(* editor's text is always based on the version that is shown.             *)
(***************************************************************************)
EXTENDS DetailPage, TLAPS

\* The editor holds a text based on the shown version; a copy on its way is a detail.
PageOK(p) ==
  /\ p \in Page
  /\ p.shown \in Detail => p.base = p.shown.version /\ p.text \in Drafts
  /\ p.fetch = "read" => p.copy \in Detail

RequestOK(r) ==
  /\ r \in Request
  /\ r.base = r.version
  /\ r.op = "EDIT_DRAFT" => r.text \in Drafts

\* What the server has carried out is of versions the item has left behind.
DoneBefore == \A i \in 1..Len(done) : done[i].version < item.version

IInv ==
  /\ TypeOK
  /\ PageOK(page)
  /\ \A i \in Slots : Sent(i) => RequestOK(request[i])
  /\ DoneBefore
  /\ OneActionPerShownVersion
  /\ SaveReplacesWhatWasEdited

-----------------------------------------------------------------------------
(* The updates of the page. *)

\* A render keeps the page's editor in step with what it shows.
LEMMA RenderedOK == \A p : PageOK(p) => PageOK(Rendered(p))
  <1>1. \A p : Interval(p) \in BOOLEAN BY DEF Interval
  <1> QED BY <1>1 DEF PageOK, Page, Rendered

\* Starting a fetch, polled or invalidated, changes neither editor nor detail.
LEMMA FetchingOK == \A p : PageOK(p) => PageOK(Fetching(p)) /\ PageOK(Invalidated(p))
  BY DEF PageOK, Page, Fetching, Invalidated

\* So does ending one.
LEMMA FetchedOK == \A p : PageOK(p) => PageOK(Fetched(p))
  BY DEF PageOK, Page, Fetched

\* New data in the cache and in the editor.
LEMMA FilledOK ==
  ASSUME NEW p, PageOK(p), NEW copy \in Detail
  PROVE  PageOK([Filled(p, copy) EXCEPT !.shown = copy, !.error = FALSE])
  <1>1. copy.version \in Nat /\ copy.draft \in Drafts BY DEF Detail, Versions
  <1>2. CASE p.shown = copy BY <1>1, <1>2 DEF PageOK, Page, Filled
  <1>3. CASE p.shown # copy BY <1>1, <1>3 DEF PageOK, Page, Filled
  <1> QED BY <1>2, <1>3

-----------------------------------------------------------------------------
(* The updates of the item. *)

\* An admitted action leaves a detail of the next version.
LEMMA AfterOK ==
  ASSUME TypeOK, NEW op \in WorkItemAction, NEW text,
         op = "EDIT_DRAFT" => text \in Drafts
  PROVE  After(op, text) \in Detail /\ After(op, text).version = item.version + 1
  <1>1. item \in Detail /\ item.version + 1 \in Versions BY DEF TypeOK, Detail, Versions
  <1>2. CASE op = "EDIT_DRAFT" BY <1>1, <1>2 DEF After, Detail
  <1>3. CASE op # "EDIT_DRAFT"
    <2>1. NewStatus[op] \in WorkItemStatus
      BY <1>3 DEF NewStatus, WorkItemStatus, WorkItemAction
    <2> QED BY <1>1, <1>3, <2>1 DEF After, Detail
  <1> QED BY <1>2, <1>3

\* Every entry of the history is a click with its versions.
LEMMA DeedTypes ==
  ASSUME TypeOK
  PROVE  \A i \in 1..Len(done) : done[i] \in Deed /\ done[i].version \in Nat
  <1>1. done \in Seq(Deed) BY DEF TypeOK
  <1>2. \A i \in 1..Len(done) : done[i] \in Deed BY <1>1
  <1>3. \A x \in Deed : x.version \in Nat BY DEF Deed, Versions
  <1> QED BY <1>2, <1>3

\* A newer item leaves everything done behind it.
LEMMA NewerItem ==
  ASSUME IInv, item' \in Detail, item'.version = item.version + 1, UNCHANGED done
  PROVE  DoneBefore'
  <1>1. item.version \in Nat /\ \A i \in 1..Len(done) : done[i].version \in Nat
    BY DeedTypes DEF IInv, TypeOK, Detail, Versions
  <1> QED BY <1>1 DEF IInv, DoneBefore

\* What is carried out does not depend on anything but the history.
LEMMA DoneKept ==
  ASSUME IInv, UNCHANGED done
  PROVE  OneActionPerShownVersion' /\ SaveReplacesWhatWasEdited'
  BY DEF IInv, OneActionPerShownVersion, SaveReplacesWhatWasEdited

-----------------------------------------------------------------------------
\* A page that loads has sent nothing and shows nothing.
LEMMA InitInv == Init => IInv
  <1> SUFFICES ASSUME Init PROVE IInv OBVIOUS
  <1>1. item \in Detail BY DEF Init, Detail, Versions, WorkItemStatus
  <1>2. page \in Page /\ PageOK(page)
    <2>1. None \notin Detail BY DetailPageAssumption
    <2> QED BY <2>1 DEF Init, Page, PageOK
  <1>3. TypeOK BY <1>1, <1>2 DEF Init, TypeOK, Versions
  <1> QED
    BY <1>2, <1>3 DEF Init, IInv, Sent, DoneBefore, OneActionPerShownVersion,
                      SaveReplacesWhatWasEdited

-----------------------------------------------------------------------------
(* The steps. *)

\* A step keeps the invariant if it leaves the item and the history alone and the
\* page and its requests in order.
LEMMA SameItem ==
  ASSUME IInv, UNCHANGED <<item, keys, done>>, PageOK(page'),
         request' \in [Slots -> Request \cup {None}],
         \A i \in Slots : Sent(i)' => RequestOK(request[i]'),
         refreshing' \subseteq WorkItemAction, mishaps' \in Nat, acked' \in Nat
  PROVE  IInv'
  <1>1. PageOK(page)' BY DEF PageOK, Page, Detail
  <1>2. TypeOK' BY <1>1 DEF IInv, TypeOK, PageOK
  <1>3. DoneBefore' BY DEF IInv, DoneBefore
  <1> QED BY <1>1, <1>2, <1>3, DoneKept DEF IInv

\* So does a step that takes the item to its next version and keeps the history.
LEMMA NextVersion ==
  ASSUME IInv, UNCHANGED <<keys, page, refreshing, mishaps, acked, done>>,
         item' \in Detail, item'.version = item.version + 1,
         request' \in [Slots -> Request \cup {None}],
         \A i \in Slots : Sent(i)' => RequestOK(request[i]')
  PROVE  IInv'
  <1>1. PageOK(page)' BY DEF IInv, PageOK
  <1>2. TypeOK' BY DEF IInv, TypeOK
  <1> QED BY <1>1, <1>2, NewerItem, DoneKept DEF IInv

\* Requests that only change their phase, or whose slot is emptied.
LEMMA RequestStep ==
  ASSUME IInv, NEW i \in Slots, Sent(i),
         NEW phase \in {"sent", "looked_up", "generating", "ok", "refused"}, NEW made \in Nat,
         NEW heard \in BOOLEAN,
         \/ Idle(i)
         \/ request' = [request EXCEPT ![i] =
                          [request[i] EXCEPT !.phase = phase, !.made = made, !.heard = heard]]
  PROVE  /\ request' \in [Slots -> Request \cup {None}]
         /\ \A j \in Slots : Sent(j)' => RequestOK(request[j]')
  <1>1. /\ request \in [Slots -> Request \cup {None}]
        /\ \A j \in Slots : Sent(j) => RequestOK(request[j])
        /\ RequestOK(request[i])
    BY DEF IInv, TypeOK
  <1> DEFINE new == [request[i] EXCEPT !.phase = phase, !.made = made, !.heard = heard]
  <1>2. new \in Request /\ RequestOK(new) BY <1>1 DEF RequestOK, Request
  <1>3. CASE request' = [request EXCEPT ![i] = new]
    BY <1>1, <1>2, <1>3 DEF Sent
  <1>4. CASE Idle(i) BY <1>1, <1>4 DEF Idle, Sent
  <1> HIDE DEF new
  <1> QED BY <1>3, <1>4 DEF new

\* The query and the editor keep the invariant: new data refill the editor.
LEMMA PageStep ==
  ASSUME IInv, Read \/ Arrive \/ FetchFails \/ Poll \/ Hide \/ Show \/ \E text \in Drafts : Type(text)
  PROVE  IInv'
  <1>1. /\ PageOK(page) /\ item \in Detail /\ mishaps + 1 \in Nat
        /\ refreshing \subseteq WorkItemAction /\ mishaps \in Nat /\ acked \in Nat
        /\ request \in [Slots -> Request \cup {None}]
        /\ \A i \in Slots : Sent(i) => RequestOK(request[i])
    BY DEF IInv, TypeOK
  <1>2. request' = request => /\ request' \in [Slots -> Request \cup {None}]
                             /\ \A i \in Slots : Sent(i)' => RequestOK(request[i]')
    BY <1>1 DEF Sent
  <1>3. CASE Read
    <2>1. PageOK([page EXCEPT !.fetch = "read", !.copy = item]) BY <1>1 DEF PageOK, Page
    <2> QED BY <1>1, <1>2, <1>3, <2>1, SameItem DEF Read
  <1>4. CASE Arrive
    <2>1. page.copy \in Detail BY <1>1, <1>4 DEF Arrive, PageOK
    <2>2. PageOK([Filled(page, page.copy) EXCEPT !.shown = page.copy, !.error = FALSE])
      BY <1>1, <2>1, FilledOK
    <2>3. PageOK(page') BY <1>4, <2>2, FetchedOK, RenderedOK DEF Arrive
    <2> QED BY <1>1, <1>2, <1>4, <2>3, SameItem DEF Arrive
  <1>5. CASE FetchFails
    <2>1. PageOK([page EXCEPT !.error = TRUE]) BY <1>1 DEF PageOK, Page
    <2>2. PageOK(page') BY <1>5, <2>1, FetchedOK, RenderedOK DEF FetchFails
    <2> QED BY <1>1, <1>2, <1>5, <2>2, SameItem DEF FetchFails, Mishap
  <1>6. CASE Poll
    <2>1. PageOK(page') BY <1>1, <1>6, FetchingOK, RenderedOK DEF Poll
    <2> QED BY <1>1, <1>2, <1>6, <2>1, SameItem DEF Poll
  <1>7. CASE Hide
    <2>1. PageOK(page') BY <1>1, <1>7 DEF Hide, PageOK, Page
    <2> QED BY <1>1, <1>2, <1>7, <2>1, SameItem DEF Hide, Mishap
  <1>8. CASE Show
    <2>1. PageOK([page EXCEPT !.hidden = FALSE]) BY <1>1 DEF PageOK, Page
    <2>2. PageOK(page') BY <1>8, <2>1, FetchingOK, RenderedOK DEF Show
    <2> QED BY <1>1, <1>2, <1>8, <2>2, SameItem DEF Show
  <1>9. CASE \E text \in Drafts : Type(text)
    <2>1. PICK text \in Drafts : Type(text) BY <1>9
    <2>2. PageOK([page EXCEPT !.text = text]) BY <1>1 DEF PageOK, Page
    <2>3. PageOK(page') BY <2>1, <2>2, RenderedOK DEF Type
    <2> QED BY <1>1, <1>2, <2>1, <2>3, SameItem DEF Type
  <1> QED BY <1>3, <1>4, <1>5, <1>6, <1>7, <1>8, <1>9

\* The note of a request is one of the notes.
LEMMA NotesOfNotes == \A op : NotesOf(op) \subseteq Notes
  <1>1. (CHOOSE note \in Notes : TRUE) \in Notes BY DetailPageAssumption
  <1> QED BY <1>1 DEF NotesOf

\* A request carries the version shown, whose draft was put in the editor.
LEMMA ClickStep == ASSUME IInv, NEW op \in PageActions, Click(op) PROVE IInv'
  <1>1. /\ PageOK(page) /\ op \in WorkItemAction
        /\ refreshing \subseteq WorkItemAction /\ mishaps \in Nat /\ acked \in Nat
        /\ request \in [Slots -> Request \cup {None}]
        /\ \A i \in Slots : Sent(i) => RequestOK(request[i])
    BY DetailPageAssumption DEF IInv, TypeOK
  <1>2. page.shown \in Detail BY <1>1 DEF Click, ButtonEnabled, PageOK, Page
  <1>3. /\ page.shown.version \in Versions /\ page.base = page.shown.version
        /\ page.text \in Drafts
    BY <1>1, <1>2 DEF PageOK, Detail
  <1>4. PICK i \in Slots, note \in NotesOf(op) : request' = [request EXCEPT ![i] = NewRequest(op, note)]
    BY DEF Click
  <1> DEFINE new == NewRequest(op, note)
  <1>5. note \in Notes /\ new.repeat \in BOOLEAN BY NotesOfNotes DEF NewRequest
  <1>6. RequestOK(new) BY <1>1, <1>3, <1>5 DEF NewRequest, RequestOK, Request
  <1>7. request' = [request EXCEPT ![i] = new] BY <1>4
  <1> HIDE DEF new
  <1>8. /\ request' \in [Slots -> Request \cup {None}]
        /\ \A j \in Slots : Sent(j)' => RequestOK(request[j]')
    BY <1>1, <1>6, <1>7 DEF Sent, RequestOK
  <1>9. PageOK(page') BY <1>1, RenderedOK DEF Click
  <1> QED BY <1>1, <1>8, <1>9, SameItem DEF Click

\* Answers, losses, key lookups and refusals carry nothing out.
LEMMA AnswerStep ==
  ASSUME IInv, NEW i \in Slots, Answered(i) \/ RequestLost(i) \/ LookUpKey(i) \/ Refuse(i)
  PROVE  IInv'
  <1>1. /\ PageOK(page) /\ refreshing \subseteq WorkItemAction
        /\ mishaps \in Nat /\ mishaps + 1 \in Nat /\ acked \in Nat
    BY DEF IInv, TypeOK
  <1>2. Sent(i) BY DEF Answered, RequestLost, LookUpKey, Refuse, Ready
  <1>3. request[i] \in Request BY <1>2 DEF IInv, RequestOK
  <1>4. request[i].op \in WorkItemAction /\ request[i].made \in Nat BY <1>3 DEF Request
  <1>5. \A r \in Request : r = [r EXCEPT !.phase = r.phase, !.made = r.made, !.heard = r.heard]
    BY DEF Request
  <1>6. /\ request' \in [Slots -> Request \cup {None}]
        /\ \A j \in Slots : Sent(j)' => RequestOK(request[j]')
    <2>1. CASE Idle(i) BY <1>2, <2>1, RequestStep
    <2>2. CASE request' = [request EXCEPT ![i].heard = FALSE]
      <3>1. request' = [request EXCEPT ![i] =
              [request[i] EXCEPT !.phase = request[i].phase, !.made = request[i].made,
                                 !.heard = FALSE]]
        BY <1>3, <2>2 DEF Request
      <3>2. request[i].phase \in {"sent", "looked_up", "generating", "ok", "refused"}
        BY <1>3 DEF Request
      <3> QED BY <1>2, <1>4, <3>1, <3>2, RequestStep
    <2>3. CASE \E phase \in {"ok", "looked_up", "refused"} : Replies(i, phase)
      <3>1. PICK phase \in {"ok", "looked_up", "refused"} : Replies(i, phase) BY <2>3
      <3>2. request' = [request EXCEPT ![i] =
              [request[i] EXCEPT !.phase = phase, !.made = request[i].made,
                                 !.heard = request[i].heard]]
        BY <1>3, <3>1 DEF Replies, Request
      <3>3. request[i].heard \in BOOLEAN BY <1>3 DEF Request
      <3> QED BY <1>2, <1>4, <3>2, <3>3, RequestStep
    <2>4. CASE Reports(i, "ok", item.version)
      <3>1. request' = [request EXCEPT ![i] =
              [request[i] EXCEPT !.phase = "ok", !.made = item.version,
                                 !.heard = request[i].heard]]
        BY <1>3, <2>4 DEF Reports, Request
      <3>2. request[i].heard \in BOOLEAN /\ item.version \in Nat
        BY <1>3 DEF Request, IInv, TypeOK, Detail, Versions
      <3> QED BY <1>2, <3>1, <3>2, RequestStep
    <2>5. LookUpKey(i) \/ Refuse(i) =>
            \/ Reports(i, "ok", item.version)
            \/ \E phase \in {"ok", "looked_up", "refused"} : Replies(i, phase)
      BY DEF LookUpKey, Refuse
    <2> QED BY <2>1, <2>2, <2>3, <2>4, <2>5 DEF Answered, RequestLost
  <1>7. CASE Answered(i)
    <2>1. PageOK(page') BY <1>1, <1>7, FetchingOK, RenderedOK DEF Answered, NoLongerHeard
    <2>2. refreshing' \subseteq WorkItemAction /\ acked' \in Nat
      BY <1>1, <1>4, <1>7 DEF Answered, NoLongerHeard
    <2> QED BY <1>1, <1>6, <1>7, <2>1, <2>2, SameItem DEF Answered, NoLongerHeard
  <1>8. CASE RequestLost(i)
    <2>1. PageOK(page') BY <1>1, <1>8, RenderedOK DEF RequestLost
    <2> QED BY <1>1, <1>6, <1>8, <2>1, SameItem DEF RequestLost, Mishap
  <1>9. CASE LookUpKey(i) \/ Refuse(i)
    BY <1>1, <1>6, <1>9, SameItem DEF LookUpKey, Refuse
  <1> QED BY <1>7, <1>8, <1>9

\* The action carried out is of the current version, which nothing done is of.
LEMMA CarryOutStep == ASSUME IInv, NEW i \in Slots, CarryOut(i) PROVE IInv'
  <1>1. Sent(i) /\ RequestOK(request[i]) BY DEF IInv, CarryOut, Ready
  <1>2. /\ request[i] \in Request /\ request[i].op \in WorkItemAction
        /\ request[i].version \in Versions /\ request[i].base \in Versions
        /\ request[i].base = request[i].version /\ request[i].heard \in BOOLEAN
        /\ request[i].note \in Notes
        /\ request[i].op = "EDIT_DRAFT" => request[i].text \in Drafts
    BY <1>1 DEF RequestOK, Request
  <1>3. item' \in Detail /\ item'.version = item.version + 1
    BY <1>2, AfterOK DEF IInv, CarryOut
  <1>4. request[i].version = item.version BY DEF CarryOut, Admits
  <1>5. item.version \in Nat /\ item'.version \in Nat /\ item.version < item'.version
    BY <1>3 DEF IInv, TypeOK, Detail, Versions
  <1> DEFINE new == [op |-> request[i].op, version |-> request[i].version, base |-> request[i].base]
  <1>6. done' = Append(done, new) /\ new \in Deed /\ done \in Seq(Deed)
    BY <1>2 DEF CarryOut, Deed, IInv, TypeOK
  <1>7. /\ \A k \in 1..Len(done) : done[k].version \in Nat /\ done[k].version < item.version
        /\ new.version = item.version /\ new.base = new.version
    BY <1>2, <1>4, DeedTypes DEF IInv, DoneBefore
  <1> HIDE DEF new
  <1>7a. /\ Len(done) \in Nat /\ Len(done') = Len(done) + 1 /\ done'[Len(done) + 1] = new
         /\ \A k \in 1..Len(done) : done'[k] = done[k]
         /\ \A k \in 1..Len(done') : k \in 1..Len(done) \/ k = Len(done) + 1
    BY <1>6
  <1>8. DoneBefore' BY <1>5, <1>7, <1>7a DEF DoneBefore
  <1>9. OneActionPerShownVersion'
    <2> SUFFICES ASSUME NEW k \in 1..Len(done'), NEW m \in 1..Len(done'),
                        done'[k].version = done'[m].version
                 PROVE  k = m
      BY DEF OneActionPerShownVersion
    <2>1. CASE k \in 1..Len(done) /\ m \in 1..Len(done)
      BY <1>7a, <2>1 DEF IInv, OneActionPerShownVersion
    <2>2. CASE k \in 1..Len(done) /\ m = Len(done) + 1 BY <1>5, <1>7, <1>7a, <2>2
    <2>3. CASE k = Len(done) + 1 /\ m \in 1..Len(done) BY <1>5, <1>7, <1>7a, <2>3
    <2> QED BY <1>7a, <2>1, <2>2, <2>3
  <1>10. SaveReplacesWhatWasEdited'
    BY <1>7, <1>7a DEF IInv, SaveReplacesWhatWasEdited
  <1>11. /\ request' \in [Slots -> Request \cup {None}]
         /\ \A j \in Slots : Sent(j)' => RequestOK(request[j]')
    <2> DEFINE phase == IF request[i].op = "REGENERATE" THEN "generating" ELSE "ok"
    <2>1. request' = [request EXCEPT ![i] =
            [request[i] EXCEPT !.phase = phase, !.made = item'.version, !.heard = request[i].heard]]
      BY <1>2 DEF CarryOut, Reports, Request
    <2>2. phase \in {"sent", "looked_up", "generating", "ok", "refused"} OBVIOUS
    <2> HIDE DEF phase
    <2> QED BY <1>1, <1>2, <1>5, <2>1, <2>2, RequestStep
  <1>12. keys' \subseteq Key BY <1>2 DEF CarryOut, IInv, TypeOK, Key, ApprovalKey
  <1>13. done' \in Seq(Deed) BY <1>6
  <1>14. TypeOK' BY <1>3, <1>11, <1>12, <1>13 DEF IInv, TypeOK, CarryOut
  <1>15. PageOK(page)' BY DEF IInv, CarryOut, PageOK
  <1> QED BY <1>8, <1>9, <1>10, <1>11, <1>14, <1>15 DEF IInv

\* Whoever else changes the item raises its version.
LEMMA ServerStep ==
  ASSUME IInv,
         \/ \E i \in Slots : Generated(i)
         \/ \E op \in OtherActions, text \in Drafts : OtherActs(op, text)
         \/ Settle
  PROVE  IInv'
  <1>1. /\ item \in Detail /\ item.version \in Nat /\ item.version + 1 \in Versions
        /\ request \in [Slots -> Request \cup {None}]
        /\ \A i \in Slots : Sent(i) => RequestOK(request[i])
    BY DEF IInv, TypeOK, Detail, Versions
  <1>2. request' = request => /\ request' \in [Slots -> Request \cup {None}]
                             /\ \A i \in Slots : Sent(i)' => RequestOK(request[i]')
    BY <1>1 DEF Sent
  <1>3. CASE \E i \in Slots : Generated(i)
    <2>1. PICK i \in Slots, draft \in Drafts, phase \in {"ok", "refused"} :
            /\ Sent(i)
            /\ item' = [status |-> "PENDING_REVIEW", version |-> item.version + 1, draft |-> draft]
            /\ Reports(i, phase, item'.version)
            /\ UNCHANGED <<keys, page, refreshing, mishaps, acked, done>>
      BY <1>3 DEF Generated, Generating
    <2>2. item' \in Detail /\ item'.version = item.version + 1
      BY <1>1, <2>1 DEF Detail, WorkItemStatus
    <2>3. request[i] \in Request BY <1>1, <2>1 DEF RequestOK
    <2>4. item'.version \in Nat /\ request[i].heard \in BOOLEAN BY <1>1, <2>2, <2>3 DEF Request
    <2>5. request' = [request EXCEPT ![i] =
            [request[i] EXCEPT !.phase = phase, !.made = item'.version, !.heard = request[i].heard]]
      BY <2>1, <2>3 DEF Reports, Request
    <2>6. /\ request' \in [Slots -> Request \cup {None}]
          /\ \A j \in Slots : Sent(j)' => RequestOK(request[j]')
      BY <2>1, <2>4, <2>5, RequestStep
    <2> QED BY <2>1, <2>2, <2>6, NextVersion
  <1>4. CASE \E op \in OtherActions, text \in Drafts : OtherActs(op, text)
    <2>1. PICK op \in OtherActions, text \in Drafts : OtherActs(op, text) BY <1>4
    <2>2. op \in WorkItemAction BY DetailPageAssumption
    <2>3. item' \in Detail /\ item'.version = item.version + 1
      BY <2>1, <2>2, AfterOK DEF IInv, OtherActs
    <2> QED BY <1>2, <2>1, <2>3, NextVersion DEF OtherActs
  <1>5. CASE Settle
    <2>1. ASSUME NEW status \in {"SENT", "FAILED"},
                 item' = [item EXCEPT !.status = status, !.version = @ + 1]
          PROVE  item' \in Detail /\ item'.version = item.version + 1
      BY <1>1, <2>1 DEF Detail, WorkItemStatus
    <2>2. ASSUME NEW draft \in Drafts,
                 item' = [status |-> "PENDING_REVIEW", version |-> item.version + 1, draft |-> draft]
          PROVE  item' \in Detail /\ item'.version = item.version + 1
      BY <1>1, <2>2 DEF Detail, WorkItemStatus
    <2>3. item' \in Detail /\ item'.version = item.version + 1
      BY <1>5, <2>1, <2>2 DEF Settle
    <2> QED BY <1>2, <1>5, <2>3, NextVersion DEF Settle
  <1> QED BY <1>3, <1>4, <1>5

\* IInv is inductive.
LEMMA Inductive == IInv /\ [Next]_vars => IInv'
  <1> SUFFICES ASSUME IInv, [Next]_vars PROVE IInv' OBVIOUS
  <1>1. CASE UNCHANGED vars
    BY <1>1 DEF vars, IInv, TypeOK, PageOK, Sent, DoneBefore, OneActionPerShownVersion,
                SaveReplacesWhatWasEdited
  <1>2. CASE Next
    BY <1>2, PageStep, ClickStep, AnswerStep, CarryOutStep, ServerStep DEF Next
  <1> QED BY <1>1, <1>2

\* IInv holds in every reachable state.
LEMMA Invariant == Spec => []IInv
  BY InitInv, Inductive, PTL DEF Spec

-----------------------------------------------------------------------------
\* The page, its requests and the item have their types.
THEOREM TypeCorrect == Spec => []TypeOK
  <1>1. IInv => TypeOK BY DEF IInv
  <1> QED BY <1>1, Invariant, PTL

\* Whatever is lost, delayed or clicked again, at most one of the actions clicked
\* while one version is shown takes effect.
THEOREM OneActionTakesEffect == Spec => []OneActionPerShownVersion
  <1>1. IInv => OneActionPerShownVersion BY DEF IInv
  <1> QED BY <1>1, Invariant, PTL

\* No save overwrites a draft that its author has not seen in the editor.
THEOREM NoLostEdit == Spec => []SaveReplacesWhatWasEdited
  <1>1. IInv => SaveReplacesWhatWasEdited BY DEF IInv
  <1> QED BY <1>1, Invariant, PTL

-----------------------------------------------------------------------------
(* A repeated approval finds its key: keys are never removed. *)

RepeatsFindKey ==
  \A i \in Slots : Sent(i) /\ request[i].repeat =>
    /\ request[i].op = "APPROVE" /\ ApprovalKey(request[i].version, request[i].note) \in keys
    /\ request[i].phase \in {"sent", "ok"}

\* Stored keys are never deleted, so a repeated approval finds its key.
LEMMA RepeatsInductive == IInv /\ RepeatsFindKey /\ [Next]_vars => RepeatsFindKey'
  <1> SUFFICES ASSUME IInv, RepeatsFindKey, [Next]_vars,
                      NEW j \in Slots, Sent(j)', request[j].repeat'
               PROVE  /\ request[j].op' = "APPROVE"
                      /\ ApprovalKey(request[j].version', request[j].note') \in keys'
                      /\ request[j].phase' \in {"sent", "ok"}
    BY DEF RepeatsFindKey
  <1>1. /\ request \in [Slots -> Request \cup {None}]
        /\ \A i \in Slots : Sent(i) => request[i] \in Request
    BY DEF IInv, TypeOK, RequestOK
  <1>2. CASE UNCHANGED <<request, keys>> BY <1>2 DEF RepeatsFindKey, Sent
  <1>3. CASE \E op \in PageActions : Click(op)
    <2>0. PICK op \in PageActions : Click(op) BY <1>3
    <2>1. PICK i \in Slots, note \in NotesOf(op) :
            request' = [request EXCEPT ![i] = NewRequest(op, note)] /\ keys' = keys
      BY <2>0 DEF Click
    <2>2. CASE i = j BY <1>1, <2>1, <2>2 DEF NewRequest
    <2>3. CASE i # j BY <1>1, <2>1, <2>3 DEF RepeatsFindKey, Sent
    <2> QED BY <2>2, <2>3
  <1>4. ASSUME NEW i \in Slots, Answered(i) PROVE RepeatsFindKey'
    BY <1>1, <1>4 DEF Answered, Idle, RepeatsFindKey, Sent
  <1>5. ASSUME NEW i \in Slots, RequestLost(i) PROVE RepeatsFindKey'
    BY <1>1, <1>5 DEF RequestLost, Idle, RepeatsFindKey, Sent, Request
  <1>6. ASSUME NEW i \in Slots, LookUpKey(i) PROVE RepeatsFindKey'
    <2>1. /\ Sent(i) /\ keys' = keys
          /\ \A k \in Slots : k # i => request'[k] = request[k]
          /\ request'[i].repeat = request[i].repeat
          /\ request'[i].op = request[i].op /\ request'[i].version = request[i].version
          /\ request'[i].note = request[i].note
      <3>1. Sent(i) /\ request[i] \in Request /\ keys' = keys BY <1>1, <1>6 DEF LookUpKey
      <3>2. CASE \E phase \in {"looked_up", "refused"} : Replies(i, phase)
        BY <1>1, <3>1, <3>2 DEF Replies, Request
      <3>3. CASE Reports(i, "ok", item.version)
        BY <1>1, <3>1, <3>3 DEF Reports, Request
      <3> QED BY <1>6, <3>2, <3>3 DEF LookUpKey
    <2>2. request[i].repeat => request'[i].phase = "ok"
      <3>1. request[i].repeat => KeyStored(i) /\ SameRequest(i)
        BY <2>1 DEF RepeatsFindKey, KeyStored, SameRequest, ApprovalKey
      <3> QED BY <1>1, <1>6, <3>1 DEF LookUpKey, Reports, Request
    <2> QED BY <2>1, <2>2 DEF RepeatsFindKey, Sent
  <1>7. ASSUME NEW i \in Slots, CarryOut(i) \/ Refuse(i) \/ Generated(i) PROVE RepeatsFindKey'
    <2>1. Sent(i) /\ ~request[i].repeat
      BY <1>7 DEF CarryOut, Refuse, Ready, Generated, Generating, RepeatsFindKey
    <2>2. keys \subseteq keys' BY <1>7 DEF CarryOut, Refuse, Generated
    <2>3. \A k \in Slots : k # i => request'[k] = request[k]
      BY <1>1, <1>7 DEF CarryOut, Refuse, Generated, Replies, Reports
    <2>4. request'[i].repeat = request[i].repeat
      BY <1>1, <1>7, <2>1 DEF CarryOut, Refuse, Generated, Replies, Reports, Request
    <2> QED BY <2>1, <2>2, <2>3, <2>4 DEF RepeatsFindKey, Sent
  <1>8. CASE Next
    <2>1. CASE \E i \in Slots : \/ Answered(i) \/ RequestLost(i) \/ LookUpKey(i)
                               \/ CarryOut(i) \/ Refuse(i) \/ Generated(i)
      BY <1>4, <1>5, <1>6, <1>7, <2>1 DEF RepeatsFindKey
    <2>2. CASE \/ Read \/ Arrive \/ FetchFails \/ Poll \/ Hide \/ Show \/ Settle
               \/ \E text \in Drafts : Type(text)
               \/ \E op \in OtherActions, text \in Drafts : OtherActs(op, text)
      BY <1>2, <2>2 DEF Read, Arrive, FetchFails, Poll, Hide, Show, Settle, Type, OtherActs
    <2> QED BY <1>3, <1>8, <2>1, <2>2 DEF Next
  <1> QED BY <1>2, <1>8 DEF vars

\* An approval sent again once its key is stored is answered as the first one was.
THEOREM RepeatsAreReplayed == Spec => []RepeatedApproveSucceeds
  <1>1. Init => RepeatsFindKey BY DEF Init, RepeatsFindKey, Sent
  <1>2. RepeatsFindKey => RepeatedApproveSucceeds
    BY DEF RepeatsFindKey, RepeatedApproveSucceeds
  <1> QED BY <1>1, <1>2, Invariant, RepeatsInductive, PTL DEF Spec

-----------------------------------------------------------------------------
(* What is in the cache or on its way there is no older than what was answered. *)

Fresh ==
  /\ acked \in Nat /\ acked <= item.version
  /\ \A i \in Slots : Sent(i) => request[i].made <= item.version
  /\ page.fetch = "read" => page.copy.version >= acked
  /\ RefreshedAfterAnswer

\* What the updates do to the fields Fresh looks at.
LEMMA PageFields ==
  \A p \in Page :
    /\ Rendered(p).shown = p.shown /\ Rendered(p).fetch = p.fetch
    /\ Rendered(p).copy = p.copy /\ Rendered(p).error = p.error
    /\ Fetching(p).shown = p.shown /\ Fetching(p).fetch = "sent"
    /\ Fetched(p).shown = p.shown /\ Fetched(p).fetch = "none" /\ Fetched(p).error = p.error
  BY DEF Page, Rendered, Fetching, Fetched

\* The version never goes back.
LEMMA VersionGrows ==
  ASSUME IInv, Next
  PROVE  item'.version \in Nat /\ item.version <= item'.version
  <1>1. item.version \in Nat BY DEF IInv, TypeOK, Detail, Versions
  <1>2. CASE UNCHANGED item BY <1>1, <1>2
  <1>3. CASE item'.version = item.version + 1 BY <1>1, <1>3
  <1>4. ASSUME NEW i \in Slots, CarryOut(i) PROVE item'.version = item.version + 1
    BY <1>4, AfterOK DEF IInv, CarryOut, Ready, RequestOK, Request
  <1>5. ASSUME NEW op \in OtherActions, NEW text \in Drafts, OtherActs(op, text)
        PROVE  item'.version = item.version + 1
    BY <1>5, AfterOK, DetailPageAssumption DEF IInv, OtherActs
  <1>6. ASSUME Settle PROVE item'.version = item.version + 1
    <2>1. item \in Detail BY DEF IInv, TypeOK
    <2>2. ASSUME NEW status, item' = [item EXCEPT !.status = status, !.version = @ + 1]
          PROVE  item'.version = item.version + 1
      BY <2>1, <2>2 DEF Detail
    <2>3. ASSUME NEW status, NEW draft,
                 item' = [status |-> status, version |-> item.version + 1, draft |-> draft]
          PROVE  item'.version = item.version + 1
      BY <2>3
    <2> QED BY <1>6, <2>2, <2>3 DEF Settle
  <1>7. ASSUME NEW i \in Slots, Generated(i) PROVE item'.version = item.version + 1
    BY <1>7 DEF Generated
  <1>8. ASSUME NEW i \in Slots, Answered(i) \/ RequestLost(i) \/ LookUpKey(i) \/ Refuse(i)
        PROVE  UNCHANGED item
    BY <1>8 DEF Answered, RequestLost, LookUpKey, Refuse
  <1>9. CASE \/ Read \/ Arrive \/ FetchFails \/ Poll \/ Hide \/ Show
             \/ \E text \in Drafts : Type(text)
             \/ \E op \in PageActions : Click(op)
    BY <1>2, <1>9 DEF Read, Arrive, FetchFails, Poll, Hide, Show, Type, Click
  <1> QED BY <1>2, <1>3, <1>4, <1>5, <1>6, <1>7, <1>8, <1>9 DEF Next

\* The requests report versions that exist.
MadeBefore == \A i \in Slots : Sent(i) => request[i].made <= item.version

\* No request reports a version the item has not had.
LEMMA MadeInductive == ASSUME IInv, Next, MadeBefore PROVE MadeBefore'
  <1>1. /\ item.version \in Nat /\ item'.version \in Nat /\ item.version <= item'.version
        /\ request \in [Slots -> Request \cup {None}]
        /\ \A i \in Slots : Sent(i) => request[i] \in Request /\ request[i].made \in Nat
    BY VersionGrows DEF IInv, TypeOK, Detail, Versions, RequestOK, Request
  <1>2. ASSUME NEW j \in Slots, Sent(j)', Sent(j), request'[j].made = request[j].made
        PROVE  request'[j].made <= item'.version
    <2>1. request[j].made \in Nat /\ request[j].made <= item.version BY <1>1, <1>2 DEF MadeBefore
    <2> QED BY <1>1, <1>2, <2>1
  <1>3. CASE UNCHANGED request BY <1>2, <1>3 DEF MadeBefore, Sent
  <1>4. ASSUME NEW op \in PageActions, Click(op) PROVE MadeBefore'
    <2>1. PICK i \in Slots, note \in NotesOf(op) :
            request' = [request EXCEPT ![i] = NewRequest(op, note)]
      BY <1>4 DEF Click
    <2>2. NewRequest(op, note).made = 0 BY DEF NewRequest
    <2> HIDE DEF Request
    <2>3. request'[i].made = 0 /\ \A j \in Slots : j # i => request'[j] = request[j]
      BY <1>1, <2>1, <2>2
    <2>4. 0 <= item'.version BY <1>1
    <2> QED BY <1>2, <2>3, <2>4 DEF MadeBefore, Sent
  <1>5. ASSUME NEW i \in Slots, CarryOut(i) PROVE MadeBefore'
    <2>1. Sent(i) /\ request[i] \in Request BY <1>1, <1>5 DEF CarryOut, Ready
    <2>2. request'[i].made = item'.version /\ \A j \in Slots : j # i => request'[j] = request[j]
      BY <1>1, <1>5, <2>1 DEF CarryOut, Reports, Request
    <2>3. item'.version <= item'.version BY <1>1
    <2> QED BY <1>2, <2>2, <2>3 DEF MadeBefore, Sent
  <1>6. ASSUME NEW i \in Slots,
               \/ Answered(i) \/ RequestLost(i) \/ LookUpKey(i) \/ Refuse(i) \/ Generated(i)
        PROVE  MadeBefore'
    <2>1. Sent(i) /\ request[i] \in Request
      BY <1>1, <1>6 DEF Answered, RequestLost, LookUpKey, Refuse, Ready, Generated, Generating
    <2>2. \/ request'[i] = None \/ request'[i].made = request[i].made
          \/ request'[i].made = item.version \/ request'[i].made = item'.version
      BY <1>1, <1>6, <2>1
      DEF Answered, Idle, RequestLost, LookUpKey, Refuse, Generated, Replies, Reports, Request
    <2>3. \A j \in Slots : j # i => request'[j] = request[j]
      BY <1>1, <1>6
      DEF Answered, Idle, RequestLost, LookUpKey, Refuse, Generated, Replies, Reports
    <2>4. item.version <= item'.version /\ item'.version <= item'.version BY <1>1
    <2> QED BY <1>2, <2>1, <2>2, <2>3, <2>4 DEF MadeBefore, Sent
  <1>7. CASE \/ Read \/ Arrive \/ FetchFails \/ Poll \/ Hide \/ Show \/ Settle
             \/ \E text \in Drafts : Type(text)
             \/ \E op \in OtherActions, text \in Drafts : OtherActs(op, text)
    BY <1>3, <1>7 DEF Read, Arrive, FetchFails, Poll, Hide, Show, Settle, Type, OtherActs
  <1> QED BY <1>4, <1>5, <1>6, <1>7 DEF Next

\* A fetch that starts after an answer reads the item as it left it or later.
LEMMA FreshInductive == IInv /\ Fresh /\ [Next]_vars => Fresh'
  <1> SUFFICES ASSUME IInv, Fresh, [Next]_vars PROVE Fresh' OBVIOUS
  <1>1. CASE UNCHANGED vars BY <1>1 DEF vars, Fresh, Sent, RefreshedAfterAnswer
  <1>2. CASE Next
    <2>1. /\ PageOK(page) /\ page \in Page /\ item \in Detail
          /\ acked \in Nat /\ item.version \in Nat /\ acked <= item.version
      BY DEF IInv, TypeOK, Fresh, Detail, Versions
    <2>2. /\ item'.version \in Nat /\ item.version <= item'.version
      BY <1>2, VersionGrows
    <2>3. MadeBefore' BY <1>2, MadeInductive DEF Fresh, MadeBefore
    <2>4. ASSUME UNCHANGED acked, page'.fetch = "read" => page'.copy.version >= acked,
                 RefreshedAfterAnswer'
          PROVE  Fresh'
      BY <2>1, <2>2, <2>3, <2>4 DEF Fresh, MadeBefore
    <2>5. CASE UNCHANGED <<page, acked>> BY <2>4, <2>5 DEF Fresh, RefreshedAfterAnswer
    <2>6. ASSUME UNCHANGED acked, page' \in {Rendered(page)} PROVE Fresh'
      BY <2>1, <2>4, <2>6, PageFields DEF Fresh, RefreshedAfterAnswer
    <2>7. CASE Read
      <3>1. /\ page'.fetch = "read" /\ page'.copy = item BY <2>1, <2>7 DEF Read, Page
      <3> QED BY <2>1, <2>4, <2>7, <3>1 DEF Read, RefreshedAfterAnswer
    <2>8. CASE Arrive
      <3>1. page.copy \in Detail /\ page.copy.version >= acked
        BY <2>1, <2>8 DEF Arrive, PageOK, Fresh
      <3> DEFINE p == [Filled(page, page.copy) EXCEPT !.shown = page.copy, !.error = FALSE]
      <3>2. p \in Page /\ p.shown = page.copy
        BY <2>1, <3>1, FilledOK DEF PageOK, Page, Filled
      <3>3. Fetched(p) \in Page BY <3>2 DEF Fetched, Page
      <3>4. page' = Rendered(Fetched(p)) BY <2>8 DEF Arrive
      <3> HIDE DEF p
      <3>5. page'.fetch = "none" /\ page'.shown = page.copy
        BY <3>2, <3>3, <3>4, PageFields
      <3> QED BY <2>4, <2>8, <3>1, <3>5 DEF Arrive, RefreshedAfterAnswer
    <2>9. CASE FetchFails
      <3> DEFINE p == [page EXCEPT !.error = TRUE]
      <3>1. p \in Page /\ p.error = TRUE BY <2>1 DEF Page
      <3>2. Fetched(p) \in Page BY <3>1 DEF Fetched, Page
      <3>3. page' = Rendered(Fetched(p)) BY <2>9 DEF FetchFails
      <3> HIDE DEF p
      <3>4. page'.fetch = "none" /\ page'.error = TRUE BY <3>1, <3>2, <3>3, PageFields
      <3> QED BY <2>4, <2>9, <3>4 DEF FetchFails, RefreshedAfterAnswer
    <2>10. ASSUME NEW p \in Page, UNCHANGED acked, page' = Rendered(Fetching(p)) PROVE Fresh'
      <3>1. Fetching(p) \in Page BY DEF Fetching, Page
      <3>2. page'.fetch = "sent" BY <2>10, <3>1, PageFields
      <3> QED BY <2>4, <2>10, <3>2 DEF RefreshedAfterAnswer
    <2>11. CASE Poll BY <2>1, <2>10, <2>11 DEF Poll
    <2>12. ASSUME UNCHANGED acked, NEW h \in BOOLEAN, NEW w \in BOOLEAN,
                  page' = [page EXCEPT !.hidden = h, !.watched = w]
           PROVE  Fresh'
      <3>1. /\ page'.fetch = page.fetch /\ page'.copy = page.copy
            /\ page'.shown = page.shown /\ page'.error = page.error
        BY <2>1, <2>12 DEF Page
      <3> QED BY <2>4, <2>12, <3>1 DEF Fresh, RefreshedAfterAnswer
    <2>13. CASE Hide BY <2>12, <2>13 DEF Hide
    <2>14. CASE Show
      <3>1. [page EXCEPT !.hidden = FALSE] \in Page BY <2>1 DEF Page
      <3>2. CASE page' = [page EXCEPT !.hidden = FALSE]
        <4>1. page.watched \in BOOLEAN BY <2>1 DEF Page
        <4>2. page' = [page EXCEPT !.hidden = FALSE, !.watched = page.watched]
          BY <2>1, <3>2 DEF Page
        <4> QED BY <2>12, <2>14, <4>1, <4>2 DEF Show
      <3> QED BY <2>10, <2>14, <3>1, <3>2 DEF Show
    <2>15. CASE \E text \in Drafts : Type(text)
      <3>1. PICK text \in Drafts : Type(text) BY <2>15
      <3> DEFINE p == [page EXCEPT !.text = text]
      <3>2. p \in Page /\ p.fetch = page.fetch /\ p.copy = page.copy /\ p.shown = page.shown
            /\ p.error = page.error
        BY <2>1 DEF Page
      <3>3. page' = Rendered(p) /\ UNCHANGED acked BY <3>1 DEF Type
      <3> HIDE DEF p
      <3> QED BY <2>4, <3>2, <3>3, PageFields DEF Fresh, RefreshedAfterAnswer
    <2>16. CASE \E op \in PageActions : Click(op) BY <2>6, <2>16 DEF Click
    <2>17. ASSUME NEW i \in Slots, Answered(i) PROVE Fresh'
      <3>1. CASE UNCHANGED <<page, acked>> BY <2>5, <3>1
      <3>2. CASE UNCHANGED acked /\ page' = Rendered(page) BY <2>6, <3>2
      <3>3. CASE page' = Rendered(Invalidated(page))
                 /\ acked' = IF request[i].made > acked THEN request[i].made ELSE acked
        <4>1. Sent(i) /\ request[i].made \in Nat /\ request[i].made <= item.version
          BY <2>17 DEF Answered, IInv, RequestOK, Request, Fresh
        <4>2. acked' \in Nat /\ acked' <= item.version BY <2>1, <3>3, <4>1
        <4>3. Fetching(page) \in Page BY <2>1 DEF Fetching, Page
        <4>4. page'.fetch = "sent" BY <2>1, <3>3, <4>3, PageFields DEF Invalidated
        <4>5. RefreshedAfterAnswer' BY <4>4 DEF RefreshedAfterAnswer
        <4>6. acked' <= item'.version BY <2>1, <2>2, <4>2
        <4> QED BY <2>3, <4>2, <4>4, <4>5, <4>6 DEF Fresh, MadeBefore
      <3> QED BY <2>17, <3>1, <3>2, <3>3 DEF Answered, NoLongerHeard
    <2>18. ASSUME NEW i \in Slots, RequestLost(i) PROVE Fresh' BY <2>6, <2>18 DEF RequestLost
    <2>19. ASSUME NEW i \in Slots, LookUpKey(i) \/ CarryOut(i) \/ Refuse(i) \/ Generated(i)
           PROVE  Fresh'
      BY <2>5, <2>19 DEF LookUpKey, CarryOut, Refuse, Generated
    <2>20. CASE Settle \/ \E op \in OtherActions, text \in Drafts : OtherActs(op, text)
      BY <2>5, <2>20 DEF Settle, OtherActs
    <2> QED
      BY <1>2, <2>7, <2>8, <2>9, <2>11, <2>13, <2>14, <2>15, <2>16, <2>17, <2>18, <2>19, <2>20
      DEF Next
  <1> QED BY <1>1, <1>2

\* The page never rests on data older than an action it has reported as done.
THEOREM AnswersAreShown == Spec => []RefreshedAfterAnswer
  <1>1. Init => Fresh BY DEF Init, Fresh, Sent, RefreshedAfterAnswer
  <1>2. Fresh => RefreshedAfterAnswer BY DEF Fresh
  <1> QED BY <1>1, <1>2, Invariant, FreshInductive, PTL DEF Spec

=============================================================================
