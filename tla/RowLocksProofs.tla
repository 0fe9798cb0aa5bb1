--------------------------- MODULE RowLocksProofs ---------------------------
(***************************************************************************)
(* Proofs about RowLocks.  An actor holds exactly the rows it has read,    *)
(* and whoever changes a row, or which jobs are active, holds what the     *)
(* others would have to hold to have read it.                              *)
(***************************************************************************)
EXTENDS RowLocks, TLAPS

\* A row is locked by the actor that has read it.
LocksAreReads ==
  \A a \in Actors :
    /\ lock[Item] = a <=> act[a].item # "NONE"
    /\ \A j \in JobIds : lock[j] = a <=> act[a].status # "NONE" /\ act[a].job = j

\* What an actor has read at each point of a transaction.
Shape(x) ==
  /\ x.pc = "idle" => x.op \in {"none", "publishing", "sending"} /\ x.item = "NONE" /\ x.status = "NONE"
  /\ x.pc # "idle" => x.op \in Transactions
  /\ x.pc = "item" =>
       /\ x.item = "NONE"
       /\ x.op \in ItemFirst => x.status = "NONE"
       /\ x.op \in JobFirst => x.status # "NONE" /\ x.op \in BothRows
  /\ x.pc = "job" => x.status = "NONE" /\ (x.op \in ItemFirst => x.op = "retry")
                     /\ (x.op \in JobFirst => x.item = "NONE") /\ (x.op = "retry" => x.item # "NONE")
  /\ x.pc = "jobs" => x.op \in ReadsJobs /\ x.item # "NONE"
  /\ x.pc = "commit" =>
       /\ x.op \in ItemFirst => x.item # "NONE"
       /\ x.op \in JobFirst => x.status # "NONE"
       /\ x.op \in {"complete", "error", "mark_failed"} => x.item # "NONE"
       /\ x.op = "attempt" /\ x.status # "COMPLETED" => x.item # "NONE"
  /\ x.op \in ItemFirst /\ x.job # Item => x.status # "NONE"

\* Tasks and messages are about jobs that exist.
Exists(j) == j \in JobIds /\ job[j].status # "NONE"
JobsExist ==
  /\ \A j \in queue : Exists(j)
  /\ \A a \in Actors : act[a].op \in JobFirst \cup {"publishing", "sending"} => Exists(act[a].job)

\* The copies are those of the rows.
CopiesCurrent ==
  \A a \in Actors :
    /\ act[a].item \in {"NONE", item}
    /\ act[a].status # "NONE" => Exists(act[a].job) /\ act[a].status = job[act[a].job].status
    /\ act[a].pc = "commit" /\ act[a].op \in ReadsJobs => act[a].jobs = ActiveJobs

IInv ==
  /\ TypeOK
  /\ LocksAreReads
  /\ \A a \in Actors : Shape(act[a])
  /\ JobsExist
  /\ CopiesCurrent
  /\ OneActiveJob

-----------------------------------------------------------------------------
\* The item is not a job, and nobody is an actor.
LEMMA Sets0 == Item \notin JobIds /\ Rows = {Item} \cup JobIds /\ Nobody \notin Actors
  BY RowLocksAssumption DEF Item, JobIds, Rows, Actors

\* At first no transaction has begun and no job exists.
LEMMA InitInv == Init => IInv
  <1> SUFFICES ASSUME Init PROVE IInv OBVIOUS
  <1>1. Idle \in Activity
    BY DEF Idle, Doing, Activity, Rows, Item, WorkItemStatus, BackgroundJobStatus
  <1>2. TypeOK BY <1>1 DEF Init, TypeOK, NoJob, WorkItemStatus
  <1>3. ActiveJobs = {} BY DEF Init, ActiveJobs, NoJob
  <1>4. LocksAreReads BY Sets0 DEF Init, LocksAreReads, Idle, Doing
  <1>5. \A a \in Actors : Shape(act[a]) BY DEF Init, Shape, Idle, Doing, ItemFirst
  <1>6. JobsExist BY DEF Init, JobsExist, Idle, Doing, JobFirst
  <1>7. CopiesCurrent BY DEF Init, CopiesCurrent, Idle, Doing
  <1> QED BY <1>2, <1>3, <1>4, <1>5, <1>6, <1>7 DEF IInv, OneActiveJob

-----------------------------------------------------------------------------
(* The end of a transaction. *)

\* What an actor goes on with: nothing is read yet.
Fresh(x) == /\ x \in Activity /\ x.item = "NONE" /\ x.status = "NONE"
            /\ Shape(x) /\ x.pc # "commit"

\* a ends its transaction, having written only rows it holds; which jobs are active
\* changes only in the hands of the item's holder.
LEMMA EndsOK ==
  ASSUME IInv, NEW a \in Actors, NEW next, Ends(a, next), Fresh(next),
         next.op \in JobFirst \cup {"publishing", "sending"} => Exists(next.job)',
         item' \in WorkItemStatus,
         job' \in [JobIds -> [status: BackgroundJobStatus \cup {"NONE"}, stale: BOOLEAN]],
         item' # item => lock[Item] = a,
         \A j \in JobIds : Exists(j) => Exists(j)',
         \A j \in JobIds : Exists(j) /\ lock[j] # a => job'[j].status = job[j].status,
         ActiveJobs' # ActiveJobs => lock[Item] = a,
         queue' \subseteq JobIds, \A j \in queue' : Exists(j)',
         OneActiveJob'
  PROVE  IInv'
  <1>1. /\ lock \in [Rows -> Actors \cup {Nobody}] /\ act \in [Actors -> Activity]
        /\ act' = [act EXCEPT ![a] = next] /\ act'[a] = next
        /\ \A b \in Actors : b # a => act'[b] = act[b]
        /\ \A r \in Rows : lock'[r] = IF lock[r] = a THEN Nobody ELSE lock[r]
    BY DEF Ends, Release, IInv, TypeOK
  <1>2. TypeOK' BY <1>1 DEF Ends, Release, IInv, TypeOK, Fresh
  <1>3. LocksAreReads' BY <1>1, Sets0 DEF IInv, LocksAreReads, Fresh
  <1>4. (\A b \in Actors : Shape(act[b]))' BY <1>1 DEF IInv, Fresh, Shape
  <1>5. JobsExist'
    BY <1>1 DEF IInv, JobsExist, Exists
  <1>6. ASSUME NEW b \in Actors
        PROVE  /\ act'[b].item \in {"NONE", item'}
               /\ act'[b].status # "NONE" =>
                    Exists(act[b].job)' /\ act'[b].status = job'[act'[b].job].status
               /\ act'[b].pc = "commit" /\ act'[b].op \in ReadsJobs => act'[b].jobs = ActiveJobs'
    <2>1. CASE b = a BY <1>1, <2>1 DEF Fresh
    <2>2. CASE b # a
      <3>1. act'[b] = act[b] BY <1>1, <2>2
      <3>2. act[b].item # "NONE" => lock[Item] # a BY <2>2 DEF IInv, LocksAreReads
      <3>3. act[b].status # "NONE" => Exists(act[b].job) /\ lock[act[b].job] # a
        BY <2>2 DEF IInv, LocksAreReads, CopiesCurrent, Exists
      <3>4. act[b].pc = "commit" /\ act[b].op \in ReadsJobs => act[b].item # "NONE"
        BY DEF IInv, Shape, ReadsJobs, ItemFirst
      <3>5. act[b].status # "NONE" =>
              Exists(act[b].job)' /\ act[b].status = job'[act[b].job].status
        BY <3>1, <3>3 DEF IInv, CopiesCurrent, Exists
      <3> QED BY <3>1, <3>2, <3>4, <3>5 DEF IInv, CopiesCurrent, Exists
    <2> QED BY <2>1, <2>2
  <1>7. CopiesCurrent' BY <1>6 DEF CopiesCurrent
  <1> QED BY <1>2, <1>3, <1>4, <1>5, <1>7 DEF IInv

\* An idle actor has read nothing.
LEMMA FreshIdle == Fresh(Idle)
  BY DEF Fresh, Idle, Doing, Activity, Shape, Rows, Item, WorkItemStatus, BackgroundJobStatus

\* Nor has one between two transactions.
LEMMA FreshBetween ==
  \A j \in JobIds, op \in {"publishing", "sending"} : Fresh(Doing(op, "idle", j))
  BY DEF Fresh, Doing, Activity, Shape, Rows, ItemFirst

\* A transaction that writes nothing.
LEMMA EndsWithoutWrite ==
  ASSUME IInv, NEW a \in Actors, Ends(a, Idle), UNCHANGED <<rows, queue>>
  PROVE  IInv'
  <1>1. ActiveJobs' = ActiveJobs BY DEF ActiveJobs, rows
  <1>2. OneActiveJob' BY <1>1 DEF IInv, OneActiveJob
  <1>3. Idle.op \notin JobFirst \cup {"publishing", "sending"} BY DEF Idle, Doing, JobFirst
  <1> QED
    BY <1>1, <1>2, <1>3, FreshIdle, EndsOK DEF IInv, TypeOK, JobsExist, Exists, rows

-----------------------------------------------------------------------------
(* The steps inside a transaction, and between two. *)

\* A step of a alone, with the rows untouched.
LEMMA ActOK ==
  ASSUME IInv, NEW a \in Actors, NEW x \in Activity, act' = [act EXCEPT ![a] = x],
         UNCHANGED rows, TypeOK', Shape(x),
         lock'[Item] = a <=> x.item # "NONE",
         \A j \in JobIds : lock'[j] = a <=> x.status # "NONE" /\ x.job = j,
         \A b \in Actors, r \in Rows : b # a => (lock'[r] = b <=> lock[r] = b),
         \A j \in queue' : Exists(j),
         x.op \in JobFirst \cup {"publishing", "sending"} => Exists(x.job),
         x.item \in {"NONE", item},
         x.status # "NONE" => Exists(x.job) /\ x.status = job[x.job].status,
         x.pc = "commit" /\ x.op \in ReadsJobs => x.jobs = ActiveJobs
  PROVE  IInv'
  <1>1. act'[a] = x /\ \A b \in Actors : b # a => act'[b] = act[b] BY DEF IInv, TypeOK
  <1>2. ActiveJobs' = ActiveJobs /\ item' = item /\ job' = job BY DEF ActiveJobs, rows
  <1>3. LocksAreReads' BY <1>1, Sets0 DEF IInv, LocksAreReads
  <1>4. (\A b \in Actors : Shape(act[b]))' BY <1>1 DEF IInv, Shape
  <1>5. JobsExist' BY <1>1, <1>2 DEF IInv, JobsExist, Exists
  <1>6. CopiesCurrent'
    <2> SUFFICES ASSUME NEW b \in Actors
                 PROVE  /\ act'[b].item \in {"NONE", item}
                        /\ act'[b].status # "NONE" =>
                             Exists(act'[b].job) /\ act'[b].status = job[act'[b].job].status
                        /\ act'[b].pc = "commit" /\ act'[b].op \in ReadsJobs =>
                             act'[b].jobs = ActiveJobs
      BY <1>2 DEF CopiesCurrent, Exists
    <2>1. CASE b = a BY <1>1, <2>1
    <2>2. CASE b # a BY <1>1, <2>2 DEF IInv, CopiesCurrent
    <2> QED BY <2>1, <2>2
  <1>7. OneActiveJob' BY <1>2 DEF IInv, OneActiveJob
  <1> QED BY <1>3, <1>4, <1>5, <1>6, <1>7 DEF IInv

\* A transaction that gets the item's lock reads its current status.
LEMMA LockItemStep == ASSUME IInv, NEW a \in Actors, LockItem(a) PROVE IInv'
  <1> DEFINE pc == IF act[a].op = "retry" /\ item # "PROCESSING" THEN "jobs"
                   ELSE Then(act[a].op, "item")
             x == [act[a] EXCEPT !.item = item, !.pc = pc]
  <1>1. /\ act \in [Actors -> Activity] /\ act[a] \in Activity
        /\ item \in WorkItemStatus /\ item # "NONE"
        /\ lock \in [Rows -> Actors \cup {Nobody}]
    BY DEF IInv, TypeOK, WorkItemStatus
  <1>2. /\ act[a].pc = "item" /\ act[a].op \in Transactions
        /\ lock[Item] = Nobody /\ lock' = [lock EXCEPT ![Item] = a]
        /\ UNCHANGED <<rows, queue>>
    BY DEF LockItem, IInv, Shape
  <1>3. act' = [act EXCEPT ![a] = x] BY <1>1 DEF LockItem, Activity
  <1>4. pc \in {"job", "jobs", "commit"} BY DEF Then, Second
  <1> HIDE DEF pc
  <1>5. /\ x \in Activity /\ x.op = act[a].op /\ x.status = act[a].status /\ x.job = act[a].job
        /\ x.item = item /\ x.pc = pc
    BY <1>1, <1>4 DEF Activity
  <1> HIDE DEF x
  <1>6. Shape(act[a]) BY DEF IInv
  <1>7. act[a].op \in ItemFirst \cup {"attempt", "complete", "error", "mark_failed"}
    BY <1>2, <1>6 DEF Shape, BothRows, ItemFirst, JobFirst, Transactions
  <1>8. Shape(x) /\ ~(x.pc = "commit" /\ x.op \in ReadsJobs)
    BY <1>1, <1>2, <1>4, <1>5, <1>6, <1>7
    DEF Shape, pc, Then, Second, First, BothRows, ReadsJobs, ItemFirst, JobFirst, Transactions
  <1>9. TypeOK' BY <1>1, <1>2, <1>3, <1>5, Sets0 DEF IInv, TypeOK, rows
  <1>10. /\ lock'[Item] = a /\ \A j \in JobIds : lock'[j] = lock[j]
         /\ \A b \in Actors, r \in Rows : b # a => (lock'[r] = b <=> lock[r] = b)
    BY <1>1, <1>2, Sets0
  <1>11. \A j \in JobIds : lock'[j] = a <=> x.status # "NONE" /\ x.job = j
    BY <1>5, <1>10 DEF IInv, LocksAreReads
  <1>12. /\ x.op \in JobFirst \cup {"publishing", "sending"} => Exists(x.job)
         /\ x.status # "NONE" => Exists(x.job) /\ x.status = job[x.job].status
         /\ \A j \in queue' : Exists(j)
    BY <1>2, <1>5 DEF IInv, JobsExist, CopiesCurrent
  <1>13. (lock'[Item] = a <=> x.item # "NONE") /\ x.item \in {"NONE", item}
    BY <1>1, <1>5, <1>10
  <1> QED BY <1>2, <1>3, <1>5, <1>8, <1>9, <1>10, <1>11, <1>12, <1>13, ActOK

\* A transaction that gets a job's lock reads its current status.
LEMMA LockJobStep == ASSUME IInv, NEW a \in Actors, LockJob(a) PROVE IInv'
  <1> DEFINE pc(j) == IF act[a].op = "attempt" /\ job[j].status = "COMPLETED" THEN "commit"
                      ELSE Then(act[a].op, "job")
             x(j) == [act[a] EXCEPT !.job = j, !.status = job[j].status, !.pc = pc(j)]
  <1>1. /\ act \in [Actors -> Activity] /\ act[a] \in Activity
        /\ job \in [JobIds -> [status: BackgroundJobStatus \cup {"NONE"}, stale: BOOLEAN]]
        /\ lock \in [Rows -> Actors \cup {Nobody}]
        /\ Shape(act[a]) /\ act[a].pc = "job" /\ act[a].op \in Transactions
        /\ UNCHANGED <<rows, queue>>
    BY DEF IInv, TypeOK, LockJob, Shape
  <1>2. PICK j \in Targets(a) :
          /\ lock[j] = Nobody /\ lock' = [lock EXCEPT ![j] = a]
          /\ act' = [act EXCEPT ![a].job = j, ![a].status = job[j].status, ![a].pc = pc(j)]
    BY <1>1 DEF LockJob
  <1>0. act' = [act EXCEPT ![a] = x(j)] BY <1>1, <1>2 DEF Activity
  <1>3. Exists(j)
    <2>1. CASE act[a].op = "retry"
      BY <1>2, <2>1 DEF Targets, ActiveJobs, Exists
    <2>2. CASE act[a].op # "retry"
      <3>1. act[a].op \in JobFirst
        BY <1>1, <2>2 DEF Shape, Transactions
      <3> QED BY <1>2, <2>2, <3>1 DEF Targets, IInv, JobsExist
    <2> QED BY <2>1, <2>2
  <1>4. pc(j) \in {"item", "jobs", "commit"} BY DEF Then, Second, First
  <1> HIDE DEF pc
  <1>5. /\ x(j) \in Activity /\ x(j).op = act[a].op /\ x(j).status = job[j].status
        /\ x(j).job = j /\ x(j).item = act[a].item /\ x(j).pc = pc(j)
    BY <1>1, <1>3, <1>4 DEF Activity, Exists, Rows
  <1> HIDE DEF x
  <1>6. Shape(x(j)) /\ ~(x(j).pc = "commit" /\ x(j).op \in ReadsJobs)
    BY <1>1, <1>3, <1>4, <1>5
    DEF Shape, pc, Then, Second, First, BothRows, ReadsJobs, ItemFirst, JobFirst, Transactions,
        Exists
  <1>7. TypeOK' BY <1>0, <1>1, <1>2, <1>3, <1>5, Sets0 DEF IInv, TypeOK, rows, Exists
  <1>8. /\ lock'[j] = a /\ \A r \in Rows : r # j => lock'[r] = lock[r]
        /\ \A b \in Actors, r \in Rows : b # a => (lock'[r] = b <=> lock[r] = b)
    BY <1>1, <1>2, <1>3, Sets0 DEF Exists
  <1>9. act[a].status = "NONE" BY <1>1 DEF Shape
  <1>10. lock'[Item] = a <=> x(j).item # "NONE"
    BY <1>3, <1>5, <1>8, Sets0 DEF IInv, LocksAreReads, Exists
  <1>11. \A k \in JobIds : lock'[k] = a <=> x(j).status # "NONE" /\ x(j).job = k
    BY <1>3, <1>5, <1>8, <1>9, Sets0 DEF IInv, LocksAreReads, Exists
  <1>12. /\ x(j).op \in JobFirst \cup {"publishing", "sending"} => Exists(x(j).job)
         /\ x(j).status # "NONE" => Exists(x(j).job) /\ x(j).status = job[x(j).job].status
         /\ \A k \in queue' : Exists(k)
         /\ x(j).item \in {"NONE", item}
    BY <1>1, <1>3, <1>5 DEF IInv, JobsExist, CopiesCurrent
  <1> QED BY <1>0, <1>1, <1>5, <1>6, <1>7, <1>8, <1>10, <1>11, <1>12, ActOK

\* The unlocked read of the jobs is made while the item is locked.
LEMMA ReadActiveJobsStep == ASSUME IInv, NEW a \in Actors, ReadActiveJobs(a) PROVE IInv'
  <1> DEFINE x == [act[a] EXCEPT !.jobs = ActiveJobs, !.pc = "commit"]
  <1>1. /\ act \in [Actors -> Activity] /\ act[a] \in Activity /\ Shape(act[a])
        /\ act[a].pc = "jobs" /\ UNCHANGED <<rows, queue, lock>>
    BY DEF IInv, TypeOK, ReadActiveJobs
  <1>2. act' = [act EXCEPT ![a] = x] BY <1>1 DEF ReadActiveJobs, Activity
  <1>3. ActiveJobs \subseteq JobIds BY DEF ActiveJobs
  <1>4. /\ x \in Activity /\ x.op = act[a].op /\ x.status = act[a].status /\ x.job = act[a].job
        /\ x.item = act[a].item /\ x.pc = "commit" /\ x.jobs = ActiveJobs
    BY <1>1, <1>3 DEF Activity
  <1> HIDE DEF x
  <1>5. Shape(x)
    BY <1>1, <1>4 DEF Shape, ReadsJobs, JobFirst, ItemFirst
  <1>6. TypeOK' BY <1>1, <1>2, <1>4 DEF IInv, TypeOK, rows
  <1>7. /\ lock'[Item] = a <=> x.item # "NONE"
        /\ \A j \in JobIds : lock'[j] = a <=> x.status # "NONE" /\ x.job = j
        /\ \A b \in Actors, r \in Rows : lock'[r] = b <=> lock[r] = b
    BY <1>1, <1>4 DEF IInv, LocksAreReads
  <1>8. /\ x.op \in JobFirst \cup {"publishing", "sending"} => Exists(x.job)
        /\ x.status # "NONE" => Exists(x.job) /\ x.status = job[x.job].status
        /\ \A j \in queue' : Exists(j)
        /\ x.item \in {"NONE", item}
    BY <1>1, <1>4 DEF IInv, JobsExist, CopiesCurrent
  <1> QED BY <1>1, <1>2, <1>4, <1>5, <1>6, <1>7, <1>8, ActOK

\* A new transaction of an actor that is in none.
LEMMA BeginsOK ==
  ASSUME IInv, NEW a \in Actors, act[a].pc = "idle", NEW op \in Transactions, NEW j \in Rows,
         op \in JobFirst => Exists(j), op \in ItemFirst => j = Item,
         Begins(a, op, j), UNCHANGED <<rows, lock>>,
         queue' \subseteq JobIds, \A k \in queue' : Exists(k)
  PROVE  IInv'
  <1> DEFINE x == Doing(op, First(op), j)
  <1>1. /\ x.op = op /\ x.pc = First(op) /\ x.job = j /\ x.item = "NONE" /\ x.status = "NONE"
        /\ x \in Activity
    BY DEF Doing, Activity, First, WorkItemStatus, BackgroundJobStatus
  <1>2. act' = [act EXCEPT ![a] = x] BY DEF Begins
  <1> HIDE DEF x
  <1>3. Shape(x) /\ x.pc # "commit"
    BY <1>1 DEF Shape, First, Transactions, ItemFirst, JobFirst, BothRows, Item
  <1>4. TypeOK' BY <1>1, <1>2 DEF IInv, TypeOK, rows
  <1>5. act[a].item = "NONE" /\ act[a].status = "NONE" BY DEF IInv, Shape
  <1>6. /\ lock'[Item] = a <=> x.item # "NONE"
        /\ \A k \in JobIds : lock'[k] = a <=> x.status # "NONE" /\ x.job = k
    BY <1>1, <1>5 DEF IInv, LocksAreReads
  <1>7. x.op \in JobFirst \cup {"publishing", "sending"} => Exists(x.job)
    BY <1>1 DEF Transactions, ItemFirst, JobFirst
  <1> QED BY <1>1, <1>2, <1>3, <1>4, <1>6, <1>7, ActOK

\* Requests, publishes, deliveries and side effects write no rows.
LEMMA BetweenStep ==
  ASSUME IInv,
         \/ \E r \in Tabs : Request(r) \/ PublishJob(r)
         \/ \E w \in Workers : Receive(w) \/ SideEffects(w)
  PROVE  IInv'
  <1>1. /\ Tabs \subseteq Actors /\ Workers \subseteq Actors /\ Item \in Rows /\ JobIds \subseteq Rows
        /\ ItemFirst \subseteq Transactions /\ JobFirst \subseteq Transactions
        /\ ItemFirst \cap JobFirst = {} /\ {"publishing", "sending"} \cap Transactions = {}
    BY Sets0 DEF Actors, Transactions, ItemFirst, JobFirst
  <1>2. \A a \in Actors : act[a].op \notin Transactions \/ act[a] = Idle => act[a].pc = "idle"
    BY DEF IInv, Shape, Idle, Doing
  <1>3. queue \subseteq JobIds /\ \A k \in queue : Exists(k) BY DEF IInv, TypeOK, JobsExist
  <1>4. ASSUME NEW r \in Tabs, Request(r) PROVE IInv'
    <2>1. PICK op \in ItemFirst : Begins(r, op, 0) BY <1>4 DEF Request
    <2> QED BY <1>1, <1>2, <1>3, <1>4, <2>1, BeginsOK DEF Request, Item
  <1>5. ASSUME NEW r \in Tabs, PublishJob(r) PROVE IInv'
    <2>1. act[r].pc = "idle" /\ Exists(act[r].job)
      BY <1>1, <1>2, <1>5 DEF PublishJob, IInv, JobsExist
    <2>2. PICK op \in {"task_id", "mark_failed"} : Begins(r, op, act[r].job)
      BY <1>5 DEF PublishJob
    <2>3. op \in JobFirst /\ act[r].job \in Rows BY <1>1, <2>1 DEF JobFirst, Exists
    <2>4. queue' \subseteq queue \cup {act[r].job} BY <1>5 DEF PublishJob
    <2> QED BY <1>1, <1>3, <1>5, <2>1, <2>2, <2>3, <2>4, BeginsOK DEF PublishJob, Exists
  <1>6. ASSUME NEW w \in Workers, Receive(w) PROVE IInv'
    <2>1. PICK j \in queue : queue' = queue \ {j} /\ Begins(w, "attempt", j)
      BY <1>6 DEF Receive
    <2>2. act[w].pc = "idle" /\ "attempt" \in JobFirst BY <1>1, <1>2, <1>6 DEF Receive, JobFirst
    <2>3. j \in Rows /\ queue' \subseteq queue BY <1>1, <1>3, <2>1
    <2> QED BY <1>1, <1>3, <1>6, <2>1, <2>2, <2>3, BeginsOK DEF Receive
  <1>7. ASSUME NEW w \in Workers, SideEffects(w) PROVE IInv'
    <2>1. act[w].pc = "idle" /\ Exists(act[w].job)
      BY <1>1, <1>2, <1>7 DEF SideEffects, IInv, JobsExist
    <2>2. PICK op \in {"complete", "error"} : Begins(w, op, act[w].job)
      BY <1>7 DEF SideEffects
    <2>3. op \in JobFirst /\ act[w].job \in Rows BY <1>1, <2>1 DEF JobFirst, Exists
    <2> QED BY <1>1, <1>3, <1>7, <2>1, <2>2, <2>3, BeginsOK DEF SideEffects
  <1> QED BY <1>4, <1>5, <1>6, <1>7

\* A job that grows stale keeps its status.
LEMMA AgeStep == ASSUME IInv, NEW k \in JobIds, Age(k) PROVE IInv'
  <1>1. /\ job \in [JobIds -> [status: BackgroundJobStatus \cup {"NONE"}, stale: BOOLEAN]]
        /\ job' = [job EXCEPT ![k].stale = TRUE] /\ UNCHANGED <<item, queue, lock, act>>
    BY DEF IInv, TypeOK, Age
  <1>2. /\ job' \in [JobIds -> [status: BackgroundJobStatus \cup {"NONE"}, stale: BOOLEAN]]
        /\ \A j \in JobIds : job'[j].status = job[j].status
    BY <1>1
  <1>3. ActiveJobs' = ActiveJobs /\ \A j : Exists(j)' <=> Exists(j)
    BY <1>2 DEF ActiveJobs, Exists
  <1>4. TypeOK' BY <1>1, <1>2 DEF IInv, TypeOK
  <1>5. JobsExist' BY <1>1, <1>3 DEF IInv, JobsExist
  <1>6. CopiesCurrent'
    <2>1. \A a \in Actors : act[a].status # "NONE" =>
            /\ act[a].job \in JobIds /\ job'[act[a].job].status # "NONE"
            /\ act[a].status = job'[act[a].job].status
      BY <1>2 DEF IInv, CopiesCurrent, Exists
    <2> QED BY <1>1, <1>3, <2>1 DEF IInv, CopiesCurrent, Exists
  <1> QED
    BY <1>1, <1>3, <1>4, <1>5, <1>6 DEF IInv, LocksAreReads, OneActiveJob, Shape

-----------------------------------------------------------------------------
(* The commits. *)

\* At its commit an actor holds what it is going to write.
LEMMA CommitHolds ==
  ASSUME IInv, NEW a \in Actors, act[a].pc = "commit"
  PROVE  /\ act[a].op \in ItemFirst \cup {"complete", "error", "mark_failed"} => lock[Item] = a
         /\ act[a].item # "NONE" => lock[Item] = a /\ act[a].item = item
         /\ act[a].op \in JobFirst => lock[act[a].job] = a /\ Exists(act[a].job)
  BY DEF IInv, Shape, LocksAreReads, CopiesCurrent, Exists

\* A task or the handler that holds both rows sets its job's status.
LEMMA SetsOK ==
  ASSUME IInv, NEW a \in Actors, NEW next, act[a].pc = "commit", act[a].op \in JobFirst,
         lock[Item] = a, NEW status \in BackgroundJobStatus, Sets(act[a].job, status),
         status \in {"QUEUED", "RUNNING"} => IndexAdmits(act[a].job),
         item' \in WorkItemStatus, queue' \subseteq queue \cup {act[a].job},
         Ends(a, next), next \in {Idle, Doing("sending", "idle", act[a].job)}
  PROVE  IInv'
  <1> DEFINE k == act[a].job
  <1>1. /\ k \in JobIds /\ job[k].status # "NONE" /\ lock[k] = a BY CommitHolds DEF Exists
  <1> HIDE DEF k
  <1>2. /\ job \in [JobIds -> [status: BackgroundJobStatus \cup {"NONE"}, stale: BOOLEAN]]
        /\ job' = [job EXCEPT ![k].status = status]
    BY DEF IInv, TypeOK, Sets, k
  <1>3. /\ job' \in [JobIds -> [status: BackgroundJobStatus \cup {"NONE"}, stale: BOOLEAN]]
        /\ job'[k].status = status /\ status # "NONE"
        /\ \A j \in JobIds : j # k => job'[j].status = job[j].status
    BY <1>1, <1>2 DEF BackgroundJobStatus
  <1>4. \A j \in JobIds : Exists(j) => Exists(j)' BY <1>3 DEF Exists
  <1>5. OneActiveJob'
    <2>1. ActiveJobs' \subseteq ActiveJobs \cup {k} BY <1>3 DEF ActiveJobs
    <2>2. CASE status \in {"QUEUED", "RUNNING"}
      BY <2>1, <2>2 DEF IndexAdmits, OneActiveJob, k
    <2>3. CASE status \notin {"QUEUED", "RUNNING"}
      <3>1. ActiveJobs' \subseteq ActiveJobs BY <1>3, <2>1, <2>3 DEF ActiveJobs
      <3> QED BY <3>1 DEF IInv, OneActiveJob
    <2> QED BY <2>2, <2>3
  <1>6. \A j \in JobIds : Exists(j) /\ lock[j] # a => job'[j].status = job[j].status
    BY <1>1, <1>3
  <1>7. Fresh(next) /\ (next.op \in JobFirst \cup {"publishing", "sending"} => Exists(next.job)')
    <2>1. CASE next = Idle BY <2>1, FreshIdle DEF Idle, Doing, JobFirst
    <2>2. CASE next = Doing("sending", "idle", k)
      <3>1. next.job = k BY <2>2 DEF Doing
      <3>3. job'[next.job].status # "NONE" /\ next.job \in JobIds BY <1>1, <1>3, <3>1
      <3> QED BY <1>1, <2>2, <3>3, FreshBetween DEF Exists
    <2> QED BY <2>1, <2>2 DEF k
  <1>8. queue' \subseteq JobIds /\ \A j \in queue' : Exists(j)'
    <2>1. \A j \in queue \cup {k} : Exists(j) BY <1>1 DEF IInv, JobsExist, Exists
    <2> QED BY <1>4, <2>1 DEF Exists, k
  <1> QED BY <1>3, <1>4, <1>5, <1>6, <1>7, <1>8, EndsOK

\* Refusals and the commits of requests that create no job.
LEMMA RequestCommits ==
  ASSUME IInv, NEW a \in Actors, Refuse(a) \/ CommitReject(a) \/ CommitTaskId(a) \/ CommitMarkFailed(a)
  PROVE  IInv'
  <1>1. CASE Refuse(a) BY <1>1, EndsWithoutWrite DEF Refuse
  <1>2. CASE CommitTaskId(a) BY <1>2, EndsWithoutWrite DEF CommitTaskId
  <1>3. CASE CommitReject(a)
    <2>1. lock[Item] = a BY <1>3, CommitHolds DEF CommitReject, Committing, ItemFirst
    <2>2. UNCHANGED <<job, queue>> /\ Ends(a, Idle) /\ item' \in WorkItemStatus
      BY <1>3 DEF CommitReject, WorkItemStatus
    <2>3. ActiveJobs' = ActiveJobs /\ \A j : Exists(j)' <=> Exists(j)
      BY <2>2 DEF ActiveJobs, Exists
    <2>4. Idle.op \notin JobFirst \cup {"publishing", "sending"} BY DEF Idle, Doing, JobFirst
    <2>5. OneActiveJob' BY <2>3 DEF IInv, OneActiveJob
    <2> QED
      BY <2>1, <2>2, <2>3, <2>4, <2>5, FreshIdle, EndsOK DEF IInv, TypeOK, JobsExist
  <1>4. CASE CommitMarkFailed(a)
    <2>1. /\ act[a].pc = "commit" /\ act[a].op \in JobFirst /\ lock[Item] = a
          /\ "FAILED" \in BackgroundJobStatus \cap WorkItemStatus
      BY <1>4, CommitHolds
      DEF CommitMarkFailed, Committing, JobFirst, BackgroundJobStatus, WorkItemStatus
    <2> QED BY <1>4, <2>1, SetsOK DEF CommitMarkFailed
  <1> QED BY <1>1, <1>2, <1>3, <1>4

\* The new job is the only active one: what the transaction saw is what there is,
\* and a retry fails the stale job it has locked.
LEMMA CommitJobStep == ASSUME IInv, NEW a \in Actors, CommitJob(a) PROVE IInv'
  <1>1. /\ act[a].pc = "commit" /\ act[a].op \in {"approve", "retry"} /\ Admitted(a)
        /\ item' = "PROCESSING" /\ UNCHANGED queue
    BY DEF CommitJob, Committing
  <1>2. /\ act[a].jobs = ActiveJobs /\ ActiveJobs \subseteq JobIds
        /\ lock[Item] = a /\ Shape(act[a])
        /\ job \in [JobIds -> [status: BackgroundJobStatus \cup {"NONE"}, stale: BOOLEAN]]
    BY <1>1, CommitHolds DEF IInv, TypeOK, CopiesCurrent, ReadsJobs, ItemFirst, ActiveJobs
  <1>3. PICK n \in NextJob :
          /\ job' = [j \in JobIds |->
                      IF j = n THEN NewJob
                      ELSE IF j \in act[a].jobs THEN [job[j] EXCEPT !.status = "FAILED"]
                      ELSE job[j]]
          /\ Ends(a, Doing("publishing", "idle", n))
    BY DEF CommitJob
  <1>4. n \in JobIds /\ ~Exists(n) BY <1>3 DEF NextJob, NoJob, Exists
  <1>5. /\ job' \in [JobIds -> [status: BackgroundJobStatus \cup {"NONE"}, stale: BOOLEAN]]
        /\ job'[n].status = "QUEUED"
        /\ \A j \in JobIds : j # n => job'[j].status = IF j \in ActiveJobs THEN "FAILED" ELSE job[j].status
    BY <1>2, <1>3, <1>4 DEF NewJob, BackgroundJobStatus
  <1>6. ActiveJobs' = {n} BY <1>4, <1>5 DEF ActiveJobs
  <1>7. OneActiveJob' BY <1>6 DEF OneActiveJob
  <1>8. \A j \in ActiveJobs : lock[j] = a
    <2> SUFFICES ASSUME NEW j \in ActiveJobs PROVE lock[j] = a OBVIOUS
    <2>1. act[a].op = "retry" /\ j = act[a].job BY <1>1, <1>2 DEF Admitted
    <2>2. act[a].status # "NONE" BY <1>2, <2>1, Sets0 DEF Shape, ItemFirst
    <2> QED BY <1>2, <2>1, <2>2 DEF IInv, LocksAreReads
  <1>9. /\ \A j \in JobIds : Exists(j) => Exists(j)'
        /\ \A j \in JobIds : Exists(j) /\ lock[j] # a => job'[j].status = job[j].status
    BY <1>4, <1>5, <1>8 DEF Exists
  <1>10. LET next == Doing("publishing", "idle", n)
         IN  Fresh(next) /\ (next.op \in JobFirst \cup {"publishing", "sending"} => Exists(next.job)')
    <2>1. Doing("publishing", "idle", n).job = n BY DEF Doing
    <2>2. n \in JobIds /\ job'[n].status # "NONE" BY <1>4, <1>5
    <2> QED BY <2>1, <2>2, FreshBetween DEF Exists
  <1>11. queue' \subseteq JobIds /\ \A j \in queue' : Exists(j)'
    BY <1>1, <1>9 DEF IInv, TypeOK, JobsExist
  <1> QED
    BY <1>1, <1>2, <1>3, <1>5, <1>7, <1>9, <1>10, <1>11, EndsOK DEF WorkItemStatus

\* The commits of a task write its own job, with the item locked.
LEMMA TaskCommits ==
  ASSUME IInv, NEW w \in Actors, CommitAttempt(w) \/ CommitComplete(w) \/ CommitError(w)
  PROVE  IInv'
  <1>1. /\ act[w].pc = "commit" /\ act[w].op \in JobFirst
        /\ act[w].item # "NONE" => lock[Item] = w
        /\ act[w].op \in {"complete", "error"} => lock[Item] = w
        /\ item \in WorkItemStatus /\ {"SENT", "FAILED"} \subseteq WorkItemStatus
        /\ {"COMPLETED", "FAILED", "RUNNING", "QUEUED"} \subseteq BackgroundJobStatus
    BY CommitHolds
    DEF CommitAttempt, CommitComplete, CommitError, Committing, JobFirst, IInv, TypeOK,
        WorkItemStatus, BackgroundJobStatus
  <1>2. FailsItem(w) => item' \in WorkItemStatus BY <1>1 DEF FailsItem
  <1>3. CASE EndsTask(w) BY <1>3, EndsWithoutWrite DEF EndsTask
  <1>4. CASE CommitAttempt(w)
    <2>1. CASE Sets(act[w].job, "COMPLETED") /\ Ends(w, Idle) /\ act[w].item = "SENT"
               /\ UNCHANGED <<item, queue>>
      BY <1>1, <2>1, SetsOK
    <2>2. CASE Sets(act[w].job, "FAILED") /\ FailsItem(w) /\ Ends(w, Idle)
               /\ act[w].item \notin {"NONE", "SENT"} /\ UNCHANGED queue
      BY <1>1, <1>2, <2>2, SetsOK
    <2>3. CASE Sets(act[w].job, "RUNNING") /\ Ends(w, Doing("sending", "idle", act[w].job))
               /\ IndexAdmits(act[w].job) /\ act[w].item = "PROCESSING" /\ UNCHANGED <<item, queue>>
      BY <1>1, <2>3, SetsOK
    <2> QED BY <1>3, <1>4, <2>1, <2>2, <2>3 DEF CommitAttempt
  <1>5. CASE CommitComplete(w)
    <2>1. /\ item' \in WorkItemStatus /\ lock[Item] = w /\ Ends(w, Idle) /\ UNCHANGED queue
          /\ Sets(act[w].job, "COMPLETED") \/ Sets(act[w].job, "FAILED")
      BY <1>1, <1>5 DEF CommitComplete, Committing
    <2> QED BY <1>1, <2>1, SetsOK
  <1>6. CASE CommitError(w)
    <2>1. lock[Item] = w BY <1>1, <1>6 DEF CommitError, Committing
    <2>2. CASE Sets(act[w].job, "FAILED") /\ FailsItem(w) /\ Ends(w, Idle) /\ UNCHANGED queue
      BY <1>1, <1>2, <2>1, <2>2, SetsOK
    <2>3. CASE Sets(act[w].job, "QUEUED") /\ IndexAdmits(act[w].job) /\ Ends(w, Idle)
               /\ queue' = queue \cup {act[w].job} /\ UNCHANGED item
      BY <1>1, <2>1, <2>3, SetsOK
    <2> QED BY <1>3, <1>6, <2>2, <2>3 DEF CommitError
  <1> QED BY <1>4, <1>5, <1>6

\* IInv is inductive.
LEMMA Inductive == IInv /\ [Next]_vars => IInv'
  <1> SUFFICES ASSUME IInv, [Next]_vars PROVE IInv' OBVIOUS
  <1>1. CASE UNCHANGED vars
    BY <1>1 DEF vars, rows, IInv, TypeOK, LocksAreReads, JobsExist, Exists, CopiesCurrent,
                OneActiveJob, ActiveJobs, Shape
  <1>2. ASSUME NEW a \in Actors, LockItem(a) \/ LockJob(a) \/ Proceed(a) \/ Abort(a) PROVE IInv'
    <2>1. CASE Abort(a) BY <2>1, EndsWithoutWrite DEF Abort
    <2>2. CASE Proceed(a)
      BY <2>2, ReadActiveJobsStep, RequestCommits, CommitJobStep, TaskCommits DEF Proceed
    <2> QED BY <1>2, <2>1, <2>2, LockItemStep, LockJobStep
  <1> QED BY <1>1, <1>2, BetweenStep, AgeStep DEF Next

\* IInv holds in every reachable state.
LEMMA Invariant == Spec => []IInv
  BY InitInv, Inductive, PTL DEF Spec

-----------------------------------------------------------------------------
\* The rows, the locks and the activities have their types.
THEOREM TypeCorrect == Spec => []TypeOK
  <1>1. IInv => TypeOK BY DEF IInv
  <1> QED BY <1>1, Invariant, PTL

\* Every transaction commits on what is still so: it may be taken as one step.
THEOREM TransactionsAreAtomic == Spec => []ReadsCurrent
  <1>1. IInv => ReadsCurrent
    <2>1. IInv => \A a \in Actors : act[a].pc = "commit" /\ act[a].op \in JobFirst => act[a].status # "NONE"
      BY DEF IInv, Shape
    <2> QED BY <2>1 DEF IInv, CopiesCurrent, ReadsCurrent
  <1> QED BY <1>1, Invariant, PTL

\* An item never has two active jobs, even where no lock covers the check.
THEOREM ActiveJobUnique == Spec => []OneActiveJob
  <1>1. IInv => OneActiveJob BY DEF IInv
  <1> QED BY <1>1, Invariant, PTL

\* Without a retry no two transactions wait for each other.
THEOREM DeadlocksInvolveRetry == Spec => []DeadlockNeedsRetry
  <1>1. IInv => DeadlockNeedsRetry
    <2> SUFFICES ASSUME IInv, NEW a \in Actors, NEW b \in Actors, Deadlock(a, b),
                        act[a].op # "retry", act[b].op # "retry"
                 PROVE  FALSE
      BY DEF DeadlockNeedsRetry
    <2>1. \A c \in Actors, r \in Rows : lock[r] = c =>
            /\ r = Item => act[c].item # "NONE"
            /\ r # Item => act[c].status # "NONE"
      BY Sets0 DEF IInv, LocksAreReads
    <2>2. \A c \in Actors : act[c].op # "retry" =>
            /\ act[c].pc = "item" => act[c].item = "NONE"
            /\ act[c].pc = "job" => act[c].item = "NONE" /\ act[c].status = "NONE"
                                   /\ act[c].job \in JobIds
      <3> SUFFICES ASSUME NEW c \in Actors, act[c].op # "retry"
                   PROVE  /\ act[c].pc = "item" => act[c].item = "NONE"
                          /\ act[c].pc = "job" => act[c].item = "NONE" /\ act[c].status = "NONE"
                                                 /\ act[c].job \in JobIds
        OBVIOUS
      <3>1. Shape(act[c]) BY DEF IInv
      <3>2. act[c].pc = "job" => act[c].op \in JobFirst BY <3>1 DEF Shape, Transactions
      <3> QED BY <3>1, <3>2 DEF Shape, IInv, JobsExist, Exists
    <2>3. \A c, d \in Actors : Waits(c, d) /\ act[c].op # "retry" =>
            \/ act[c].pc = "item" /\ act[d].item # "NONE"
            \/ act[c].pc = "job" /\ act[d].status # "NONE"
      BY <2>1, <2>2, Sets0 DEF Waits, Targets
    <2> QED BY <2>2, <2>3 DEF Deadlock
  <1> QED BY <1>1, Invariant, PTL

=============================================================================
