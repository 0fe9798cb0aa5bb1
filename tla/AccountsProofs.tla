--------------------------- MODULE AccountsProofs ---------------------------
(***************************************************************************)
(* Proofs about the login rate limiter, for every limit, window and clock, *)
(* and about signups, for all clients, organizations and emails.           *)
(***************************************************************************)
EXTENDS Accounts, FiniteSetTheorems, TLAPS

USE DEF limiterVars, accountVars, vars

-----------------------------------------------------------------------------
(* Type correctness. *)

\* A window has a positive length, and a tick or a second do too.
LEMMA Numbers ==
  /\ Window \in Nat \ {0}
  /\ Limit \in Nat \ {0}
  /\ TicksPerSecond \in Nat \ {0}
  /\ MaxClock \in Nat
<1>1. WindowSeconds \in Nat /\ WindowSeconds >= 1 /\ TicksPerSecond \in Nat /\ TicksPerSecond >= 1
  BY LimiterAssumption
<1>2. \A m, n \in Nat : m >= 1 /\ n >= 1 => m * n \in Nat /\ m * n >= 1
  OBVIOUS
<1>3. QED
  BY <1>1, <1>2, LimiterAssumption DEF Window

\* No bucket, and the one that opens a window now.
LEMMA FreshBuckets ==
  ASSUME clock \in Ticks
  PROVE  /\ NoBucket \in Bucket
         /\ NewBucket \in Bucket
         /\ NewBucket.attempts = 1
         /\ NewBucket.reset_at = clock + Window
         /\ NewBucket # NoBucket
BY Numbers DEF NoBucket, NewBucket, Bucket, Ticks

\* The wait that a refusal returns is a number of seconds.
LEMMA WaitIsPositive ==
  ASSUME LimiterTypeOK, NEW k \in LoginEmails, ~Expired(k)
  PROVE  /\ RetryAfter(k) \in Nat
         /\ buckets[k].reset_at - clock \in Nat
<1>1. buckets[k].reset_at - clock \in Nat
  BY Numbers DEF Expired, LimiterTypeOK, Bucket, Ticks
<1>2. \A m \in Nat, n \in Nat \ {0} : m \div n \in Nat
  OBVIOUS
<1>3. (buckets[k].reset_at - clock) \div TicksPerSecond \in Nat
  BY <1>1, <1>2, Numbers
<1>4. QED
  BY <1>1, <1>3 DEF RetryAfter

\* What the limiter does in a step of the system.
LimiterStep ==
  \/ UNCHANGED limiterVars
  \/ \E k \in LoginEmails : Admit(k) \/ Refuse(k)
  \/ \E k \in Emails : reset(k)
  \/ Tick

\* Only logins and time reach the limiter.
LEMMA LimiterSteps == TypeOK /\ [Next]_vars => LimiterStep
<1> SUFFICES ASSUME TypeOK, [Next]_vars PROVE LimiterStep
  OBVIOUS
<1>1. ASSUME NEW c \in Clients PROVE req[c].email \in Emails
  BY DEF TypeOK, Request
<1>2. QED
  BY <1>1 DEF LimiterStep, Next, StartLogin, LoginRefused, StartSignup, login, LoginDone, signup,
     CreateOrgLookup, JoinOrgLookup, InsertOrg, FindUser, InsertUser, ensure_signup_demo_work_items,
     assign_signup_demo_work_items_to_reviewer, CommitSignup, ConnectionLost, Quiet

\* A bucket never counts past the limit, nor is it dated more than a window ahead.
LEMMA LimiterTypes == LimiterTypeOK /\ LimiterStep => LimiterTypeOK'
<1> SUFFICES ASSUME LimiterTypeOK, LimiterStep PROVE LimiterTypeOK'
  OBVIOUS
<1>1. CASE UNCHANGED limiterVars \/ Tick
  BY <1>1, Numbers DEF LimiterTypeOK, Tick, Ticks
<1>2. ASSUME NEW k \in LoginEmails, Admit(k)
      PROVE  LimiterTypeOK'
  <2>1. clock' = clock /\ clock \in Ticks /\ Append(admitted[k], clock) \in Seq(Ticks)
    BY <1>2 DEF Admit, LimiterTypeOK
  <2>2. admitted' \in [LoginEmails -> Seq(Ticks)]
    BY <1>2, <2>1 DEF Admit, LimiterTypeOK
  <2>3. told' \in [LoginEmails -> Nat]
    <3>1. told' = told \/ told' = [told EXCEPT ![k] = 0]
      BY <1>2 DEF Admit
    <3>2. QED
      BY <3>1 DEF LimiterTypeOK
  <2>4. CASE buckets' = [buckets EXCEPT ![k] = NewBucket]
    BY <2>1, <2>2, <2>3, <2>4, FreshBuckets DEF LimiterTypeOK
  <2>5. CASE ~Exhausted(k) /\ buckets' = [buckets EXCEPT ![k].attempts = @ + 1]
    <3>1. buckets[k] \in Bucket /\ buckets[k].attempts + 1 \in 0..Limit
      BY <2>5, Numbers DEF Exhausted, LimiterTypeOK, Bucket
    <3>2. [buckets[k] EXCEPT !.attempts = @ + 1] \in Bucket
      BY <3>1 DEF Bucket
    <3>3. QED
      BY <2>1, <2>2, <2>3, <2>5, <3>2 DEF LimiterTypeOK
  <2>6. QED
    BY <1>2, <2>4, <2>5 DEF Admit
<1>3. ASSUME NEW k \in LoginEmails, Refuse(k)
      PROVE  LimiterTypeOK'
  <2>1. clock + RetryAfter(k) * TicksPerSecond \in Nat
    <3>1. RetryAfter(k) \in Nat /\ TicksPerSecond \in Nat /\ clock \in Nat
      BY <1>3, WaitIsPositive, Numbers DEF Refuse, LimiterTypeOK, Ticks
    <3>2. \A m, n \in Nat : m * n \in Nat
      OBVIOUS
    <3>3. QED
      BY <3>1, <3>2
  <2>2. QED
    BY <1>3, <2>1 DEF Refuse, LimiterTypeOK
<1>4. ASSUME NEW k \in Emails, reset(k)
      PROVE  LimiterTypeOK'
  <2>1. clock' = clock /\ clock \in Ticks /\ NoBucket \in Bucket /\ <<>> \in Seq(Ticks)
    BY <1>4, FreshBuckets DEF reset, LimiterTypeOK
  <2>2. buckets' \in [LoginEmails -> Bucket]
    BY <1>4, <2>1 DEF reset, LimiterTypeOK
  <2>3. admitted' \in [LoginEmails -> Seq(Ticks)]
    BY <1>4, <2>1 DEF reset, LimiterTypeOK
  <2>4. told' \in [LoginEmails -> Nat]
    BY <1>4 DEF reset, LimiterTypeOK
  <2>5. QED
    BY <2>1, <2>2, <2>3, <2>4 DEF LimiterTypeOK
<1>5. QED
  BY <1>1, <1>2, <1>3, <1>4 DEF LimiterStep

\* No request and a request just sent.
LEMMA SentTypes ==
  /\ NoRequest \in Request
  /\ \A m \in SignupModes \cup {"login"}, o \in Orgs, e \in Emails : Sent(m, o, e) \in Request
<1>1. \A m \in SignupModes \cup {"login"}, o \in Orgs, e \in Emails : Sent(m, o, e) \in Request
  BY DEF Sent, Request
<1>2. Sent("login", SeedOrg, SeedAdmin) \in Request
  BY <1>1, AccountsAssumption
<1>3. NoRequest \in Request
  BY <1>2 DEF NoRequest, Request
<1>4. QED
  BY <1>1, <1>3

\* A request that goes on, ends or raises.
LEMMA RequestGoes ==
  ASSUME TypeOK, NEW c \in Clients,
         \/ \E pc \in {"lookup", "insert_org", "find_user", "insert_user", "demo", "commit", "reset"} :
              Goes(c, pc)
         \/ Answers(c)
         \/ Raises(c)
  PROVE  req' \in [Clients -> Request] /\ raised' \in BOOLEAN
<1>1. req[c] \in Request
  BY DEF TypeOK
<1>2. ASSUME NEW pc \in {"lookup", "insert_org", "find_user", "insert_user", "demo", "commit", "reset"},
             Goes(c, pc)
      PROVE  req' \in [Clients -> Request] /\ raised' \in BOOLEAN
  <2>1. [req[c] EXCEPT !.pc = pc] \in Request
    BY <1>1 DEF Request
  <2>2. QED
    BY <1>2, <2>1 DEF Goes, TypeOK
<1>3. CASE Answers(c) \/ Raises(c)
  BY <1>3, SentTypes DEF Answers, Raises, TypeOK
<1>4. QED
  BY <1>2, <1>3

\* The committed rows and the request that writes them.
LEMMA CommitTypes ==
  ASSUME TypeOK, NEW c \in Clients, CommitSignup(c)
  PROVE  TypeOK'
<1>1. req[c] \in Request
  BY DEF TypeOK
<1>2. /\ req[c].org \in Orgs /\ req[c].email \in Emails
      /\ NewUser(c) \in User
      /\ DemoOwner(c) \in Emails \cup {NoItems, Unassigned}
  BY <1>1 DEF Request, NewUser, User, DemoOwner, TypeOK
<1>3. req' \in [Clients -> Request] /\ raised' \in BOOLEAN
  BY RequestGoes DEF CommitSignup
<1>4. LimiterTypeOK'
  BY LimiterTypes DEF CommitSignup, LimiterStep, TypeOK
<1>5. users' \in [User -> Nat]
  BY <1>2 DEF CommitSignup, TypeOK
<1>6. QED
  BY <1>2, <1>3, <1>4, <1>5 DEF CommitSignup, TypeOK

\* Every step keeps the rows, the requests and the buckets well typed.
LEMMA TypeNext == TypeOK /\ [Next]_vars => TypeOK'
<1> SUFFICES ASSUME TypeOK, [Next]_vars PROVE TypeOK'
  OBVIOUS
<1>1. LimiterTypeOK'
  BY LimiterSteps, LimiterTypes DEF TypeOK
<1>2. CASE UNCHANGED accountVars
  BY <1>1, <1>2 DEF TypeOK
<1>3. ASSUME NEW c \in Clients, NEW e \in LoginEmails, StartLogin(c, e)
      PROVE  TypeOK'
  <2>1. PICK o \in Orgs : req' = [req EXCEPT ![c] = Sent("login", o, e)]
    BY <1>3 DEF StartLogin
  <2>2. Sent("login", o, e) \in Request
    BY SentTypes, LimiterAssumption
  <2>3. QED
    BY <1>1, <1>3, <2>1, <2>2 DEF StartLogin, TypeOK
<1>4. ASSUME NEW c \in Clients, NEW m \in SignupModes, NEW o \in Orgs, NEW e \in Emails,
             StartSignup(c, m, o, e)
      PROVE  TypeOK'
  <2>1. Sent(m, o, e) \in Request
    BY SentTypes
  <2>2. signups' \in 0..MaxSignups
    BY <1>4, AccountsAssumption DEF StartSignup, TypeOK
  <2>3. req' \in [Clients -> Request]
    BY <1>4, <2>1 DEF StartSignup, TypeOK
  <2>4. QED
    BY <1>1, <1>4, <2>2, <2>3 DEF StartSignup, TypeOK
<1>5. ASSUME NEW c \in Clients, UNCHANGED <<orgs, users, demo, signups>>,
             \/ \E pc \in {"lookup", "insert_org", "find_user", "insert_user", "demo", "commit", "reset"} :
                  Goes(c, pc)
             \/ Answers(c)
             \/ Raises(c)
      PROVE  TypeOK'
  BY <1>1, <1>5, RequestGoes DEF TypeOK
<1>6. ASSUME NEW c \in Clients, assign_signup_demo_work_items_to_reviewer(c)
      PROVE  TypeOK'
  <2>1. req[c] \in Request /\ Available(req[c].org) \in BOOLEAN
    BY DEF TypeOK, Available
  <2>2. [req[c] EXCEPT !.pc = "commit", !.takes = Available(req[c].org)] \in Request
    BY <2>1 DEF Request
  <2>3. QED
    BY <1>1, <1>6, <2>2 DEF assign_signup_demo_work_items_to_reviewer, TypeOK
<1>7. ASSUME NEW c \in Clients, signup(c)
      PROVE  TypeOK'
  BY <1>5, <1>6, <1>7, CommitTypes
     DEF signup, CreateOrgLookup, JoinOrgLookup, InsertOrg, FindUser, InsertUser,
     ensure_signup_demo_work_items
<1>8. ASSUME NEW c \in Clients, login(c) \/ LoginDone(c) \/ ConnectionLost(c)
      PROVE  TypeOK'
  BY <1>5, <1>8 DEF login, LoginDone, ConnectionLost
<1>9. QED
  BY <1>2, <1>3, <1>4, <1>7, <1>8 DEF Next, LoginRefused, Quiet

\* What the seed data and no request make is well typed.
LEMMA TypeInit == Init => TypeOK
<1> SUFFICES ASSUME Init PROVE TypeOK
  OBVIOUS
<1>1. clock \in Ticks
  BY Numbers DEF Init, LimiterInit, Ticks
<1>2. LimiterTypeOK
  BY <1>1, FreshBuckets DEF Init, LimiterInit, LimiterTypeOK
<1>3. users \in [User -> Nat] /\ orgs \subseteq Orgs
  BY AccountsAssumption DEF Init
<1>4. demo \in [Orgs -> Emails \cup {NoItems, Unassigned}]
  <2>1. PICK owner \in {NoItems, Unassigned, SeedAdmin} :
               demo = [o \in Orgs |-> IF o = SeedOrg THEN owner ELSE NoItems]
    BY DEF Init
  <2>2. QED
    BY <2>1, AccountsAssumption
<1>5. QED
  <2>1. req \in [Clients -> Request] /\ raised \in BOOLEAN
    BY SentTypes DEF Init
  <2>2. signups \in 0..MaxSignups
    BY AccountsAssumption DEF Init
  <2>3. QED
    BY <1>2, <1>3, <1>4, <2>1, <2>2 DEF TypeOK

\* Buckets never count past the limit, and no request, row or bucket is ill typed.
THEOREM TypeCorrect == Spec => []TypeOK
BY TypeInit, TypeNext, PTL DEF Spec

-----------------------------------------------------------------------------
(* The sliding limit. *)

\* The place, among the attempts admitted, of the one that opened k's window.
Opening(k) == Len(admitted[k]) - buckets[k].attempts + 1

\* The attempts admitted are in the order of time, those since the window opened
\* are the bucket's count, and Limit attempts before the opening one a window had
\* passed: a window holds no more, and the next opens only when it is over.
WindowOK(k) ==
  /\ \A i \in 1..Len(admitted[k]) : admitted[k][i] <= clock
  /\ \A i, j \in 1..Len(admitted[k]) : i <= j => admitted[k][i] <= admitted[k][j]
  /\ buckets[k] = NoBucket => Len(admitted[k]) = 0
  /\ buckets[k] # NoBucket =>
       /\ buckets[k].attempts \in 1..Len(admitted[k])
       /\ buckets[k].reset_at = admitted[k][Opening(k)] + Window
       /\ \A i \in 1..Len(admitted[k]) :
            i + Limit <= Opening(k) => admitted[k][i] + Window <= admitted[k][Opening(k)]

WindowInv == \A k \in LoginEmails : WindowOK(k)

\* Nothing was admitted at first, and nothing counts after a reset.
LEMMA NothingAdmitted ==
  ASSUME NEW k, buckets[k] = NoBucket, admitted[k] = <<>>
  PROVE  WindowOK(k)
BY DEF WindowOK

\* Time alone changes nothing of a window.
LEMMA WindowKept ==
  ASSUME LimiterTypeOK, clock' \in Ticks, clock <= clock', NEW k \in LoginEmails, WindowOK(k),
         buckets'[k] = buckets[k], admitted'[k] = admitted[k]
  PROVE  WindowOK(k)'
<1>1. admitted[k] \in Seq(Ticks) /\ clock \in Nat /\ clock' \in Nat
  BY Numbers DEF LimiterTypeOK, Ticks
<1>2. Len(admitted[k]) \in Nat /\ \A i \in 1..Len(admitted[k]) : admitted[k][i] \in Nat
  BY <1>1, Numbers DEF Ticks
<1>3. \A i \in 1..Len(admitted[k]) : admitted[k][i] <= clock'
  BY <1>1, <1>2 DEF WindowOK
<1>4. Opening(k)' = Opening(k)
  BY DEF Opening
<1>5. QED
  BY <1>3, <1>4 DEF WindowOK

\* One more attempt at the end, nothing else of the others.
LEMMA Appended ==
  ASSUME LimiterTypeOK, NEW k \in LoginEmails, Admit(k)
  PROVE  /\ clock' = clock /\ clock \in Nat
         /\ Len(admitted[k]) \in Nat
         /\ \A i \in 1..Len(admitted[k]) : admitted[k][i] \in Nat
         /\ Len(admitted'[k]) = Len(admitted[k]) + 1
         /\ \A i \in 1..Len(admitted[k]) : admitted'[k][i] = admitted[k][i]
         /\ admitted'[k][Len(admitted[k]) + 1] = clock
         /\ \A l \in LoginEmails : l # k => admitted'[l] = admitted[l] /\ buckets'[l] = buckets[l]
<1>1. admitted[k] \in Seq(Ticks) /\ clock \in Ticks
  BY DEF LimiterTypeOK
<1>2. \A t \in Ticks : t \in Nat
  BY Numbers DEF Ticks
<1>3. Len(admitted[k]) \in Nat /\ \A i \in 1..Len(admitted[k]) : admitted[k][i] \in Ticks
  BY <1>1
<1>4. admitted'[k] = Append(admitted[k], clock)
  BY DEF Admit, LimiterTypeOK
<1>5. /\ Len(Append(admitted[k], clock)) = Len(admitted[k]) + 1
      /\ \A i \in 1..Len(admitted[k]) : Append(admitted[k], clock)[i] = admitted[k][i]
      /\ Append(admitted[k], clock)[Len(admitted[k]) + 1] = clock
  BY <1>1, <1>3
<1>6. clock' = clock /\ \A l \in LoginEmails : l # k => admitted'[l] = admitted[l] /\ buckets'[l] = buckets[l]
  BY DEF Admit, LimiterTypeOK
<1>7. QED
  BY <1>1, <1>2, <1>3, <1>4, <1>5, <1>6

\* The attempts stay in the order of time.
LEMMA AppendedInOrder ==
  ASSUME LimiterTypeOK, NEW k \in LoginEmails, WindowOK(k), Admit(k)
  PROVE  /\ \A i \in 1..Len(admitted'[k]) : admitted'[k][i] <= clock
         /\ \A i, j \in 1..Len(admitted'[k]) : i <= j => admitted'[k][i] <= admitted'[k][j]
<1> DEFINE n == Len(admitted[k])
<1>1. /\ n \in Nat /\ Len(admitted'[k]) = n + 1 /\ clock \in Nat
      /\ \A i \in 1..n : admitted'[k][i] = admitted[k][i] /\ admitted[k][i] \in Nat
      /\ admitted'[k][n + 1] = clock
  BY Appended
<1>2. \A i \in 1..(n + 1) : i \in 1..n \/ i = n + 1
  BY <1>1
<1>3. \A i \in 1..(n + 1) : admitted'[k][i] <= clock
  BY <1>1, <1>2 DEF WindowOK
<1>4. ASSUME NEW i \in 1..(n + 1), NEW j \in 1..(n + 1), i <= j
      PROVE  admitted'[k][i] <= admitted'[k][j]
  <2>1. CASE j = n + 1
    BY <1>1, <1>3, <2>1
  <2>2. CASE j \in 1..n
    <3>1. i \in 1..n
      BY <1>1, <1>4, <2>2
    <3>2. QED
      BY <1>1, <1>4, <2>2, <3>1 DEF WindowOK
  <2>3. QED
    BY <1>2, <2>1, <2>2
<1>5. QED
  BY <1>1, <1>3, <1>4

\* The attempt that opens a window comes after the last one was over.
LEMMA WindowOpens ==
  ASSUME LimiterTypeOK, NEW k \in LoginEmails, WindowOK(k), Admit(k), Expired(k),
         buckets' = [buckets EXCEPT ![k] = NewBucket]
  PROVE  WindowOK(k)'
<1> DEFINE n == Len(admitted[k])
<1>1. /\ clock' = clock /\ clock \in Nat /\ n \in Nat /\ Len(admitted'[k]) = n + 1
      /\ \A i \in 1..n : admitted'[k][i] = admitted[k][i] /\ admitted[k][i] \in Nat
      /\ admitted'[k][n + 1] = clock
  BY Appended
<1>2. /\ buckets'[k].attempts = 1 /\ buckets'[k].reset_at = clock + Window
      /\ buckets'[k] # NoBucket
  BY FreshBuckets DEF LimiterTypeOK
<1>3. Opening(k)' = n + 1
  BY <1>1, <1>2 DEF Opening
<1>4. ASSUME NEW i \in 1..(n + 1), i + Limit <= n + 1
      PROVE  admitted'[k][i] + Window <= clock
  <2>1. i \in 1..n
    BY <1>1, <1>4, Numbers
  <2>2. buckets[k] # NoBucket
    BY <2>1, <1>1 DEF WindowOK
  <2>3. buckets[k].attempts \in 1..n /\ buckets[k].attempts <= Limit
    BY <2>2, Numbers DEF WindowOK, LimiterTypeOK, Bucket
  <2>4. \A a \in 1..n : a <= Limit => n - a + 1 \in 1..n /\ i <= n - a + 1
    <3>1. n \in Nat /\ Limit \in Nat /\ i \in Nat /\ i + Limit <= n + 1
      BY <1>1, <1>4, <2>1, Numbers
    <3> HIDE DEF n
    <3>2. QED
      BY <3>1
  <2>5. Opening(k) \in 1..n /\ i <= Opening(k)
    BY <2>3, <2>4 DEF Opening
  <2>6. clock >= admitted[k][Opening(k)] + Window
    BY <2>2 DEF WindowOK, Expired
  <2>7. admitted[k][i] <= admitted[k][Opening(k)]
    BY <2>1, <2>5 DEF WindowOK
  <2>8. /\ admitted'[k][i] = admitted[k][i] /\ admitted[k][i] \in Nat
        /\ admitted[k][Opening(k)] \in Nat
    BY <1>1, <2>1, <2>5
  <2>9. \A a, x, w, t \in Nat : t >= x + w /\ a <= x => a + w <= t
    OBVIOUS
  <2>10. admitted[k][i] + Window <= clock
    BY <1>1, <2>6, <2>7, <2>8, <2>9, Numbers
  <2>11. QED
    BY <2>8, <2>10
<1>5. /\ \A i \in 1..Len(admitted'[k]) : admitted'[k][i] <= clock'
      /\ \A i, j \in 1..Len(admitted'[k]) : i <= j => admitted'[k][i] <= admitted'[k][j]
  BY <1>1, AppendedInOrder
<1>6. buckets'[k].attempts \in 1..Len(admitted'[k])
  BY <1>1, <1>2
<1>7. buckets'[k].reset_at = admitted'[k][Opening(k)'] + Window
  BY <1>1, <1>2, <1>3
<1>8. \A i \in 1..Len(admitted'[k]) :
        i + Limit <= Opening(k)' => admitted'[k][i] + Window <= admitted'[k][Opening(k)']
  BY <1>1, <1>3, <1>4
<1>9. QED
  BY <1>2, <1>5, <1>6, <1>7, <1>8 DEF WindowOK

\* An attempt that is counted in the open window leaves its opening where it is.
LEMMA WindowCounts ==
  ASSUME LimiterTypeOK, NEW k \in LoginEmails, WindowOK(k), Admit(k), ~Expired(k),
         buckets' = [buckets EXCEPT ![k].attempts = @ + 1]
  PROVE  WindowOK(k)'
<1> DEFINE n == Len(admitted[k])
<1>1. /\ clock' = clock /\ clock \in Nat /\ n \in Nat /\ Len(admitted'[k]) = n + 1
      /\ \A i \in 1..n : admitted'[k][i] = admitted[k][i] /\ admitted[k][i] \in Nat
      /\ admitted'[k][n + 1] = clock
  BY Appended
<1>2. /\ buckets[k] # NoBucket /\ buckets[k].attempts \in 1..n
      /\ buckets[k].reset_at = admitted[k][Opening(k)] + Window
      /\ \A i \in 1..n : i + Limit <= Opening(k) => admitted[k][i] + Window <= admitted[k][Opening(k)]
  BY DEF WindowOK, Expired
<1>3. buckets'[k].attempts = buckets[k].attempts + 1 /\ buckets'[k].reset_at = buckets[k].reset_at
  BY DEF LimiterTypeOK, Bucket
<1>4. Opening(k)' = Opening(k) /\ Opening(k) \in 1..n
  BY <1>1, <1>2, <1>3 DEF Opening
<1>5. buckets'[k] # NoBucket /\ buckets'[k].attempts \in 1..(n + 1)
  BY <1>1, <1>2, <1>3 DEF NoBucket
<1>6. buckets'[k].reset_at = admitted'[k][Opening(k)] + Window
  BY <1>1, <1>2, <1>3, <1>4
<1>7. ASSUME NEW i \in 1..(n + 1), i + Limit <= Opening(k)
      PROVE  admitted'[k][i] + Window <= admitted'[k][Opening(k)]
  <2>1. i \in 1..n
    BY <1>1, <1>4, <1>7, Numbers
  <2>2. QED
    BY <1>1, <1>2, <1>4, <1>7, <2>1
<1>8. QED
  BY <1>1, <1>4, <1>5, <1>6, <1>7, AppendedInOrder DEF WindowOK

\* No step of the limiter disturbs a window.
LEMMA WindowNext ==
  LimiterTypeOK /\ LimiterTypeOK' /\ WindowInv /\ LimiterStep => WindowInv'
<1> SUFFICES ASSUME LimiterTypeOK, LimiterTypeOK', WindowInv, LimiterStep, NEW l \in LoginEmails
             PROVE  WindowOK(l)'
  BY DEF WindowInv
<1>1. WindowOK(l) /\ clock \in Nat /\ clock' \in Ticks
  BY Numbers DEF WindowInv, LimiterTypeOK, Ticks
<1>2. CASE UNCHANGED limiterVars \/ Tick \/ \E k \in LoginEmails : Refuse(k)
  <2>1. buckets' = buckets /\ admitted' = admitted /\ clock <= clock'
    BY <1>1, <1>2 DEF Tick, Refuse
  <2>2. QED
    BY <1>1, <2>1, WindowKept
<1>3. ASSUME NEW k \in LoginEmails, Admit(k)
      PROVE  WindowOK(l)'
  <2>1. CASE l # k
    <3>1. admitted'[l] = admitted[l] /\ buckets'[l] = buckets[l] /\ clock' = clock
      BY <1>3, <2>1, Appended
    <3>2. QED
      BY <1>1, <3>1, WindowKept
  <2>2. CASE l = k
    BY <1>1, <1>3, <2>2, WindowOpens, WindowCounts DEF Admit
  <2>3. QED
    BY <2>1, <2>2
<1>4. ASSUME NEW k \in Emails, reset(k)
      PROVE  WindowOK(l)'
  <2>1. CASE l = k
    <3>1. buckets'[l] = NoBucket /\ admitted'[l] = <<>>
      BY <1>4, <2>1 DEF reset, LimiterTypeOK
    <3>2. QED
      BY <3>1 DEF WindowOK
  <2>2. CASE l # k
    <3>1. admitted'[l] = admitted[l] /\ buckets'[l] = buckets[l] /\ clock' = clock
      BY <1>4, <2>2 DEF reset, LimiterTypeOK
    <3>2. QED
      BY <1>1, <3>1, WindowKept
  <2>3. QED
    BY <2>1, <2>2
<1>5. QED
  BY <1>2, <1>3, <1>4 DEF LimiterStep

\* The attempt that is admitted now comes a window after the one 2 * Limit - 1
\* places before it: a whole window, of Limit attempts at most, lies between them.
LEMMA AdmittedInTime ==
  ASSUME LimiterTypeOK, NEW k \in LoginEmails, WindowOK(k), Admit(k),
         NEW i \in 1..Len(admitted[k]), i + 2 * Limit - 1 = Len(admitted[k]) + 1
  PROVE  admitted[k][i] + Window <= clock
<1> DEFINE n == Len(admitted[k])
<1>1. /\ n \in Nat /\ clock \in Nat
      /\ \A l \in 1..n : admitted[k][l] \in Nat
  BY Appended
<1>2. buckets[k] # NoBucket
  BY <1>1 DEF WindowOK
<1>3. buckets[k].attempts \in 1..n /\ buckets[k].attempts <= Limit
  BY <1>2, Numbers DEF WindowOK, LimiterTypeOK, Bucket
<1>4. ASSUME NEW a \in 1..n, a <= Limit
      PROVE  /\ n - a + 1 \in 1..n
             /\ i <= n - a + 1
             /\ a < Limit => i + Limit <= n - a + 1
  <2>1. n \in Nat /\ Limit \in Nat /\ Limit >= 1 /\ i \in Nat /\ i + 2 * Limit - 1 = n + 1
    BY <1>1, Numbers
  <2> HIDE DEF n
  <2>2. QED
    BY <1>4, <2>1
<1>5. /\ Opening(k) \in 1..n /\ i <= Opening(k)
      /\ buckets[k].attempts < Limit => i + Limit <= Opening(k)
  BY <1>3, <1>4 DEF Opening
<1>6. admitted[k][i] \in Nat /\ admitted[k][Opening(k)] \in Nat
  BY <1>1, <1>5
<1>7. CASE Expired(k)
  <2>1. clock >= admitted[k][Opening(k)] + Window
    BY <1>2, <1>7 DEF WindowOK, Expired
  <2>2. admitted[k][i] <= admitted[k][Opening(k)]
    BY <1>5 DEF WindowOK
  <2>3. QED
    BY <1>1, <1>6, <2>1, <2>2, Numbers
<1>8. CASE ~Expired(k)
  <2>1. buckets[k].attempts < Limit
    BY <1>3, <1>8, Numbers DEF Admit, Exhausted
  <2>2. admitted[k][i] + Window <= admitted[k][Opening(k)]
    BY <1>2, <1>5, <2>1 DEF WindowOK
  <2>3. admitted[k][Opening(k)] <= clock
    BY <1>5 DEF WindowOK
  <2>4. QED
    BY <1>1, <1>6, <2>2, <2>3, Numbers
<1>9. QED
  BY <1>7, <1>8

\* Only an attempt admitted adds to the attempts of a key.
LEMMA SlidingNext ==
  LimiterTypeOK /\ WindowInv /\ SlidingLimit /\ LimiterStep => SlidingLimit'
<1> SUFFICES ASSUME LimiterTypeOK, WindowInv, SlidingLimit, LimiterStep, NEW l \in LoginEmails,
                    NEW i \in 1..Len(admitted'[l]), i + 2 * Limit - 1 <= Len(admitted'[l])
             PROVE  admitted'[l][i + 2 * Limit - 1] >= admitted'[l][i] + Window
  BY DEF SlidingLimit
<1>1. CASE admitted'[l] = admitted[l]
  BY <1>1 DEF SlidingLimit
<1>2. CASE admitted'[l] = <<>>
  BY <1>2
<1>3. CASE Admit(l)
  <2> DEFINE n == Len(admitted[l])
  <2>1. /\ n \in Nat /\ clock \in Nat /\ Len(admitted'[l]) = n + 1
        /\ \A j \in 1..n : admitted'[l][j] = admitted[l][j] /\ admitted[l][j] \in Nat
        /\ admitted'[l][n + 1] = clock
    BY <1>3, Appended
  <2>2. i \in 1..n
    <3>1. i \in Nat /\ i >= 1 /\ Limit \in Nat /\ Limit >= 1 /\ i + 2 * Limit - 1 <= n + 1 /\ n \in Nat
      BY <2>1, Numbers
    <3> HIDE DEF n
    <3>2. QED
      BY <3>1
  <2>3. CASE i + 2 * Limit - 1 = n + 1
    <3>1. admitted[l][i] + Window <= clock
      BY <1>3, <2>2, <2>3, AdmittedInTime DEF WindowInv
    <3>2. QED
      BY <2>1, <2>2, <2>3, <3>1, Numbers
  <2>4. CASE i + 2 * Limit - 1 # n + 1
    <3>1. i + 2 * Limit - 1 \in 1..n
      <4>1. i \in Nat /\ i >= 1 /\ Limit \in Nat /\ Limit >= 1 /\ i + 2 * Limit - 1 <= n + 1 /\ n \in Nat
        BY <2>1, Numbers
      <4> HIDE DEF n
      <4>2. QED
        BY <2>4, <4>1
    <3>2. admitted[l][i + 2 * Limit - 1] >= admitted[l][i] + Window
      BY <2>2, <3>1 DEF SlidingLimit
    <3>3. QED
      BY <2>1, <2>2, <3>1, <3>2
  <2>5. QED
    BY <2>3, <2>4
<1>4. ASSUME NEW k \in LoginEmails, Admit(k), k # l
      PROVE  admitted'[l] = admitted[l]
  BY <1>4, Appended
<1>5. ASSUME NEW k \in Emails, reset(k)
      PROVE  admitted'[l] \in {admitted[l], <<>>}
  BY <1>5 DEF reset, LimiterTypeOK
<1>6. QED
  BY <1>1, <1>2, <1>3, <1>4, <1>5 DEF LimiterStep, Refuse, Tick

-----------------------------------------------------------------------------
(* What a refused client is told. *)

\* Less than a second is dropped from the wait.
ToldInv ==
  \A k \in LoginEmails : told[k] > 0 => told[k] + TicksPerSecond > buckets[k].reset_at

\* A whole number of seconds falls short of a wait by less than one.
LEMMA Truncated ==
  ASSUME NEW m \in Nat, NEW n \in Nat \ {0}
  PROVE  (m \div n) * n + n > m
OBVIOUS

\* The client is told again each time, and forgets it when admitted to a new window.
LEMMA ToldNext == LimiterTypeOK /\ ToldInv /\ LimiterStep => ToldInv'
<1> SUFFICES ASSUME LimiterTypeOK, ToldInv, LimiterStep, NEW l \in LoginEmails, told'[l] > 0
             PROVE  told'[l] + TicksPerSecond > buckets'[l].reset_at
  BY DEF ToldInv
<1>1. CASE told'[l] = told[l] /\ buckets'[l].reset_at = buckets[l].reset_at
  BY <1>1 DEF ToldInv
<1>2. CASE told'[l] = 0
  BY <1>2
<1>3. ASSUME NEW k \in LoginEmails, Admit(k)
      PROVE  told'[l] = 0 \/ (told'[l] = told[l] /\ buckets'[l].reset_at = buckets[l].reset_at)
  <2>1. CASE told' = [told EXCEPT ![k] = 0] /\ buckets' = [buckets EXCEPT ![k] = NewBucket]
    BY <2>1 DEF LimiterTypeOK
  <2>2. CASE UNCHANGED told /\ buckets' = [buckets EXCEPT ![k].attempts = @ + 1]
    BY <2>2 DEF LimiterTypeOK, Bucket
  <2>3. QED
    BY <1>3, <2>1, <2>2 DEF Admit
<1>4. ASSUME NEW k \in Emails, reset(k)
      PROVE  told'[l] = 0 \/ (told'[l] = told[l] /\ buckets'[l].reset_at = buckets[l].reset_at)
  BY <1>4 DEF reset, LimiterTypeOK
<1>5. CASE Refuse(l)
  <2> DEFINE wait == buckets[l].reset_at - clock
             whole == wait \div TicksPerSecond
  <2>1. /\ told'[l] = clock + RetryAfter(l) * TicksPerSecond
        /\ buckets'[l].reset_at = buckets[l].reset_at
    BY <1>5 DEF Refuse, LimiterTypeOK
  <2>2. wait \in Nat /\ RetryAfter(l) \in Nat /\ clock \in Nat /\ buckets[l].reset_at \in Nat
    BY <1>5, WaitIsPositive, Numbers DEF Refuse, LimiterTypeOK, Bucket, Ticks
  <2>3. whole * TicksPerSecond + TicksPerSecond > wait
    BY <2>2, Numbers, Truncated
  <2>4. RetryAfter(l) * TicksPerSecond >= whole * TicksPerSecond
    <3>1. CASE whole = 0
      BY <2>2, <3>1, Numbers DEF RetryAfter
    <3>2. CASE whole # 0
      <4>1. RetryAfter(l) = whole
        BY <3>2 DEF RetryAfter
      <4>2. whole * TicksPerSecond \in Nat
        BY <2>2, <4>1, Numbers
      <4>3. QED
        BY <4>1, <4>2
    <3>3. QED
      BY <3>1, <3>2
  <2>5. whole \in Nat /\ whole * TicksPerSecond \in Nat /\ RetryAfter(l) * TicksPerSecond \in Nat
    BY <2>2, Numbers
  <2> HIDE DEF whole
  <2>6. QED
    BY <2>1, <2>2, <2>3, <2>4, <2>5, Numbers
<1>6. ASSUME NEW k \in LoginEmails, Refuse(k), k # l
      PROVE  told'[l] = told[l] /\ buckets'[l].reset_at = buckets[l].reset_at
  BY <1>6 DEF Refuse, LimiterTypeOK
<1>7. QED
  BY <1>1, <1>2, <1>3, <1>4, <1>5, <1>6 DEF LimiterStep, Tick

-----------------------------------------------------------------------------
(* The theorems about the limiter. *)

\* However attempts and windows fall, any 2 * Limit attempts that one key is admitted
\* without succeeding take a window's length or more.
THEOREM SlidingLimitHolds == Spec => []SlidingLimit
<1>1. Init => WindowInv /\ SlidingLimit
  BY DEF Init, LimiterInit, WindowInv, WindowOK, SlidingLimit
<1>2. TypeOK /\ TypeOK' /\ [Next]_vars => LimiterTypeOK /\ LimiterTypeOK' /\ LimiterStep
  BY LimiterSteps DEF TypeOK
<1>3. TypeOK /\ TypeOK' /\ WindowInv /\ [Next]_vars => WindowInv'
  BY <1>2, WindowNext
<1>4. TypeOK /\ TypeOK' /\ WindowInv /\ SlidingLimit /\ [Next]_vars => SlidingLimit'
  BY <1>2, SlidingNext
<1>5. QED
  BY <1>1, <1>3, <1>4, TypeCorrect, PTL DEF Spec

\* A client that waits one second longer than the 429 response asked is not refused
\* again by the same window, whatever fraction of a second was truncated.
THEOREM RetryAfterHolds == Spec => []RetryAfterNearlySuffices
<1>1. Init => ToldInv
  BY DEF Init, LimiterInit, ToldInv
<1>2. TypeOK /\ ToldInv /\ [Next]_vars => ToldInv'
  BY LimiterSteps, ToldNext DEF TypeOK
<1>3. TypeOK /\ ToldInv => RetryAfterNearlySuffices
  <2> SUFFICES ASSUME TypeOK, ToldInv, NEW k \in LoginEmails, told[k] > 0,
                      clock + 1 >= told[k] + TicksPerSecond
               PROVE  clock >= buckets[k].reset_at
    BY DEF RetryAfterNearlySuffices, Expired
  <2>1. told[k] + TicksPerSecond > buckets[k].reset_at
    BY DEF ToldInv
  <2>2. clock \in Nat /\ told[k] \in Nat /\ buckets[k].reset_at \in Nat
    BY Numbers DEF TypeOK, LimiterTypeOK, Bucket, Ticks
  <2>3. QED
    BY <2>1, <2>2, Numbers
<1>4. QED
  BY <1>1, <1>2, <1>3, TypeCorrect, PTL DEF Spec

-----------------------------------------------------------------------------
(* Signups.  What an open transaction has inserted or locked is its own      *)
(* until it ends, and what it has found committed stays: no row is deleted.  *)

Registering == {"find_user", "insert_user", "demo", "commit"}

\* An organization that is being created does not exist, and one request creates it;
\* one that is being joined exists.
OrgInv ==
  /\ \A u \in Rows : u.org \in orgs
  /\ \A c \in Clients, o \in Orgs : HoldsOrg(c, o) =>
       /\ o \notin orgs
       /\ \A d \in Clients : HoldsOrg(d, o) => d = c
  /\ \A c \in Clients : req[c].pc \in Registering =>
       \/ req[c].mode = "CREATE_ORG_ADMIN"
       \/ req[c].mode = "JOIN_ORG_REVIEWER" /\ req[c].org \in orgs
  /\ \A c \in Clients : req[c].pc = "insert_org" => req[c].mode = "CREATE_ORG_ADMIN"

\* An account that is being registered is new, and one request registers it.
UserInv ==
  /\ \A u, v \in Rows : u.org = v.org /\ u.email = v.email => u = v
  /\ \A u \in User : users[u] <= 1
  /\ \A c \in Clients, o \in Orgs, e \in Emails : HoldsUser(c, o, e) =>
       /\ ~Registered(o, e)
       /\ \A d \in Clients : HoldsUser(d, o, e) => d = c

AdminInv == \A o \in orgs : \E a \in Emails : Admins(o) = {a}

\* Who has locked the demo items joins, is about to commit, and is alone; the items
\* are still free to take.
ItemsInv ==
  \A c \in Clients, o \in Orgs : HoldsItems(c, o) =>
    /\ req[c].mode = "JOIN_ORG_REVIEWER" /\ req[c].pc = "commit"
    /\ Available(o)
    /\ \A d \in Clients : HoldsItems(d, o) => d = c

SignupInv == OrgInv /\ UserInv /\ AdminInv /\ ItemsInv

\* The emails of an organization's admins.
LEMMA AdminEmails ==
  /\ \A o, e : e \in Admins(o) <=> \E u \in Rows : u.org = o /\ u.role = "ADMIN" /\ u.email = e
  /\ \A o, e : e \in Admins(o)' <=> \E u \in Rows' : u.org = o /\ u.role = "ADMIN" /\ u.email = e
BY DEF Admins

\* One organization with its admin, and no request.
LEMMA SignupInit == Init => SignupInv
<1> SUFFICES ASSUME Init PROVE SignupInv
  OBVIOUS
<1>1. \A c \in Clients : req[c].pc = "idle" /\ req[c].takes = FALSE
  <2>1. NoRequest.pc = "idle" /\ NoRequest.takes = FALSE
    BY DEF NoRequest, Sent
  <2>2. QED
    BY <2>1 DEF Init
<1>2. /\ Rows = {SeedUser} /\ orgs = {SeedOrg} /\ \A u \in User : users[u] <= 1
      /\ SeedUser.org = SeedOrg /\ SeedUser.email = SeedAdmin /\ SeedUser.role = "ADMIN"
  <2>1. SeedUser \in User
    BY AccountsAssumption DEF SeedUser, User
  <2>2. \A u \in User : users[u] = IF u = SeedUser THEN 1 ELSE 0
    BY DEF Init
  <2>3. \A u \in User : users[u] <= 1 /\ (users[u] > 0 <=> u = SeedUser)
    BY <2>2
  <2>4. QED
    BY <2>1, <2>3 DEF Init, Rows, SeedUser
<1>3. Admins(SeedOrg) = {SeedAdmin}
  BY <1>2, AdminEmails
<1>4. OrgInv
  BY <1>1, <1>2 DEF OrgInv, HoldsOrg, Registering
<1>5. UserInv
  BY <1>1, <1>2 DEF UserInv, HoldsUser
<1>6. AdminInv
  BY <1>2, <1>3, AccountsAssumption DEF AdminInv
<1>7. ItemsInv
  BY <1>1 DEF ItemsInv, HoldsItems
<1>8. QED
  BY <1>4, <1>5, <1>6, <1>7 DEF SignupInv

\* A step of one request that commits nothing: what it then holds, nobody else does.
LEMMA SignupFrame ==
  ASSUME TypeOK, SignupInv, NEW c \in Clients, NEW q, req' = [req EXCEPT ![c] = q],
         UNCHANGED <<orgs, users, demo>>,
         q.pc \in Registering =>
           \/ /\ q.mode = "CREATE_ORG_ADMIN" /\ q.org \notin orgs
              /\ \A d \in Clients \ {c} : ~HoldsOrg(d, q.org)
           \/ q.mode = "JOIN_ORG_REVIEWER" /\ q.org \in orgs,
         q.pc = "insert_org" => q.mode = "CREATE_ORG_ADMIN",
         q.pc \in {"demo", "commit"} =>
           /\ ~Registered(q.org, q.email)
           /\ \A d \in Clients \ {c} : ~HoldsUser(d, q.org, q.email),
         q.takes =>
           /\ q.mode = "JOIN_ORG_REVIEWER" /\ q.pc = "commit" /\ Available(q.org)
           /\ \A d \in Clients \ {c} : ~HoldsItems(d, q.org)
  PROVE  SignupInv'
<1>1. req'[c] = q /\ \A d \in Clients : d # c => req'[d] = req[d]
  BY DEF TypeOK
<1>2. /\ \A o : HoldsOrg(c, o)' <=> q.org = o /\ q.mode = "CREATE_ORG_ADMIN" /\ q.pc \in Registering
      /\ \A o, e : HoldsUser(c, o, e)' <=> q.org = o /\ q.email = e /\ q.pc \in {"demo", "commit"}
      /\ \A o : HoldsItems(c, o)' <=> q.org = o /\ q.takes
  BY <1>1 DEF HoldsOrg, HoldsUser, HoldsItems, Registering
<1>3. \A d \in Clients : d # c =>
        /\ \A o : HoldsOrg(d, o)' <=> HoldsOrg(d, o)
        /\ \A o, e : HoldsUser(d, o, e)' <=> HoldsUser(d, o, e)
        /\ \A o : HoldsItems(d, o)' <=> HoldsItems(d, o)
  BY <1>1 DEF HoldsOrg, HoldsUser, HoldsItems
<1>4. /\ \A o, e : Registered(o, e)' <=> Registered(o, e)
      /\ \A o : Available(o)' <=> Available(o)
      /\ \A o : Admins(o)' = Admins(o)
  BY DEF Registered, Available, Admins, Rows
<1>5. OrgInv'
  <2>1. \A d, b \in Clients, o \in Orgs :
          HoldsOrg(d, o)' => o \notin orgs /\ (HoldsOrg(b, o)' => b = d)
    BY <1>2, <1>3 DEF SignupInv, OrgInv
  <2>2. \A d \in Clients : req'[d].pc \in Registering =>
          \/ req'[d].mode = "CREATE_ORG_ADMIN"
          \/ req'[d].mode = "JOIN_ORG_REVIEWER" /\ req'[d].org \in orgs
    BY <1>1 DEF SignupInv, OrgInv
  <2>3. \A d \in Clients : req'[d].pc = "insert_org" => req'[d].mode = "CREATE_ORG_ADMIN"
    BY <1>1 DEF SignupInv, OrgInv
  <2>4. QED
    BY <2>1, <2>2, <2>3 DEF SignupInv, OrgInv, Rows
<1>6. UserInv'
  <2>1. \A d, b \in Clients, o \in Orgs, e \in Emails :
          HoldsUser(d, o, e)' => ~Registered(o, e)' /\ (HoldsUser(b, o, e)' => b = d)
    BY <1>2, <1>3, <1>4 DEF SignupInv, UserInv
  <2>2. QED
    BY <2>1 DEF SignupInv, UserInv, Rows
<1>7. AdminInv'
  BY <1>4 DEF SignupInv, AdminInv
<1>8. ItemsInv'
  <2> SUFFICES ASSUME NEW d \in Clients, NEW b \in Clients, NEW o \in Orgs, HoldsItems(d, o)'
               PROVE  /\ req'[d].mode = "JOIN_ORG_REVIEWER" /\ req'[d].pc = "commit"
                      /\ Available(o)'
                      /\ HoldsItems(b, o)' => b = d
    BY DEF ItemsInv
  <2>1. CASE d = c
    BY <1>1, <1>2, <1>3, <1>4, <2>1
  <2>2. CASE d # c
    BY <1>1, <1>2, <1>3, <1>4, <2>2 DEF SignupInv, ItemsInv
  <2>3. QED
    BY <2>1, <2>2
<1>9. QED
  BY <1>5, <1>6, <1>7, <1>8 DEF SignupInv

\* A request that ends, or has not begun its transaction, holds nothing.
LEMMA HoldsNothing ==
  ASSUME TypeOK, SignupInv, NEW c \in Clients, NEW q, req' = [req EXCEPT ![c] = q],
         UNCHANGED <<orgs, users, demo>>,
         q.pc \in {"idle", "lookup", "reset"}, ~q.takes
  PROVE  SignupInv'
BY SignupFrame DEF Registering

\* So it is when the request is answered, raises, or has just been sent.
LEMMA RequestOver ==
  ASSUME TypeOK, SignupInv, NEW c \in Clients, Answers(c) \/ Raises(c),
         UNCHANGED <<orgs, users, demo>>
  PROVE  SignupInv'
<1>1. NoRequest.pc = "idle" /\ NoRequest.takes = FALSE
  BY DEF NoRequest, Sent
<1>2. req' = [req EXCEPT ![c] = NoRequest]
  BY DEF Answers, Raises
<1>3. QED
  BY <1>1, <1>2, HoldsNothing

\* The same for a request just sent.
LEMMA RequestSent ==
  ASSUME TypeOK, SignupInv, NEW c \in Clients, NEW m, NEW o, NEW e,
         req' = [req EXCEPT ![c] = Sent(m, o, e)],
         UNCHANGED <<orgs, users, demo>>
  PROVE  SignupInv'
<1>1. Sent(m, o, e).pc = "lookup" /\ Sent(m, o, e).takes = FALSE
  BY DEF Sent
<1>2. QED
  BY <1>1, HoldsNothing

\* A request that goes on keeps all but its place; before the commit it has locked no items.
LEMMA GoesOn ==
  ASSUME TypeOK, SignupInv, NEW c \in Clients, NEW pc, Goes(c, pc), req[c].pc # "commit"
  PROVE  \E q : /\ req' = [req EXCEPT ![c] = q]
                /\ q.pc = pc /\ q.mode = req[c].mode /\ q.org = req[c].org /\ q.email = req[c].email
                /\ ~q.takes
<1>1. req[c] \in Request
  BY DEF TypeOK
<1>2. ~req[c].takes
  BY <1>1 DEF SignupInv, ItemsInv, HoldsItems, Request
<1>3. /\ [req[c] EXCEPT !.pc = pc].pc = pc
      /\ [req[c] EXCEPT !.pc = pc].mode = req[c].mode
      /\ [req[c] EXCEPT !.pc = pc].org = req[c].org
      /\ [req[c] EXCEPT !.pc = pc].email = req[c].email
      /\ [req[c] EXCEPT !.pc = pc].takes = req[c].takes
  BY <1>1 DEF Request
<1>4. req' = [req EXCEPT ![c] = [req[c] EXCEPT !.pc = pc]]
  BY DEF Goes, TypeOK
<1>5. QED
  BY <1>2, <1>3, <1>4

\* What a request in its transaction has found or inserted so far.
LEMMA Holding ==
  ASSUME TypeOK, SignupInv, NEW c \in Clients, req[c].pc \in Registering
  PROVE  /\ \/ /\ req[c].mode = "CREATE_ORG_ADMIN" /\ req[c].org \notin orgs
               /\ \A d \in Clients \ {c} : ~HoldsOrg(d, req[c].org)
            \/ req[c].mode = "JOIN_ORG_REVIEWER" /\ req[c].org \in orgs
         /\ req[c].pc \in {"demo", "commit"} =>
              /\ ~Registered(req[c].org, req[c].email)
              /\ \A d \in Clients \ {c} : ~HoldsUser(d, req[c].org, req[c].email)
<1>1. req[c].org \in Orgs /\ req[c].email \in Emails
  BY DEF TypeOK, Request
<1>2. req[c].mode = "CREATE_ORG_ADMIN" => HoldsOrg(c, req[c].org)
  BY DEF HoldsOrg, Registering
<1>3. req[c].pc \in {"demo", "commit"} => HoldsUser(c, req[c].org, req[c].email)
  BY DEF HoldsUser
<1>4. QED
  BY <1>1, <1>2, <1>3 DEF SignupInv, OrgInv, UserInv

\* The steps of a signup before its commit.
LEMMA SignupGoesOn ==
  ASSUME TypeOK, SignupInv, NEW c \in Clients,
         \/ CreateOrgLookup(c) \/ JoinOrgLookup(c) \/ InsertOrg(c) \/ FindUser(c)
         \/ InsertUser(c) \/ ensure_signup_demo_work_items(c)
  PROVE  SignupInv'
<1>1. UNCHANGED <<orgs, users, demo>>
  BY DEF CreateOrgLookup, JoinOrgLookup, InsertOrg, FindUser, InsertUser,
     ensure_signup_demo_work_items
<1>2. CASE Answers(c) \/ Raises(c)
  BY <1>1, <1>2, RequestOver
<1>3. CASE CreateOrgLookup(c) /\ Goes(c, "insert_org")
  <2>1. req[c].pc = "lookup" /\ req[c].mode = "CREATE_ORG_ADMIN"
    BY <1>3 DEF CreateOrgLookup
  <2>2. PICK q : /\ req' = [req EXCEPT ![c] = q] /\ ~q.takes
                 /\ q.pc = "insert_org" /\ q.mode = req[c].mode
    BY <1>3, <2>1, GoesOn
  <2>3. QED
    BY <1>1, <2>1, <2>2, SignupFrame DEF Registering
<1>4. CASE JoinOrgLookup(c) /\ req[c].org \in orgs /\ Goes(c, "find_user")
  <2>1. req[c].pc = "lookup" /\ req[c].mode = "JOIN_ORG_REVIEWER"
    BY <1>4 DEF JoinOrgLookup
  <2>2. PICK q : /\ req' = [req EXCEPT ![c] = q] /\ ~q.takes
                 /\ q.pc = "find_user" /\ q.mode = req[c].mode /\ q.org = req[c].org
    BY <1>4, <2>1, GoesOn
  <2>3. QED
    BY <1>1, <1>4, <2>1, <2>2, SignupFrame
<1>5. CASE InsertOrg(c) /\ req[c].org \notin orgs /\ Goes(c, "find_user")
  <2>1. /\ req[c].pc = "insert_org" /\ req[c].mode = "CREATE_ORG_ADMIN"
        /\ \A d \in Clients \ {c} : ~HoldsOrg(d, req[c].org)
    BY <1>5 DEF InsertOrg, SignupInv, OrgInv
  <2>2. PICK q : /\ req' = [req EXCEPT ![c] = q] /\ ~q.takes
                 /\ q.pc = "find_user" /\ q.mode = req[c].mode /\ q.org = req[c].org
    BY <1>5, <2>1, GoesOn
  <2>3. QED
    BY <1>1, <1>5, <2>1, <2>2, SignupFrame
<1>6. CASE FindUser(c) /\ Goes(c, "insert_user")
  <2>1. req[c].pc = "find_user"
    BY <1>6 DEF FindUser
  <2>2. PICK q : /\ req' = [req EXCEPT ![c] = q] /\ ~q.takes
                 /\ q.pc = "insert_user" /\ q.mode = req[c].mode /\ q.org = req[c].org
    BY <1>6, <2>1, GoesOn
  <2>3. QED
    BY <1>1, <2>1, <2>2, Holding, SignupFrame DEF Registering
<1>7. ASSUME InsertUser(c), ~Registered(req[c].org, req[c].email),
             NEW pc \in {"demo", "commit"}, Goes(c, pc)
      PROVE  SignupInv'
  <2>1. /\ req[c].pc = "insert_user"
        /\ \A d \in Clients \ {c} : ~HoldsUser(d, req[c].org, req[c].email)
    BY <1>7 DEF InsertUser
  <2>2. PICK q : /\ req' = [req EXCEPT ![c] = q] /\ ~q.takes /\ q.pc = pc
                 /\ q.mode = req[c].mode /\ q.org = req[c].org /\ q.email = req[c].email
    BY <1>7, <2>1, GoesOn
  <2>3. QED
    BY <1>1, <1>7, <2>1, <2>2, Holding, SignupFrame DEF Registering
<1>8. CASE ensure_signup_demo_work_items(c)
  <2>1. req[c].pc = "demo" /\ Goes(c, "commit")
    BY <1>8 DEF ensure_signup_demo_work_items
  <2>2. PICK q : /\ req' = [req EXCEPT ![c] = q] /\ ~q.takes /\ q.pc = "commit"
                 /\ q.mode = req[c].mode /\ q.org = req[c].org /\ q.email = req[c].email
    BY <2>1, GoesOn
  <2>3. QED
    BY <1>1, <2>1, <2>2, Holding, SignupFrame DEF Registering
<1>9. QED
  BY <1>2, <1>3, <1>4, <1>5, <1>6, <1>7, <1>8
     DEF CreateOrgLookup, JoinOrgLookup, InsertOrg, FindUser, InsertUser, SlugTaken, UserTaken

\* The demo items are locked by one request at a time, which found them free.
LEMMA SignupTakes ==
  ASSUME TypeOK, SignupInv, NEW c \in Clients, assign_signup_demo_work_items_to_reviewer(c)
  PROVE  SignupInv'
<1> DEFINE q == [req[c] EXCEPT !.pc = "commit", !.takes = Available(req[c].org)]
<1>1. /\ req[c].pc = "demo" /\ req[c].mode = "JOIN_ORG_REVIEWER" /\ ItemsUnlocked(c)
      /\ UNCHANGED <<orgs, users, demo>>
  BY DEF assign_signup_demo_work_items_to_reviewer
<1>2. /\ req' = [req EXCEPT ![c] = q]
      /\ q.pc = "commit" /\ q.takes = Available(req[c].org)
      /\ q.mode = req[c].mode /\ q.org = req[c].org /\ q.email = req[c].email
  BY DEF assign_signup_demo_work_items_to_reviewer, TypeOK, Request
<1> HIDE DEF q
<1>3. QED
  BY <1>1, <1>2, Holding, SignupFrame DEF Registering, ItemsUnlocked

\* A commit adds one row, of a user who had none.
LEMMA RowCommitted ==
  ASSUME TypeOK, SignupInv, NEW c \in Clients, CommitSignup(c)
  PROVE  /\ Rows' = Rows \cup {NewUser(c)}
         /\ \A u \in User : users'[u] <= 1
<1>1. req[c] \in Request /\ users \in [User -> Nat]
  BY DEF TypeOK
<1>2. NewUser(c) \in User /\ NewUser(c).org = req[c].org /\ NewUser(c).email = req[c].email
  BY <1>1 DEF Request, NewUser, User
<1>3. ~Registered(req[c].org, req[c].email)
  BY Holding DEF CommitSignup, Registering
<1>4. NewUser(c) \notin Rows
  BY <1>2, <1>3 DEF Registered
<1> DEFINE n == NewUser(c)
<1>5. users' = [users EXCEPT ![n] = users[n] + 1] /\ n \in User /\ n \notin Rows
  BY <1>2, <1>4 DEF CommitSignup
<1> HIDE DEF n
<1>6. users[n] = 0
  BY <1>1, <1>5 DEF Rows
<1>7. users'[n] = 1 /\ \A u \in User : u # n => users'[u] = users[u]
  BY <1>1, <1>5, <1>6
<1>8. \A u \in User : users'[u] <= 1 /\ (users'[u] > 0 <=> users[u] > 0 \/ u = n)
  BY <1>6, <1>7 DEF SignupInv, UserInv
<1>9. QED
  BY <1>5, <1>8 DEF Rows, n

\* What a commit makes of the admins: the one of a new organization, and no other.
LEMMA AdminsCommitted ==
  ASSUME TypeOK, SignupInv, NEW c \in Clients, CommitSignup(c), NEW o
  PROVE  \/ Admins(o)' = Admins(o) /\ (o = req[c].org => o \in orgs)
         \/ Admins(o)' = {req[c].email} /\ o = req[c].org /\ o \notin orgs
<1>1. Rows' = Rows \cup {NewUser(c)} /\ req[c].pc \in Registering
  BY RowCommitted DEF CommitSignup, Registering
<1>2. NewUser(c).org = req[c].org /\ NewUser(c).email = req[c].email
  BY DEF NewUser
<1>3. CASE o # req[c].org
  <2>1. \A e : e \in Admins(o)' <=> e \in Admins(o)
    BY <1>1, <1>2, <1>3, AdminEmails
  <2>2. QED
    BY <1>3, <2>1
<1>4. CASE o = req[c].org /\ req[c].mode = "CREATE_ORG_ADMIN" /\ o \notin orgs
  <2>1. \A u \in Rows : u.org # o
    BY <1>4 DEF SignupInv, OrgInv
  <2>2. NewUser(c).role = "ADMIN"
    BY <1>4 DEF NewUser
  <2>3. \A e : e \in Admins(o)' <=> e = req[c].email
    BY <1>1, <1>2, <1>4, <2>1, <2>2, AdminEmails
  <2>4. QED
    BY <1>4, <2>3
<1>5. CASE o = req[c].org /\ req[c].mode = "JOIN_ORG_REVIEWER" /\ o \in orgs
  <2>1. NewUser(c).role = "REVIEWER"
    BY <1>5 DEF NewUser
  <2>2. \A e : e \in Admins(o)' <=> e \in Admins(o)
    BY <1>1, <1>2, <1>5, <2>1, AdminEmails
  <2>3. QED
    BY <1>5, <2>2
<1>6. QED
  BY <1>1, <1>3, <1>4, <1>5, Holding

\* A commit makes its organization, account and assignment known, and holds nothing
\* any more.
LEMMA SignupCommits ==
  ASSUME TypeOK, SignupInv, NEW c \in Clients, CommitSignup(c)
  PROVE  SignupInv'
<1>1. /\ req[c].pc = "commit" /\ req[c].pc \in Registering
      /\ orgs' = orgs \cup {req[c].org} /\ Rows' = Rows \cup {NewUser(c)}
      /\ demo' = [demo EXCEPT ![req[c].org] = DemoOwner(c)]
      /\ req' = [req EXCEPT ![c] = NoRequest]
  BY RowCommitted DEF CommitSignup, Answers, Registering
<1>2. NewUser(c).org = req[c].org /\ NewUser(c).email = req[c].email
  BY DEF NewUser
<1>3. /\ req'[c].pc = "idle" /\ req'[c].takes = FALSE
      /\ \A d \in Clients : d # c => req'[d] = req[d]
  BY <1>1 DEF TypeOK, NoRequest, Sent
<1>4. \A d \in Clients :
        /\ \A o : HoldsOrg(d, o)' => d # c /\ HoldsOrg(d, o)
        /\ \A o, e : HoldsUser(d, o, e)' => d # c /\ HoldsUser(d, o, e)
        /\ \A o : HoldsItems(d, o)' => d # c /\ HoldsItems(d, o)
  BY <1>3 DEF HoldsOrg, HoldsUser, HoldsItems
<1>5. OrgInv'
  <2>1. \A d \in Clients, o \in Orgs : HoldsOrg(d, o)' => o \notin orgs'
    BY <1>1, <1>4, Holding DEF SignupInv, OrgInv
  <2>2. \A d, b \in Clients, o \in Orgs : HoldsOrg(d, o)' /\ HoldsOrg(b, o)' => b = d
    BY <1>4 DEF SignupInv, OrgInv
  <2>3. \A d \in Clients : req'[d].pc \in Registering =>
          \/ req'[d].mode = "CREATE_ORG_ADMIN"
          \/ req'[d].mode = "JOIN_ORG_REVIEWER" /\ req'[d].org \in orgs'
    BY <1>1, <1>3 DEF SignupInv, OrgInv, Registering
  <2>4. \A d \in Clients : req'[d].pc = "insert_org" => req'[d].mode = "CREATE_ORG_ADMIN"
    BY <1>3 DEF SignupInv, OrgInv
  <2>5. \A u \in Rows' : u.org \in orgs'
    BY <1>1, <1>2 DEF SignupInv, OrgInv
  <2>6. QED
    BY <2>1, <2>2, <2>3, <2>4, <2>5 DEF OrgInv
<1>6. UserInv'
  <2>1. ~Registered(req[c].org, req[c].email)
    BY <1>1, Holding
  <2>2. \A u, v \in Rows' : u.org = v.org /\ u.email = v.email => u = v
    BY <1>1, <1>2, <2>1 DEF SignupInv, UserInv, Registered
  <2>3. \A d \in Clients, o \in Orgs, e \in Emails : HoldsUser(d, o, e)' => ~Registered(o, e)'
    <3> SUFFICES ASSUME NEW d \in Clients, NEW o \in Orgs, NEW e \in Emails, HoldsUser(d, o, e)'
                 PROVE  ~Registered(o, e)'
      OBVIOUS
    <3>1. d # c /\ HoldsUser(d, o, e) /\ ~Registered(o, e)
      BY <1>4 DEF SignupInv, UserInv
    <3>2. o # req[c].org \/ e # req[c].email
      BY <1>1, <3>1, Holding
    <3>3. QED
      BY <1>1, <1>2, <3>1, <3>2 DEF Registered
  <2>4. \A d, b \in Clients, o \in Orgs, e \in Emails :
          HoldsUser(d, o, e)' /\ HoldsUser(b, o, e)' => b = d
    BY <1>4 DEF SignupInv, UserInv
  <2>5. QED
    BY <2>2, <2>3, <2>4, RowCommitted DEF UserInv
<1>7. AdminInv'
  <2>1. req[c].email \in Emails
    BY DEF TypeOK, Request
  <2>2. QED
    BY <1>1, <2>1, AdminsCommitted DEF SignupInv, AdminInv
<1>8. ItemsInv'
  <2> SUFFICES ASSUME NEW d \in Clients, NEW b \in Clients, NEW o \in Orgs, HoldsItems(d, o)'
               PROVE  /\ req'[d].mode = "JOIN_ORG_REVIEWER" /\ req'[d].pc = "commit"
                      /\ Available(o)'
                      /\ HoldsItems(b, o)' => b = d
    BY DEF ItemsInv
  <2>1. /\ d # c /\ HoldsItems(d, o) /\ req'[d] = req[d]
        /\ req[d].mode = "JOIN_ORG_REVIEWER" /\ req[d].pc = "commit" /\ Available(o)
        /\ HoldsItems(b, o)' => b = d
    BY <1>3, <1>4 DEF SignupInv, ItemsInv
  <2>2. o \in orgs
    BY <2>1 DEF SignupInv, OrgInv, HoldsItems, Registering
  <2>3. Admins(o)' = Admins(o)
    BY <2>2, AdminsCommitted
  <2>4. demo'[o] = demo[o]
    <3>1. CASE o # req[c].org
      BY <1>1, <3>1 DEF TypeOK
    <3>2. CASE o = req[c].org
      <4>1. req[c].mode = "JOIN_ORG_REVIEWER"
        BY <1>1, <2>2, <3>2, Holding
      <4>2. ~req[c].takes
        BY <2>1, <3>2 DEF SignupInv, ItemsInv, HoldsItems
      <4>3. DemoOwner(c) = demo[o]
        BY <3>2, <4>1, <4>2 DEF DemoOwner
      <4>4. QED
        BY <1>1, <3>2, <4>3 DEF TypeOK
    <3>3. QED
      BY <3>1, <3>2
  <2>5. QED
    BY <2>1, <2>3, <2>4 DEF Available
<1>9. QED
  BY <1>5, <1>6, <1>7, <1>8 DEF SignupInv

\* However signups race, their locks and the unique rows keep them apart.
LEMMA SignupNext == TypeOK /\ SignupInv /\ [Next]_vars => SignupInv'
<1> SUFFICES ASSUME TypeOK, SignupInv, [Next]_vars PROVE SignupInv'
  OBVIOUS
<1>1. CASE UNCHANGED accountVars
  BY <1>1 DEF SignupInv, OrgInv, UserInv, AdminInv, ItemsInv, Admins, Registered, Available,
     Rows, HoldsOrg, HoldsUser, HoldsItems
<1>2. ASSUME NEW c \in Clients, NEW e \in LoginEmails, StartLogin(c, e)
      PROVE  SignupInv'
  BY <1>2, RequestSent DEF StartLogin
<1>3. ASSUME NEW c \in Clients, NEW m \in SignupModes, NEW o \in Orgs, NEW e \in Emails,
             StartSignup(c, m, o, e)
      PROVE  SignupInv'
  BY <1>3, RequestSent DEF StartSignup
<1>4. ASSUME NEW c \in Clients, login(c)
      PROVE  SignupInv'
  <2>1. UNCHANGED <<orgs, users, demo>> /\ req[c].pc = "lookup"
    BY <1>4 DEF login
  <2>2. CASE Answers(c)
    BY <2>1, <2>2, RequestOver
  <2>3. CASE Goes(c, "reset")
    <3>1. PICK q : req' = [req EXCEPT ![c] = q] /\ q.pc = "reset" /\ ~q.takes
      BY <2>1, <2>3, GoesOn
    <3>2. QED
      BY <2>1, <3>1, HoldsNothing
  <2>4. QED
    BY <1>4, <2>2, <2>3 DEF login
<1>5. ASSUME NEW c \in Clients, LoginDone(c) \/ ConnectionLost(c)
      PROVE  SignupInv'
  BY <1>5, RequestOver DEF LoginDone, ConnectionLost
<1>6. ASSUME NEW c \in Clients, signup(c)
      PROVE  SignupInv'
  BY <1>6, SignupGoesOn, SignupTakes, SignupCommits DEF signup
<1>7. QED
  BY <1>1, <1>2, <1>3, <1>4, <1>5, <1>6 DEF Next, LoginRefused, Quiet

-----------------------------------------------------------------------------
(* The theorems about signups. *)

\* However signups race, an email has one row in an organization, in whatever
\* role, and an organization has exactly the one admin whose signup created it.
THEOREM OneAccountHolds == Spec => []OneAccountOneAdmin
<1>1. SignupInv => OneAccountOneAdmin
  <2> SUFFICES ASSUME SignupInv PROVE OneAccountOneAdmin
    OBVIOUS
  <2>1. ASSUME NEW o \in orgs PROVE Cardinality(Admins(o)) = 1
    <3>1. PICK a \in Emails : Admins(o) = {a}
      BY DEF SignupInv, AdminInv
    <3>2. QED
      BY <3>1, FS_Singleton
  <2>2. QED
    BY <2>1 DEF SignupInv, UserInv, OneAccountOneAdmin
<1>2. QED
  BY <1>1, SignupInit, SignupNext, TypeCorrect, PTL DEF Spec

\* The demo items of a reviewer are never taken by a later signup: who takes them
\* found them, behind its locks, unassigned or an admin's, and they still are.
THEOREM DemoItemsHold == Spec => DemoItemsKept
<1>1. ASSUME TypeOK, SignupInv, [Next]_vars, NEW u \in Rows, u.role = "REVIEWER",
             demo[u.org] = u.email
      PROVE  demo'[u.org] = u.email
  <2>1. CASE demo' = demo
    BY <1>1, <2>1
  <2>2. ASSUME NEW c \in Clients, CommitSignup(c)
        PROVE  demo'[u.org] = u.email
    <3>1. /\ u.org \in Orgs /\ u.email \in Emails /\ u.org \in orgs
          /\ u.email # Unassigned /\ u.email \notin Admins(u.org)
      <4>1. u \in User /\ u.org \in orgs
        BY <1>1 DEF TypeOK, SignupInv, OrgInv, Rows
      <4>2. u.email \notin Admins(u.org)
        BY <1>1, AdminEmails DEF SignupInv, UserInv
      <4>3. QED
        BY <4>1, <4>2, AccountsAssumption DEF User
    <3>2. demo' = [demo EXCEPT ![req[c].org] = DemoOwner(c)] /\ req[c].pc \in Registering
      BY <2>2 DEF CommitSignup, Registering
    <3>3. CASE req[c].org # u.org
      BY <1>1, <3>1, <3>2, <3>3 DEF TypeOK
    <3>4. CASE req[c].org = u.org
      <4>1. req[c].mode = "JOIN_ORG_REVIEWER"
        BY <1>1, <3>1, <3>2, <3>4, Holding
      <4>2. ~req[c].takes
        BY <1>1, <3>1, <3>4 DEF SignupInv, ItemsInv, HoldsItems, Available
      <4>3. DemoOwner(c) = u.email
        BY <1>1, <3>4, <4>1, <4>2 DEF DemoOwner
      <4>4. QED
        BY <1>1, <3>1, <3>2, <3>4, <4>3 DEF TypeOK
    <3>5. QED
      BY <3>3, <3>4
  <2>3. demo' = demo \/ \E c \in Clients : CommitSignup(c)
    BY <1>1 DEF Next, StartLogin, LoginRefused, StartSignup, login, LoginDone, signup,
       CreateOrgLookup, JoinOrgLookup, InsertOrg, FindUser, InsertUser,
       ensure_signup_demo_work_items, assign_signup_demo_work_items_to_reviewer, ConnectionLost,
       Quiet
  <2>4. QED
    BY <2>1, <2>2, <2>3
<1>2. TypeOK /\ SignupInv /\ [Next]_vars =>
        [\A u \in Rows : u.role = "REVIEWER" /\ demo[u.org] = u.email => demo'[u.org] = u.email]_vars
  BY <1>1
<1>3. QED
  BY <1>2, SignupInit, SignupNext, TypeCorrect, PTL DEF Spec, DemoItemsKept

=============================================================================
