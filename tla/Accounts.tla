------------------------------ MODULE Accounts ------------------------------
(***************************************************************************)
(* Signup and login (api/routes/auth.py) with the demo items that a signup *)
(* creates or takes over (db/demo_work_items.py).  Each statement of a     *)
(* signup's transaction that reads, or may wait for, what another request  *)
(* writes is a step; its writes are seen by others at the commit.          *)
(***************************************************************************)
EXTENDS RateLimiter

CONSTANTS
  Clients,      \* requests in flight at the same time
  Orgs,         \* organization slugs
  SeedOrg,      \* the organization that exists at first
  SeedAdmin,    \* the email of its admin
  NoItems,      \* the organization has no demo items
  Unassigned,   \* its demo items have no reviewer
  DemoData,     \* signup_demo_data_enabled
  MaxSignups    \* bound: signups started

ASSUME AccountsAssumption ==
  /\ SeedOrg \in Orgs /\ SeedAdmin \in Emails
  /\ NoItems # Unassigned /\ {NoItems, Unassigned} \cap Emails = {}
  /\ DemoData \in BOOLEAN
  /\ MaxSignups \in Nat

VARIABLES
  orgs,     \* committed organizations
  users,    \* how many committed rows each user has
  demo,     \* the assigned reviewer of each organization's demo items
  req,      \* each client's request
  raised,   \* history: a duplicate row raised an exception that nobody handled
  signups   \* the number of signups started so far

accountVars == <<orgs, users, demo, req, raised, signups>>
vars == <<limiterVars, accountVars>>

-----------------------------------------------------------------------------
SignupModes == {"CREATE_ORG_ADMIN", "JOIN_ORG_REVIEWER"}

User == [org: Orgs, email: Emails, role: {"ADMIN", "REVIEWER"}]

\* takes: the transaction holds the locks of the demo items and reassigns them.
Request ==
  [pc: {"idle", "lookup", "insert_org", "find_user", "insert_user", "demo", "commit", "reset"},
   mode: SignupModes \cup {"login"}, org: Orgs, email: Emails, takes: BOOLEAN]

TypeOK ==
  /\ LimiterTypeOK
  /\ orgs \subseteq Orgs
  /\ users \in [User -> Nat]
  /\ demo \in [Orgs -> Emails \cup {NoItems, Unassigned}]
  /\ req \in [Clients -> Request]
  /\ raised \in BOOLEAN
  /\ signups \in 0..MaxSignups

Sent(m, o, e) ==
  [pc |-> "lookup", mode |-> m, org |-> o, email |-> e, takes |-> FALSE]
NoRequest == [Sent("login", SeedOrg, SeedAdmin) EXCEPT !.pc = "idle"]

SeedUser == [org |-> SeedOrg, email |-> SeedAdmin, role |-> "ADMIN"]

\* The demo items of older signups belonged to the admin.
Init ==
  /\ LimiterInit
  /\ orgs = {SeedOrg}
  /\ users = [u \in User |-> IF u = SeedUser THEN 1 ELSE 0]
  /\ \E owner \in {NoItems, Unassigned, SeedAdmin} :
       demo = [o \in Orgs |-> IF o = SeedOrg THEN owner ELSE NoItems]
  /\ req = [c \in Clients |-> NoRequest]
  /\ raised = FALSE
  /\ signups = 0

Rows == {u \in User : users[u] > 0}

Admins(o) == {u.email : u \in {v \in Rows : v.org = o /\ v.role = "ADMIN"}}
Registered(o, e) == \E u \in Rows : u.org = o /\ u.email = e

Goes(c, pc) == req' = [req EXCEPT ![c].pc = pc] /\ UNCHANGED raised

\* The request ends with a response; an open transaction is rolled back and its
\* locks are released.
Answers(c) == req' = [req EXCEPT ![c] = NoRequest] /\ UNCHANGED raised

\* A duplicate row ends the request with an exception: 500 from the framework.
Raises(c) == req' = [req EXCEPT ![c] = NoRequest] /\ raised' = TRUE

-----------------------------------------------------------------------------
(* A login passes the rate limiter before anything else, and resets it in  *)
(* the end.  Signups have a limiter of their own, whose buckets are left   *)
(* out: a signup it refuses changes nothing.                               *)

StartLogin(c, e) ==
  /\ req[c].pc = "idle"
  /\ Admit(e)
  /\ \E o \in Orgs : req' = [req EXCEPT ![c] = Sent("login", o, e)]
  /\ UNCHANGED <<orgs, users, demo, raised, signups>>

LoginRefused(c, e) ==
  /\ req[c].pc = "idle"
  /\ Refuse(e)
  /\ UNCHANGED accountVars

LoginDone(c) ==
  /\ req[c].pc = "reset"
  /\ reset(req[c].email)
  /\ Answers(c)
  /\ UNCHANGED <<orgs, users, demo, signups>>

-----------------------------------------------------------------------------
(* login: with or without organization_slug. *)

SoleMatch(c) ==
  \E u \in Rows : users[u] = 1 /\ \A v \in Rows : v.email = req[c].email <=> v = u

\* The answer 400 (several organizations and no slug) or 401 (no such user, or a
\* wrong password), or success: without a slug the email must be unique.
login(c) ==
  /\ req[c].pc = "lookup" /\ req[c].mode = "login"
  /\ \/ Answers(c)
     \/ (SoleMatch(c) \/ Registered(req[c].org, req[c].email)) /\ Goes(c, "reset")
  /\ UNCHANGED <<limiterVars, orgs, users, demo, signups>>

-----------------------------------------------------------------------------
(* signup. *)

StartSignup(c, m, o, e) ==
  /\ req[c].pc = "idle"
  /\ signups < MaxSignups
  /\ req' = [req EXCEPT ![c] = Sent(m, o, e)]
  /\ signups' = signups + 1
  /\ UNCHANGED <<limiterVars, orgs, users, demo, raised>>

CreateOrgLookup(c) ==
  /\ req[c].pc = "lookup" /\ req[c].mode = "CREATE_ORG_ADMIN"
  /\ IF req[c].org \in orgs THEN Answers(c) ELSE Goes(c, "insert_org")
  /\ UNCHANGED <<limiterVars, orgs, users, demo, signups>>

JoinOrgLookup(c) ==
  /\ req[c].pc = "lookup" /\ req[c].mode = "JOIN_ORG_REVIEWER"
  /\ \/ Answers(c)
     \/ req[c].org \in orgs /\ Goes(c, "find_user")
  /\ UNCHANGED <<limiterVars, orgs, users, demo, signups>>

\* What client d's open transaction has inserted or locked.
HoldsOrg(d, o) ==
  /\ req[d].org = o /\ req[d].mode = "CREATE_ORG_ADMIN"
  /\ req[d].pc \in {"find_user", "insert_user", "demo", "commit"}
HoldsUser(d, o, e) == req[d].org = o /\ req[d].email = e /\ req[d].pc \in {"demo", "commit"}
HoldsItems(d, o) == req[d].org = o /\ req[d].takes

\* As if organizations.slug were not unique.
SlugNotUnique(o) == FALSE

SlugTaken(o) == o \in orgs

\* A flush waits for a pending insert of the same row.  A duplicate raises
\* IntegrityError in the flush, outside the try block around the commit: 500.
InsertOrg(c) ==
  /\ req[c].pc = "insert_org"
  /\ \A d \in Clients \ {c} : ~HoldsOrg(d, req[c].org)
  /\ IF SlugTaken(req[c].org) THEN Raises(c) ELSE Goes(c, "find_user")
  /\ UNCHANGED <<limiterVars, orgs, users, demo, signups>>

\* As if users.(organization_id, email) were not unique.
UserNotUnique(o, e) == FALSE

UserTaken(o, e) == Registered(o, e)

FindUser(c) ==
  /\ req[c].pc = "find_user"
  /\ IF Registered(req[c].org, req[c].email) THEN Answers(c) ELSE Goes(c, "insert_user")
  /\ UNCHANGED <<limiterVars, orgs, users, demo, signups>>

InsertUser(c) ==
  /\ req[c].pc = "insert_user"
  /\ \A d \in Clients \ {c} : ~HoldsUser(d, req[c].org, req[c].email)
  /\ IF UserTaken(req[c].org, req[c].email) THEN Raises(c)
     ELSE Goes(c, IF DemoData THEN "demo" ELSE "commit")
  /\ UNCHANGED <<limiterVars, orgs, users, demo, signups>>

ensure_signup_demo_work_items(c) ==
  /\ req[c].pc = "demo" /\ req[c].mode = "CREATE_ORG_ADMIN"
  /\ Goes(c, "commit")
  /\ UNCHANGED <<limiterVars, orgs, users, demo, signups>>

\* As if the items were selected without FOR UPDATE.
NoItemLocks(c) == TRUE

ItemsUnlocked(c) == \A d \in Clients \ {c} : ~HoldsItems(d, req[c].org)

Available(o) == demo[o] = Unassigned \/ demo[o] \in Admins(o)

\* FOR UPDATE waits for the locks, then tests the committed assignment again.
assign_signup_demo_work_items_to_reviewer(c) ==
  /\ req[c].pc = "demo" /\ req[c].mode = "JOIN_ORG_REVIEWER"
  /\ ItemsUnlocked(c)
  /\ req' = [req EXCEPT ![c] = [@ EXCEPT !.pc = "commit", !.takes = Available(req[c].org)]]
  /\ UNCHANGED <<limiterVars, orgs, users, demo, raised, signups>>

NewUser(c) ==
  [org |-> req[c].org, email |-> req[c].email,
   role |-> IF req[c].mode = "CREATE_ORG_ADMIN" THEN "ADMIN" ELSE "REVIEWER"]

DemoOwner(c) ==
  IF req[c].takes THEN req[c].email
  ELSE IF DemoData /\ req[c].mode = "CREATE_ORG_ADMIN" THEN Unassigned ELSE demo[req[c].org]

CommitSignup(c) ==
  /\ req[c].pc = "commit"
  /\ orgs' = orgs \cup {req[c].org}
  /\ users' = [users EXCEPT ![NewUser(c)] = @ + 1]
  /\ demo' = [demo EXCEPT ![req[c].org] = DemoOwner(c)]
  /\ Answers(c)
  /\ UNCHANGED <<limiterVars, signups>>

\* The database connection is lost before the commit; that is a 500 as well.
ConnectionLost(c) ==
  /\ req[c].pc # "idle"
  /\ Answers(c)
  /\ UNCHANGED <<limiterVars, orgs, users, demo, signups>>

-----------------------------------------------------------------------------
signup(c) ==
  \/ CreateOrgLookup(c) \/ JoinOrgLookup(c) \/ InsertOrg(c) \/ FindUser(c) \/ InsertUser(c)
  \/ ensure_signup_demo_work_items(c) \/ assign_signup_demo_work_items_to_reviewer(c)
  \/ CommitSignup(c)

\* Nobody needs to send anything.
Quiet == (\A c \in Clients : req[c].pc = "idle") /\ UNCHANGED vars

Next ==
  \/ \E c \in Clients, e \in LoginEmails : StartLogin(c, e) \/ LoginRefused(c, e)
  \/ \E c \in Clients, m \in SignupModes, o \in Orgs, e \in Emails : StartSignup(c, m, o, e)
  \/ \E c \in Clients : login(c) \/ LoginDone(c) \/ signup(c) \/ ConnectionLost(c)
  \/ Tick /\ UNCHANGED accountVars
  \/ Quiet

Spec == Init /\ [][Next]_vars

-----------------------------------------------------------------------------
\* However signups race, an email has one row in an organization, in whatever
\* role, and an organization has exactly the one admin whose signup created it.
OneAccountOneAdmin ==
  /\ \A u, v \in Rows : u.org = v.org /\ u.email = v.email => u = v
  /\ \A u \in User : users[u] <= 1
  /\ \A o \in orgs : Cardinality(Admins(o)) = 1

\* The demo items of a reviewer are never taken by a later signup.
DemoItemsKept ==
  [][\A u \in Rows : u.role = "REVIEWER" /\ demo[u.org] = u.email => demo'[u.org] = u.email]_vars

\* A duplicate organization or user is answered with 409, as the handler of
\* IntegrityError around the commit says.
ConflictsAnswered409 == ~raised

=============================================================================
