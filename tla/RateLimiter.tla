---------------------------- MODULE RateLimiter -----------------------------
(***************************************************************************)
(* LoginRateLimiter (auth/rate_limit.py): a bucket per key counts attempts *)
(* in a fixed window that its first attempt opens.  check runs before the  *)
(* request's first await, so it is atomic; the buckets live in one API     *)
(* process.  A key is an email here: all clients share a host, and the     *)
(* purpose is login.  Time is counted in ticks: monotonic() is a float.    *)
(***************************************************************************)
EXTENDS Naturals, FiniteSets, Sequences

CONSTANTS
  Emails,
  LoginEmails,     \* the emails that clients log in with
  Limit,           \* attempts_limit
  WindowSeconds,   \* window_seconds
  TicksPerSecond,
  MaxClock         \* bound: time stops here

ASSUME LimiterAssumption ==
  /\ LoginEmails \subseteq Emails
  /\ Limit \in Nat \ {0}
  /\ WindowSeconds \in Nat \ {0} /\ TicksPerSecond \in Nat \ {0}
  /\ MaxClock \in Nat

VARIABLES
  clock,    \* ticks
  buckets,  \* the live buckets
  admitted, \* history: the ticks of the attempts admitted since the key's last reset
  told      \* history: the tick a refused client was told to come back at, 0 if none

limiterVars == <<clock, buckets, admitted, told>>

-----------------------------------------------------------------------------
Window == WindowSeconds * TicksPerSecond
Ticks == 0..MaxClock

Bucket == [attempts: 0..Limit, reset_at: 0..(MaxClock + Window)]
NoBucket == [attempts |-> 0, reset_at |-> 0]

\* A bucket never counts past the limit nor outlives a window from now.
LimiterTypeOK ==
  /\ clock \in Ticks
  /\ buckets \in [LoginEmails -> Bucket]
  /\ admitted \in [LoginEmails -> Seq(Ticks)]
  /\ told \in [LoginEmails -> Nat]

LimiterInit ==
  /\ clock = 0
  /\ buckets = [k \in LoginEmails |-> NoBucket]
  /\ admitted = [k \in LoginEmails |-> <<>>]
  /\ told = [k \in LoginEmails |-> 0]

\* The key has no bucket, or one whose window is over.
Expired(k) == buckets[k] = NoBucket \/ clock >= buckets[k].reset_at

\* As if the limit were compared with > instead of >=.
OverLimit(k) == buckets[k].attempts > Limit

Exhausted(k) == buckets[k].attempts >= Limit

\* As if the attempt that opens a window were not counted.
FirstUncounted == [attempts |-> 0, reset_at |-> clock + Window]

NewBucket == [attempts |-> 1, reset_at |-> clock + Window]

\* check returns None.
Admit(k) ==
  /\ \/ /\ Expired(k)
        /\ buckets' = [buckets EXCEPT ![k] = NewBucket]
        /\ told' = [told EXCEPT ![k] = 0]
     \/ /\ ~Expired(k) /\ ~Exhausted(k)
        /\ buckets' = [buckets EXCEPT ![k].attempts = @ + 1]
        /\ UNCHANGED told
  /\ admitted' = [admitted EXCEPT ![k] = Append(@, clock)]
  /\ UNCHANGED clock

\* As if the seconds since the window opened were returned.
SecondsElapsed(k) == (clock + Window - buckets[k].reset_at) \div TicksPerSecond

\* max(1, int(reset_at - now)): int drops the fraction of a second.
RetryAfter(k) ==
  LET seconds == (buckets[k].reset_at - clock) \div TicksPerSecond
  IN  IF seconds = 0 THEN 1 ELSE seconds

\* check returns the seconds to wait, which the 429 response passes on.
Refuse(k) ==
  /\ ~Expired(k) /\ Exhausted(k)
  /\ told' = [told EXCEPT ![k] = clock + RetryAfter(k) * TicksPerSecond]
  /\ UNCHANGED <<clock, buckets, admitted>>

reset(k) ==
  /\ buckets' = [buckets EXCEPT ![k] = NoBucket]
  /\ admitted' = [admitted EXCEPT ![k] = <<>>]
  /\ told' = [told EXCEPT ![k] = 0]
  /\ UNCHANGED clock

Tick ==
  /\ clock < MaxClock
  /\ clock' = clock + 1
  /\ UNCHANGED <<buckets, admitted, told>>

-----------------------------------------------------------------------------
\* However the windows fall, a key that never succeeds is admitted less than twice
\* the limit in any span of a window's length: of 2 * Limit attempts admitted one
\* after the other, the last is a window or more after the first.
SlidingLimit ==
  \A k \in LoginEmails : \A i \in 1..Len(admitted[k]) :
    i + 2 * Limit - 1 <= Len(admitted[k]) =>
      admitted[k][i + 2 * Limit - 1] >= admitted[k][i] + Window

\* A client that waits as long as the 429 response asks meets an open window, or
\* meets it within the second that the truncation dropped.
RetryAfterNearlySuffices ==
  \A k \in LoginEmails : told[k] > 0 /\ clock + 1 >= told[k] + TicksPerSecond => Expired(k)

=============================================================================
