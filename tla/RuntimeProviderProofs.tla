------------------------ MODULE RuntimeProviderProofs -----------------------
(***************************************************************************)
(* Proofs about RuntimeProvider, for all organizations, processes and      *)
(* environments: that the audit log tells the provider in use, and that    *)
(* the shared cache never hands out another provider.                      *)
(***************************************************************************)
EXTENDS RuntimeProvider, TLAPS

USE DEF vars

\* An entry of the cache is the provider its key names.
CacheInv == \A p \in Procs, x \in Providers : cache[p][x] \in {None, x}

-----------------------------------------------------------------------------
(* The operators the handlers are built from. *)

\* The effective provider is a provider.
LEMMA EffectiveType ==
  ASSUME TypeOK, NEW p \in Procs, NEW o \in Orgs
  PROVE  Effective(p, o) \in Providers
BY RuntimeProviderAssumption DEF TypeOK, Effective, Settings

\* Looking a provider up fills its own entry only, and returns it.
LEMMA LookUp ==
  ASSUME NEW entries \in [Providers -> Providers \cup {None}], NEW x \in Providers,
         \A y \in Providers : entries[y] \in {None, y}
  PROVE  /\ Cached(entries, x) \in [Providers -> Providers \cup {None}]
         /\ \A y \in Providers : Cached(entries, x)[y] \in {None, y}
         /\ Object(entries, x) = x
<1>1. /\ Cached(entries, x) \in [Providers -> Providers \cup {None}]
      /\ \A y \in Providers : Cached(entries, x)[y] =
           IF y = x /\ entries[y] = None THEN x ELSE entries[y]
  BY DEF Cached, CacheKey
<1>2. None # x
  BY RuntimeProviderAssumption
<1>3. QED
  BY <1>1, <1>2 DEF Object, CacheKey

\* A process that starts has at most its environment's provider in the cache.
LEMMA StartedCache ==
  ASSUME NEW s \in Deployments
  PROVE  /\ StartCache(s) \in [Providers -> Providers \cup {None}]
         /\ \A y \in Providers : StartCache(s)[y] \in {None, y}
<1>1. /\ EmptyCache \in [Providers -> Providers \cup {None}]
      /\ \A y \in Providers : EmptyCache[y] \in {None, y}
  BY DEF EmptyCache
<1>2. /\ Cached(EmptyCache, "anthropic") \in [Providers -> Providers \cup {None}]
      /\ \A y \in Providers : Cached(EmptyCache, "anthropic")[y] \in {None, y}
  BY <1>1, LookUp DEF Providers
<1>3. QED
  BY <1>1, <1>2 DEF StartCache

-----------------------------------------------------------------------------
\* Processes start with no override and at most their own provider cached.
LEMMA Initially == Init => TypeOK /\ CacheInv /\ AuditTellsProvider
<1> SUFFICES ASSUME Init PROVE TypeOK /\ CacheInv /\ AuditTellsProvider
  OBVIOUS
<1>1. \A p \in Procs : settings[p] \in Deployments /\ cache[p] = StartCache(settings[p])
  BY DEF Init
<1>2. /\ cache \in [Procs -> [Providers -> Providers \cup {None}]]
      /\ CacheInv
  BY <1>1, StartedCache DEF Init, CacheInv
<1>3. \A p \in Procs, o \in Orgs : overrides[p][o] = None /\ audit[p][o] = None
  BY DEF Init, NoOverrides
<1>4. TypeOK
  BY <1>2 DEF Init, TypeOK, NoOverrides, NoPage, NoSwitch, NoRegen
<1>5. QED
  BY <1>2, <1>3, <1>4 DEF AuditTellsProvider, Effective

\* The cache of every process keeps its type, and its entries their names.
LEMMA CacheNext ==
  ASSUME TypeOK, CacheInv, [Next]_vars
  PROVE  cache' \in [Procs -> [Providers -> Providers \cup {None}]] /\ CacheInv'
<1>1. CASE UNCHANGED cache
  BY <1>1 DEF TypeOK, CacheInv
<1>2. ASSUME NEW p \in Procs, NEW entries \in [Providers -> Providers \cup {None}],
             \A y \in Providers : entries[y] \in {None, y},
             cache' = [cache EXCEPT ![p] = entries]
      PROVE  cache' \in [Procs -> [Providers -> Providers \cup {None}]] /\ CacheInv'
  BY <1>2 DEF TypeOK, CacheInv
<1>3. ASSUME NEW a \in Pages, NEW p \in Procs, NEW x \in Providers,
             update_runtime_llm_provider(a, p, x)
      PROVE  cache' \in [Procs -> [Providers -> Providers \cup {None}]] /\ CacheInv'
  <2>1. /\ EmptyCache \in [Providers -> Providers \cup {None}]
        /\ \A y \in Providers : EmptyCache[y] \in {None, y}
    BY DEF EmptyCache
  <2>2. QED
    BY <1>2, <1>3, <2>1 DEF update_runtime_llm_provider
<1>4. ASSUME NEW o \in Orgs, NEW p \in Procs, Regenerate(o, p)
      PROVE  cache' \in [Procs -> [Providers -> Providers \cup {None}]] /\ CacheInv'
  <2>1. /\ cache[p] \in [Providers -> Providers \cup {None}]
        /\ \A y \in Providers : cache[p][y] \in {None, y}
    BY DEF TypeOK, CacheInv
  <2>2. cache' = [cache EXCEPT ![p] = Cached(cache[p], Effective(p, o))]
    BY <1>4 DEF Regenerate
  <2>3. QED
    BY <1>2, <2>1, <2>2, EffectiveType, LookUp
<1>5. ASSUME NEW p \in Procs, Restart(p)
      PROVE  cache' \in [Procs -> [Providers -> Providers \cup {None}]] /\ CacheInv'
  BY <1>2, <1>5, StartedCache DEF Restart
<1>6. QED
  BY <1>1, <1>3, <1>4, <1>5 DEF Next, LoadConfig, CommitSwitch, CommitFails, Generated

\* A switch that takes effect is its page's, and the last one there: another open
\* switch is what it was, but that it is no more the last if it was made there.
LEMMA SwitchesOvertaken ==
  ASSUME TypeOK, NEW a \in Pages, NEW p \in Procs, NEW x \in Providers
  PROVE  /\ Overtaken(a, p, x)
              \in [Pages -> [proc: Procs, to: Providers, last: BOOLEAN] \cup {NoSwitch}]
         /\ Overtaken(a, p, x)[a] = [proc |-> p, to |-> x, last |-> TRUE]
         /\ \A b \in Pages : b # a /\ Overtaken(a, p, x)[b] # NoSwitch
                             /\ Overtaken(a, p, x)[b].last =>
              /\ switch[b] # NoSwitch /\ switch[b].last
              /\ Overtaken(a, p, x)[b].proc = switch[b].proc
              /\ Overtaken(a, p, x)[b].to = switch[b].to
              /\ switch[b].proc \in Procs
              /\ ~(switch[b].proc = p /\ OrgOf[b] = OrgOf[a])
<1>1. ASSUME NEW b \in Pages, b # a
      PROVE  /\ Overtaken(a, p, x)[b] \in [proc: Procs, to: Providers, last: BOOLEAN] \cup {NoSwitch}
             /\ Overtaken(a, p, x)[b] # NoSwitch /\ Overtaken(a, p, x)[b].last =>
                  /\ switch[b] # NoSwitch /\ switch[b].last
                  /\ Overtaken(a, p, x)[b].proc = switch[b].proc
                  /\ Overtaken(a, p, x)[b].to = switch[b].to
                  /\ switch[b].proc \in Procs
                  /\ ~(switch[b].proc = p /\ OrgOf[b] = OrgOf[a])
  <2> DEFINE here == switch[b].proc = p /\ OrgOf[b] = OrgOf[a]
  <2>1. Overtaken(a, p, x)[b] = [switch[b] EXCEPT !.last = switch[b].last /\ ~here]
    BY <1>1 DEF Overtaken
  <2>2. here \in BOOLEAN
    OBVIOUS
  <2> HIDE DEF here
  <2>3. CASE switch[b] = NoSwitch
    <3>1. (switch[b].last /\ ~here) = FALSE
      BY <2>3 DEF NoSwitch
    <3>2. Overtaken(a, p, x)[b] = [NoSwitch EXCEPT !.last = FALSE]
      BY <2>1, <2>3, <3>1
    <3>3. QED
      BY <3>2 DEF NoSwitch
  <2>4. CASE switch[b] \in [proc: Procs, to: Providers, last: BOOLEAN]
    <3>1. switch[b] # NoSwitch
      BY <2>4, RuntimeProviderAssumption DEF NoSwitch
    <3>2. QED
      BY <2>1, <2>2, <2>4, <3>1 DEF here
  <2>5. QED
    BY <2>3, <2>4 DEF TypeOK
<1>2. Overtaken(a, p, x)[a] = [proc |-> p, to |-> x, last |-> TRUE]
  BY DEF Overtaken
<1>3. Overtaken(a, p, x)
        \in [Pages -> [proc: Procs, to: Providers, last: BOOLEAN] \cup {NoSwitch}]
  <2>1. Overtaken(a, p, x) = [b \in Pages |-> Overtaken(a, p, x)[b]]
    BY DEF Overtaken
  <2>2. \A b \in Pages : Overtaken(a, p, x)[b]
          \in [proc: Procs, to: Providers, last: BOOLEAN] \cup {NoSwitch}
    <3>1. [proc |-> p, to |-> x, last |-> TRUE] \in [proc: Procs, to: Providers, last: BOOLEAN]
      OBVIOUS
    <3>2. QED
      BY <1>1, <1>2, <3>1
  <2> DEFINE f == Overtaken(a, p, x)
  <2> HIDE DEF f
  <2>3. QED
    BY <2>1, <2>2 DEF f
<1>4. QED
  BY <1>1, <1>2, <1>3

\* Every handler and restart keeps the types.
LEMMA TypeNext == TypeOK /\ CacheInv /\ [Next]_vars => TypeOK'
<1> SUFFICES ASSUME TypeOK, CacheInv, [Next]_vars PROVE TypeOK'
  OBVIOUS
<1>1. cache' \in [Procs -> [Providers -> Providers \cup {None}]]
  BY CacheNext
<1>2. ASSUME NEW a \in Pages, NEW p \in Procs, LoadConfig(a, p)
      PROVE  TypeOK'
  <2>1. PublicConfig(p, OrgOf[a]) \in [provider: Providers \cup {None},
                                      available: SUBSET Providers, switching: BOOLEAN]
    BY EffectiveType, RuntimeProviderAssumption
       DEF PublicConfig, available_llm_providers, TypeOK, Settings
  <2>2. QED
    BY <1>2, <2>1 DEF LoadConfig, TypeOK
<1>3. ASSUME NEW a \in Pages, NEW p \in Procs, NEW x \in Providers,
             update_runtime_llm_provider(a, p, x)
      PROVE  TypeOK'
  <2>1. switch' \in [Pages -> [proc: Procs, to: Providers, last: BOOLEAN] \cup {NoSwitch}]
    BY <1>3, SwitchesOvertaken DEF update_runtime_llm_provider
  <2>2. overrides' \in [Procs -> [Orgs -> Providers \cup {None}]]
    BY <1>3, RuntimeProviderAssumption DEF update_runtime_llm_provider, SetOverride, TypeOK
  <2>3. settled' \in [Procs -> [Orgs -> BOOLEAN]]
    BY <1>3, RuntimeProviderAssumption DEF update_runtime_llm_provider, TypeOK
  <2>4. QED
    BY <1>1, <1>3, <2>1, <2>2, <2>3 DEF update_runtime_llm_provider, TypeOK
<1>4. ASSUME NEW a \in Pages, CommitSwitch(a) \/ CommitFails(a)
      PROVE  TypeOK'
  <2>1. switch[a] \in [proc: Procs, to: Providers, last: BOOLEAN]
    BY <1>4 DEF CommitSwitch, CommitFails, TypeOK
  <2>2. switch' \in [Pages -> [proc: Procs, to: Providers, last: BOOLEAN] \cup {NoSwitch}]
    BY <1>4 DEF CommitSwitch, CommitFails, TypeOK
  <2>3. OrgOf[a] \in Orgs /\ switch[a].proc \in Procs /\ switch[a].to \in Providers
        /\ switch[a].last \in BOOLEAN
    BY <2>1, RuntimeProviderAssumption
  <2>4. audit' \in [Procs -> [Orgs -> Providers \cup {None}]]
    <3>1. ASSUME NEW p \in Procs, NEW o \in Orgs, NEW y \in Providers \cup {None}
          PROVE  [audit EXCEPT ![p][o] = y] \in [Procs -> [Orgs -> Providers \cup {None}]]
      BY DEF TypeOK
    <3>2. [audit EXCEPT ![switch[a].proc][OrgOf[a]] = switch[a].to]
            \in [Procs -> [Orgs -> Providers \cup {None}]]
      BY <2>3, <3>1
    <3>3. CASE audit' = audit
      BY <3>3 DEF TypeOK
    <3>4. CASE audit' = [audit EXCEPT ![switch[a].proc][OrgOf[a]] = switch[a].to]
      BY <3>2, <3>4
    <3>5. QED
      BY <1>4, <3>3, <3>4 DEF CommitSwitch, CommitFails
  <2>5. settled' \in [Procs -> [Orgs -> BOOLEAN]]
    <3>1. ASSUME NEW p \in Procs, NEW o \in Orgs, NEW y \in BOOLEAN
          PROVE  [settled EXCEPT ![p][o] = y] \in [Procs -> [Orgs -> BOOLEAN]]
      BY DEF TypeOK
    <3>2. [settled EXCEPT ![switch[a].proc][OrgOf[a]] = switch[a].last]
            \in [Procs -> [Orgs -> BOOLEAN]]
      BY <2>3, <3>1
    <3>3. CASE settled' = settled
      BY <3>3 DEF TypeOK
    <3>4. CASE settled' = [settled EXCEPT ![switch[a].proc][OrgOf[a]] = switch[a].last]
      BY <3>2, <3>4
    <3>5. QED
      BY <1>4, <3>3, <3>4 DEF CommitSwitch, CommitFails
  <2>6. QED
    BY <1>4, <2>2, <2>4, <2>5 DEF CommitSwitch, CommitFails, TypeOK
<1>5. ASSUME NEW o \in Orgs, NEW p \in Procs, Regenerate(o, p)
      PROVE  TypeOK'
  <2>1. Object(cache[p], Effective(p, o)) \in Providers
    <3>1. /\ cache[p] \in [Providers -> Providers \cup {None}]
          /\ \A y \in Providers : cache[p][y] \in {None, y}
      BY DEF TypeOK, CacheInv
    <3>2. QED
      BY <3>1, EffectiveType, LookUp
  <2>2. QED
    BY <1>1, <1>5, <2>1 DEF Regenerate, TypeOK
<1>6. CASE Generated
  BY <1>6 DEF Generated, TypeOK
<1>7. ASSUME NEW p \in Procs, Restart(p)
      PROVE  TypeOK'
  BY <1>1, <1>7 DEF Restart, TypeOK, NoOverrides, NoSwitch, NoRegen
<1>8. CASE UNCHANGED vars
  BY <1>8 DEF TypeOK
<1>9. QED
  BY <1>2, <1>3, <1>4, <1>5, <1>6, <1>7, <1>8 DEF Next

-----------------------------------------------------------------------------
(* The audit log. *)

\* A last switch that is open is the one its override comes from: what its row
\* will name is in use on its process.
LastInv ==
  \A a \in Pages : switch[a] # NoSwitch /\ switch[a].last =>
    Effective(switch[a].proc, OrgOf[a]) = switch[a].to

\* The provider in use after a switch: the new one in its organization on its
\* process, the old one elsewhere.
LEMMA SwitchTakesEffect ==
  ASSUME TypeOK, NEW a \in Pages, NEW p \in Procs, NEW x \in Providers,
         update_runtime_llm_provider(a, p, x)
  PROVE  \A q \in Procs, o \in Orgs :
           Effective(q, o)' = IF q = p /\ o = OrgOf[a] THEN x ELSE Effective(q, o)
<1>1. /\ settings' = settings
      /\ \A q \in Procs, o \in Orgs : overrides'[q][o] =
           IF q = p /\ o = OrgOf[a]
           THEN IF x = settings[p].llm_provider THEN None ELSE x
           ELSE overrides[q][o]
  BY RuntimeProviderAssumption DEF update_runtime_llm_provider, SetOverride, TypeOK
<1>2. x # None
  BY RuntimeProviderAssumption
<1>3. QED
  BY <1>1, <1>2 DEF Effective

\* Every step keeps an open last switch the one in use.
LEMMA LastNext == TypeOK /\ LastInv /\ [Next]_vars => LastInv'
<1> SUFFICES ASSUME TypeOK, LastInv, [Next]_vars PROVE LastInv'
  OBVIOUS
<1>1. CASE UNCHANGED <<settings, overrides, switch>>
  BY <1>1 DEF LastInv, Effective
<1>2. ASSUME NEW a \in Pages, NEW p \in Procs, NEW x \in Providers,
             update_runtime_llm_provider(a, p, x)
      PROVE  LastInv'
  <2>1. /\ switch'[a] = [proc |-> p, to |-> x, last |-> TRUE]
        /\ \A b \in Pages : b # a /\ switch'[b] # NoSwitch /\ switch'[b].last =>
             /\ switch[b] # NoSwitch /\ switch[b].last
             /\ switch'[b].proc = switch[b].proc /\ switch'[b].to = switch[b].to
             /\ switch[b].proc \in Procs
             /\ ~(switch[b].proc = p /\ OrgOf[b] = OrgOf[a])
    BY <1>2, SwitchesOvertaken DEF update_runtime_llm_provider
  <2>2. \A b \in Pages : OrgOf[b] \in Orgs
    BY RuntimeProviderAssumption
  <2>3. QED
    BY <1>2, <2>1, <2>2, SwitchTakesEffect DEF LastInv
<1>3. ASSUME NEW a \in Pages, CommitSwitch(a) \/ CommitFails(a)
      PROVE  LastInv'
  <2>1. /\ UNCHANGED <<settings, overrides>>
        /\ \A b \in Pages : switch'[b] \in {switch[b], NoSwitch}
    BY <1>3 DEF CommitSwitch, CommitFails, TypeOK
  <2>2. QED
    BY <2>1 DEF LastInv, Effective
<1>4. ASSUME NEW p \in Procs, Restart(p)
      PROVE  LastInv'
  <2>1. \A b \in Pages : switch'[b] # NoSwitch => switch'[b] = switch[b] /\ switch[b].proc # p
    BY <1>4 DEF Restart
  <2>2. \A q \in Procs : q # p => settings'[q] = settings[q] /\ overrides'[q] = overrides[q]
    BY <1>4 DEF Restart, TypeOK
  <2>3. \A b \in Pages : switch[b] # NoSwitch => switch[b].proc \in Procs
    BY DEF TypeOK
  <2>4. QED
    BY <2>1, <2>2, <2>3 DEF LastInv, Effective
<1>5. QED
  BY <1>1, <1>2, <1>3, <1>4 DEF Next, LoadConfig, Regenerate, Generated

\* Every step keeps a settled audit log in agreement with the provider in use.
LEMMA AuditNext == TypeOK /\ LastInv /\ AuditTellsProvider /\ [Next]_vars => AuditTellsProvider'
<1> SUFFICES ASSUME TypeOK, LastInv, AuditTellsProvider, [Next]_vars PROVE AuditTellsProvider'
  OBVIOUS
<1>1. CASE UNCHANGED <<settings, overrides, audit, settled>>
  BY <1>1 DEF AuditTellsProvider, Effective
<1>2. ASSUME NEW a \in Pages, NEW p \in Procs, NEW x \in Providers,
             update_runtime_llm_provider(a, p, x)
      PROVE  AuditTellsProvider'
  <2>1. /\ UNCHANGED <<settings, audit>>
        /\ \A q \in Procs, o \in Orgs : settled'[q][o] =
             IF q = p /\ o = OrgOf[a] THEN FALSE ELSE settled[q][o]
    BY <1>2, RuntimeProviderAssumption DEF update_runtime_llm_provider, TypeOK
  <2>2. ASSUME NEW q \in Procs, NEW o \in Orgs, settled'[q][o]
        PROVE  settled[q][o] /\ Effective(q, o)' = Effective(q, o)
    <3>1. ~(q = p /\ o = OrgOf[a])
      BY <2>1, <2>2
    <3>2. settled[q][o]
      BY <2>1, <2>2, <3>1
    <3>3. Effective(q, o)' = Effective(q, o)
      BY <1>2, <3>1, SwitchTakesEffect
    <3>4. QED
      BY <3>2, <3>3
  <2>3. QED
    BY <2>1, <2>2 DEF AuditTellsProvider
<1>3. ASSUME NEW a \in Pages, CommitSwitch(a)
      PROVE  AuditTellsProvider'
  <2>1. /\ switch[a] \in [proc: Procs, to: Providers, last: BOOLEAN]
        /\ switch[a] # NoSwitch
        /\ UNCHANGED <<settings, overrides>>
    BY <1>3 DEF CommitSwitch, TypeOK
  <2>2. \A q \in Procs, o \in Orgs :
          IF q = switch[a].proc /\ o = OrgOf[a]
          THEN audit'[q][o] = switch[a].to /\ settled'[q][o] = switch[a].last
          ELSE audit'[q][o] = audit[q][o] /\ settled'[q][o] = settled[q][o]
    BY <1>3, RuntimeProviderAssumption DEF CommitSwitch, TypeOK
  <2>3. switch[a].to # None
    BY <2>1, RuntimeProviderAssumption
  <2>4. QED
    BY <2>1, <2>2, <2>3 DEF AuditTellsProvider, LastInv, Effective
<1>4. ASSUME NEW p \in Procs, Restart(p)
      PROVE  AuditTellsProvider'
  <2>1. \A q \in Procs, o \in Orgs :
          IF q = p
          THEN overrides'[q][o] = None /\ audit'[q][o] = None
          ELSE /\ overrides'[q][o] = overrides[q][o] /\ audit'[q][o] = audit[q][o]
               /\ settled'[q][o] = settled[q][o] /\ settings'[q] = settings[q]
    BY <1>4 DEF Restart, NoOverrides, TypeOK
  <2>2. QED
    BY <2>1 DEF AuditTellsProvider, Effective
<1>5. QED
  BY <1>1, <1>2, <1>3, <1>4 DEF Next, LoadConfig, CommitFails, Regenerate, Generated

-----------------------------------------------------------------------------
\* A regeneration that starts is given its organization's effective provider.
LEMMA StartUsesEffective ==
  ASSUME TypeOK, CacheInv, [Next]_vars, regen = NoRegen, regen' # NoRegen
  PROVE  regen'.provider = Effective(regen'.proc, regen'.org)
<1>1. PICK o \in Orgs, p \in Procs : Regenerate(o, p)
  BY DEF Next, LoadConfig, update_runtime_llm_provider, CommitSwitch, CommitFails, Generated,
     Restart
<1>2. regen'.org = o /\ regen'.proc = p /\ regen'.provider = Object(cache[p], Effective(p, o))
  BY <1>1 DEF Regenerate
<1>3. /\ cache[p] \in [Providers -> Providers \cup {None}]
      /\ \A y \in Providers : cache[p][y] \in {None, y}
  BY DEF TypeOK, CacheInv
<1>4. QED
  BY <1>2, <1>3, EffectiveType, LookUp

-----------------------------------------------------------------------------
\* Settings, overrides, caches, pages and rows keep their types, and the shared
\* cache holds each provider under its own name.
THEOREM TypeCorrect == Spec => [](TypeOK /\ CacheInv)
<1>1. TypeOK /\ CacheInv /\ [Next]_vars => (TypeOK /\ CacheInv)'
  BY TypeNext, CacheNext
<1>2. QED
  BY <1>1, Initially, PTL DEF Spec

\* The last committed switch of an organization on a process is the provider it
\* gets there, except while a later one is uncommitted, lost, or overtaken.
THEOREM AuditAgrees == Spec => []AuditTellsProvider
<1>1. Init => LastInv
  BY DEF Init, LastInv
<1>2. QED
  BY <1>1, Initially, LastNext, AuditNext, TypeCorrect, PTL DEF Spec

\* Organizations share the provider cache without getting each other's provider.
THEOREM CacheTransparent == Spec => RegenerationUsesEffective
<1>1. TypeOK /\ CacheInv /\ [Next]_vars =>
        [regen = NoRegen /\ regen' # NoRegen =>
           regen'.provider = Effective(regen'.proc, regen'.org)]_vars
  BY StartUsesEffective
<1>2. QED
  BY <1>1, TypeCorrect, PTL DEF Spec, RegenerationUsesEffective

=============================================================================
