-------------------------- MODULE RuntimeProvider ---------------------------
(***************************************************************************)
(* The AI provider an organization uses: chosen by the environment, and    *)
(* overridden per organization at runtime (core/runtime_config.py,         *)
(* api/routes/config.py, llm/providers, the admin page).  Overrides and    *)
(* the provider cache live in one API process; a handler runs without      *)
(* interruption up to its commit, or up to the provider call.  While one   *)
(* switch commits, another of the same organization may take effect.       *)
(***************************************************************************)
EXTENDS Naturals

CONSTANTS
  Orgs,         \* organizations
  Pages,        \* open admin pages
  OrgOf,        \* the organization of a page's admin
  Procs,        \* API processes
  Deployments,  \* the environments a process may be started with
  None          \* no override, nothing cached

Providers == {"mock", "anthropic"}

\* anthropic: whether API key and model are there; "empty" is a key set to "".
Settings ==
  [llm_provider: Providers, mock_enabled: BOOLEAN, anthropic: {"unset", "empty", "set"},
   switching: BOOLEAN, validate: BOOLEAN]

ASSUME RuntimeProviderAssumption ==
  /\ Deployments \subseteq Settings
  /\ OrgOf \in [Pages -> Orgs]
  /\ None \notin Providers

VARIABLES
  settings,   \* each process's environment
  overrides,  \* _llm_provider_overrides of each process
  cache,      \* _provider_cache of each process
  page,       \* the configuration each admin page shows
  switch,     \* each page's switch that is in effect and not yet committed
  regen,      \* a regeneration that waits for its provider
  audit,      \* the provider in the last RUNTIME_PROVIDER_CHANGED row each
              \* process has committed for an organization since it started
  settled     \* history: that row, if any, is of the last switch made there

vars == <<settings, overrides, cache, page, switch, regen, audit, settled>>

-----------------------------------------------------------------------------
(* core/config.py *)

anthropic_configured(s) == s.anthropic # "unset"

available_llm_providers(s) ==
  {x \in Providers : IF x = "mock" THEN s.mock_enabled ELSE anthropic_configured(s)}

\* The constructor of AnthropicLLMProvider refuses an empty key.
AnthropicBuilds(s) == s.anthropic = "set"

Builds(s, x) ==
  \/ x = "mock" /\ s.mock_enabled
  \/ x = "anthropic" /\ AnthropicBuilds(s)

\* A process starts unless it is told to validate a provider it cannot build.
Starts(s) == s.llm_provider = "anthropic" /\ s.validate => Builds(s, "anthropic")

-----------------------------------------------------------------------------
(* core/runtime_config.py and llm/providers/__init__.py *)

Effective(p, o) ==
  IF overrides[p][o] # None THEN overrides[p][o] ELSE settings[p].llm_provider

NoOverrides == [o \in Orgs |-> None]
EmptyCache == [x \in Providers |-> None]

\* As if the key left out the provider's name.
OneEntry(x) == "mock"

\* Of the settings in the key only the provider varies within one process.
CacheKey(x) == x

\* The cache after get_llm_provider for provider x, and the object it returns.
Cached(entries, x) == [entries EXCEPT ![CacheKey(x)] = IF @ = None THEN x ELSE @]
Object(entries, x) == Cached(entries, x)[CacheKey(x)]

\* lifespan validates the environment's provider, which leaves it in the cache.
StartCache(s) ==
  IF s.llm_provider = "anthropic" /\ s.validate THEN Cached(EmptyCache, "anthropic") ELSE EmptyCache

-----------------------------------------------------------------------------
PublicConfig(p, o) ==
  [provider |-> Effective(p, o), available |-> available_llm_providers(settings[p]),
   switching |-> settings[p].switching]

NoPage == [provider |-> None, available |-> {}, switching |-> FALSE]
NoSwitch == [proc |-> None, to |-> None, last |-> FALSE]
NoRegen == [org |-> None, proc |-> None, provider |-> None]

\* In a switch "last" is history: no later one of the organization on that process.
TypeOK ==
  /\ settings \in [Procs -> Deployments]
  /\ overrides \in [Procs -> [Orgs -> Providers \cup {None}]]
  /\ cache \in [Procs -> [Providers -> Providers \cup {None}]]
  /\ page \in [Pages -> [provider: Providers \cup {None}, available: SUBSET Providers,
                         switching: BOOLEAN]]
  /\ switch \in [Pages -> [proc: Procs, to: Providers, last: BOOLEAN] \cup {NoSwitch}]
  /\ regen \in [org: Orgs, proc: Procs, provider: Providers] \cup {NoRegen}
  /\ audit \in [Procs -> [Orgs -> Providers \cup {None}]]
  /\ settled \in [Procs -> [Orgs -> BOOLEAN]]

Init ==
  /\ settings \in [Procs -> {s \in Deployments : Starts(s)}]
  /\ overrides = [p \in Procs |-> NoOverrides]
  /\ cache = [p \in Procs |-> StartCache(settings[p])]
  /\ page = [a \in Pages |-> NoPage]
  /\ switch = [a \in Pages |-> NoSwitch]
  /\ regen = NoRegen
  /\ audit = [p \in Procs |-> [o \in Orgs |-> None]]
  /\ settled = [p \in Procs |-> [o \in Orgs |-> TRUE]]

-----------------------------------------------------------------------------
(* The admin page and PATCH /config/runtime/llm-provider. *)

\* GET /config/public, on load and after a switch; any process may answer.
LoadConfig(a, p) ==
  /\ page' = [page EXCEPT ![a] = PublicConfig(p, OrgOf[a])]
  /\ UNCHANGED <<settings, overrides, cache, switch, regen, audit, settled>>

\* The button for x is there to press.
ButtonEnabled(a, x) ==
  /\ switch[a] = NoSwitch
  /\ page[a].switching
  /\ x \in page[a].available
  /\ page[a].provider # x

\* As if an override were not confined to the admin's organization.
OverrideAll(p, o, x) == [overrides EXCEPT ![p] = [q \in Orgs |-> x]]

\* As if selecting the provider already in use meant going back to the environment's.
ClearWhenInUse(p, o, x) ==
  [overrides EXCEPT ![p][o] = IF x = Effective(p, o) THEN None ELSE x]

SetOverride(p, o, x) ==
  [overrides EXCEPT ![p][o] = IF x = settings[p].llm_provider THEN None ELSE x]

Accepts(p, x) ==
  /\ settings[p].switching
  /\ x = "mock" => settings[p].mock_enabled
  /\ x = "anthropic" => anthropic_configured(settings[p])

\* The open switches once page a's, of provider x on process p, takes effect.
Overtaken(a, p, x) ==
  [b \in Pages |->
     IF b = a THEN [proc |-> p, to |-> x, last |-> TRUE]
     ELSE [switch[b] EXCEPT !.last = @ /\ ~(switch[b].proc = p /\ OrgOf[b] = OrgOf[a])]]

\* The process that answers may have another environment than the page has seen.
update_runtime_llm_provider(a, p, x) ==
  /\ ButtonEnabled(a, x)
  /\ Accepts(p, x)
  /\ overrides' = SetOverride(p, OrgOf[a], x)
  /\ cache' = [cache EXCEPT ![p] = EmptyCache]
  /\ switch' = Overtaken(a, p, x)
  /\ settled' = [settled EXCEPT ![p][OrgOf[a]] = FALSE]
  /\ UNCHANGED <<settings, page, regen, audit>>

\* Rows are committed in any order, whatever order the switches took effect in.
CommitSwitch(a) ==
  /\ switch[a] # NoSwitch
  /\ audit' = [audit EXCEPT ![switch[a].proc][OrgOf[a]] = switch[a].to]
  /\ settled' = [settled EXCEPT ![switch[a].proc][OrgOf[a]] = switch[a].last]
  /\ switch' = [switch EXCEPT ![a] = NoSwitch]
  /\ UNCHANGED <<settings, overrides, cache, page, regen>>

\* The commit raises: nothing takes the override back.
CommitFails(a) ==
  /\ switch[a] # NoSwitch
  /\ switch' = [switch EXCEPT ![a] = NoSwitch]
  /\ UNCHANGED <<settings, overrides, cache, page, regen, audit, settled>>

-----------------------------------------------------------------------------
(* Regenerations: the provider object is taken before the call and kept. *)

Regenerate(o, p) ==
  /\ regen = NoRegen
  /\ cache[p][CacheKey(Effective(p, o))] # None \/ Builds(settings[p], Effective(p, o))
  /\ cache' = [cache EXCEPT ![p] = Cached(@, Effective(p, o))]
  /\ regen' = [org |-> o, proc |-> p, provider |-> Object(cache[p], Effective(p, o))]
  /\ UNCHANGED <<settings, overrides, page, switch, audit, settled>>

Generated ==
  /\ regen # NoRegen
  /\ regen' = NoRegen
  /\ UNCHANGED <<settings, overrides, cache, page, switch, audit, settled>>

\* A process is deployed anew: overrides, cache and open requests are gone.
Restart(p) ==
  /\ \E s \in Deployments :
       /\ Starts(s)
       /\ settings' = [settings EXCEPT ![p] = s]
       /\ cache' = [cache EXCEPT ![p] = StartCache(s)]
  /\ overrides' = [overrides EXCEPT ![p] = NoOverrides]
  /\ audit' = [audit EXCEPT ![p] = [o \in Orgs |-> None]]
  /\ settled' = [settled EXCEPT ![p] = [o \in Orgs |-> TRUE]]
  /\ switch' = [a \in Pages |-> IF switch[a].proc = p THEN NoSwitch ELSE switch[a]]
  /\ regen' = IF regen.proc = p THEN NoRegen ELSE regen
  /\ UNCHANGED page

Next ==
  \/ \E a \in Pages :
       \/ \E p \in Procs :
            LoadConfig(a, p) \/ \E x \in Providers : update_runtime_llm_provider(a, p, x)
       \/ CommitSwitch(a)
       \/ CommitFails(a)
  \/ \E o \in Orgs, p \in Procs : Regenerate(o, p)
  \/ Generated
  \/ \E p \in Procs : Restart(p)

Spec == Init /\ [][Next]_vars

-----------------------------------------------------------------------------
\* A regeneration gets the provider its own organization has selected on that
\* process, although all organizations share one cache.
RegenerationUsesEffective ==
  [][regen = NoRegen /\ regen' # NoRegen =>
       regen'.provider = Effective(regen'.proc, regen'.org)]_vars

\* What the audit log says is what an organization gets: the provider in use on a
\* process is the one the last committed row of a switch made there names, or the
\* environment's if the process has seen no switch since it started (a restart
\* drops the overrides).  This holds unless a later switch is still to be
\* committed, its commit failed, or the last row is that of an earlier switch
\* whose commit was overtaken: settled then is FALSE, until the next switch.
AuditTellsProvider ==
  \A p \in Procs, o \in Orgs : settled[p][o] =>
    Effective(p, o) = IF audit[p][o] = None THEN settings[p].llm_provider ELSE audit[p][o]

=============================================================================
