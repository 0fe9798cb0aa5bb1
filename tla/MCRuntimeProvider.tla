------------------------- MODULE MCRuntimeProvider --------------------------
(* RuntimeProvider for TLC: the environments that tell the checks of a switch *)
(* apart, and interchangeable pages of one organization.                      *)
EXTENDS RuntimeProvider, TLC

CONSTANTS o1, o2, a1, a2, b1

\* Two pages of one organization and one of another.
Organization == [a \in Pages |-> IF a = b1 THEN o2 ELSE o1]

Environment(provider, mock, anthropic, switching, validate) ==
  [llm_provider |-> provider, mock_enabled |-> mock, anthropic |-> anthropic,
   switching |-> switching, validate |-> validate]

\* Mock without, with an empty and with a set Claude key, Claude alone, Claude
\* without a key.
Environments ==
  {Environment("mock", TRUE, "unset", TRUE, FALSE),
   Environment("mock", TRUE, "empty", TRUE, FALSE),
   Environment("mock", TRUE, "set", TRUE, FALSE),
   Environment("anthropic", FALSE, "set", TRUE, TRUE),
   Environment("anthropic", TRUE, "unset", TRUE, FALSE)}

Symmetry == Permutations({a1, a2})

=============================================================================
