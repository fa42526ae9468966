--------------------------- MODULE MCConsoleAccess ---------------------------
(* Two agents, one of whom may have the one domain live; two requests at a *)
(* time.                                                                   *)
EXTENDS ConsoleAccess, TLC

CONSTANTS a1, a2, d1, r1, r2

MCAgents == {a1, a2}
MCDomains == {d1}
MCRuns == {r1, r2}
MCSymmetry == Permutations(MCRuns) \cup Permutations(MCAgents)

\* No domain yet, or one agent's is live.
MCBeginnings ==
    {[domain |-> [a \in MCAgents |-> IF a = b THEN d1 ELSE NoDomain],
      token |-> [a \in MCAgents |-> IF a = b THEN 1 ELSE 0],
      verified |-> [a \in MCAgents |-> IF a = b THEN 1 ELSE 0],
      enabled |-> [a \in MCAgents |-> a = b]] : b \in MCAgents \cup {NoAgent}}
===============================================================================
