----------------------------- MODULE MCAgentRuns -----------------------------
(***************************************************************************)
(* Model values for AgentRuns: one agent, one item, two requests at once.  *)
(***************************************************************************)
EXTENDS AgentRuns, TLC

CONSTANTS a1, i1, r1, r2, c1, c2, n1, n2

MCAgents == {a1}
MCItems == {i1}
MCRuns == {r1, r2}
MCCalls == {c1, c2}
MCNotes == {n1, n2}

Symmetry == Permutations(MCCalls) \union Permutations(MCRuns) \union Permutations(MCNotes)
==============================================================================
