----------------------------- MODULE MCAgentLoop -----------------------------
(* Two calls of any two kinds, two plans: one within the iteration limit    *)
(* and one past it.                                                         *)
EXTENDS AgentLoop

CONSTANTS c1, c2, a1, a2, a3, b1

MCPlans == {<<a1, a2, a3>>, <<b1>>}
=============================================================================
