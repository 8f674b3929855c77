----------------------------- MODULE MCPrograms -----------------------------
(* Two lists of three nodes; of the other bounds, see MCPrograms.cfg.      *)
EXTENDS Programs

CONSTANTS h1, h2, a, b, c

MCHeads == {h1, h2}
MCItems == {a, b, c}
MCPicked == {a, b}
=============================================================================
