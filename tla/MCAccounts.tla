------------------------------ MODULE MCAccounts ------------------------------
(* Two requests of an administrator and a user who set the routes.            *)
EXTENDS LLMAccounts

CONSTANTS x, p, q, r, s, user, admin, shared, none, gone
================================================================================
