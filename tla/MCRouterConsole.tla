---------------------------- MODULE MCRouterConsole ----------------------------
(* RouterConsole for TLC. *)
EXTENDS RouterConsole
================================================================================
