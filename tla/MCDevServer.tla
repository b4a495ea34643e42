----------------------------- MODULE MCDevServer -----------------------------
(* The terminal and one more watcher of one turn. *)
EXTENDS DevServer

CONSTANTS e1, e2

\* Two events of one kind with another between them.
MCStream == <<e1, e2, e1>>
=============================================================================
