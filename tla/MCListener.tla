----------------------------- MODULE MCListener -----------------------------
(***************************************************************************)
(* A small instance of Listener for TLC: two requests under one pid or     *)
(* two, a silent and a normal watcher, a notification and a signal, where  *)
(* the answer to one of the requests and the notification may be refused.  *)
(***************************************************************************)
EXTENDS Listener
=============================================================================
