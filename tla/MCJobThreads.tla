---------------------------- MODULE MCJobThreads ----------------------------
(***************************************************************************)
(* A small instance of JobThreads for TLC: any three of two Notify calls   *)
(* and two client tasks, for one of the Notify calls an auto-close thread, *)
(* and for the other a listener task that acknowledges it or chokes on it. *)
(* A CloseNotification call takes the steps of a Notify call but for the   *)
(* lock of the D-Bus object and the number; it is left to the proofs.      *)
(***************************************************************************)
EXTENDS JobThreads
=============================================================================
