---------------------------- MODULE MCEventFeed ------------------------------
(***************************************************************************)
(* Two writers, one event with a key and one without, a counter of three   *)
(* values that may wrap anywhere, and pages of one event.                  *)
(***************************************************************************)
EXTENDS EventFeed
=============================================================================
