----------------------------- MODULE MCReminders -----------------------------
(***************************************************************************)
(* Small instances of Reminders.                                           *)
(***************************************************************************)
EXTENDS Reminders
=============================================================================
