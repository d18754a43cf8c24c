---------------------------- MODULE MCReminders ----------------------------
(* Small instances of Reminders: a single one and a recurring one. *)
EXTENDS Reminders
=============================================================================
