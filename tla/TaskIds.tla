------------------------------ MODULE TaskIds -------------------------------
(* The run identities that the broker and the database records share. *)

CONSTANTS
  Runs,     \* run ids; each is used for one start (a fresh UUID)
  NoRun     \* no run

ASSUME RunsAssumption == NoRun \notin Runs
=============================================================================
