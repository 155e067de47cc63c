---------------------------- MODULE MCMenuRecovery ----------------------------
(* An instance of MenuRecovery for TLC; its bounds are those of the code but   *)
(* for the polls, of which the code takes more: the .cfg names them.           *)
EXTENDS MenuRecovery
================================================================================
