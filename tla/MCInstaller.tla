---------------------------- MODULE MCInstaller ----------------------------
(* The installer as it is: its constants are numbers, given in the .cfg. *)
EXTENDS Installer
=============================================================================
