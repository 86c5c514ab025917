---- MODULE MCAutomation ----
(* Automation.tla, for TLC. *)
EXTENDS Automation
====
