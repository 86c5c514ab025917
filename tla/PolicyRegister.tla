--------------------------- MODULE PolicyRegister ---------------------------
(* What the configuration promises to those who change it and to retention: *)
(* changes are atomic, and a removal acts on the policy that is in force.   *)
(* PolicyLock implements it, and Retention is written on top of it.         *)
CONSTANT Changes

VARIABLES config,     \* the changes in the committed document
          confirmed,  \* the changes whose update returned
          authority   \* the documents that removals acted on

register == <<config, confirmed, authority>>

Init ==
  /\ config = {}
  /\ confirmed = {}
  /\ authority = {}

Change(c) ==
  /\ config' = config \union {c}
  /\ UNCHANGED <<confirmed, authority>>

Confirm(c) ==
  /\ c \in config
  /\ confirmed' = confirmed \union {c}
  /\ UNCHANGED <<config, authority>>

Remove ==
  /\ authority' = authority \union {config}
  /\ UNCHANGED <<config, confirmed>>

Next == (\E c \in Changes : Change(c) \/ Confirm(c)) \/ Remove

Spec == Init /\ [][Next]_register

(* No update is undone by another one.                                      *)
Kept == confirmed \subseteq config
=============================================================================
