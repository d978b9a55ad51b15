--------------------------- MODULE NetworkPromise ---------------------------
(***************************************************************************)
(* What a Network promises about its configuration: what is in use, and    *)
(* what is kept in flash, is as a whole one configuration that the         *)
(* controller issued to this node, and flash keeps only what was in use.   *)
(***************************************************************************)
CONSTANTS
  Genuine,  \* configurations that the controller issued to this node
  None      \* no configuration

VARIABLES
  config,   \* the configuration in use
  saved,    \* the configuration in flash
  used      \* configurations that were in use at some time

vars == <<config, saved, used>>

Init == config = None /\ saved = None /\ used = {}

\* A configuration of the controller comes into use.
Adopt(c) ==
  /\ config' = c
  /\ used' = used \cup {c}
  /\ UNCHANGED saved

\* The network is left, or the node stops.
Drop ==
  /\ config' = None
  /\ UNCHANGED <<saved, used>>

\* The network is joined again.
Resume ==
  /\ config = None
  /\ config' = saved
  /\ UNCHANGED <<saved, used>>

Store(c) ==
  /\ saved' = c
  /\ UNCHANGED <<config, used>>

Next ==
  \/ Drop \/ Resume \/ Store(None)
  \/ \E c \in Genuine : Adopt(c)
  \/ \E c \in used : Store(c)

Spec == Init /\ [][Next]_vars
=============================================================================
