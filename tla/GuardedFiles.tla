---------------------------- MODULE GuardedFiles ----------------------------
(* The three components of packages/coding-agent/src/core that guard files *)
(* shared by calls or by processes: the file mutation queue, the           *)
(* credential storage and the settings.  They do not call one another and  *)
(* share no state, so a behaviour exercises one of them and leaves the     *)
(* others at their initial state.                                          *)
EXTENDS FileMutationQueue, AuthStorage, SettingsManager

VARIABLE component

vars == <<component, queueVars, authVars, settingsVars>>

Components == {"mutations", "credentials", "settings"}

Idle(c) == component # c

\* A component that is not exercised starts in one state only.
Init ==
  /\ component \in Components
  /\ QueueInit /\ AuthInit /\ SettingsInit
  /\ Idle("mutations") => exists = {} /\ path = [c \in Call |-> CHOOSE p \in Path : TRUE]
  /\ Idle("credentials") => expired = {}
  /\ Idle("settings") => settingsFile = Missing

Next ==
  \/ /\ component = "mutations" /\ QueueNext
     /\ UNCHANGED <<component, authVars, settingsVars>>
  \/ /\ component = "credentials" /\ AuthNext
     /\ UNCHANGED <<component, queueVars, settingsVars>>
  \/ /\ component = "settings" /\ SettingsNext
     /\ UNCHANGED <<component, queueVars, authVars>>

Spec == Init /\ [][Next]_vars
=============================================================================
