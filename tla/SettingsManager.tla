-------------------------- MODULE SettingsManager --------------------------
(* Settings shared by several processes through settings.json,             *)
(* packages/coding-agent/src/core/settings-manager.ts: the setters, the    *)
(* chain of writes behind them, reload, and FileSettingsStorage.withLock.  *)
(*                                                                         *)
(* One scope is modelled: the global and the project settings are handled  *)
(* alike.  A field is a top-level field or a field of a nested object      *)
(* (markModified tells them apart); its value is the number of the setter  *)
(* call that gave it, 0 when absent.                                       *)
(*                                                                         *)
(* Bounds: MaxSets setter calls, MaxReloads reloads, MaxFailures failures  *)
(* of a write or a load, MaxExits exits, over all processes.               *)
EXTENDS Naturals, Sequences

CONSTANTS Process, Field, Missing, Broken, MaxSets, MaxReloads, MaxFailures, MaxExits

ASSUME SettingsBounds == {MaxSets, MaxReloads, MaxFailures, MaxExits} \subseteq Nat

Value == 0 .. MaxSets
Settings == [Field -> Value]
Empty == [f \in Field |-> 0]

ASSUME SettingsNames ==
  Missing \notin Process /\ Missing # Broken /\ {Missing, Broken} \intersect Settings = {}

VARIABLES
  settingsFile,   \* settings.json: its fields, Missing, or Broken when it does not parse
  running,        \* processes that run
  globalSettings, \* this.globalSettings of each
  modifiedFields, \* this.modifiedFields and modifiedNestedFields of each
  settingsError,  \* this.globalSettingsLoadError of each
  writeQueue,     \* the tasks chained to this.writeQueue of each
  creating,       \* the first task found no file and is about to write one
  sets, reloads, failures, exits,
  everSet,        \* history: the value each process gave last to each field
  writer,         \* history: the process that last wrote a field it had set
  forgotten,      \* history: fields unmarked before their last value was written
  clobbered       \* history: two processes created the file, or a writer was killed

settingsVars == <<settingsFile, running, globalSettings, modifiedFields, settingsError,
                  writeQueue, creating, sets, reloads, failures, exits,
                  everSet, writer, forgotten, clobbered>>
countVars == <<sets, reloads, failures, exits>>

Task == [kind : {"write"}, snapshot : Settings, fields : SUBSET Field] \union
        [kind : {"reload"}]

SettingsTypeOK ==
  /\ settingsFile \in Settings \union {Missing, Broken}
  /\ running \subseteq Process
  /\ globalSettings \in [Process -> Settings]
  /\ modifiedFields \in [Process -> SUBSET Field]
  /\ settingsError \in [Process -> BOOLEAN]
  /\ \A p \in Process : Len(writeQueue[p]) <= MaxSets + MaxReloads
                        /\ \A n \in DOMAIN writeQueue[p] : writeQueue[p][n] \in Task
  /\ creating \in [Process -> BOOLEAN]
  /\ sets \in Value /\ reloads \in 0 .. MaxReloads
  /\ failures \in 0 .. MaxFailures /\ exits \in 0 .. MaxExits

SettingsInit ==
  /\ settingsFile \in {Missing, Empty}
  /\ running = {}
  /\ globalSettings = [p \in Process |-> Empty]
  /\ modifiedFields = [p \in Process |-> {}]
  /\ settingsError = [p \in Process |-> FALSE]
  /\ writeQueue = [p \in Process |-> <<>>]
  /\ creating = [p \in Process |-> FALSE]
  /\ sets = 0 /\ reloads = 0 /\ failures = 0 /\ exits = 0
  /\ everSet = [p \in Process |-> Empty]
  /\ writer = [f \in Field |-> Missing]
  /\ forgotten = [p \in Process |-> {}]
  /\ clobbered = FALSE

\* The lock is held by another process for all ten attempts, or the disk fails.
Failing == failures < MaxFailures /\ failures' = failures + 1

Parsed(file) == IF file = Missing THEN Empty ELSE file

\* tryLoadFromStorage, and what its callers do with an error: keep what they have.
Load(p) ==
  \/ /\ settingsFile # Broken
     /\ globalSettings' = [globalSettings EXCEPT ![p] = Parsed(settingsFile)]
     /\ settingsError' = [settingsError EXCEPT ![p] = FALSE]
     /\ UNCHANGED failures
  \/ /\ IF settingsFile = Broken THEN UNCHANGED failures ELSE Failing
     /\ settingsError' = [settingsError EXCEPT ![p] = TRUE]
     /\ UNCHANGED globalSettings

\* SettingsManager.create.
CreateManager(p) ==
  /\ p \notin running
  /\ running' = running \union {p}
  /\ Load(p)
  /\ UNCHANGED <<settingsFile, modifiedFields, writeQueue, creating, sets, reloads, exits,
                 everSet, writer, forgotten, clobbered>>

\* save: a snapshot of the settings and of the fields modified is chained to the queue,
\* unless the file could not be loaded.
Save(p, settings, fields) ==
  IF settingsError[p]
    THEN UNCHANGED writeQueue
    ELSE writeQueue' = [writeQueue EXCEPT ![p] =
           Append(@, [kind |-> "write", snapshot |-> settings, fields |-> fields])]

\* A setter: change the settings in memory, mark the field, save.
SetField(p, f) ==
  LET settings == [globalSettings[p] EXCEPT ![f] = sets + 1]
      fields == modifiedFields[p] \union {f} IN
  /\ p \in running /\ sets < MaxSets
  /\ sets' = sets + 1
  /\ globalSettings' = [globalSettings EXCEPT ![p] = settings]
  /\ modifiedFields' = [modifiedFields EXCEPT ![p] = fields]
  /\ Save(p, settings, fields)
  /\ everSet' = [everSet EXCEPT ![p][f] = sets + 1]
  /\ UNCHANGED <<settingsFile, running, settingsError, creating, reloads, failures, exits,
                 writer, forgotten, clobbered>>

NextIs(p, kind) == writeQueue[p] # <<>> /\ Head(writeQueue[p]).kind = kind
TaskDone(p) == writeQueue' = [writeQueue EXCEPT ![p] = Tail(@)]

\* Mutant: the whole snapshot replaces what the file holds.
MergedAll(current, task) == task.snapshot

\* persistScopedSettings: only the fields modified are merged into what the file holds.
Merged(current, task) ==
  [f \in Field |-> IF f \in task.fields THEN task.snapshot[f] ELSE current[f]]

\* The task writes; clearModifiedScope forgets every modified field, those of the
\* tasks behind it too.
Written(p, current) ==
  LET task == Head(writeQueue[p]) IN
  /\ settingsFile' = Merged(current, task)
  /\ modifiedFields' = [modifiedFields EXCEPT ![p] = {}]
  /\ writer' = [f \in Field |->
       IF f \in task.fields /\ everSet[p][f] # 0 THEN p ELSE writer[f]]
  /\ TaskDone(p)
  /\ forgotten' = [forgotten EXCEPT ![p] =
       (@ \union modifiedFields[p]) \ {f \in task.fields : task.snapshot[f] = everSet[p][f]}]
  /\ UNCHANGED <<running, globalSettings, settingsError, countVars, everSet>>

\* The file is there: it is read, merged and written under the lock.
PersistScopedSettings(p) ==
  /\ NextIs(p, "write") /\ ~creating[p]
  /\ settingsFile \notin {Missing, Broken}
  /\ Written(p, settingsFile)
  /\ UNCHANGED <<creating, clobbered>>

\* The file is missing: withLock reads nothing and has no lock yet.
ReadMissing(p) ==
  /\ NextIs(p, "write") /\ ~creating[p]
  /\ settingsFile = Missing
  /\ creating' = [creating EXCEPT ![p] = TRUE]
  /\ UNCHANGED <<settingsFile, running, globalSettings, modifiedFields, settingsError,
                 writeQueue, countVars, everSet, writer, forgotten, clobbered>>

\* It takes the lock only to write, over what another process wrote meanwhile.
WriteMissing(p) ==
  /\ creating[p]
  /\ Written(p, Empty)
  /\ creating' = [creating EXCEPT ![p] = FALSE]
  /\ clobbered' = (clobbered \/ settingsFile # Missing)

\* A task that throws is reported; its fields stay modified.
WriteFails(p) ==
  /\ NextIs(p, "write")
  /\ IF settingsFile = Broken /\ ~creating[p] THEN UNCHANGED failures ELSE Failing
  /\ creating' = [creating EXCEPT ![p] = FALSE]
  /\ forgotten' = [forgotten EXCEPT ![p] = @ \union (Head(writeQueue[p]).fields \ modifiedFields[p])]
  /\ TaskDone(p)
  /\ UNCHANGED <<settingsFile, running, globalSettings, modifiedFields, settingsError,
                 sets, reloads, exits, everSet, writer, clobbered>>

\* reload awaits the queue as it is now; what is queued later runs after it.
Reload(p) ==
  /\ p \in running /\ reloads < MaxReloads
  /\ reloads' = reloads + 1
  /\ writeQueue' = [writeQueue EXCEPT ![p] = Append(@, [kind |-> "reload"])]
  /\ UNCHANGED <<settingsFile, running, globalSettings, modifiedFields, settingsError, creating,
                 sets, failures, exits, everSet, writer, forgotten, clobbered>>

\* The rest of reload: load, and forget the modified fields whether it loaded or not.
Reloaded(p) ==
  /\ NextIs(p, "reload")
  /\ Load(p)
  /\ modifiedFields' = [modifiedFields EXCEPT ![p] = {}]
  /\ forgotten' = [forgotten EXCEPT ![p] = @ \union modifiedFields[p]]
  /\ TaskDone(p)
  /\ UNCHANGED <<settingsFile, running, creating, sets, reloads, exits, everSet, writer,
                 clobbered>>

\* The process ends, in the middle of a write too: writeFileSync truncates first.
Exit(p) ==
  /\ p \in running /\ exits < MaxExits
  /\ exits' = exits + 1
  /\ running' = running \ {p}
  /\ globalSettings' = [globalSettings EXCEPT ![p] = Empty]
  /\ modifiedFields' = [modifiedFields EXCEPT ![p] = {}]
  /\ settingsError' = [settingsError EXCEPT ![p] = FALSE]
  /\ writeQueue' = [writeQueue EXCEPT ![p] = <<>>]
  /\ creating' = [creating EXCEPT ![p] = FALSE]
  /\ everSet' = [everSet EXCEPT ![p] = IF writeQueue[p] = <<>> THEN @ ELSE Empty]
  /\ forgotten' = [forgotten EXCEPT ![p] = @ \union modifiedFields[p]]
  /\ \/ UNCHANGED <<settingsFile, clobbered>>
     \/ /\ NextIs(p, "write") /\ settingsFile # Broken
        /\ settingsFile' \in {Empty, Broken}
        /\ clobbered' = TRUE
  /\ UNCHANGED <<sets, reloads, failures, writer>>

SettingsNext ==
  \E p \in Process :
    \/ CreateManager(p) \/ (\E f \in Field : SetField(p, f))
    \/ PersistScopedSettings(p) \/ ReadMissing(p) \/ WriteMissing(p) \/ WriteFails(p)
    \/ Reload(p) \/ Reloaded(p) \/ Exit(p)

\* PROPERTIES

\* When a process has nothing more to write, the file holds for every field the value
\* the process gave it last, or the field is still marked and the next save will try
\* again, unless another process that set the field wrote it later.  Excepted are the
\* fields unmarked too early, by the end of an earlier task or by a reload, and then
\* not written, and a file created by two processes at once.  Every variable has its type.
SettingsKept ==
  /\ SettingsTypeOK
  /\ \/ clobbered
     \/ \A p \in Process : \A f \in Field :
          /\ everSet[p][f] # 0 /\ writeQueue[p] = <<>> /\ writer[f] \in {p, Missing}
          /\ f \notin modifiedFields[p] \union forgotten[p]
          => settingsFile \notin {Missing, Broken} /\ settingsFile[f] = everSet[p][f]
=============================================================================
