------------------------- MODULE FileMutationQueue -------------------------
(* The queue the edit and write tools put their file mutations through,    *)
(* packages/coding-agent/src/core/tools/file-mutation-queue.ts.  A call    *)
(* first registers: one registration at a time, in the order of the calls, *)
(* resolves the path to a key and puts the call behind the last one of     *)
(* that key; the mutation runs when that one has finished.                 *)
(*                                                                         *)
(* A path is the path a tool is given, made absolute; Target is the file   *)
(* it leads to once symbolic links are followed.  Bound: each call is made *)
(* once.                                                                   *)
EXTENDS Naturals, FiniteSets

CONSTANTS Call, Path, Target, NoCall

ASSUME TargetAssumption == Target \in [Path -> Path]
ASSUME NoCallAssumption == NoCall \notin Call

VARIABLES
  exists,      \* the files that exist
  stage,       \* where each call is
  path,        \* the path each call was given
  turn,        \* its place in the order of calls
  called,      \* how many calls were made
  registered,  \* how many registrations have settled: registrationQueue
  key,         \* the key each call registered under
  before,      \* its currentQueue: the call it waits for
  last,        \* fileMutationQueues: the last call of each key
  sawFile      \* history: the file existed when the call registered

queueVars == <<exists, stage, path, turn, called, registered, key, before, last, sawFile>>

File == {Target[p] : p \in Path}
Stages == {"idle", "registering", "waiting", "running", "done", "failed"}
Registered(c) == stage[c] \in {"waiting", "running", "done"}

QueueTypeOK ==
  /\ exists \subseteq File
  /\ stage \in [Call -> Stages]
  /\ path \in [Call -> Path]
  /\ turn \in [Call -> Nat]
  /\ called \in Nat /\ registered \in Nat
  /\ key \in [Call -> Path]
  /\ before \in [Call -> Call \union {NoCall}]
  /\ last \in [Path -> Call \union {NoCall}]
  /\ sawFile \in [Call -> BOOLEAN]

QueueInit ==
  /\ exists \in SUBSET File
  /\ stage = [c \in Call |-> "idle"]
  /\ path \in [Call -> Path]
  /\ turn = [c \in Call |-> 0]
  /\ called = 0 /\ registered = 0
  /\ key = path
  /\ before = [c \in Call |-> NoCall]
  /\ last = [p \in Path |-> NoCall]
  /\ sawFile = [c \in Call |-> FALSE]

\* withFileMutationQueue is called: the registration is chained to the one before it.
Request(c) ==
  /\ stage[c] = "idle"
  /\ stage' = [stage EXCEPT ![c] = "registering"]
  /\ turn' = [turn EXCEPT ![c] = called]
  /\ called' = called + 1
  /\ UNCHANGED <<exists, path, registered, key, before, last, sawFile>>

\* The chain has come to this call's registration.
Registering(c) == stage[c] = "registering" /\ turn[c] = registered

\* getMutationQueueKey: the real path, or the path itself while the file is missing.
MutationQueueKey(p) == IF Target[p] \in exists THEN Target[p] ELSE p

Register(c) ==
  LET k == MutationQueueKey(path[c]) IN
  /\ Registering(c)
  /\ key' = [key EXCEPT ![c] = k]
  /\ before' = [before EXCEPT ![c] = last[k]]
  /\ last' = [last EXCEPT ![k] = c]
  /\ sawFile' = [sawFile EXCEPT ![c] = Target[path[c]] \in exists]
  /\ stage' = [stage EXCEPT ![c] = "waiting"]
  /\ registered' = registered + 1
  /\ UNCHANGED <<exists, path, turn, called>>

\* realpath fails in another way: the call is rejected, the chain goes on.
RegisterFails(c) ==
  /\ Registering(c)
  /\ stage' = [stage EXCEPT ![c] = "failed"]
  /\ registered' = registered + 1
  /\ UNCHANGED <<exists, path, turn, called, key, before, last, sawFile>>

\* currentQueue is settled when the call before has released: the mutation starts.
Start(c) ==
  /\ stage[c] = "waiting"
  /\ before[c] # NoCall => stage[before[c]] = "done"
  /\ stage' = [stage EXCEPT ![c] = "running"]
  /\ UNCHANGED <<exists, path, turn, called, registered, key, before, last, sawFile>>

\* The write tool's mutation creates the file before it ends.
Create(c) ==
  /\ stage[c] = "running"
  /\ Target[path[c]] \notin exists
  /\ exists' = exists \union {Target[path[c]]}
  /\ UNCHANGED <<stage, path, turn, called, registered, key, before, last, sawFile>>

\* A shell command, which does not go through the queue, removes a file.
Remove(f) ==
  /\ f \in exists
  /\ exists' = exists \ {f}
  /\ UNCHANGED <<stage, path, turn, called, registered, key, before, last, sawFile>>

\* Mutant: the key is forgotten even when another mutation waits for this one.
FinishForgetting(c) ==
  /\ stage[c] = "running"
  /\ stage' = [stage EXCEPT ![c] = "done"]
  /\ last' = [last EXCEPT ![key[c]] = NoCall]
  /\ UNCHANGED <<exists, path, turn, called, registered, key, before, sawFile>>

\* The mutation returns or throws: release the next one, forget the key if nobody waits.
Finish(c) ==
  /\ stage[c] = "running"
  /\ stage' = [stage EXCEPT ![c] = "done"]
  /\ last' = IF last[key[c]] = c THEN [last EXCEPT ![key[c]] = NoCall] ELSE last
  /\ UNCHANGED <<exists, path, turn, called, registered, key, before, sawFile>>

QueueNext ==
  \/ \E c \in Call : \/ Request(c) \/ Register(c) \/ RegisterFails(c)
                     \/ Start(c) \/ Create(c) \/ Finish(c)
  \/ \E f \in File : Remove(f)

QueueSpec == QueueInit /\ [][QueueNext]_queueVars

\* PROPERTIES

\* Mutations of one key run in the order of the calls, never two at once: when
\* one has started every earlier call of its key has finished.
KeysInTurn ==
  \A c, d \in Call :
    /\ stage[c] \in {"running", "done"} /\ Registered(d)
    /\ key[c] = key[d] /\ turn[d] < turn[c]
    => stage[d] = "done"

\* What the queue is for, "serialize file mutation operations targeting the same
\* file": two mutations of one file, by whatever paths, are never under way at
\* once, if the file was there when they registered.  (A file created after the
\* first registration changes its key when the path goes through a link.)
FilesApart ==
  \A c, d \in Call :
    /\ c # d /\ Target[path[c]] = Target[path[d]]
    /\ sawFile[c] /\ sawFile[d]
    => {stage[c], stage[d]} # {"running"}

\* The map forgets a key when its last mutation has finished, and not before.
MapHoldsTheBusy ==
  \A k \in Path : last[k] = NoCall <=>
    \A c \in Call : stage[c] \in {"waiting", "running"} => key[c] # k

MutationsTakeTurns == KeysInTurn /\ FilesApart /\ MapHoldsTheBusy
=============================================================================
