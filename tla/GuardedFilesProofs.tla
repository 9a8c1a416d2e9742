------------------------- MODULE GuardedFilesProofs -------------------------
(***************************************************************************)
(* Proofs about the components that guard files shared by calls or by      *)
(* processes, each by itself and as GuardedFiles puts them together.       *)
(* First, the mutation queue keeps its promise for every number of calls,  *)
(* every set of paths and every file system; then, what auth.json holds    *)
(* for any number of instances, tokens, changes and crashes; then, what    *)
(* settings.json holds when a process has nothing more to write, for any   *)
(* number of processes, fields and calls.                                  *)
(***************************************************************************)
EXTENDS GuardedFiles, TLAPS

-----------------------------------------------------------------------------
(* The mutation queue.                                                     *)

\* Turns are distinct, and the calls registered are those whose turn is past.
TurnsInv ==
  /\ registered <= called
  /\ \A c \in Call : stage[c] # "idle" => turn[c] < called
  /\ \A c \in Call : Registered(c) => turn[c] < registered
  /\ \A c \in Call : stage[c] = "registering" => turn[c] >= registered
  /\ \A c, d \in Call :
       c # d /\ stage[c] # "idle" /\ stage[d] # "idle" => turn[c] # turn[d]

Ahead(e, d) == Registered(e) /\ key[e] = key[d] /\ turn[e] < turn[d]

\* A waiting call waits for the last of those ahead of it that has not finished.
WaitsFor(d) ==
  IF before[d] = NoCall
    THEN \A e \in Call : Ahead(e, d) => stage[e] = "done"
    ELSE /\ Ahead(before[d], d)
         /\ \A e \in Call : Ahead(e, d) => e = before[d] \/ turn[e] < turn[before[d]]
WaitInv == \A d \in Call : stage[d] = "waiting" => WaitsFor(d)

\* The map holds the last call of a key until it has finished.
LastOf(k) ==
  IF last[k] = NoCall
    THEN \A e \in Call : Registered(e) /\ key[e] = k => stage[e] = "done"
    ELSE /\ stage[last[k]] \in {"waiting", "running"} /\ key[last[k]] = k
         /\ \A e \in Call : Registered(e) /\ key[e] = k => turn[e] <= turn[last[k]]
LastInv == \A k \in Path : LastOf(k)

SawInv == \A c \in Call : sawFile[c] => Registered(c) /\ key[c] = Target[path[c]]

MutationIInv == QueueTypeOK /\ TurnsInv /\ WaitInv /\ LastInv /\ SawInv /\ KeysInTurn

\* The queue starts in the invariant.
LEMMA QueueInitInv == QueueInit => MutationIInv
  BY TargetAssumption, NoCallAssumption
  DEF QueueInit, MutationIInv, QueueTypeOK, TurnsInv, WaitInv, LastInv, LastOf, SawInv,
      KeysInTurn, Registered, Stages, File

\* A key is a path: where the path leads, or the path itself.
LEMMA KeyIsPath ==
  ASSUME NEW p \in Path
  PROVE  MutationQueueKey(p) \in Path
  BY TargetAssumption DEF MutationQueueKey

\* A new call takes the last turn and disturbs no one.
LEMMA RequestInv ==
  ASSUME MutationIInv, NEW c \in Call, Request(c)
  PROVE  MutationIInv'
<1> USE DEF MutationIInv, Request
<1>1. QueueTypeOK'
  BY DEF QueueTypeOK, Stages
<1>2. stage[c] = "idle" /\ \A e \in Call \ {c} : stage'[e] = stage[e] /\ turn'[e] = turn[e]
  BY DEF QueueTypeOK
<1>3. stage'[c] = "registering" /\ turn'[c] = called
  BY DEF QueueTypeOK
<1>4. \A e \in Call : (Registered(e) <=> Registered(e)') /\ (Registered(e) => e # c)
  BY <1>2, <1>3 DEF Registered, QueueTypeOK
<1>5. TurnsInv'
  BY <1>2, <1>3, <1>4 DEF TurnsInv, QueueTypeOK
<1>6. WaitInv'
  <2> SUFFICES ASSUME NEW d \in Call, stage'[d] = "waiting" PROVE WaitsFor(d)'
    BY DEF WaitInv
  <2>1. d # c /\ stage[d] = "waiting" /\ WaitsFor(d)
    BY <1>2, <1>3 DEF WaitInv
  <2>2. \A e \in Call : Ahead(e, d)' <=> Ahead(e, d)
    BY <1>2, <1>4, <2>1 DEF Ahead
  <2>3. CASE before[d] = NoCall
    BY <1>2, <1>4, <2>1, <2>2, <2>3 DEF WaitsFor, Ahead
  <2>4. CASE before[d] # NoCall
    <3>1. before[d] \in Call /\ before[d] # c
      BY <1>4, <2>1, <2>4 DEF WaitsFor, Ahead, QueueTypeOK
    <3> QED
      BY <1>2, <1>4, <2>1, <2>2, <2>4, <3>1 DEF WaitsFor, Ahead
  <2> QED
    BY <2>3, <2>4
<1>7. LastInv'
  <2> SUFFICES ASSUME NEW k \in Path PROVE LastOf(k)'
    BY DEF LastInv
  <2>1. LastOf(k)
    BY DEF LastInv
  <2>2. CASE last[k] = NoCall
    BY <1>2, <1>4, <2>1, <2>2 DEF LastOf
  <2>3. CASE last[k] # NoCall
    <3>1. last[k] \in Call /\ last[k] # c
      BY <1>2, <2>1, <2>3 DEF LastOf, QueueTypeOK
    <3> QED
      BY <1>2, <1>4, <2>1, <2>3, <3>1 DEF LastOf
  <2> QED
    BY <2>2, <2>3
<1>8. SawInv' /\ KeysInTurn'
  BY <1>2, <1>3, <1>4 DEF SawInv, KeysInTurn, QueueTypeOK
<1> QED
  BY <1>1, <1>5, <1>6, <1>7, <1>8

\* A registration puts the call behind the last of its key: all of them are ahead of it.
LEMMA RegisterInv ==
  ASSUME MutationIInv, NEW c \in Call, Register(c)
  PROVE  MutationIInv'
<1> DEFINE k == MutationQueueKey(path[c])
<1> USE DEF MutationIInv
<1>0. k \in Path
  BY KeyIsPath DEF QueueTypeOK
<1> HIDE DEF k
<1>a. /\ stage[c] = "registering" /\ turn[c] = registered
      /\ key' = [key EXCEPT ![c] = k]
      /\ before' = [before EXCEPT ![c] = last[k]]
      /\ last' = [last EXCEPT ![k] = c]
      /\ sawFile' = [sawFile EXCEPT ![c] = Target[path[c]] \in exists]
      /\ stage' = [stage EXCEPT ![c] = "waiting"]
      /\ registered' = registered + 1
      /\ UNCHANGED <<exists, path, turn, called>>
  BY DEF Register, Registering, k
<1>1. QueueTypeOK'
  BY <1>0, <1>a DEF QueueTypeOK, Stages
<1>2. \A e \in Call \ {c} : /\ stage'[e] = stage[e] /\ key'[e] = key[e]
                            /\ before'[e] = before[e] /\ sawFile'[e] = sawFile[e]
  BY <1>a DEF QueueTypeOK
<1>3. /\ stage'[c] = "waiting" /\ key'[c] = k /\ before'[c] = last[k]
      /\ last'[k] = c /\ \A j \in Path \ {k} : last'[j] = last[j]
  BY <1>0, <1>a DEF QueueTypeOK
<1>4. /\ ~Registered(c) /\ Registered(c)'
      /\ \A e \in Call \ {c} : Registered(e)' <=> Registered(e)
  BY <1>2, <1>3, <1>a DEF Registered
<1>5. \A e \in Call : Registered(e) => turn[e] < turn[c]
  BY <1>a DEF TurnsInv
<1>6. TurnsInv'
  <2>1. turn[c] \in Nat /\ registered \in Nat /\ called \in Nat /\ turn[c] < called
    BY <1>a DEF TurnsInv, QueueTypeOK
  <2>2. registered' <= called' /\ \A e \in Call : stage'[e] # "idle" => turn'[e] < called'
    BY <1>2, <1>3, <1>a, <2>1 DEF TurnsInv
  <2>3. \A e \in Call : Registered(e)' => turn'[e] < registered'
    BY <1>4, <1>a, <2>1 DEF TurnsInv, QueueTypeOK
  <2>4. \A e \in Call : stage'[e] = "registering" => turn'[e] >= registered'
    <3> SUFFICES ASSUME NEW e \in Call, stage'[e] = "registering" PROVE turn'[e] >= registered'
      OBVIOUS
    <3>1. e # c /\ stage[e] = "registering"
      BY <1>2, <1>3
    <3>2. turn[e] # turn[c] /\ turn[e] >= registered /\ turn[e] \in Nat
      BY <1>a, <3>1 DEF TurnsInv, QueueTypeOK
    <3> QED
      BY <1>a, <2>1, <3>2
  <2>5. \A e, d \in Call :
          e # d /\ stage'[e] # "idle" /\ stage'[d] # "idle" => turn'[e] # turn'[d]
    <3>1. \A e \in Call : stage'[e] # "idle" => stage[e] # "idle"
      BY <1>2, <1>a
    <3> QED
      BY <1>a, <3>1 DEF TurnsInv
  <2> QED
    BY <2>2, <2>3, <2>4, <2>5 DEF TurnsInv
<1>7. LastOf(k)
  BY <1>0 DEF LastInv
<1>8. WaitInv'
  <2> SUFFICES ASSUME NEW d \in Call, stage'[d] = "waiting" PROVE WaitsFor(d)'
    BY DEF WaitInv
  <2>1. CASE d = c
    <3> SUFFICES WaitsFor(c)'
      BY <2>1
    <3>1. \A e \in Call : Ahead(e, c)' => e # c /\ Registered(e) /\ key[e] = k
      BY <1>2, <1>3, <1>4, <1>a DEF Ahead, QueueTypeOK
    <3>2. CASE last[k] = NoCall
      <4>1. \A e \in Call : Ahead(e, c)' => stage'[e] = "done"
        BY <1>2, <1>7, <3>1, <3>2 DEF LastOf
      <4> QED
        BY <1>3, <3>2, <4>1 DEF WaitsFor
    <3>3. CASE last[k] # NoCall
      <4>1. PICK p \in Call : p = last[k]
        BY <1>0, <3>3 DEF QueueTypeOK
      <4>2. Registered(p) /\ key[p] = k /\ p # c
        BY <1>4, <1>7, <3>3, <4>1 DEF LastOf, Registered
      <4>3. Ahead(p, c)'
        BY <1>2, <1>3, <1>4, <1>5, <1>a, <4>2 DEF Ahead
      <4>4. \A e \in Call : Ahead(e, c)' => e = p \/ turn[e] < turn[p]
        <5> SUFFICES ASSUME NEW e \in Call, Ahead(e, c)', e # p
                     PROVE  turn[e] < turn[p]
          OBVIOUS
        <5>1. Registered(e) /\ key[e] = k
          BY <3>1
        <5>2. turn[e] <= turn[p]
          BY <1>7, <3>3, <4>1, <5>1 DEF LastOf
        <5>3. turn[e] # turn[p]
          BY <4>2, <5>1 DEF TurnsInv, Registered
        <5> QED
          BY <5>2, <5>3 DEF QueueTypeOK
      <4>5. before'[c] = p /\ p # NoCall /\ turn' = turn
        BY <1>3, <1>a, <3>3, <4>1
      <4> QED
        BY <4>3, <4>4, <4>5 DEF WaitsFor
    <3> QED
      BY <3>2, <3>3
  <2>2. CASE d # c
    <3>1. stage[d] = "waiting" /\ WaitsFor(d)
      BY <1>2, <2>2 DEF WaitInv
    <3>2. \A e \in Call : Ahead(e, d)' <=> Ahead(e, d)
      <4>1. turn[d] < turn[c]
        BY <1>5, <3>1 DEF Registered
      <4> QED
        BY <1>2, <1>4, <1>a, <2>2, <4>1 DEF Ahead, QueueTypeOK
    <3>3. \A e \in Call : Ahead(e, d) => e # c
      BY <1>4 DEF Ahead
    <3>4. before'[d] = before[d] /\ turn' = turn
      BY <1>2, <1>a, <2>2
    <3>5. CASE before[d] = NoCall
      BY <1>2, <3>1, <3>2, <3>3, <3>4, <3>5 DEF WaitsFor
    <3>6. CASE before[d] # NoCall
      <4>1. before[d] \in Call /\ Ahead(before[d], d)
        BY <3>1, <3>6 DEF WaitsFor, QueueTypeOK
      <4> QED
        BY <3>1, <3>2, <3>4, <3>6, <4>1 DEF WaitsFor
    <3> QED
      BY <3>5, <3>6
  <2> QED
    BY <2>1, <2>2
<1>9. LastInv'
  <2> SUFFICES ASSUME NEW j \in Path PROVE LastOf(j)'
    BY DEF LastInv
  <2>1. CASE j = k
    <3>1. \A e \in Call : Registered(e)' => turn'[e] <= turn'[c]
      BY <1>4, <1>5, <1>a DEF QueueTypeOK
    <3>2. c # NoCall
      BY NoCallAssumption
    <3> QED
      BY <1>3, <2>1, <3>1, <3>2 DEF LastOf
  <2>2. CASE j # k
    <3>1. LastOf(j) /\ last'[j] = last[j]
      BY <1>3, <2>2 DEF LastInv
    <3>2. \A e \in Call : Registered(e)' /\ key'[e] = j => e # c /\ Registered(e) /\ key[e] = j
      BY <1>2, <1>3, <1>4, <2>2
    <3>3. CASE last[j] = NoCall
      BY <1>2, <3>1, <3>2, <3>3 DEF LastOf
    <3>4. CASE last[j] # NoCall
      <4>1. last[j] \in Call /\ last[j] # c
        BY <1>a, <3>1, <3>4 DEF LastOf, QueueTypeOK
      <4> QED
        BY <1>2, <1>a, <3>1, <3>2, <3>4, <4>1 DEF LastOf
    <3> QED
      BY <3>3, <3>4
  <2> QED
    BY <2>1, <2>2
<1>10. SawInv'
  <2> SUFFICES ASSUME NEW d \in Call, sawFile'[d]
               PROVE  Registered(d)' /\ key'[d] = Target[path'[d]]
    BY DEF SawInv
  <2>1. CASE d = c
    <3>1. Target[path[c]] \in exists
      BY <1>a, <2>1 DEF QueueTypeOK
    <3> QED
      BY <1>3, <1>4, <1>a, <2>1, <3>1 DEF k, MutationQueueKey
  <2>2. CASE d # c
    BY <1>2, <1>4, <1>a, <2>2 DEF SawInv
  <2> QED
    BY <2>1, <2>2
<1>11. KeysInTurn'
  <2> SUFFICES ASSUME NEW b \in Call, NEW d \in Call,
                      stage'[b] \in {"running", "done"}, Registered(d)',
                      key'[b] = key'[d], turn'[d] < turn'[b]
               PROVE  stage'[d] = "done"
    BY DEF KeysInTurn
  <2>1. b # c /\ Registered(b)
    BY <1>2, <1>3 DEF Registered
  <2>2. d # c
    BY <1>5, <1>a, <2>1 DEF QueueTypeOK
  <2> QED
    BY <1>2, <1>4, <1>a, <2>1, <2>2 DEF KeysInTurn
<1> QED
  BY <1>1, <1>6, <1>8, <1>9, <1>10, <1>11

\* A registration that fails only lets the next one go.
LEMMA RegisterFailsInv ==
  ASSUME MutationIInv, NEW c \in Call, RegisterFails(c)
  PROVE  MutationIInv'
<1> USE DEF MutationIInv
<1>a. /\ stage[c] = "registering" /\ turn[c] = registered
      /\ stage' = [stage EXCEPT ![c] = "failed"]
      /\ registered' = registered + 1
      /\ UNCHANGED <<exists, path, turn, called, key, before, last, sawFile>>
  BY DEF RegisterFails, Registering
<1>1. QueueTypeOK'
  BY <1>a DEF QueueTypeOK, Stages
<1>2. stage'[c] = "failed" /\ \A e \in Call \ {c} : stage'[e] = stage[e]
  BY <1>a DEF QueueTypeOK
<1>3. \A e \in Call : (Registered(e)' <=> Registered(e)) /\ (Registered(e) => e # c)
  BY <1>2, <1>a DEF Registered
<1>4. TurnsInv'
  <2>1. turn[c] \in Nat /\ registered \in Nat /\ called \in Nat /\ turn[c] < called
    BY <1>a DEF TurnsInv, QueueTypeOK
  <2>2. registered' <= called' /\ \A e \in Call : stage'[e] # "idle" => turn'[e] < called'
    BY <1>2, <1>a, <2>1 DEF TurnsInv
  <2>3. \A e \in Call : Registered(e)' => turn'[e] < registered'
    BY <1>3, <1>a, <2>1 DEF TurnsInv, QueueTypeOK
  <2>4. \A e \in Call : stage'[e] = "registering" => turn'[e] >= registered'
    <3> SUFFICES ASSUME NEW e \in Call, stage'[e] = "registering" PROVE turn'[e] >= registered'
      OBVIOUS
    <3>1. e # c /\ stage[e] = "registering"
      BY <1>2
    <3>2. turn[e] # turn[c] /\ turn[e] >= registered /\ turn[e] \in Nat
      BY <1>a, <3>1 DEF TurnsInv, QueueTypeOK
    <3> QED
      BY <1>a, <2>1, <3>2
  <2>5. \A e, d \in Call :
          e # d /\ stage'[e] # "idle" /\ stage'[d] # "idle" => turn'[e] # turn'[d]
    <3>1. \A e \in Call : stage'[e] # "idle" => stage[e] # "idle"
      BY <1>2, <1>a
    <3> QED
      BY <1>a, <3>1 DEF TurnsInv
  <2> QED
    BY <2>2, <2>3, <2>4, <2>5 DEF TurnsInv
<1>5. WaitInv'
  <2> SUFFICES ASSUME NEW d \in Call, stage'[d] = "waiting" PROVE WaitsFor(d)'
    BY DEF WaitInv
  <2>1. stage[d] = "waiting" /\ WaitsFor(d)
    BY <1>2 DEF WaitInv
  <2>2. \A e \in Call : Ahead(e, d)' <=> Ahead(e, d)
    BY <1>3, <1>a DEF Ahead
  <2>3. CASE before[d] = NoCall
    <3>1. \A e \in Call : Ahead(e, d)' => stage'[e] = "done"
      BY <1>2, <1>3, <2>1, <2>2, <2>3 DEF WaitsFor, Ahead
    <3> QED
      BY <1>a, <2>3, <3>1 DEF WaitsFor
  <2>4. CASE before[d] # NoCall
    <3>1. before[d] \in Call
      BY <2>4 DEF QueueTypeOK
    <3> QED
      BY <1>a, <2>1, <2>2, <2>4, <3>1 DEF WaitsFor
  <2> QED
    BY <2>3, <2>4
<1>6. LastInv'
  <2> SUFFICES ASSUME NEW k \in Path PROVE LastOf(k)'
    BY DEF LastInv
  <2>1. LastOf(k)
    BY DEF LastInv
  <2>2. CASE last[k] = NoCall
    BY <1>2, <1>3, <1>a, <2>1, <2>2 DEF LastOf
  <2>3. CASE last[k] # NoCall
    <3>1. last[k] \in Call /\ last[k] # c
      BY <1>a, <2>1, <2>3 DEF LastOf, QueueTypeOK
    <3> QED
      BY <1>2, <1>3, <1>a, <2>1, <2>3, <3>1 DEF LastOf
  <2> QED
    BY <2>2, <2>3
<1>7. SawInv' /\ KeysInTurn'
  BY <1>2, <1>3, <1>a DEF SawInv, KeysInTurn, Registered
<1> QED
  BY <1>1, <1>4, <1>5, <1>6, <1>7

\* A mutation starts when nothing of its key is under way.
LEMMA StartInv ==
  ASSUME MutationIInv, NEW c \in Call, Start(c)
  PROVE  MutationIInv'
<1> USE DEF MutationIInv
<1>a. /\ stage[c] = "waiting" /\ (before[c] # NoCall => stage[before[c]] = "done")
      /\ stage' = [stage EXCEPT ![c] = "running"]
      /\ UNCHANGED <<exists, path, turn, called, registered, key, before, last, sawFile>>
  BY DEF Start
<1>1. QueueTypeOK'
  BY <1>a DEF QueueTypeOK, Stages
<1>2. stage'[c] = "running" /\ \A e \in Call \ {c} : stage'[e] = stage[e]
  BY <1>a DEF QueueTypeOK
<1>3. \A e \in Call : Registered(e)' <=> Registered(e)
  BY <1>2, <1>a DEF Registered
<1>4. \A e \in Call : stage[e] = "done" <=> stage'[e] = "done"
  BY <1>2, <1>a
<1>5. TurnsInv'
  BY <1>2, <1>3, <1>a DEF TurnsInv
<1>6. WaitInv'
  <2> SUFFICES ASSUME NEW d \in Call, stage'[d] = "waiting" PROVE WaitsFor(d)'
    BY DEF WaitInv
  <2>1. stage[d] = "waiting" /\ WaitsFor(d)
    BY <1>2 DEF WaitInv
  <2>2. \A e \in Call : Ahead(e, d)' <=> Ahead(e, d)
    BY <1>3, <1>a DEF Ahead
  <2>3. CASE before[d] = NoCall
    BY <1>4, <1>a, <2>1, <2>2, <2>3 DEF WaitsFor
  <2>4. CASE before[d] # NoCall
    <3>1. before[d] \in Call
      BY <2>4 DEF QueueTypeOK
    <3> QED
      BY <1>a, <2>1, <2>2, <2>4, <3>1 DEF WaitsFor
  <2> QED
    BY <2>3, <2>4
<1>7. LastInv'
  <2> SUFFICES ASSUME NEW k \in Path PROVE LastOf(k)'
    BY DEF LastInv
  <2>1. LastOf(k)
    BY DEF LastInv
  <2>2. CASE last[k] = NoCall
    BY <1>3, <1>4, <1>a, <2>1, <2>2 DEF LastOf
  <2>3. CASE last[k] # NoCall
    <3>1. last[k] \in Call /\ stage'[last[k]] \in {"waiting", "running"}
      BY <1>2, <2>1, <2>3 DEF LastOf, QueueTypeOK
    <3> QED
      BY <1>3, <1>a, <2>1, <2>3, <3>1 DEF LastOf
  <2> QED
    BY <2>2, <2>3
<1>8. \A e \in Call : Ahead(e, c) => stage[e] = "done"
  <2>1. WaitsFor(c)
    BY <1>a DEF WaitInv
  <2>2. CASE before[c] = NoCall
    BY <2>1, <2>2 DEF WaitsFor
  <2>3. CASE before[c] # NoCall
    <3> SUFFICES ASSUME NEW e \in Call, Ahead(e, c), e # before[c] PROVE stage[e] = "done"
      BY <1>a, <2>3
    <3>1. /\ before[c] \in Call /\ stage[before[c]] = "done"
          /\ Ahead(before[c], c) /\ turn[e] < turn[before[c]]
      BY <1>a, <2>1, <2>3 DEF WaitsFor, QueueTypeOK
    <3> QED
      BY <3>1 DEF KeysInTurn, Ahead
  <2> QED
    BY <2>2, <2>3
<1>9. KeysInTurn'
  <2> SUFFICES ASSUME NEW b \in Call, NEW d \in Call,
                      stage'[b] \in {"running", "done"}, Registered(d)',
                      key[b] = key[d], turn[d] < turn[b]
               PROVE  stage[d] = "done"
    BY <1>4, <1>a DEF KeysInTurn
  <2>1. CASE b = c
    BY <1>3, <1>8, <2>1 DEF Ahead
  <2>2. CASE b # c
    BY <1>2, <1>3, <2>2 DEF KeysInTurn
  <2> QED
    BY <2>1, <2>2
<1>10. SawInv'
  BY <1>3, <1>a DEF SawInv
<1> QED
  BY <1>1, <1>5, <1>6, <1>7, <1>9, <1>10

\* A mutation that creates its file, or a file removed, changes only the file system.
LEMMA FilesInv ==
  ASSUME MutationIInv,
         exists' \subseteq File,
         UNCHANGED <<stage, path, turn, called, registered, key, before, last, sawFile>>
  PROVE  MutationIInv'
<1> USE DEF MutationIInv
<1>1. QueueTypeOK'
  BY DEF QueueTypeOK, File
<1>2. TurnsInv' /\ SawInv' /\ KeysInTurn'
  BY DEF TurnsInv, SawInv, KeysInTurn, Registered
<1>3. WaitInv'
  BY DEF WaitInv, WaitsFor, Ahead, Registered
<1>4. LastInv'
  BY DEF LastInv, LastOf, Registered
<1> QED
  BY <1>1, <1>2, <1>3, <1>4

\* A mutation that ends releases the next and leaves the map if it was the last.
LEMMA FinishInv ==
  ASSUME MutationIInv, NEW c \in Call, Finish(c)
  PROVE  MutationIInv'
<1> USE DEF MutationIInv
<1>a. /\ stage[c] = "running"
      /\ stage' = [stage EXCEPT ![c] = "done"]
      /\ last' = IF last[key[c]] = c THEN [last EXCEPT ![key[c]] = NoCall] ELSE last
      /\ UNCHANGED <<exists, path, turn, called, registered, key, before, sawFile>>
  BY DEF Finish
<1>1. QueueTypeOK'
  BY <1>a DEF QueueTypeOK, Stages
<1>2. stage'[c] = "done" /\ \A e \in Call \ {c} : stage'[e] = stage[e]
  BY <1>a DEF QueueTypeOK
<1>3. \A e \in Call : Registered(e)' <=> Registered(e)
  BY <1>2, <1>a DEF Registered
<1>4. \A e \in Call : stage[e] = "done" => stage'[e] = "done"
  BY <1>2
<1>5. TurnsInv'
  BY <1>2, <1>3, <1>a DEF TurnsInv
<1>6. WaitInv'
  <2> SUFFICES ASSUME NEW d \in Call, stage'[d] = "waiting" PROVE WaitsFor(d)'
    BY DEF WaitInv
  <2>1. stage[d] = "waiting" /\ WaitsFor(d)
    BY <1>2 DEF WaitInv
  <2>2. \A e \in Call : Ahead(e, d)' <=> Ahead(e, d)
    BY <1>3, <1>a DEF Ahead
  <2>3. CASE before[d] = NoCall
    BY <1>4, <1>a, <2>1, <2>2, <2>3 DEF WaitsFor
  <2>4. CASE before[d] # NoCall
    <3>1. before[d] \in Call
      BY <2>4 DEF QueueTypeOK
    <3> QED
      BY <1>a, <2>1, <2>2, <2>4, <3>1 DEF WaitsFor
  <2> QED
    BY <2>3, <2>4
<1>7. LastInv'
  <2> SUFFICES ASSUME NEW k \in Path PROVE LastOf(k)'
    BY DEF LastInv
  <2>1. LastOf(k) /\ key[c] \in Path
    BY DEF LastInv, QueueTypeOK
  <2>2. CASE last[k] = NoCall
    <3>1. last'[k] = NoCall
      BY <1>a, <2>1, <2>2 DEF QueueTypeOK
    <3> QED
      BY <1>3, <1>4, <1>a, <2>1, <2>2, <3>1 DEF LastOf
  <2>3. CASE last[k] = c /\ last[k] # NoCall
    <3>1. key[c] = k /\ last'[k] = NoCall
      BY <1>a, <2>1, <2>3 DEF LastOf, QueueTypeOK
    <3>2. \A e \in Call : Registered(e) /\ key[e] = k => stage'[e] = "done"
      <4> SUFFICES ASSUME NEW e \in Call, Registered(e), key[e] = k, e # c
                   PROVE  stage[e] = "done"
        BY <1>2
      <4>1. turn[e] <= turn[c]
        BY <2>1, <2>3 DEF LastOf
      <4>2. turn[e] # turn[c]
        BY <1>a DEF TurnsInv, Registered
      <4>3. turn[e] < turn[c]
        BY <4>1, <4>2 DEF QueueTypeOK
      <4> QED
        BY <1>a, <3>1, <4>3 DEF KeysInTurn
    <3> QED
      BY <1>3, <1>a, <3>1, <3>2 DEF LastOf
  <2>4. CASE last[k] # c /\ last[k] # NoCall
    <3>1. last'[k] = last[k] /\ last[k] \in Call
      BY <1>a, <2>1, <2>4 DEF QueueTypeOK
    <3> QED
      BY <1>2, <1>3, <1>a, <2>1, <2>4, <3>1 DEF LastOf
  <2> QED
    BY <2>2, <2>3, <2>4
<1>8. KeysInTurn'
  <2> SUFFICES ASSUME NEW b \in Call, NEW d \in Call,
                      stage'[b] \in {"running", "done"}, Registered(d)',
                      key[b] = key[d], turn[d] < turn[b]
               PROVE  stage'[d] = "done"
    BY <1>a DEF KeysInTurn
  <2>1. stage[b] \in {"running", "done"} /\ Registered(d)
    BY <1>2, <1>3, <1>a
  <2> QED
    BY <1>4, <2>1 DEF KeysInTurn
<1>9. SawInv'
  BY <1>3, <1>a DEF SawInv
<1> QED
  BY <1>1, <1>5, <1>6, <1>7, <1>8, <1>9

\* The invariant is inductive.
LEMMA QueueStepInv == MutationIInv /\ [QueueNext]_queueVars => MutationIInv'
<1> SUFFICES ASSUME MutationIInv, [QueueNext]_queueVars PROVE MutationIInv'
  OBVIOUS
<1>1. ASSUME NEW c \in Call, Request(c) PROVE MutationIInv'
  BY <1>1, RequestInv
<1>2. ASSUME NEW c \in Call, Register(c) PROVE MutationIInv'
  BY <1>2, RegisterInv
<1>3. ASSUME NEW c \in Call, RegisterFails(c) PROVE MutationIInv'
  BY <1>3, RegisterFailsInv
<1>4. ASSUME NEW c \in Call, Start(c) PROVE MutationIInv'
  BY <1>4, StartInv
<1>5. ASSUME NEW c \in Call, Create(c) PROVE MutationIInv'
  <2>1. exists' \subseteq File
    BY <1>5 DEF MutationIInv, QueueTypeOK, Create, File
  <2> QED
    BY <1>5, <2>1, FilesInv DEF Create
<1>6. ASSUME NEW c \in Call, Finish(c) PROVE MutationIInv'
  BY <1>6, FinishInv
<1>7. ASSUME NEW f \in File, Remove(f) PROVE MutationIInv'
  <2>1. exists' \subseteq File
    BY <1>7 DEF MutationIInv, QueueTypeOK, Remove
  <2> QED
    BY <1>7, <2>1, FilesInv DEF Remove
<1>8. CASE UNCHANGED queueVars
  <2>1. exists' \subseteq File
    BY <1>8 DEF MutationIInv, QueueTypeOK, queueVars
  <2> QED
    BY <1>8, <2>1, FilesInv DEF queueVars
<1> QED
  BY <1>1, <1>2, <1>3, <1>4, <1>5, <1>6, <1>7, <1>8 DEF QueueNext

\* What the invariant says of the calls under way.
LEMMA QueuePromise == MutationIInv => MutationsTakeTurns
<1> SUFFICES ASSUME MutationIInv PROVE MutationsTakeTurns
  OBVIOUS
<1> USE DEF MutationIInv
<1>1. FilesApart
  <2> SUFFICES ASSUME NEW c \in Call, NEW d \in Call, c # d,
                      Target[path[c]] = Target[path[d]], sawFile[c], sawFile[d],
                      stage[c] = "running", stage[d] = "running"
               PROVE  FALSE
    BY DEF FilesApart
  <2>1. key[c] = key[d] /\ Registered(c) /\ Registered(d)
    BY DEF SawInv
  <2>2. turn[c] # turn[d] /\ turn[c] \in Nat /\ turn[d] \in Nat
    BY DEF TurnsInv, QueueTypeOK
  <2>3. turn[c] < turn[d] \/ turn[d] < turn[c]
    BY <2>2
  <2> QED
    BY <2>1, <2>3 DEF KeysInTurn
<1>2. MapHoldsTheBusy
  <2> SUFFICES ASSUME NEW k \in Path
               PROVE  last[k] = NoCall <=>
                        \A c \in Call : stage[c] \in {"waiting", "running"} => key[c] # k
    BY DEF MapHoldsTheBusy
  <2>1. LastOf(k)
    BY DEF LastInv
  <2>2. CASE last[k] = NoCall
    BY <2>1, <2>2 DEF LastOf, Registered
  <2>3. CASE last[k] # NoCall
    BY <2>1, <2>3 DEF LastOf, QueueTypeOK
  <2> QED
    BY <2>2, <2>3
<1> QED
  BY <1>1, <1>2 DEF MutationsTakeTurns

\* For every set of calls and paths and every behaviour of the file system: the
\* calls of one key run one at a time in the order they were made, two mutations of
\* a file that existed when they registered never overlap, and the map is empty of
\* a key exactly when none of its calls is waiting or running
\* (file-mutation-queue.ts, withFileMutationQueue).
THEOREM MutationsTakeTurnsAlways == QueueSpec => []MutationsTakeTurns
<1>1. QueueSpec => []MutationIInv
  BY QueueInitInv, QueueStepInv, PTL DEF QueueSpec
<1> QED
  BY <1>1, QueuePromise, PTL

\* The queue's variables keep their types.
THEOREM QueueTypeAlways == QueueSpec => []QueueTypeOK
<1>1. QueueSpec => []MutationIInv
  BY QueueInitInv, QueueStepInv, PTL DEF QueueSpec
<1>2. MutationIInv => QueueTypeOK
  BY DEF MutationIInv
<1> QED
  BY <1>1, <1>2, PTL

-----------------------------------------------------------------------------
(* The credentials.                                                        *)

AuthSpec == AuthInit /\ [][AuthNext]_authVars

\* An instance at work in the locked section runs, and a lost lock is noticed there only.
WorkersRun ==
  \A i \in Instance :
    /\ refresh[i] # "no" => i \in live
    /\ compromised[i] => Holding(i)

\* The tokens in the file, on the way to the provider and used up were all issued.
TokensAreIssued ==
  /\ authFile # Torn => authFile.oauth <= minted
  /\ \A t \in spent : t <= minted
  /\ \A i \in Instance : refresh[i] = "sent" => asked[i] \in 1 .. minted

\* Only the owner of the lock is in the locked section, and knows that the lock is its own.
OneHolder == \A i \in Instance : Holding(i) => authLock = i /\ ~compromised[i]

\* The token on the way to the provider is not used up.
AskedIsGood == \A i \in Instance : refresh[i] = "sent" => asked[i] \notin spent

\* What the holder will write over the file has no key older than the file's.
HolderHasKey == \A i \in Instance : Holding(i) => data[i].key >= stored

\* The inductive invariant of CredentialsKept.
CredentialsInv ==
  /\ AuthTypeOK /\ WorkersRun /\ TokensAreIssued /\ stored <= changes
  /\ ~mishap =>
       /\ OneHolder /\ AskedIsGood /\ HolderHasKey
       /\ NoTokenSentTwice /\ StoredTokenIsGood /\ KeyIsStored

\* THE LOCK

\* withLock, unless it takes the lock from an instance at work, finds nobody at work.
LEMMA SyncFindsNobody ==
  ASSUME CredentialsInv, SyncLocked, ~mishap'
  PROVE  ~mishap /\ \A i \in Instance : ~Holding(i)
BY AuthNames DEF CredentialsInv, SyncLocked, OneHolder, AuthTypeOK

\* Nor does a locker that waits for the lock.
LEMMA AsyncFindsNobody ==
  ASSUME CredentialsInv, AsyncLockable, ~mishap
  PROVE  \A i \in Instance : ~Holding(i)
BY AuthNames DEF CredentialsInv, AsyncLockable, LockIsDead, OneHolder, AuthTypeOK

\* When nobody is at work, the token in the file is good.
LEMMA FileIsGood ==
  ASSUME CredentialsInv, ~mishap, \A i \in Instance : ~Holding(i)
  PROVE  authFile # Torn /\ authFile.oauth \notin spent
BY AuthNames DEF CredentialsInv, StoredTokenIsGood, KeyIsStored, Holding, AuthTypeOK

\* THE STEPS

\* A lock that is left or taken has a type.
LEMMA SyncTypes ==
  ASSUME AuthTypeOK, SyncLocked \/ SyncFails
  PROVE  /\ authLock' \in Instance \union {NoOne} /\ aged' \in BOOLEAN /\ mishap' \in BOOLEAN
         /\ mishap => mishap'
BY DEF AuthTypeOK, SyncLocked, SyncFails, lockVars

LEMMA LoadTypes ==
  ASSUME AuthTypeOK, NEW i \in Instance, NEW content \in Content, LoadInto(i, content)
  PROVE  /\ data' \in [Instance -> Content] /\ loadError' \in [Instance -> BOOLEAN]
         /\ authLock' \in Instance \union {NoOne} /\ aged' \in BOOLEAN /\ mishap' \in BOOLEAN
         /\ \A j \in Instance : j # i => data'[j] = data[j]
         /\ mishap => mishap'
BY SyncTypes DEF AuthTypeOK, LoadInto

\* set, remove, login and logout keep the invariant: what they write has a token that
\* was issued and is not used up, if the file had, and no key older than the last one.
LEMMA ChangeKeeps ==
  ASSUME CredentialsInv, NEW i \in Instance, NEW changed \in Content, NEW merged,
         NEW saved \in {stored, changes + 1},
         data[i].key >= stored => changed.key >= stored,
         minted' \in minted .. MaxTokens,
         authFile # Torn =>
           /\ merged \in Content /\ merged.oauth <= minted'
           /\ authFile.oauth \notin spent => merged.oauth \notin spent
           /\ authFile.key >= stored => merged.key >= saved,
         Change(i, changed, merged, saved)
  PROVE  CredentialsInv'
<1> USE AuthBounds, AuthNames
<1>1. /\ authLock' \in Instance \union {NoOne} /\ aged' \in BOOLEAN /\ mishap' \in BOOLEAN
      /\ mishap => mishap'
  BY SyncTypes DEF Change, PersistProviderChange, CredentialsInv, AuthTypeOK, lockVars
<1>2. /\ authFile' \in Content \union {Torn}
      /\ stored' \in 0 .. MaxChanges /\ stored' <= changes'
      /\ changes' = changes + 1 /\ changes' \in 0 .. MaxChanges
      /\ data' = [data EXCEPT ![i] = changed] /\ data' \in [Instance -> Content]
  BY DEF Change, PersistProviderChange, CredentialsInv, AuthTypeOK
<1>3. AuthTypeOK'
  <2>1. UNCHANGED <<expired, spent, live, loadError, refresh, asked, compromised, crashes>>
    BY DEF Change
  <2>2. minted' \in 0 .. MaxTokens
    BY DEF CredentialsInv, AuthTypeOK
  <2> QED BY <1>1, <1>2, <2>1, <2>2 DEF CredentialsInv, AuthTypeOK
<1>4. WorkersRun'
  BY DEF Change, CredentialsInv, WorkersRun, Holding
<1>5. TokensAreIssued'
  BY DEF Change, PersistProviderChange, CredentialsInv, TokensAreIssued, AuthTypeOK, Content, Token
<1>6. ASSUME ~mishap'
      PROVE  /\ OneHolder' /\ AskedIsGood' /\ HolderHasKey'
             /\ NoTokenSentTwice' /\ StoredTokenIsGood' /\ KeyIsStored'
  <2>1. CASE SyncLocked
    <3>1. ~mishap /\ \A j \in Instance : ~Holding(j) /\ ~Holding(j)'
      BY <1>6, <2>1, SyncFindsNobody DEF Change, Holding
    <3>2. authFile # Torn /\ authFile.oauth \notin spent /\ authFile.key >= stored
      BY <3>1, FileIsGood DEF CredentialsInv, KeyIsStored
    <3>3. OneHolder' /\ HolderHasKey' /\ AskedIsGood' /\ NoTokenSentTwice'
      BY <3>1 DEF OneHolder, HolderHasKey, AskedIsGood, NoTokenSentTwice, Holding
    <3>4. /\ authFile' # Torn /\ authFile'.oauth \notin spent' /\ authFile'.key >= stored'
      BY <3>2 DEF Change, PersistProviderChange
    <3> QED BY <3>3, <3>4 DEF StoredTokenIsGood, KeyIsStored
  <2>2. CASE ~SyncLocked
    <3>1. UNCHANGED <<authFile, stored, authLock, aged, mishap, spent, refresh, asked, compromised>>
      BY <2>2 DEF Change, PersistProviderChange, SyncFails, lockVars
    <3>2. HolderHasKey'
      BY <1>2, <1>6, <3>1 DEF CredentialsInv, HolderHasKey, Holding, AuthTypeOK
    <3> QED
      BY <1>6, <3>1, <3>2 DEF CredentialsInv, OneHolder, AskedIsGood, NoTokenSentTwice,
                              StoredTokenIsGood, KeyIsStored, Holding
  <2> QED BY <2>1, <2>2
<1> QED BY <1>2, <1>3, <1>4, <1>5, <1>6 DEF CredentialsInv

LEMMA SetKeyKeeps ==
  ASSUME CredentialsInv, NEW i \in Instance, SetKey(i)
  PROVE  CredentialsInv'
<1>1. /\ WithKey(data[i]) \in Content /\ WithKey(data[i]).key = changes + 1
      /\ authFile # Torn => /\ WithKey(authFile) \in Content
                            /\ WithKey(authFile).oauth = authFile.oauth
                            /\ WithKey(authFile).key = changes + 1
  BY AuthBounds DEF CredentialsInv, AuthTypeOK, WithKey, Content, SetKey, Change
<1>2. /\ minted' = minted /\ minted' \in minted .. MaxTokens /\ stored <= changes
      /\ stored \in Nat /\ changes \in Nat
      /\ authFile # Torn => authFile.oauth <= minted
  BY AuthBounds DEF CredentialsInv, AuthTypeOK, TokensAreIssued, SetKey
<1>3. Change(i, WithKey(data[i]), WithKey(authFile), changes + 1)
  BY DEF SetKey
<1> QED BY <1>1, <1>2, <1>3, ChangeKeeps

LEMMA LoginKeeps ==
  ASSUME CredentialsInv, NEW i \in Instance, Login(i)
  PROVE  CredentialsInv'
<1>1. /\ WithLogin(data[i]) \in Content /\ WithLogin(data[i]).key = data[i].key
      /\ authFile # Torn => /\ WithLogin(authFile) \in Content
                            /\ WithLogin(authFile).oauth = minted + 1
                            /\ WithLogin(authFile).key = authFile.key
  BY AuthBounds DEF CredentialsInv, AuthTypeOK, WithLogin, Content, Login
<1>2. /\ minted' = minted + 1 /\ minted' \in minted .. MaxTokens /\ minted + 1 \notin spent
  BY AuthBounds DEF CredentialsInv, AuthTypeOK, TokensAreIssued, Login
<1>3. Change(i, WithLogin(data[i]), WithLogin(authFile), stored)
  BY DEF Login
<1>4. minted \in Nat
  BY DEF CredentialsInv, AuthTypeOK
<1> QED BY <1>1, <1>2, <1>3, <1>4, ChangeKeeps

LEMMA LogoutKeeps ==
  ASSUME CredentialsInv, NEW i \in Instance, Logout(i)
  PROVE  CredentialsInv'
<1>1. /\ WithoutLogin(data[i]) \in Content /\ WithoutLogin(data[i]).key = data[i].key
      /\ authFile # Torn => /\ WithoutLogin(authFile) \in Content
                            /\ WithoutLogin(authFile).oauth = 0
                            /\ WithoutLogin(authFile).key = authFile.key
  BY AuthBounds DEF CredentialsInv, AuthTypeOK, WithoutLogin, Content, Logout
<1>2. /\ minted' = minted /\ minted' \in minted .. MaxTokens /\ minted \in Nat /\ 0 \notin spent
  BY AuthBounds DEF CredentialsInv, AuthTypeOK, Token, Logout
<1>3. Change(i, WithoutLogin(data[i]), WithoutLogin(authFile), stored)
  BY DEF Logout
<1> QED BY <1>1, <1>2, <1>3, ChangeKeeps

\* reload, of an instance that is not in the locked section, keeps the invariant.
LEMMA LoadKeeps ==
  ASSUME CredentialsInv, NEW i \in Instance, NEW content \in Content, LoadInto(i, content),
         refresh[i] \in {"no", "reloading"}, ~compromised[i],
         refresh' \in [Instance -> {"no", "locking", "sent", "rotated", "refused", "reloading"}],
         refresh'[i] \in {"no", "reloading"}, refresh'[i] # "no" => i \in live',
         \A j \in Instance : j # i => refresh'[j] = refresh[j],
         live \subseteq live', live' \subseteq Instance,
         UNCHANGED <<authFile, providerVars, asked, compromised, boundVars, stored>>
  PROVE  CredentialsInv'
<1> USE AuthBounds, AuthNames
<1>1. /\ data' \in [Instance -> Content] /\ loadError' \in [Instance -> BOOLEAN]
      /\ authLock' \in Instance \union {NoOne} /\ aged' \in BOOLEAN /\ mishap' \in BOOLEAN
      /\ \A j \in Instance : j # i => data'[j] = data[j]
      /\ mishap => mishap'
  BY LoadTypes DEF CredentialsInv
<1>2. UNCHANGED <<authFile, minted, expired, spent, asked, compromised, changes, crashes, stored>>
  BY DEF providerVars, boundVars
<1>3. AuthTypeOK'
  BY <1>1, <1>2 DEF CredentialsInv, AuthTypeOK
<1>4. \A j \in Instance : Holding(j)' <=> Holding(j)
  BY DEF Holding
<1>5. WorkersRun'
  BY <1>2, <1>4 DEF CredentialsInv, WorkersRun
<1>6. TokensAreIssued' /\ stored' <= changes'
  BY <1>2 DEF CredentialsInv, TokensAreIssued
<1>7. ASSUME ~mishap'
      PROVE  /\ OneHolder' /\ AskedIsGood' /\ HolderHasKey'
             /\ NoTokenSentTwice' /\ StoredTokenIsGood' /\ KeyIsStored'
  <2>1. CASE SyncLocked
    <3>1. ~mishap /\ \A j \in Instance : ~Holding(j) /\ ~Holding(j)'
      BY <1>4, <1>7, <2>1, SyncFindsNobody
    <3>2. authFile # Torn /\ authFile.oauth \notin spent /\ authFile.key >= stored
      BY <3>1, FileIsGood DEF CredentialsInv, KeyIsStored
    <3> QED
      BY <1>2, <3>1, <3>2 DEF OneHolder, HolderHasKey, AskedIsGood, NoTokenSentTwice, Holding,
                              StoredTokenIsGood, KeyIsStored
  <2>2. CASE ~SyncLocked
    <3>1. UNCHANGED <<authLock, aged, mishap>>
      BY <2>2 DEF LoadInto, SyncFails, lockVars
    <3>2. OneHolder' /\ HolderHasKey' /\ AskedIsGood' /\ NoTokenSentTwice'
      BY <1>1, <1>2, <1>4, <1>7, <3>1
         DEF CredentialsInv, OneHolder, HolderHasKey, AskedIsGood, NoTokenSentTwice, Holding
    <3>3. StoredTokenIsGood' /\ KeyIsStored'
      BY <1>2, <1>7, <3>1 DEF CredentialsInv, StoredTokenIsGood, KeyIsStored, AuthTypeOK
    <3> QED BY <3>2, <3>3
  <2> QED BY <2>1, <2>2
<1> QED BY <1>3, <1>5, <1>6, <1>7 DEF CredentialsInv

LEMMA LaunchKeeps ==
  ASSUME CredentialsInv, NEW i \in Instance, Launch(i)
  PROVE  CredentialsInv'
<1>1. refresh[i] = "no" /\ ~compromised[i]
  BY DEF CredentialsInv, WorkersRun, Launch, Holding
<1>2. Nothing \in Content
  BY AuthBounds DEF Nothing, Content
<1>3. /\ LoadInto(i, Nothing) /\ live' = live \union {i}
      /\ UNCHANGED <<authFile, providerVars, refresh, asked, compromised, boundVars, stored>>
  BY DEF Launch
<1>4. /\ refresh \in [Instance -> {"no", "locking", "sent", "rotated", "refused", "reloading"}]
      /\ live \subseteq Instance
  BY DEF CredentialsInv, AuthTypeOK
<1>5. /\ refresh' \in [Instance -> {"no", "locking", "sent", "rotated", "refused", "reloading"}]
      /\ refresh'[i] = "no" /\ live \subseteq live' /\ live' \subseteq Instance
      /\ \A j \in Instance : j # i => refresh'[j] = refresh[j]
  BY <1>1, <1>3, <1>4
<1> QED BY <1>1, <1>2, <1>3, <1>5, LoadKeeps

LEMMA CredentialsReloadKeeps ==
  ASSUME CredentialsInv, NEW i \in Instance, ReloadAfterFailure(i)
  PROVE  CredentialsInv'
<1>1. refresh[i] = "reloading" /\ ~compromised[i] /\ data[i] \in Content
  BY DEF CredentialsInv, AuthTypeOK, WorkersRun, ReloadAfterFailure, Holding
<1>2. /\ LoadInto(i, data[i]) /\ refresh' = [refresh EXCEPT ![i] = "no"] /\ live' = live
      /\ UNCHANGED <<authFile, providerVars, asked, compromised, boundVars, stored>>
  BY DEF ReloadAfterFailure
<1>3. /\ refresh' \in [Instance -> {"no", "locking", "sent", "rotated", "refused", "reloading"}]
      /\ refresh'[i] = "no" /\ live \subseteq live' /\ live' \subseteq Instance
      /\ \A j \in Instance : j # i => refresh'[j] = refresh[j]
  BY <1>2 DEF CredentialsInv, AuthTypeOK
<1> QED BY <1>1, <1>2, <1>3, LoadKeeps

\* The lock is asked for, or not had: nobody new is in the locked section.
LEMMA GetApiKeyKeeps ==
  ASSUME CredentialsInv, NEW i \in Instance, GetApiKey(i)
  PROVE  CredentialsInv'
<1> USE DEF GetApiKey, lockVars, providerVars, boundVars
<1>1. AuthTypeOK'
  BY DEF CredentialsInv, AuthTypeOK
<1>2. \A j \in Instance : Holding(j)' <=> Holding(j)
  BY DEF CredentialsInv, AuthTypeOK, Holding
<1>3. WorkersRun' /\ TokensAreIssued'
  BY <1>2 DEF CredentialsInv, AuthTypeOK, WorkersRun, TokensAreIssued
<1>4. ASSUME ~mishap'
      PROVE  /\ OneHolder' /\ AskedIsGood' /\ HolderHasKey'
             /\ NoTokenSentTwice' /\ StoredTokenIsGood' /\ KeyIsStored'
  <2>1. OneHolder' /\ AskedIsGood' /\ HolderHasKey' /\ NoTokenSentTwice'
    BY <1>2, <1>4 DEF CredentialsInv, AuthTypeOK, OneHolder, AskedIsGood, HolderHasKey, NoTokenSentTwice
  <2>2. StoredTokenIsGood' /\ KeyIsStored'
    BY AuthNames, <1>4 DEF CredentialsInv, AuthTypeOK, StoredTokenIsGood, KeyIsStored
  <2> QED BY <2>1, <2>2
<1> QED BY <1>1, <1>3, <1>4 DEF CredentialsInv

LEMMA LockFailsKeeps ==
  ASSUME CredentialsInv, NEW i \in Instance, LockFails(i)
  PROVE  CredentialsInv'
<1> USE DEF lockVars, providerVars, boundVars
<1>0. /\ refresh[i] = "locking" /\ refresh' = [refresh EXCEPT ![i] = "reloading"]
      /\ UNCHANGED <<authFile, minted, expired, spent, live, data, loadError, asked, compromised,
                     changes, crashes, stored, mishap>>
  BY DEF LockFails
<1>1. AuthTypeOK'
  BY <1>0 DEF CredentialsInv, AuthTypeOK, LockFails
<1>2. \A j \in Instance : Holding(j)' <=> Holding(j)
  BY <1>0 DEF CredentialsInv, AuthTypeOK, Holding
<1>3. WorkersRun' /\ TokensAreIssued'
  BY <1>0, <1>2 DEF CredentialsInv, AuthTypeOK, WorkersRun, TokensAreIssued
<1>4. ASSUME ~mishap'
      PROVE  /\ OneHolder' /\ AskedIsGood' /\ HolderHasKey'
             /\ NoTokenSentTwice' /\ StoredTokenIsGood' /\ KeyIsStored'
  <2>1. CASE UNCHANGED lockVars
    <3>1. OneHolder' /\ AskedIsGood' /\ HolderHasKey' /\ NoTokenSentTwice'
      BY <1>0, <1>2, <1>4, <2>1 DEF CredentialsInv, AuthTypeOK, OneHolder, AskedIsGood, HolderHasKey, NoTokenSentTwice
    <3>2. StoredTokenIsGood' /\ KeyIsStored'
      BY AuthNames, <1>0, <1>4, <2>1 DEF CredentialsInv, AuthTypeOK, StoredTokenIsGood, KeyIsStored
    <3> QED BY <3>1, <3>2
  <2>2. CASE AsyncLockable
    <3>1. \A j \in Instance : ~Holding(j)
      BY <1>0, <1>4, <2>2, AsyncFindsNobody
    <3>2. authFile # Torn /\ authFile.oauth \notin spent /\ authFile.key >= stored
      BY <1>0, <1>4, <3>1, FileIsGood DEF CredentialsInv, KeyIsStored
    <3> QED
      BY <1>0, <1>2, <3>1, <3>2 DEF OneHolder, HolderHasKey, AskedIsGood, NoTokenSentTwice, Holding,
                              StoredTokenIsGood, KeyIsStored
  <2> QED BY <2>1, <2>2 DEF LockFails
<1> QED BY <1>0, <1>1, <1>3, <1>4 DEF CredentialsInv

\* The file is read again under the lock: the token that is sent is the one it holds.
LEMMA RefreshKeeps ==
  ASSUME CredentialsInv, NEW i \in Instance, RefreshOAuthTokenWithLock(i)
  PROVE  CredentialsInv'
<1> USE DEF lockVars, providerVars, boundVars
<1>0. /\ refresh[i] = "locking" /\ AsyncLockable /\ authFile # Torn
      /\ data' = [data EXCEPT ![i] = authFile]
      /\ UNCHANGED <<authFile, minted, expired, spent, live, compromised, changes, crashes, stored,
                     mishap>>
  BY DEF RefreshOAuthTokenWithLock
<1>1. /\ authLock' \in Instance \union {NoOne} /\ aged' \in BOOLEAN
      /\ loadError' \in [Instance -> BOOLEAN] /\ data' \in [Instance -> Content]
      /\ refresh' = [refresh EXCEPT ![i] = refresh'[i]] /\ refresh'[i] \in {"sent", "no"}
      /\ asked' \in [Instance -> 0 .. MaxTokens]
      /\ \A j \in Instance : j # i => asked'[j] = asked[j]
      /\ refresh'[i] = "sent" => /\ authLock' = i /\ asked'[i] = authFile.oauth
                                 /\ authFile.oauth \in expired
  BY AuthNames DEF CredentialsInv, AuthTypeOK, RefreshOAuthTokenWithLock, Content
<1>2. AuthTypeOK'
  BY <1>0, <1>1 DEF CredentialsInv, AuthTypeOK
<1>3. WorkersRun'
  BY <1>0, <1>1 DEF CredentialsInv, AuthTypeOK, WorkersRun, Holding
<1>4. TokensAreIssued'
  BY <1>0, <1>1, AuthBounds DEF CredentialsInv, AuthTypeOK, TokensAreIssued, Token, Content
<1>5. ASSUME ~mishap'
      PROVE  /\ OneHolder' /\ AskedIsGood' /\ HolderHasKey'
             /\ NoTokenSentTwice' /\ StoredTokenIsGood' /\ KeyIsStored'
  <2>1. \A j \in Instance : ~Holding(j)
    BY <1>0, <1>5, AsyncFindsNobody
  <2>2. authFile # Torn /\ authFile.oauth \notin spent /\ authFile.key >= stored
    BY <1>0, <1>5, <2>1, FileIsGood DEF CredentialsInv, KeyIsStored
  <2>3. ~compromised[i] /\ \A j \in Instance : j # i => ~Holding(j)'
    BY <1>0, <1>1, <2>1 DEF CredentialsInv, WorkersRun, Holding, AuthTypeOK
  <2>4. OneHolder' /\ AskedIsGood' /\ HolderHasKey' /\ NoTokenSentTwice'
    BY <1>0, <1>1, <2>1, <2>2, <2>3
       DEF CredentialsInv, AuthTypeOK, OneHolder, AskedIsGood, HolderHasKey, NoTokenSentTwice, Holding
  <2>5. StoredTokenIsGood' /\ KeyIsStored'
    BY <1>0, <2>2 DEF StoredTokenIsGood, KeyIsStored
  <2> QED BY <2>4, <2>5
<1> QED BY <1>0, <1>2, <1>3, <1>4, <1>5 DEF CredentialsInv

LEMMA ProviderKeeps ==
  ASSUME CredentialsInv, NEW i \in Instance, ProviderRotates(i)
  PROVE  CredentialsInv'
<1> USE DEF lockVars, providerVars, boundVars
<1>0. /\ refresh[i] = "sent" /\ asked[i] \in 1 .. minted /\ minted \in 0 .. MaxTokens
      /\ spent' = spent \union {asked[i]}
      /\ UNCHANGED <<authFile, authLock, aged, minted, expired, live, data, loadError, asked,
                     compromised, changes, crashes, stored, mishap>>
  BY DEF ProviderRotates, CredentialsInv, AuthTypeOK, TokensAreIssued
<1>1. /\ refresh' = [refresh EXCEPT ![i] = refresh'[i]] /\ refresh'[i] \in {"refused", "rotated"}
      /\ asked[i] \notin spent => refresh'[i] = "rotated"
  BY DEF ProviderRotates, CredentialsInv, AuthTypeOK
<1>2. asked[i] \in Token
  BY <1>0, AuthBounds DEF Token
<1>3. AuthTypeOK'
  BY <1>0, <1>1, <1>2 DEF CredentialsInv, AuthTypeOK
<1>4. \A j \in Instance : Holding(j)' <=> Holding(j)
  BY <1>0, <1>1 DEF CredentialsInv, AuthTypeOK, Holding
<1>5. WorkersRun'
  BY <1>0, <1>1, <1>4 DEF CredentialsInv, AuthTypeOK, WorkersRun
<1>6. TokensAreIssued'
  BY <1>0, <1>1 DEF CredentialsInv, AuthTypeOK, TokensAreIssued
<1>7. ASSUME ~mishap'
      PROVE  /\ OneHolder' /\ AskedIsGood' /\ HolderHasKey'
             /\ NoTokenSentTwice' /\ StoredTokenIsGood' /\ KeyIsStored'
  <2>1. /\ authLock = i /\ asked[i] \notin spent /\ refresh'[i] = "rotated"
        /\ \A j \in Instance : j # i => ~Holding(j) /\ ~Holding(j)'
    BY <1>0, <1>1, <1>4, <1>7 DEF CredentialsInv, OneHolder, AskedIsGood, Holding
  <2>2. OneHolder' /\ HolderHasKey'
    BY <1>0, <1>4, <1>7 DEF CredentialsInv, OneHolder, HolderHasKey
  <2>3. AskedIsGood' /\ NoTokenSentTwice'
    BY <1>0, <2>1 DEF AskedIsGood, NoTokenSentTwice, Holding
  <2>4. StoredTokenIsGood' /\ KeyIsStored'
    BY <1>0, <1>7, <2>1, AuthNames DEF CredentialsInv, StoredTokenIsGood, KeyIsStored
  <2> QED BY <2>2, <2>3, <2>4
<1> QED BY <1>0, <1>3, <1>5, <1>6, <1>7 DEF CredentialsInv

\* The locked section is left: the instance has nothing under way that is its own.
LEMMA LeaveTypes ==
  ASSUME CredentialsInv, NEW i \in Instance, Holding(i), NEW next \in {"no", "reloading"},
         LeaveFor(i, next)
  PROVE  /\ refresh' = [refresh EXCEPT ![i] = next] /\ asked' = [asked EXCEPT ![i] = 0]
         /\ compromised' = [compromised EXCEPT ![i] = FALSE]
         /\ refresh' \in [Instance -> {"no", "locking", "sent", "rotated", "refused", "reloading"}]
         /\ asked' \in [Instance -> 0 .. MaxTokens] /\ compromised' \in [Instance -> BOOLEAN]
         /\ authLock' \in Instance \union {NoOne} /\ aged' \in BOOLEAN
         /\ ~Holding(i)' /\ \A j \in Instance : j # i => (Holding(j)' <=> Holding(j))
         /\ ~mishap => /\ authLock = i /\ ~compromised[i]
                       /\ \A j \in Instance : ~Holding(j)'
<1>1. /\ refresh' = [refresh EXCEPT ![i] = next] /\ asked' = [asked EXCEPT ![i] = 0]
      /\ compromised' = [compromised EXCEPT ![i] = FALSE]
      /\ authLock' \in Instance \union {NoOne} /\ aged' \in BOOLEAN
  BY DEF CredentialsInv, AuthTypeOK, LeaveFor, Release, lockVars
<1>2. /\ refresh' \in [Instance -> {"no", "locking", "sent", "rotated", "refused", "reloading"}]
      /\ asked' \in [Instance -> 0 .. MaxTokens] /\ compromised' \in [Instance -> BOOLEAN]
  BY <1>1, AuthBounds DEF CredentialsInv, AuthTypeOK
<1>3. ~Holding(i)' /\ \A j \in Instance : j # i => (Holding(j)' <=> Holding(j))
  BY <1>1 DEF CredentialsInv, AuthTypeOK, Holding
<1>4. ASSUME ~mishap
      PROVE  authLock = i /\ ~compromised[i] /\ \A j \in Instance : ~Holding(j)'
  BY <1>3, <1>4 DEF CredentialsInv, OneHolder
<1> QED BY <1>1, <1>2, <1>3, <1>4

LEMMA TokenAnsweredKeeps ==
  ASSUME CredentialsInv, NEW i \in Instance, TokenAnswered(i)
  PROVE  CredentialsInv'
<1> DEFINE merged == [data[i] EXCEPT !.oauth = minted + 1]
           next == IF compromised[i] THEN "reloading" ELSE "no"
<1>0. /\ refresh[i] = "rotated" /\ minted < MaxTokens /\ minted' = minted + 1
      /\ data' = [data EXCEPT ![i] = merged] /\ LeaveFor(i, next)
      /\ loadError' = [loadError EXCEPT ![i] = FALSE]
      /\ authFile' = IF compromised[i] THEN authFile ELSE merged
      /\ UNCHANGED <<expired, spent, live, changes, crashes, stored, mishap>>
  BY DEF TokenAnswered, boundVars
<1>1. merged \in Content /\ merged.oauth = minted + 1 /\ merged.key = data[i].key
  BY <1>0, AuthBounds DEF CredentialsInv, AuthTypeOK, Content
<1>2. Holding(i) /\ next \in {"no", "reloading"} /\ (compromised[i] => next = "reloading")
  BY <1>0 DEF Holding
<1> HIDE DEF merged, next
<1>3. AuthTypeOK'
  <2>1. minted' \in 0 .. MaxTokens /\ data' \in [Instance -> Content]
        /\ loadError' \in [Instance -> BOOLEAN] /\ authFile' \in Content \union {Torn}
    BY <1>0, <1>1, AuthBounds DEF CredentialsInv, AuthTypeOK
  <2> QED BY <1>0, <1>2, <2>1, LeaveTypes DEF CredentialsInv, AuthTypeOK
<1>4. WorkersRun'
  <2>1. i \in live
    BY <1>0 DEF CredentialsInv, WorkersRun
  <2> QED BY <1>0, <1>2, <2>1, LeaveTypes DEF CredentialsInv, AuthTypeOK, WorkersRun
<1>5. TokensAreIssued'
  <2>1. authFile' # Torn => authFile'.oauth <= minted'
    BY <1>0, <1>1, AuthBounds DEF CredentialsInv, TokensAreIssued, AuthTypeOK, Content
  <2>2. \A t \in spent' : t <= minted'
    BY <1>0, AuthBounds DEF CredentialsInv, TokensAreIssued, AuthTypeOK, Token
  <2>3. ASSUME NEW j \in Instance, refresh'[j] = "sent"
        PROVE  asked'[j] \in 1 .. minted'
    <3>1. j # i /\ refresh[j] = "sent" /\ asked'[j] = asked[j]
      BY <1>0, <1>2, <2>3, LeaveTypes DEF CredentialsInv, AuthTypeOK
    <3> QED BY <1>0, <3>1 DEF CredentialsInv, AuthTypeOK, TokensAreIssued
  <2> QED BY <2>1, <2>2, <2>3 DEF TokensAreIssued
<1>6. ASSUME ~mishap'
      PROVE  /\ OneHolder' /\ AskedIsGood' /\ HolderHasKey'
             /\ NoTokenSentTwice' /\ StoredTokenIsGood' /\ KeyIsStored'
  <2>1. ~mishap /\ authLock = i /\ ~compromised[i] /\ \A j \in Instance : ~Holding(j)'
    BY <1>0, <1>2, <1>6, LeaveTypes
  <2>2. OneHolder' /\ AskedIsGood' /\ HolderHasKey' /\ NoTokenSentTwice'
    BY <2>1 DEF OneHolder, AskedIsGood, HolderHasKey, NoTokenSentTwice, Holding
  <2>3. minted + 1 \notin spent
    BY AuthBounds DEF CredentialsInv, TokensAreIssued, AuthTypeOK, Token
  <2>4. data[i].key >= stored
    BY <1>2, <2>1 DEF CredentialsInv, HolderHasKey
  <2>5. authFile' = merged /\ stored' = stored /\ spent' = spent
    BY <1>0, <2>1
  <2>6. merged # Torn
    BY <1>1, AuthNames
  <2> QED BY <1>1, <2>2, <2>3, <2>4, <2>5, <2>6 DEF StoredTokenIsGood, KeyIsStored
<1> QED BY <1>0, <1>3, <1>4, <1>5, <1>6 DEF CredentialsInv

LEMMA RefreshFailsKeeps ==
  ASSUME CredentialsInv, NEW i \in Instance, RefreshFails(i)
  PROVE  CredentialsInv'
<1>0. /\ Holding(i) /\ LeaveFor(i, "reloading") /\ mishap' = (mishap \/ refresh[i] = "rotated")
      /\ UNCHANGED <<authFile, minted, expired, spent, live, data, loadError, changes, crashes,
                     stored>>
  BY DEF RefreshFails, providerVars, boundVars
<1>1. AuthTypeOK'
  BY <1>0, LeaveTypes DEF CredentialsInv, AuthTypeOK
<1>2. WorkersRun'
  <2>1. i \in live
    BY <1>0 DEF CredentialsInv, WorkersRun, Holding
  <2> QED BY <1>0, <2>1, LeaveTypes DEF CredentialsInv, AuthTypeOK, WorkersRun
<1>3. TokensAreIssued'
  BY <1>0, LeaveTypes DEF CredentialsInv, AuthTypeOK, TokensAreIssued
<1>4. ASSUME ~mishap'
      PROVE  /\ OneHolder' /\ AskedIsGood' /\ HolderHasKey'
             /\ NoTokenSentTwice' /\ StoredTokenIsGood' /\ KeyIsStored'
  <2>1. ~mishap /\ refresh[i] # "rotated" /\ authLock = i /\ \A j \in Instance : ~Holding(j)'
    BY <1>0, <1>4, LeaveTypes
  <2>2. OneHolder' /\ AskedIsGood' /\ HolderHasKey' /\ NoTokenSentTwice'
    BY <2>1 DEF OneHolder, AskedIsGood, HolderHasKey, NoTokenSentTwice, Holding
  <2>3. StoredTokenIsGood' /\ KeyIsStored'
    BY <1>0, <2>1 DEF CredentialsInv, StoredTokenIsGood, KeyIsStored
  <2> QED BY <2>2, <2>3
<1> QED BY <1>0, <1>1, <1>2, <1>3, <1>4 DEF CredentialsInv

\* proper-lockfile's timers move nobody.
LEMMA RenewKeeps ==
  ASSUME CredentialsInv, NEW i \in Instance, Renew(i)
  PROVE  CredentialsInv'
<1>0. /\ Holding(i) /\ ~compromised[i] /\ aged' \in BOOLEAN
      /\ compromised' \in [Instance -> BOOLEAN]
      /\ \A j \in Instance : j # i => compromised'[j] = compromised[j]
      /\ authLock = i => compromised' = compromised
      /\ UNCHANGED <<authFile, authLock, minted, expired, spent, live, data, loadError, refresh,
                     asked, changes, crashes, stored, mishap>>
  BY DEF CredentialsInv, AuthTypeOK, Renew, providerVars, boundVars
<1>1. AuthTypeOK'
  BY <1>0 DEF CredentialsInv, AuthTypeOK
<1>2. WorkersRun' /\ TokensAreIssued'
  BY <1>0 DEF CredentialsInv, WorkersRun, TokensAreIssued, Holding
<1>3. ASSUME ~mishap'
      PROVE  /\ OneHolder' /\ AskedIsGood' /\ HolderHasKey'
             /\ NoTokenSentTwice' /\ StoredTokenIsGood' /\ KeyIsStored'
  BY <1>0, <1>3 DEF CredentialsInv, OneHolder, AskedIsGood, HolderHasKey, NoTokenSentTwice,
                    StoredTokenIsGood, KeyIsStored, Holding
<1> QED BY <1>0, <1>1, <1>2, <1>3 DEF CredentialsInv

LEMMA AgeKeeps ==
  ASSUME CredentialsInv, Age
  PROVE  CredentialsInv'
<1>0. /\ aged' \in BOOLEAN
      /\ UNCHANGED <<authFile, authLock, minted, expired, spent, live, data, loadError, refresh,
                     asked, compromised, changes, crashes, stored, mishap>>
  BY DEF Age, providerVars, boundVars
<1> QED
  BY <1>0 DEF CredentialsInv, AuthTypeOK, WorkersRun, TokensAreIssued, OneHolder, AskedIsGood,
              HolderHasKey, NoTokenSentTwice, StoredTokenIsGood, KeyIsStored, Holding

LEMMA ExpireKeeps ==
  ASSUME CredentialsInv, NEW t \in Token, Expire(t)
  PROVE  CredentialsInv'
<1>0. /\ expired' \subseteq Token
      /\ UNCHANGED <<authFile, authLock, aged, minted, spent, live, data, loadError, refresh,
                     asked, compromised, changes, crashes, stored, mishap>>
  BY DEF CredentialsInv, AuthTypeOK, Expire, lockVars, boundVars
<1> QED
  BY <1>0 DEF CredentialsInv, AuthTypeOK, WorkersRun, TokensAreIssued, OneHolder, AskedIsGood,
              HolderHasKey, NoTokenSentTwice, StoredTokenIsGood, KeyIsStored, Holding

\* A process ends: unless a token or the file is lost with it, nobody else is touched.
LEMMA CrashKeeps ==
  ASSUME CredentialsInv, NEW i \in Instance, Crash(i)
  PROVE  CredentialsInv'
<1>0. /\ i \in live /\ crashes < MaxCrashes /\ crashes' = crashes + 1 /\ live' = live \ {i}
      /\ data' = [data EXCEPT ![i] = Nothing] /\ loadError' = [loadError EXCEPT ![i] = FALSE]
      /\ refresh' = [refresh EXCEPT ![i] = "no"] /\ asked' = [asked EXCEPT ![i] = 0]
      /\ compromised' = [compromised EXCEPT ![i] = FALSE]
      /\ UNCHANGED <<minted, expired, spent, changes, stored>>
  BY DEF Crash, providerVars
<1>1. /\ authLock' \in Instance \union {NoOne} /\ aged' \in BOOLEAN /\ mishap' \in BOOLEAN
      /\ authFile' \in {authFile, Nothing, Torn}
      /\ ~mishap' => /\ ~mishap /\ refresh[i] # "rotated"
                     /\ UNCHANGED <<authFile, authLock>>
  BY DEF CredentialsInv, AuthTypeOK, Crash, Truncated, lockVars
<1>2. Nothing \in Content /\ Nothing.oauth = 0
  BY AuthBounds DEF Nothing, Content
<1>3. AuthTypeOK'
  BY <1>0, <1>1, <1>2, AuthBounds DEF CredentialsInv, AuthTypeOK
<1>4. ~Holding(i)' /\ \A j \in Instance : j # i => (Holding(j)' <=> Holding(j))
  BY <1>0 DEF CredentialsInv, AuthTypeOK, Holding
<1>5. WorkersRun'
  BY <1>0, <1>4 DEF CredentialsInv, AuthTypeOK, WorkersRun
<1>6. TokensAreIssued'
  <2>1. authFile' # Torn => authFile'.oauth <= minted
    BY <1>1, <1>2 DEF CredentialsInv, TokensAreIssued, AuthTypeOK
  <2> QED BY <1>0, <2>1 DEF CredentialsInv, TokensAreIssued, AuthTypeOK
<1>7. ASSUME ~mishap'
      PROVE  /\ OneHolder' /\ AskedIsGood' /\ HolderHasKey'
             /\ NoTokenSentTwice' /\ StoredTokenIsGood' /\ KeyIsStored'
  <2>1. OneHolder' /\ HolderHasKey'
    BY <1>0, <1>1, <1>4, <1>7 DEF CredentialsInv, AuthTypeOK, OneHolder, HolderHasKey
  <2>2. AskedIsGood' /\ NoTokenSentTwice'
    BY <1>0, <1>1, <1>7 DEF CredentialsInv, AuthTypeOK, AskedIsGood, NoTokenSentTwice
  <2>3. StoredTokenIsGood' /\ KeyIsStored'
    BY <1>0, <1>1, <1>7, AuthNames
       DEF CredentialsInv, AuthTypeOK, StoredTokenIsGood, KeyIsStored
  <2> QED BY <2>1, <2>2, <2>3
<1> QED BY <1>0, <1>3, <1>5, <1>6, <1>7 DEF CredentialsInv

\* THE THEOREM

LEMMA CredentialsInit == AuthInit => CredentialsInv
<1> SUFFICES ASSUME AuthInit PROVE CredentialsInv
  OBVIOUS
<1> USE AuthBounds
<1>1. authFile = [oauth |-> 1, key |-> 0] /\ authFile \in Content
  BY DEF AuthInit, Nothing, Content
<1>2. AuthTypeOK
  <2>1. Nothing \in Content
    BY DEF Nothing, Content
  <2>2. 1 \in 0 .. MaxTokens /\ 0 \in 0 .. MaxTokens /\ {1} \subseteq Token
        /\ 0 \in 0 .. MaxChanges /\ 0 \in 0 .. MaxCrashes
    BY DEF Token
  <2>3. expired \subseteq {1} /\ spent \subseteq Token /\ live \subseteq Instance
    BY DEF AuthInit
  <2>4. /\ data \in [Instance -> Content] /\ loadError \in [Instance -> BOOLEAN]
        /\ refresh \in [Instance -> {"no", "locking", "sent", "rotated", "refused", "reloading"}]
        /\ asked \in [Instance -> 0 .. MaxTokens] /\ compromised \in [Instance -> BOOLEAN]
    BY <2>1, <2>2 DEF AuthInit
  <2> QED
    BY <1>1, <2>2, <2>3, <2>4 DEF AuthInit, AuthTypeOK
<1>3. WorkersRun /\ TokensAreIssued /\ stored <= changes
  BY <1>1 DEF AuthInit, WorkersRun, TokensAreIssued
<1>4. \A i \in Instance : refresh[i] = "no"
  BY DEF AuthInit
<1>5. authFile # Torn /\ authFile.key >= stored /\ spent = {}
  <2>1. authFile # Torn
    BY <1>1, AuthNames
  <2>2. stored = 0 /\ spent = {}
    BY DEF AuthInit
  <2> QED BY <1>1, <2>1, <2>2
<1>6. /\ OneHolder /\ AskedIsGood /\ HolderHasKey
      /\ NoTokenSentTwice /\ StoredTokenIsGood /\ KeyIsStored
  BY <1>4, <1>5 DEF OneHolder, AskedIsGood, HolderHasKey, NoTokenSentTwice,
                    StoredTokenIsGood, KeyIsStored, Holding
<1> QED BY <1>2, <1>3, <1>6 DEF CredentialsInv

LEMMA CredentialsNext == CredentialsInv /\ [AuthNext]_authVars => CredentialsInv'
<1> SUFFICES ASSUME CredentialsInv, [AuthNext]_authVars PROVE CredentialsInv'
  OBVIOUS
<1>1. CASE UNCHANGED authVars
  BY <1>1 DEF authVars, CredentialsInv, AuthTypeOK, WorkersRun, TokensAreIssued, OneHolder,
     AskedIsGood, HolderHasKey, NoTokenSentTwice, StoredTokenIsGood, KeyIsStored, Holding
<1> QED
  BY <1>1, LaunchKeeps, SetKeyKeeps, LoginKeeps, LogoutKeeps, GetApiKeyKeeps, RefreshKeeps,
     LockFailsKeeps, ProviderKeeps, TokenAnsweredKeeps, RefreshFailsKeeps, CredentialsReloadKeeps, RenewKeeps,
     CrashKeeps, AgeKeeps, ExpireKeeps DEF AuthNext

\* However many instances share auth.json, no refresh token is sent to the provider twice,
\* the file keeps no token that is used up, and no key that set wrote is undone, unless a
\* lock was taken from an instance at work, an answer was lost or a writer was killed.
THEOREM CredentialsAreKept == AuthSpec => []CredentialsKept
<1>1. CredentialsInv => CredentialsKept
  BY DEF CredentialsInv, CredentialsKept
<1> QED BY CredentialsInit, CredentialsNext, <1>1, PTL DEF AuthSpec

-----------------------------------------------------------------------------
(* The settings.                                                           *)

SettingsSpec == SettingsInit /\ [][SettingsNext]_settingsVars

\* The n-th task of the queue of p writes the field f.
Writes(p, n, f) ==
  /\ n \in 1 .. Len(writeQueue[p]) /\ writeQueue[p][n].kind = "write"
  /\ f \in writeQueue[p][n].fields

\* It writes the value p gave the field last.
WritesLast(p, n, f) == writeQueue[p][n].snapshot[f] = everSet[p][f]

SettingsTypes ==
  /\ settingsFile \in Settings \union {Missing, Broken}
  /\ running \subseteq Process
  /\ globalSettings \in [Process -> Settings]
  /\ modifiedFields \in [Process -> SUBSET Field]
  /\ settingsError \in [Process -> BOOLEAN]
  /\ writeQueue \in [Process -> Seq(Task)]
  /\ creating \in [Process -> BOOLEAN]
  /\ sets \in Value /\ reloads \in 0 .. MaxReloads
  /\ failures \in 0 .. MaxFailures /\ exits \in 0 .. MaxExits
  /\ everSet \in [Process -> Settings]
  /\ writer \in [Field -> Process \union {Missing}]
  /\ forgotten \in [Process -> SUBSET Field]
  /\ clobbered \in BOOLEAN

\* The queue is no longer than the calls that put something in it, and nothing in it or
\* set by the process is newer than the last setter call.
QueueIsBounded(p) ==
  /\ \A f \in Field : everSet[p][f] <= sets
  /\ Len(writeQueue[p]) <= sets + reloads
  /\ \A n \in 1 .. Len(writeQueue[p]) : \A f \in Field :
       Writes(p, n, f) => writeQueue[p][n].snapshot[f] <= sets

\* A process that does not run has nothing to write and nothing marked.
NothingWithoutProcess(p) == p \notin running => writeQueue[p] = <<>> /\ modifiedFields[p] = {}

\* The task that creates the file is the first one.
CreatorIsFirst(p) ==
  creating[p] => writeQueue[p] # <<>> /\ writeQueue[p][1].kind = "write"

\* A marked field has its last value in memory, so that the next snapshot has it.
MarkedIsLast(p, f) ==
  f \in modifiedFields[p] => everSet[p][f] # 0 /\ globalSettings[p][f] = everSet[p][f]

\* Only fields that were set are written, and no task undoes an earlier one that writes
\* the last value.
TasksAgree(p, f) ==
  \A n \in 1 .. Len(writeQueue[p]) : Writes(p, n, f) =>
    /\ everSet[p][f] # 0
    /\ WritesLast(p, n, f) =>
         \A m \in n .. Len(writeQueue[p]) : Writes(p, m, f) => WritesLast(p, m, f)

\* A field that is neither marked nor forgotten was written: no task holds an older value,
\* and the file has the last one unless another process wrote the field later.
UnmarkedIsWritten(p, f) ==
  everSet[p][f] # 0 /\ f \notin modifiedFields[p] /\ f \notin forgotten[p] =>
    /\ \A n \in 1 .. Len(writeQueue[p]) : Writes(p, n, f) => WritesLast(p, n, f)
    /\ ~clobbered /\ writer[f] \in {p, Missing} =>
         settingsFile \in Settings /\ settingsFile[f] = everSet[p][f]

\* What holds of every process.
ProcessInv(p) ==
  /\ QueueIsBounded(p) /\ NothingWithoutProcess(p) /\ CreatorIsFirst(p)
  /\ \A f \in Field : MarkedIsLast(p, f) /\ TasksAgree(p, f) /\ UnmarkedIsWritten(p, f)

\* The inductive invariant of SettingsKept.
SettingsInv == SettingsTypes /\ \A p \in Process : ProcessInv(p)

-----------------------------------------------------------------------------
\* SEQUENCES

LEMMA TailAt ==
  ASSUME NEW T, NEW s \in Seq(T), s # <<>>
  PROVE  /\ Tail(s) \in Seq(T) /\ Len(Tail(s)) = Len(s) - 1 /\ Len(s) \in Nat /\ Len(s) >= 1
         /\ Head(s) = s[1] /\ Head(s) \in T
         /\ \A n \in 1 .. Len(Tail(s)) : n + 1 \in 1 .. Len(s) /\ Tail(s)[n] = s[n + 1]
OBVIOUS

LEMMA AppendAt ==
  ASSUME NEW T, NEW s \in Seq(T), NEW t \in T
  PROVE  /\ Append(s, t) \in Seq(T) /\ Len(Append(s, t)) = Len(s) + 1 /\ Len(s) \in Nat
         /\ Append(s, t)[Len(s) + 1] = t /\ Append(s, t) # <<>>
         /\ \A n \in 1 .. Len(s) : Append(s, t)[n] = s[n]
OBVIOUS

\* TASKS

LEMMA WriteTaskParts ==
  ASSUME NEW t \in Task, t.kind = "write"
  PROVE  t.snapshot \in Settings /\ t.fields \in SUBSET Field
BY DEF Task

LEMMA TaskKinds ==
  ASSUME NEW settings \in Settings, NEW fields \in SUBSET Field
  PROVE  /\ [kind |-> "write", snapshot |-> settings, fields |-> fields] \in Task
         /\ [kind |-> "reload"] \in Task
BY DEF Task

LEMMA MergedType ==
  ASSUME NEW current \in Settings, NEW t \in Task, t.kind = "write"
  PROVE  /\ Merged(current, t) \in Settings
         /\ \A f \in Field : /\ f \in t.fields => Merged(current, t)[f] = t.snapshot[f]
                             /\ f \notin t.fields => Merged(current, t)[f] = current[f]
BY WriteTaskParts DEF Merged, Settings

LEMMA EmptyType == Empty \in Settings /\ \A f \in Field : Empty[f] = 0
BY SettingsBounds DEF Empty, Settings, Value

\* THE FILE

\* A step leaves what the file holds for the field f to the process q, or it is known that
\* another process wrote it or that the file was clobbered.
FileKept(q, f) ==
  ~clobbered' /\ writer'[f] \in {q, Missing} =>
    /\ ~clobbered /\ writer[f] \in {q, Missing}
    /\ settingsFile \in Settings => settingsFile' \in Settings /\ settingsFile'[f] = settingsFile[f]

LEMMA CountsAreNumbers ==
  ASSUME SettingsTypes
  PROVE  sets \in Nat /\ reloads \in Nat /\ failures \in Nat /\ exits \in Nat
BY SettingsBounds DEF SettingsTypes, Value

LEMMA LastIsNumber ==
  ASSUME SettingsTypes, NEW p \in Process, NEW f \in Field
  PROVE  everSet[p][f] \in Nat
BY SettingsBounds DEF SettingsTypes, Settings, Value

\* A process that does not move keeps its invariant.
LEMMA OthersKept ==
  ASSUME SettingsInv, NEW q \in Process,
         q \in running' <=> q \in running, globalSettings'[q] = globalSettings[q],
         modifiedFields'[q] = modifiedFields[q], writeQueue'[q] = writeQueue[q],
         creating'[q] = creating[q], everSet'[q] = everSet[q], forgotten'[q] = forgotten[q],
         sets \in Nat, reloads \in Nat, sets' \in Nat, reloads' \in Nat,
         sets <= sets', reloads <= reloads', \A f \in Field : FileKept(q, f)
  PROVE  ProcessInv(q)'
<1> USE DEF SettingsInv, ProcessInv
<1>1. \A n, f : /\ Writes(q, n, f)' <=> Writes(q, n, f)
                /\ WritesLast(q, n, f)' <=> WritesLast(q, n, f)
  BY DEF Writes, WritesLast
<1>2. QueueIsBounded(q)'
  <2>1. Len(writeQueue[q]) \in Nat
    BY DEF SettingsTypes
  <2>2. Len(writeQueue'[q]) <= sets' + reloads'
    BY <2>1 DEF QueueIsBounded
  <2>3. ASSUME NEW n \in 1 .. Len(writeQueue'[q]), NEW f \in Field, Writes(q, n, f)'
        PROVE  writeQueue'[q][n].snapshot[f] <= sets'
    <3>1. Writes(q, n, f) /\ writeQueue[q][n] \in Task /\ writeQueue[q][n].kind = "write"
      BY <1>1, <2>3 DEF Writes, SettingsTypes
    <3>2. writeQueue[q][n].snapshot[f] \in Nat
      BY <3>1, WriteTaskParts, SettingsBounds DEF Settings, Value
    <3>3. writeQueue[q][n].snapshot[f] <= sets
      BY <3>1 DEF QueueIsBounded
    <3> QED BY <3>2, <3>3
  <2>4. \A f \in Field : everSet'[q][f] <= sets'
    BY LastIsNumber DEF QueueIsBounded
  <2> QED BY <2>2, <2>3, <2>4 DEF QueueIsBounded
<1>3. NothingWithoutProcess(q)' /\ CreatorIsFirst(q)'
  BY DEF NothingWithoutProcess, CreatorIsFirst
<1>4. ASSUME NEW f \in Field
      PROVE  MarkedIsLast(q, f)' /\ TasksAgree(q, f)' /\ UnmarkedIsWritten(q, f)'
  <2>1. MarkedIsLast(q, f)'
    BY DEF MarkedIsLast
  <2>2. TasksAgree(q, f)'
    BY <1>1 DEF TasksAgree
  <2>3. UnmarkedIsWritten(q, f)'
    BY <1>1 DEF UnmarkedIsWritten, FileKept
  <2> QED BY <2>1, <2>2, <2>3
<1> QED BY <1>2, <1>3, <1>4

\* When only the process p moves, and not in the file, the invariant holds of the others.
LEMMA OthersKeptAside ==
  ASSUME SettingsInv, SettingsTypes', NEW p \in Process, NEW q \in Process, q # p,
         q \in running' <=> q \in running, globalSettings'[q] = globalSettings[q],
         modifiedFields'[q] = modifiedFields[q], writeQueue'[q] = writeQueue[q],
         creating'[q] = creating[q], everSet'[q] = everSet[q], forgotten'[q] = forgotten[q],
         sets <= sets', reloads <= reloads',
         clobbered' \/ UNCHANGED <<settingsFile, writer, clobbered>>
  PROVE  ProcessInv(q)'
<1>1. \A f \in Field : FileKept(q, f)
  BY DEF FileKept
<1>2. sets \in Nat /\ reloads \in Nat
  BY CountsAreNumbers DEF SettingsInv
<1>3. sets' \in Nat /\ reloads' \in Nat
  BY SettingsBounds DEF SettingsTypes, Value
<1> QED BY <1>1, <1>2, <1>3, OthersKept

\* THE QUEUE

\* A task is done: the ones behind it move up.
LEMMA TaskDoneQueue ==
  ASSUME SettingsInv, NEW p \in Process, writeQueue[p] # <<>>, TaskDone(p), UNCHANGED everSet
  PROVE  /\ writeQueue' \in [Process -> Seq(Task)]
         /\ \A q \in Process : q # p => writeQueue'[q] = writeQueue[q]
         /\ Len(writeQueue'[p]) \in Nat /\ Len(writeQueue[p]) = Len(writeQueue'[p]) + 1
         /\ Head(writeQueue[p]) = writeQueue[p][1] /\ Head(writeQueue[p]) \in Task
         /\ \A n \in 1 .. Len(writeQueue'[p]) :
              /\ n + 1 \in 1 .. Len(writeQueue[p]) /\ writeQueue'[p][n] = writeQueue[p][n + 1]
              /\ \A f : /\ Writes(p, n, f)' => Writes(p, n + 1, f)
                        /\ WritesLast(p, n, f)' <=> WritesLast(p, n + 1, f)
<1>1. writeQueue \in [Process -> Seq(Task)]
  BY DEF SettingsInv, SettingsTypes
<1>2. writeQueue' = [writeQueue EXCEPT ![p] = Tail(@)]
  BY DEF TaskDone
<1>3. /\ Tail(writeQueue[p]) \in Seq(Task)
      /\ Len(Tail(writeQueue[p])) = Len(writeQueue[p]) - 1
      /\ Len(writeQueue[p]) \in Nat /\ Len(writeQueue[p]) >= 1
      /\ Head(writeQueue[p]) = writeQueue[p][1] /\ Head(writeQueue[p]) \in Task
      /\ \A n \in 1 .. Len(Tail(writeQueue[p])) :
           n + 1 \in 1 .. Len(writeQueue[p]) /\ Tail(writeQueue[p])[n] = writeQueue[p][n + 1]
  BY <1>1, TailAt
<1>4. /\ writeQueue'[p] = Tail(writeQueue[p])
      /\ \A q \in Process : q # p => writeQueue'[q] = writeQueue[q]
      /\ writeQueue' \in [Process -> Seq(Task)]
  BY <1>1, <1>2, <1>3
<1>5. \A n \in 1 .. Len(writeQueue'[p]) :
        /\ n + 1 \in 1 .. Len(writeQueue[p]) /\ writeQueue'[p][n] = writeQueue[p][n + 1]
  BY <1>3, <1>4
<1>6. \A n \in 1 .. Len(writeQueue'[p]) : \A f :
        /\ Writes(p, n, f)' => Writes(p, n + 1, f)
        /\ WritesLast(p, n, f)' <=> WritesLast(p, n + 1, f)
  BY <1>5 DEF Writes, WritesLast
<1>7. Len(writeQueue'[p]) \in Nat /\ Len(writeQueue[p]) = Len(writeQueue'[p]) + 1
  BY <1>3, <1>4
<1> QED BY <1>3, <1>4, <1>5, <1>6, <1>7

\* What is said of the queue survives the end of a task.
LEMMA TaskDoneKeeps ==
  ASSUME SettingsInv, NEW p \in Process, writeQueue[p] # <<>>, TaskDone(p),
         UNCHANGED <<everSet, sets, reloads>>
  PROVE  QueueIsBounded(p)' /\ \A f \in Field : TasksAgree(p, f)'
<1> USE TaskDoneQueue DEF SettingsInv, ProcessInv
<1>1. sets \in Nat /\ reloads \in Nat
  BY CountsAreNumbers
<1>2. QueueIsBounded(p)'
  <2>1. Len(writeQueue'[p]) <= sets' + reloads'
    BY <1>1 DEF QueueIsBounded
  <2>2. ASSUME NEW n \in 1 .. Len(writeQueue'[p]), NEW f \in Field, Writes(p, n, f)'
        PROVE  writeQueue'[p][n].snapshot[f] <= sets'
    BY <2>2 DEF QueueIsBounded
  <2>3. \A f \in Field : everSet'[p][f] <= sets'
    BY DEF QueueIsBounded
  <2> QED BY <2>1, <2>2, <2>3 DEF QueueIsBounded
<1>3. ASSUME NEW f \in Field, NEW n \in 1 .. Len(writeQueue'[p]), Writes(p, n, f)'
      PROVE  /\ everSet'[p][f] # 0
             /\ WritesLast(p, n, f)' =>
                  \A m \in n .. Len(writeQueue'[p]) : Writes(p, m, f)' => WritesLast(p, m, f)'
  <2>1. n + 1 \in 1 .. Len(writeQueue[p]) /\ Writes(p, n + 1, f)
    BY <1>3
  <2>2. everSet'[p][f] # 0
    BY <2>1 DEF TasksAgree
  <2>3. ASSUME WritesLast(p, n, f)', NEW m \in n .. Len(writeQueue'[p]), Writes(p, m, f)'
        PROVE  WritesLast(p, m, f)'
    <3>1. m \in 1 .. Len(writeQueue'[p]) /\ m + 1 \in (n + 1) .. Len(writeQueue[p])
      OBVIOUS
    <3>2. WritesLast(p, n + 1, f) /\ Writes(p, m + 1, f)
      BY <2>3, <3>1
    <3>3. WritesLast(p, m + 1, f)
      BY <2>1, <3>1, <3>2 DEF TasksAgree
    <3> QED BY <3>1, <3>3
  <2> QED BY <2>2, <2>3
<1> QED BY <1>2, <1>3 DEF TasksAgree

\* THE STEPS

\* A task writes: the fields it carries get its values, and no other field of the file
\* changes unless the file was clobbered.
LEMMA WrittenKeeps ==
  ASSUME SettingsInv, NEW p \in Process, NextIs(p, "write"), NEW current \in Settings,
         Written(p, current),
         clobbered' \in BOOLEAN, clobbered => clobbered',
         ~clobbered' /\ settingsFile \in Settings => current = settingsFile,
         creating' \in [Process -> BOOLEAN], ~creating'[p],
         \A q \in Process : q # p => creating'[q] = creating[q]
  PROVE  SettingsInv'
<1> DEFINE task == Head(writeQueue[p])
<1>1. /\ settingsFile' = Merged(current, task)
      /\ modifiedFields' = [modifiedFields EXCEPT ![p] = {}]
      /\ writer' = [f \in Field |-> IF f \in task.fields /\ everSet[p][f] # 0 THEN p ELSE writer[f]]
      /\ TaskDone(p)
      /\ forgotten' = [forgotten EXCEPT ![p] =
           (@ \union modifiedFields[p]) \ {f \in task.fields : task.snapshot[f] = everSet[p][f]}]
      /\ UNCHANGED <<running, globalSettings, settingsError, sets, reloads, failures, exits, everSet>>
  BY DEF Written, countVars
<1>2. /\ writeQueue[p] # <<>> /\ task \in Task /\ task.kind = "write" /\ task = writeQueue[p][1]
      /\ 1 \in 1 .. Len(writeQueue[p])
  BY <1>1, TaskDoneQueue DEF NextIs
<1> HIDE DEF task
<1>3. /\ task.snapshot \in Settings /\ task.fields \in SUBSET Field
      /\ settingsFile' \in Settings
      /\ \A f \in Field : /\ f \in task.fields => settingsFile'[f] = task.snapshot[f]
                          /\ f \notin task.fields => settingsFile'[f] = current[f]
  BY <1>1, <1>2, WriteTaskParts, MergedType
<1>4. \A f \in Field : f \in task.fields => Writes(p, 1, f) /\ everSet[p][f] # 0
  BY <1>2 DEF SettingsInv, ProcessInv, TasksAgree, Writes
<1>5. SettingsTypes'
  <2>1. writer' \in [Field -> Process \union {Missing}]
    BY <1>1 DEF SettingsInv, SettingsTypes
  <2>2. modifiedFields' \in [Process -> SUBSET Field]
    BY <1>1 DEF SettingsInv, SettingsTypes
  <2>3. forgotten' \in [Process -> SUBSET Field]
    BY <1>1 DEF SettingsInv, SettingsTypes
  <2>4. writeQueue' \in [Process -> Seq(Task)]
    BY <1>1, <1>2, TaskDoneQueue
  <2> QED BY <1>1, <1>3, <2>1, <2>2, <2>3, <2>4 DEF SettingsInv, SettingsTypes
<1>6. ASSUME NEW q \in Process, q # p
      PROVE  ProcessInv(q)'
  <2>1. ASSUME NEW f \in Field
        PROVE  FileKept(q, f)
    <3> SUFFICES ASSUME ~clobbered', writer'[f] \in {q, Missing}
                 PROVE  /\ ~clobbered /\ writer[f] \in {q, Missing}
                        /\ settingsFile \in Settings =>
                             settingsFile' \in Settings /\ settingsFile'[f] = settingsFile[f]
      BY DEF FileKept
    <3>1. f \notin task.fields /\ writer'[f] = writer[f]
      BY <1>1, <1>4, <1>6, SettingsNames
    <3> QED BY <1>3, <3>1
  <2>2. /\ (q \in running' <=> q \in running) /\ globalSettings'[q] = globalSettings[q]
        /\ modifiedFields'[q] = modifiedFields[q] /\ writeQueue'[q] = writeQueue[q]
        /\ creating'[q] = creating[q] /\ everSet'[q] = everSet[q] /\ forgotten'[q] = forgotten[q]
    BY <1>1, <1>2, <1>6, TaskDoneQueue DEF SettingsInv, SettingsTypes
  <2>3. /\ sets \in Nat /\ reloads \in Nat /\ sets' \in Nat /\ reloads' \in Nat
        /\ sets <= sets' /\ reloads <= reloads'
    BY <1>1, CountsAreNumbers DEF SettingsInv
  <2> QED BY <2>1, <2>2, <2>3, OthersKept
<1>7. ProcessInv(p)'
  <2>1. QueueIsBounded(p)' /\ \A f \in Field : TasksAgree(p, f)'
    BY <1>1, <1>2, TaskDoneKeeps
  <2>2. modifiedFields'[p] = {}
    BY <1>1 DEF SettingsInv, SettingsTypes
  <2>3. NothingWithoutProcess(p)' /\ CreatorIsFirst(p)' /\ \A f \in Field : MarkedIsLast(p, f)'
    BY <1>1, <1>2, <2>2 DEF SettingsInv, ProcessInv, NothingWithoutProcess, CreatorIsFirst, MarkedIsLast
  <2>4. ASSUME NEW f \in Field, everSet[p][f] # 0, f \notin forgotten'[p]
        PROVE  /\ \A n \in 1 .. Len(writeQueue[p]) : Writes(p, n, f) => WritesLast(p, n, f)
               /\ ~clobbered' /\ writer'[f] \in {p, Missing} => settingsFile'[f] = everSet[p][f]
    <3>1. CASE f \in task.fields /\ task.snapshot[f] = everSet[p][f]
      <4>1. Writes(p, 1, f) /\ WritesLast(p, 1, f)
        BY <1>2, <1>4, <3>1 DEF WritesLast
      <4>2. \A n \in 1 .. Len(writeQueue[p]) : Writes(p, n, f) => WritesLast(p, n, f)
        BY <1>2, <4>1 DEF SettingsInv, ProcessInv, TasksAgree
      <4> QED BY <1>3, <3>1, <4>2
    <3>2. CASE ~(f \in task.fields /\ task.snapshot[f] = everSet[p][f])
      <4>1. f \notin forgotten[p] /\ f \notin modifiedFields[p]
        BY <1>1, <2>4, <3>2 DEF SettingsInv, SettingsTypes
      <4>2. UnmarkedIsWritten(p, f)
        BY DEF SettingsInv, ProcessInv
      <4>3. \A n \in 1 .. Len(writeQueue[p]) : Writes(p, n, f) => WritesLast(p, n, f)
        BY <2>4, <4>1, <4>2 DEF UnmarkedIsWritten
      <4>4. f \notin task.fields
        BY <1>2, <1>4, <3>2, <4>3 DEF WritesLast
      <4>5. ASSUME ~clobbered', writer'[f] \in {p, Missing}
            PROVE  settingsFile'[f] = everSet[p][f]
        <5>1. ~clobbered /\ writer[f] \in {p, Missing}
          BY <1>1, <4>4, <4>5
        <5>2. settingsFile \in Settings /\ settingsFile[f] = everSet[p][f]
          BY <2>4, <4>1, <4>2, <5>1 DEF UnmarkedIsWritten
        <5> QED BY <1>3, <4>4, <4>5, <5>2
      <4> QED BY <4>3, <4>5
    <3> QED BY <3>1, <3>2
  <2>5. ASSUME NEW f \in Field
        PROVE  UnmarkedIsWritten(p, f)'
    <3> SUFFICES ASSUME everSet[p][f] # 0, f \notin forgotten'[p]
                 PROVE  /\ \A n \in 1 .. Len(writeQueue'[p]) : Writes(p, n, f)' => WritesLast(p, n, f)'
                        /\ ~clobbered' /\ writer'[f] \in {p, Missing} =>
                             settingsFile' \in Settings /\ settingsFile'[f] = everSet[p][f]
      BY <1>1 DEF UnmarkedIsWritten
    <3>1. \A n \in 1 .. Len(writeQueue'[p]) : Writes(p, n, f)' => WritesLast(p, n, f)'
      BY <1>1, <1>2, <2>4, TaskDoneQueue
    <3> QED BY <1>3, <2>4, <3>1
  <2> QED BY <2>1, <2>3, <2>5 DEF ProcessInv
<1> QED BY <1>5, <1>6, <1>7 DEF SettingsInv

LEMMA PersistKeeps ==
  ASSUME SettingsInv, NEW p \in Process, PersistScopedSettings(p)
  PROVE  SettingsInv'
<1>1. /\ NextIs(p, "write") /\ ~creating[p] /\ settingsFile \in Settings
      /\ Written(p, settingsFile) /\ UNCHANGED <<creating, clobbered>>
  BY DEF PersistScopedSettings, SettingsInv, SettingsTypes
<1>2. clobbered \in BOOLEAN /\ creating \in [Process -> BOOLEAN]
  BY DEF SettingsInv, SettingsTypes
<1> QED BY <1>1, <1>2, WrittenKeeps

LEMMA WriteMissingKeeps ==
  ASSUME SettingsInv, NEW p \in Process, WriteMissing(p)
  PROVE  SettingsInv'
<1>1. /\ creating[p] /\ Written(p, Empty) /\ creating' = [creating EXCEPT ![p] = FALSE]
      /\ clobbered' = (clobbered \/ settingsFile # Missing)
  BY DEF WriteMissing
<1>2. writeQueue[p] # <<>> /\ writeQueue[p][1].kind = "write" /\ writeQueue[p] \in Seq(Task)
  BY <1>1 DEF SettingsInv, SettingsTypes, ProcessInv, CreatorIsFirst
<1>3. NextIs(p, "write")
  BY <1>2, TailAt DEF NextIs
<1>4. /\ clobbered' \in BOOLEAN /\ creating' \in [Process -> BOOLEAN] /\ ~creating'[p]
      /\ \A q \in Process : q # p => creating'[q] = creating[q]
  BY <1>1 DEF SettingsInv, SettingsTypes
<1>5. ~clobbered' => settingsFile \notin Settings
  BY <1>1, SettingsNames
<1> QED BY <1>1, <1>3, <1>4, <1>5, EmptyType, WrittenKeeps

LEMMA ReadMissingKeeps ==
  ASSUME SettingsInv, NEW p \in Process, ReadMissing(p)
  PROVE  SettingsInv'
<1>1. /\ NextIs(p, "write") /\ creating' = [creating EXCEPT ![p] = TRUE]
      /\ UNCHANGED <<settingsFile, running, globalSettings, modifiedFields, settingsError,
                     writeQueue, sets, reloads, failures, exits, everSet, writer, forgotten,
                     clobbered>>
  BY DEF ReadMissing, countVars
<1>2. SettingsTypes'
  BY <1>1 DEF SettingsInv, SettingsTypes
<1>3. ASSUME NEW q \in Process, q # p
      PROVE  ProcessInv(q)'
  <2>1. creating'[q] = creating[q] /\ sets <= sets' /\ reloads <= reloads'
    BY <1>1, <1>3, CountsAreNumbers DEF SettingsInv, SettingsTypes
  <2> QED BY <1>1, <1>2, <1>3, <2>1, OthersKeptAside
<1>4. ProcessInv(p)'
  <2>1. writeQueue[p] # <<>> /\ writeQueue[p] \in Seq(Task) /\ Head(writeQueue[p]).kind = "write"
    BY <1>1 DEF NextIs, SettingsInv, SettingsTypes
  <2>2. CreatorIsFirst(p)'
    BY <1>1, <2>1, TailAt DEF CreatorIsFirst
  <2> QED
    BY <1>1, <2>2 DEF SettingsInv, ProcessInv, QueueIsBounded, NothingWithoutProcess, MarkedIsLast,
                      TasksAgree, UnmarkedIsWritten, Writes, WritesLast
<1> QED BY <1>2, <1>3, <1>4 DEF SettingsInv

\* A task that is dropped without a write: its fields are forgotten or stay marked, and so
\* do the fields that are unmarked on the way.
LEMMA DroppedKeeps ==
  ASSUME SettingsInv, SettingsTypes', NEW p \in Process, writeQueue[p] # <<>>, TaskDone(p),
         ~creating'[p], UNCHANGED <<settingsFile, running, sets, reloads, everSet, writer, clobbered>>,
         modifiedFields'[p] \subseteq modifiedFields[p],
         forgotten[p] \union (modifiedFields[p] \ modifiedFields'[p]) \subseteq forgotten'[p],
         modifiedFields'[p] # {} => globalSettings'[p] = globalSettings[p],
         \A q \in Process : q # p =>
           /\ globalSettings'[q] = globalSettings[q] /\ modifiedFields'[q] = modifiedFields[q]
           /\ creating'[q] = creating[q] /\ forgotten'[q] = forgotten[q]
  PROVE  SettingsInv'
<1>1. ASSUME NEW q \in Process, q # p
      PROVE  ProcessInv(q)'
  BY <1>1, TaskDoneQueue, OthersKeptAside, CountsAreNumbers DEF SettingsInv
<1>2. QueueIsBounded(p)' /\ \A f \in Field : TasksAgree(p, f)'
  BY TaskDoneKeeps
<1>3. NothingWithoutProcess(p)' /\ CreatorIsFirst(p)'
  BY DEF SettingsInv, ProcessInv, NothingWithoutProcess, CreatorIsFirst
<1>4. ASSUME NEW f \in Field
      PROVE  MarkedIsLast(p, f)' /\ UnmarkedIsWritten(p, f)'
  <2>1. MarkedIsLast(p, f) /\ UnmarkedIsWritten(p, f)
    BY DEF SettingsInv, ProcessInv
  <2>2. MarkedIsLast(p, f)'
    BY <2>1 DEF MarkedIsLast
  <2>3. UnmarkedIsWritten(p, f)'
    <3> SUFFICES ASSUME everSet[p][f] # 0, f \notin modifiedFields'[p], f \notin forgotten'[p]
                 PROVE  /\ \A n \in 1 .. Len(writeQueue'[p]) : Writes(p, n, f)' => WritesLast(p, n, f)'
                        /\ ~clobbered /\ writer[f] \in {p, Missing} =>
                             settingsFile \in Settings /\ settingsFile[f] = everSet[p][f]
      BY DEF UnmarkedIsWritten
    <3>1. f \notin modifiedFields[p] /\ f \notin forgotten[p]
      OBVIOUS
    <3> QED BY <2>1, <3>1, TaskDoneQueue DEF UnmarkedIsWritten
  <2> QED BY <2>2, <2>3
<1>5. ProcessInv(p)'
  BY <1>2, <1>3, <1>4 DEF ProcessInv
<1> QED BY <1>1, <1>5 DEF SettingsInv

LEMMA WriteFailsKeeps ==
  ASSUME SettingsInv, NEW p \in Process, WriteFails(p)
  PROVE  SettingsInv'
<1>1. /\ writeQueue[p] # <<>> /\ TaskDone(p) /\ creating' = [creating EXCEPT ![p] = FALSE]
      /\ Head(writeQueue[p]).kind = "write"
      /\ forgotten' = [forgotten EXCEPT ![p] = @ \union (Head(writeQueue[p]).fields \ modifiedFields[p])]
      /\ UNCHANGED <<settingsFile, running, globalSettings, modifiedFields, settingsError,
                     sets, reloads, exits, everSet, writer, clobbered>>
  BY DEF WriteFails, NextIs
<1>2. failures' \in 0 .. MaxFailures
  BY SettingsBounds DEF WriteFails, Failing, SettingsInv, SettingsTypes
<1>3. /\ writeQueue' \in [Process -> Seq(Task)] /\ Head(writeQueue[p]).fields \in SUBSET Field
  BY <1>1, TaskDoneQueue, WriteTaskParts
<1>4. SettingsTypes'
  BY <1>1, <1>2, <1>3 DEF SettingsInv, SettingsTypes
<1>5. /\ ~creating'[p] /\ forgotten[p] \subseteq forgotten'[p]
      /\ \A q \in Process : q # p => creating'[q] = creating[q] /\ forgotten'[q] = forgotten[q]
  BY <1>1 DEF SettingsInv, SettingsTypes
<1> QED BY <1>1, <1>4, <1>5, DroppedKeeps

LEMMA SettingsLoadTypes ==
  ASSUME SettingsTypes, NEW p \in Process, Load(p)
  PROVE  /\ globalSettings' \in [Process -> Settings] /\ settingsError' \in [Process -> BOOLEAN]
         /\ failures' \in 0 .. MaxFailures
         /\ \A q \in Process : q # p => globalSettings'[q] = globalSettings[q]
<1>1. settingsFile # Broken => Parsed(settingsFile) \in Settings
  BY EmptyType DEF SettingsTypes, Parsed
<1>2. failures' \in 0 .. MaxFailures
  BY SettingsBounds DEF Load, Failing, SettingsTypes
<1> QED BY <1>1, <1>2 DEF Load, SettingsTypes

LEMMA ReloadedKeeps ==
  ASSUME SettingsInv, NEW p \in Process, Reloaded(p)
  PROVE  SettingsInv'
<1>1. /\ writeQueue[p] # <<>> /\ Head(writeQueue[p]).kind = "reload" /\ TaskDone(p) /\ Load(p)
      /\ modifiedFields' = [modifiedFields EXCEPT ![p] = {}]
      /\ forgotten' = [forgotten EXCEPT ![p] = @ \union modifiedFields[p]]
      /\ UNCHANGED <<settingsFile, running, creating, sets, reloads, exits, everSet, writer, clobbered>>
  BY DEF Reloaded, NextIs
<1>2. writeQueue' \in [Process -> Seq(Task)] /\ writeQueue[p][1].kind = "reload"
  BY <1>1, TaskDoneQueue
<1>3. ~creating'[p]
  BY <1>1, <1>2 DEF SettingsInv, ProcessInv, CreatorIsFirst
<1>4. SettingsTypes'
  BY <1>1, <1>2, SettingsLoadTypes DEF SettingsInv, SettingsTypes
<1>5. /\ modifiedFields'[p] = {} /\ forgotten'[p] = forgotten[p] \union modifiedFields[p]
      /\ \A q \in Process : q # p =>
           /\ globalSettings'[q] = globalSettings[q] /\ modifiedFields'[q] = modifiedFields[q]
           /\ creating'[q] = creating[q] /\ forgotten'[q] = forgotten[q]
  BY <1>1, SettingsLoadTypes DEF SettingsInv, SettingsTypes
<1> QED BY <1>1, <1>3, <1>4, <1>5, DroppedKeeps

LEMMA CreateKeeps ==
  ASSUME SettingsInv, NEW p \in Process, CreateManager(p)
  PROVE  SettingsInv'
<1>1. /\ p \notin running /\ running' = running \union {p} /\ Load(p)
      /\ UNCHANGED <<settingsFile, modifiedFields, writeQueue, creating, sets, reloads, exits,
                     everSet, writer, forgotten, clobbered>>
  BY DEF CreateManager
<1>2. SettingsTypes'
  BY <1>1, SettingsLoadTypes DEF SettingsInv, SettingsTypes
<1>3. ASSUME NEW q \in Process, q # p
      PROVE  ProcessInv(q)'
  BY <1>1, <1>2, <1>3, SettingsLoadTypes, OthersKeptAside, CountsAreNumbers DEF SettingsInv
<1>4. modifiedFields[p] = {}
  BY <1>1 DEF SettingsInv, ProcessInv, NothingWithoutProcess
<1>5. ProcessInv(p)'
  BY <1>1, <1>4 DEF SettingsInv, ProcessInv, QueueIsBounded, NothingWithoutProcess, MarkedIsLast,
                    TasksAgree, UnmarkedIsWritten, Writes, WritesLast, CreatorIsFirst
<1> QED BY <1>2, <1>3, <1>5 DEF SettingsInv

\* The process ends: its queue and its marks end with it.
LEMMA ExitKeeps ==
  ASSUME SettingsInv, NEW p \in Process, Exit(p)
  PROVE  SettingsInv'
<1>1. /\ exits < MaxExits /\ exits' = exits + 1 /\ running' = running \ {p}
      /\ globalSettings' = [globalSettings EXCEPT ![p] = Empty]
      /\ modifiedFields' = [modifiedFields EXCEPT ![p] = {}]
      /\ settingsError' = [settingsError EXCEPT ![p] = FALSE]
      /\ writeQueue' = [writeQueue EXCEPT ![p] = <<>>]
      /\ creating' = [creating EXCEPT ![p] = FALSE]
      /\ everSet' = [everSet EXCEPT ![p] = IF writeQueue[p] = <<>> THEN @ ELSE Empty]
      /\ forgotten' = [forgotten EXCEPT ![p] = @ \union modifiedFields[p]]
      /\ \/ UNCHANGED <<settingsFile, clobbered>>
         \/ settingsFile' \in {Empty, Broken} /\ clobbered' = TRUE
      /\ UNCHANGED <<sets, reloads, failures, writer>>
  BY DEF Exit
<1>2. SettingsTypes'
  <2>1. /\ globalSettings' \in [Process -> Settings] /\ modifiedFields' \in [Process -> SUBSET Field]
        /\ writeQueue' \in [Process -> Seq(Task)]
    BY <1>1, EmptyType DEF SettingsInv, SettingsTypes
  <2>2. everSet' \in [Process -> Settings]
    BY <1>1, EmptyType DEF SettingsInv, SettingsTypes
  <2>3. /\ settingsError' \in [Process -> BOOLEAN] /\ creating' \in [Process -> BOOLEAN]
        /\ forgotten' \in [Process -> SUBSET Field]
    BY <1>1 DEF SettingsInv, SettingsTypes
  <2>4. /\ settingsFile' \in Settings \union {Missing, Broken} /\ clobbered' \in BOOLEAN
    BY <1>1, EmptyType DEF SettingsInv, SettingsTypes
  <2>5. running' \subseteq Process
    BY <1>1 DEF SettingsInv, SettingsTypes
  <2>6. exits' \in 0 .. MaxExits
    BY <1>1, SettingsBounds DEF SettingsInv, SettingsTypes
  <2> QED BY <1>1, <2>1, <2>2, <2>3, <2>4, <2>5, <2>6 DEF SettingsInv, SettingsTypes
<1>3. ASSUME NEW q \in Process, q # p
      PROVE  ProcessInv(q)'
  <2>1. /\ (q \in running' <=> q \in running) /\ globalSettings'[q] = globalSettings[q]
        /\ modifiedFields'[q] = modifiedFields[q] /\ writeQueue'[q] = writeQueue[q]
        /\ creating'[q] = creating[q] /\ everSet'[q] = everSet[q] /\ forgotten'[q] = forgotten[q]
    BY <1>1, <1>3 DEF SettingsInv, SettingsTypes
  <2>2. sets <= sets' /\ reloads <= reloads'
    BY <1>1, CountsAreNumbers DEF SettingsInv
  <2>3. clobbered' \/ UNCHANGED <<settingsFile, writer, clobbered>>
    BY <1>1
  <2> QED BY <1>2, <1>3, <2>1, <2>2, <2>3, OthersKeptAside
<1>4. ProcessInv(p)'
  <2>1. /\ modifiedFields'[p] = {} /\ writeQueue'[p] = <<>> /\ ~creating'[p]
        /\ forgotten'[p] = forgotten[p] \union modifiedFields[p]
    BY <1>1 DEF SettingsInv, SettingsTypes
  <2>2. QueueIsBounded(p)'
    <3>1. everSet'[p] \in {everSet[p], Empty}
      BY <1>1 DEF SettingsInv, SettingsTypes
    <3>2. ASSUME NEW f \in Field PROVE everSet'[p][f] <= sets'
      BY <1>1, <3>1, CountsAreNumbers, EmptyType DEF SettingsInv, ProcessInv, QueueIsBounded
    <3> QED BY <1>1, <2>1, <3>2, CountsAreNumbers DEF SettingsInv, QueueIsBounded
  <2>4. NothingWithoutProcess(p)' /\ CreatorIsFirst(p)'
    BY <1>1, <2>1 DEF NothingWithoutProcess, CreatorIsFirst
  <2>3. ASSUME NEW f \in Field
        PROVE  MarkedIsLast(p, f)' /\ TasksAgree(p, f)' /\ UnmarkedIsWritten(p, f)'
    <3>1. MarkedIsLast(p, f)' /\ TasksAgree(p, f)'
      BY <2>1 DEF MarkedIsLast, TasksAgree
    <3>2. UnmarkedIsWritten(p, f)'
      <4> SUFFICES ASSUME everSet'[p][f] # 0, f \notin forgotten'[p], ~clobbered',
                          writer'[f] \in {p, Missing}
                   PROVE  settingsFile' \in Settings /\ settingsFile'[f] = everSet'[p][f]
        BY <2>1 DEF UnmarkedIsWritten
      <4>1. everSet'[p] = everSet[p]
        BY <1>1, EmptyType DEF SettingsInv, SettingsTypes
      <4>2. UnmarkedIsWritten(p, f)
        BY DEF SettingsInv, ProcessInv
      <4> QED BY <1>1, <2>1, <4>1, <4>2 DEF UnmarkedIsWritten
    <3> QED BY <3>1, <3>2
  <2> QED BY <2>2, <2>3, <2>4 DEF ProcessInv
<1> QED BY <1>2, <1>3, <1>4 DEF SettingsInv

\* A task is queued behind the others.
LEMMA QueuedTypes ==
  ASSUME SettingsTypes, NEW p \in Process, NEW t \in Task,
         writeQueue' = [writeQueue EXCEPT ![p] = Append(@, t)]
  PROVE  /\ writeQueue' \in [Process -> Seq(Task)]
         /\ \A q \in Process : q # p => writeQueue'[q] = writeQueue[q]
         /\ Len(writeQueue[p]) \in Nat /\ Len(writeQueue'[p]) = Len(writeQueue[p]) + 1
         /\ writeQueue'[p][Len(writeQueue[p]) + 1] = t
         /\ \A n \in 1 .. Len(writeQueue[p]) : writeQueue'[p][n] = writeQueue[p][n]
         /\ writeQueue[p] # <<>> => 1 \in 1 .. Len(writeQueue[p])
         /\ writeQueue'[p] # <<>>
<1>1. writeQueue[p] \in Seq(Task) /\ writeQueue'[p] = Append(writeQueue[p], t)
  BY DEF SettingsTypes
<1>2. Append(writeQueue[p], t) \in Seq(Task)
  BY <1>1, AppendAt
<1>3. /\ writeQueue' \in [Process -> Seq(Task)]
      /\ \A q \in Process : q # p => writeQueue'[q] = writeQueue[q]
  BY <1>1, <1>2 DEF SettingsTypes
<1>4. writeQueue[p] # <<>> => 1 \in 1 .. Len(writeQueue[p])
  BY <1>1
<1> QED BY <1>1, <1>3, <1>4, AppendAt

LEMMA SettingsReloadKeeps ==
  ASSUME SettingsInv, NEW p \in Process, Reload(p)
  PROVE  SettingsInv'
<1> DEFINE t == [kind |-> "reload"]
<1>1. /\ p \in running /\ reloads < MaxReloads /\ reloads' = reloads + 1
      /\ writeQueue' = [writeQueue EXCEPT ![p] = Append(@, t)]
      /\ UNCHANGED <<settingsFile, running, globalSettings, modifiedFields, settingsError, creating,
                     sets, failures, exits, everSet, writer, forgotten, clobbered>>
  BY DEF Reload
<1>2. t \in Task /\ t.kind = "reload"
  BY DEF Task
<1> HIDE DEF t
<1>3. SettingsTypes'
  BY <1>1, <1>2, QueuedTypes, SettingsBounds DEF SettingsInv, SettingsTypes
<1>4. sets \in Nat /\ reloads \in Nat
  BY CountsAreNumbers DEF SettingsInv
<1>5. ASSUME NEW q \in Process, q # p
      PROVE  ProcessInv(q)'
  <2>1. writeQueue'[q] = writeQueue[q]
    BY <1>1, <1>2, <1>5, QueuedTypes DEF SettingsInv
  <2> QED BY <1>1, <1>3, <1>4, <1>5, <2>1, OthersKeptAside
<1>6. ProcessInv(p)'
  <2>1. /\ Len(writeQueue[p]) \in Nat /\ Len(writeQueue'[p]) = Len(writeQueue[p]) + 1
        /\ writeQueue'[p][Len(writeQueue[p]) + 1] = t
        /\ \A n \in 1 .. Len(writeQueue[p]) : writeQueue'[p][n] = writeQueue[p][n]
        /\ writeQueue[p] # <<>> => 1 \in 1 .. Len(writeQueue[p])
        /\ writeQueue'[p] # <<>>
    BY <1>1, <1>2, QueuedTypes DEF SettingsInv
  <2>2. \A n \in 1 .. Len(writeQueue'[p]) : \A f \in Field : Writes(p, n, f)' =>
          n \in 1 .. Len(writeQueue[p]) /\ Writes(p, n, f)
    BY <1>2, <2>1 DEF Writes
  <2>3. \A n \in 1 .. Len(writeQueue[p]) : \A f \in Field : WritesLast(p, n, f)' <=> WritesLast(p, n, f)
    BY <1>1, <2>1 DEF WritesLast
  <2>4. QueueIsBounded(p)'
    BY <1>1, <1>4, <2>1, <2>2 DEF SettingsInv, ProcessInv, QueueIsBounded
  <2>5. NothingWithoutProcess(p)' /\ CreatorIsFirst(p)'
    BY <1>1, <2>1 DEF SettingsInv, ProcessInv, NothingWithoutProcess, CreatorIsFirst
  <2>6. ASSUME NEW f \in Field
        PROVE  MarkedIsLast(p, f)' /\ TasksAgree(p, f)' /\ UnmarkedIsWritten(p, f)'
    <3>1. MarkedIsLast(p, f) /\ TasksAgree(p, f) /\ UnmarkedIsWritten(p, f)
      BY DEF SettingsInv, ProcessInv
    <3>2. MarkedIsLast(p, f)'
      BY <1>1, <3>1 DEF MarkedIsLast
    <3>3. TasksAgree(p, f)'
      BY <1>1, <2>1, <2>2, <2>3, <3>1 DEF TasksAgree
    <3>4. UnmarkedIsWritten(p, f)'
      BY <1>1, <2>2, <2>3, <3>1 DEF UnmarkedIsWritten
    <3> QED BY <3>2, <3>3, <3>4
  <2> QED BY <2>4, <2>5, <2>6 DEF ProcessInv
<1> QED BY <1>3, <1>5, <1>6 DEF SettingsInv

\* A setter: the value is newer than every snapshot, and the snapshot that is queued has
\* the last value of every field it writes.
LEMMA SetFieldKeeps ==
  ASSUME SettingsInv, NEW p \in Process, NEW f0 \in Field, SetField(p, f0)
  PROVE  SettingsInv'
<1> DEFINE settings == [globalSettings[p] EXCEPT ![f0] = sets + 1]
           fields == modifiedFields[p] \union {f0}
           t == [kind |-> "write", snapshot |-> settings, fields |-> fields]
<1>1. /\ p \in running /\ sets < MaxSets /\ sets' = sets + 1
      /\ globalSettings' = [globalSettings EXCEPT ![p] = settings]
      /\ modifiedFields' = [modifiedFields EXCEPT ![p] = fields]
      /\ \/ settingsError[p] /\ UNCHANGED writeQueue
         \/ ~settingsError[p] /\ writeQueue' = [writeQueue EXCEPT ![p] = Append(@, t)]
      /\ everSet' = [everSet EXCEPT ![p][f0] = sets + 1]
      /\ UNCHANGED <<settingsFile, running, settingsError, creating, reloads, failures, exits,
                     writer, forgotten, clobbered>>
  BY DEF SetField, Save
<1>2. sets \in Nat /\ reloads \in Nat /\ MaxSets \in Nat
  BY CountsAreNumbers, SettingsBounds DEF SettingsInv
<1>3. sets + 1 \in Value
  BY <1>1, <1>2 DEF Value
<1>4. /\ settings \in Settings /\ settings[f0] = sets + 1
      /\ \A f \in Field : f # f0 => settings[f] = globalSettings[p][f]
  BY <1>3 DEF SettingsInv, SettingsTypes, Settings
<1>5. fields \in SUBSET Field /\ f0 \in fields
  BY DEF SettingsInv, SettingsTypes
<1>6. /\ everSet' \in [Process -> Settings] /\ everSet'[p][f0] = sets + 1
      /\ \A f \in Field : f # f0 => everSet'[p][f] = everSet[p][f]
      /\ \A q \in Process : q # p => everSet'[q] = everSet[q]
  BY <1>1, <1>3 DEF SettingsInv, SettingsTypes, Settings
<1>7. t \in Task /\ t.kind = "write" /\ t.snapshot = settings /\ t.fields = fields
  BY <1>4, <1>5, TaskKinds
<1> HIDE DEF t, settings, fields
<1>8. /\ writeQueue' \in [Process -> Seq(Task)]
      /\ \A q \in Process : q # p => writeQueue'[q] = writeQueue[q]
      /\ Len(writeQueue[p]) \in Nat
      /\ Len(writeQueue'[p]) \in Len(writeQueue[p]) .. Len(writeQueue[p]) + 1
      /\ \A n \in 1 .. Len(writeQueue[p]) : writeQueue'[p][n] = writeQueue[p][n]
      /\ \A n \in 1 .. Len(writeQueue'[p]) :
           n \notin 1 .. Len(writeQueue[p]) => n = Len(writeQueue[p]) + 1 /\ writeQueue'[p][n] = t
      /\ writeQueue[p] # <<>> => 1 \in 1 .. Len(writeQueue[p])
      /\ writeQueue[p] # <<>> => writeQueue'[p] # <<>>
  <2>1. CASE UNCHANGED writeQueue
    <3>1. writeQueue[p] \in Seq(Task)
      BY DEF SettingsInv, SettingsTypes
    <3>2. Len(writeQueue[p]) \in Nat /\ (writeQueue[p] # <<>> => 1 \in 1 .. Len(writeQueue[p]))
      BY <3>1
    <3> QED BY <2>1, <3>2 DEF SettingsInv, SettingsTypes
  <2>2. CASE writeQueue' = [writeQueue EXCEPT ![p] = Append(@, t)]
    <3>1. /\ writeQueue' \in [Process -> Seq(Task)]
          /\ \A q \in Process : q # p => writeQueue'[q] = writeQueue[q]
          /\ Len(writeQueue[p]) \in Nat /\ Len(writeQueue'[p]) = Len(writeQueue[p]) + 1
          /\ writeQueue'[p][Len(writeQueue[p]) + 1] = t
          /\ \A n \in 1 .. Len(writeQueue[p]) : writeQueue'[p][n] = writeQueue[p][n]
          /\ writeQueue[p] # <<>> => 1 \in 1 .. Len(writeQueue[p])
          /\ writeQueue'[p] # <<>>
      BY <1>7, <2>2, QueuedTypes DEF SettingsInv
    <3>2. ASSUME NEW n \in 1 .. Len(writeQueue'[p]), n \notin 1 .. Len(writeQueue[p])
          PROVE  n = Len(writeQueue[p]) + 1 /\ writeQueue'[p][n] = t
      <4>1. n = Len(writeQueue[p]) + 1
        BY <3>1, <3>2
      <4> QED BY <3>1, <4>1
    <3>3. Len(writeQueue'[p]) \in Len(writeQueue[p]) .. Len(writeQueue[p]) + 1
      BY <3>1
    <3> QED BY <3>1, <3>2, <3>3
  <2> QED BY <1>1, <2>1, <2>2
<1>9. SettingsTypes'
  <2>1. globalSettings' \in [Process -> Settings] /\ modifiedFields' \in [Process -> SUBSET Field]
    BY <1>1, <1>4, <1>5 DEF SettingsInv, SettingsTypes
  <2> QED BY <1>1, <1>3, <1>6, <1>8, <2>1 DEF SettingsInv, SettingsTypes
<1>10. ASSUME NEW q \in Process, q # p
       PROVE  ProcessInv(q)'
  <2>1. /\ globalSettings'[q] = globalSettings[q] /\ modifiedFields'[q] = modifiedFields[q]
        /\ sets <= sets' /\ reloads <= reloads'
    BY <1>1, <1>2, <1>10 DEF SettingsInv, SettingsTypes
  <2> QED BY <1>1, <1>6, <1>8, <1>9, <1>10, <2>1, OthersKeptAside
<1>11. /\ globalSettings'[p] = settings /\ modifiedFields'[p] = fields
       /\ fields = modifiedFields[p] \union {f0}
  BY <1>1 DEF SettingsInv, SettingsTypes, fields
\* Tasks of before the setter are as they were; the new one has the last values.
<1>12. ASSUME NEW n \in 1 .. Len(writeQueue'[p]), NEW f \in Field, Writes(p, n, f)'
       PROVE  \/ n \in 1 .. Len(writeQueue[p]) /\ Writes(p, n, f)
              \/ n \notin 1 .. Len(writeQueue[p]) /\ f \in fields /\ WritesLast(p, n, f)'
  <2>1. CASE n \in 1 .. Len(writeQueue[p])
    BY <1>8, <1>12, <2>1 DEF Writes
  <2>2. CASE n \notin 1 .. Len(writeQueue[p])
    <3>1. writeQueue'[p][n] = t /\ f \in fields
      BY <1>7, <1>8, <1>12, <2>2 DEF Writes
    <3>2. settings[f] = everSet'[p][f]
      <4>1. CASE f = f0
        BY <1>4, <1>6, <4>1
      <4>2. CASE f # f0
        BY <1>4, <1>6, <1>11, <3>1, <4>2 DEF SettingsInv, ProcessInv, MarkedIsLast
      <4> QED BY <4>1, <4>2
    <3> QED BY <1>7, <2>2, <3>1, <3>2 DEF WritesLast
  <2> QED BY <2>1, <2>2
<1>13. ASSUME NEW n \in 1 .. Len(writeQueue[p]), NEW f \in Field, Writes(p, n, f)
       PROVE  /\ writeQueue[p][n].snapshot[f] \in Nat /\ writeQueue[p][n].snapshot[f] <= sets
              /\ f # f0 => (WritesLast(p, n, f)' <=> WritesLast(p, n, f))
              /\ f = f0 => ~WritesLast(p, n, f)'
  <2>1. writeQueue[p][n] \in Task /\ writeQueue[p][n].kind = "write"
    BY <1>13 DEF Writes, SettingsInv, SettingsTypes
  <2>2. writeQueue[p][n].snapshot[f] \in Nat
    BY <2>1, <1>2, WriteTaskParts DEF Settings, Value
  <2>3. writeQueue[p][n].snapshot[f] <= sets
    BY <1>13 DEF SettingsInv, ProcessInv, QueueIsBounded
  <2> QED BY <1>2, <1>6, <1>8, <2>2, <2>3 DEF WritesLast
<1>14. QueueIsBounded(p)'
  <2>1. Len(writeQueue'[p]) <= sets' + reloads'
    BY <1>1, <1>2, <1>8 DEF SettingsInv, ProcessInv, QueueIsBounded
  <2>2. ASSUME NEW n \in 1 .. Len(writeQueue'[p]), NEW f \in Field, Writes(p, n, f)'
        PROVE  writeQueue'[p][n].snapshot[f] <= sets'
    <3>1. CASE n \in 1 .. Len(writeQueue[p]) /\ Writes(p, n, f)
      BY <1>1, <1>2, <1>8, <1>13, <3>1
    <3>2. CASE n \notin 1 .. Len(writeQueue[p]) /\ f \in fields /\ WritesLast(p, n, f)'
      <4>1. CASE f = f0
        BY <1>1, <1>2, <1>6, <3>2, <4>1 DEF WritesLast
      <4>2. CASE f # f0
        <5>1. writeQueue'[p][n] = t /\ settings[f] = globalSettings[p][f]
          BY <1>4, <1>8, <3>2, <4>2
        <5>2. globalSettings[p][f] = everSet[p][f] /\ everSet[p][f] \in Nat /\ everSet[p][f] <= sets
          BY <1>11, <3>2, <4>2, LastIsNumber DEF SettingsInv, ProcessInv, MarkedIsLast, QueueIsBounded
        <5> QED BY <1>1, <1>2, <1>7, <5>1, <5>2
      <4> QED BY <4>1, <4>2
    <3> QED BY <1>12, <2>2, <3>1, <3>2
  <2>3. ASSUME NEW f \in Field PROVE everSet'[p][f] <= sets'
    <3>1. everSet[p][f] \in Nat /\ everSet[p][f] <= sets
      BY LastIsNumber DEF SettingsInv, ProcessInv, QueueIsBounded
    <3> QED BY <1>1, <1>2, <1>6, <3>1
  <2> QED BY <2>1, <2>2, <2>3 DEF QueueIsBounded
<1>15. NothingWithoutProcess(p)' /\ CreatorIsFirst(p)'
  BY <1>1, <1>8 DEF SettingsInv, ProcessInv, NothingWithoutProcess, CreatorIsFirst
<1>16. ASSUME NEW f \in Field
       PROVE  MarkedIsLast(p, f)' /\ TasksAgree(p, f)' /\ UnmarkedIsWritten(p, f)'
  <2>1. MarkedIsLast(p, f) /\ TasksAgree(p, f) /\ UnmarkedIsWritten(p, f)
    BY DEF SettingsInv, ProcessInv
  <2>2. MarkedIsLast(p, f)'
    BY <1>2, <1>4, <1>6, <1>11, <2>1 DEF MarkedIsLast
  <2>3. ASSUME NEW n \in 1 .. Len(writeQueue'[p]), Writes(p, n, f)'
        PROVE  /\ everSet'[p][f] # 0
               /\ WritesLast(p, n, f)' =>
                    \A m \in n .. Len(writeQueue'[p]) : Writes(p, m, f)' => WritesLast(p, m, f)'
    <3>1. everSet'[p][f] # 0
      <4>1. CASE f = f0
        BY <1>2, <1>6, <4>1
      <4>2. CASE f # f0
        BY <1>6, <1>11, <1>12, <2>1, <2>3, <4>2 DEF MarkedIsLast, TasksAgree
      <4> QED BY <4>1, <4>2
    <3>2. ASSUME WritesLast(p, n, f)', NEW m \in n .. Len(writeQueue'[p]), Writes(p, m, f)',
                 m \in 1 .. Len(writeQueue[p])
          PROVE  WritesLast(p, m, f)'
      <4>1. n \in 1 .. Len(writeQueue[p]) /\ m \in n .. Len(writeQueue[p])
        BY <1>8, <3>2
      <4>2. Writes(p, n, f) /\ Writes(p, m, f)
        BY <1>8, <1>12, <2>3, <3>2, <4>1
      <4>3. f # f0 /\ WritesLast(p, n, f)
        BY <1>13, <3>2, <4>1, <4>2
      <4>4. WritesLast(p, m, f)
        BY <2>1, <4>1, <4>2, <4>3 DEF TasksAgree
      <4> QED BY <1>13, <3>2, <4>2, <4>3, <4>4
    <3>3. ASSUME NEW m \in n .. Len(writeQueue'[p]), Writes(p, m, f)', m \notin 1 .. Len(writeQueue[p])
          PROVE  WritesLast(p, m, f)'
      <4>1. m \in 1 .. Len(writeQueue'[p])
        BY <1>8
      <4> QED BY <1>12, <3>3, <4>1
    <3> QED BY <3>1, <3>2, <3>3
  <2>4. UnmarkedIsWritten(p, f)'
    <3> SUFFICES ASSUME everSet'[p][f] # 0, f \notin fields, f \notin forgotten'[p]
                 PROVE  /\ \A n \in 1 .. Len(writeQueue'[p]) : Writes(p, n, f)' => WritesLast(p, n, f)'
                        /\ ~clobbered' /\ writer'[f] \in {p, Missing} =>
                             settingsFile' \in Settings /\ settingsFile'[f] = everSet'[p][f]
      BY <1>11 DEF UnmarkedIsWritten
    <3>1. f # f0 /\ f \notin modifiedFields[p] /\ everSet'[p][f] = everSet[p][f]
      BY <1>6, <1>11
    <3>2. /\ \A n \in 1 .. Len(writeQueue[p]) : Writes(p, n, f) => WritesLast(p, n, f)
          /\ ~clobbered /\ writer[f] \in {p, Missing} =>
               settingsFile \in Settings /\ settingsFile[f] = everSet[p][f]
      BY <1>1, <2>1, <3>1 DEF UnmarkedIsWritten
    <3>3. \A n \in 1 .. Len(writeQueue'[p]) : Writes(p, n, f)' => WritesLast(p, n, f)'
      BY <1>12, <1>13, <3>1, <3>2
    <3> QED BY <1>1, <3>1, <3>2, <3>3
  <2> QED BY <2>2, <2>3, <2>4 DEF TasksAgree
<1>17. ProcessInv(p)'
  BY <1>14, <1>15, <1>16 DEF ProcessInv
<1> QED BY <1>9, <1>10, <1>17 DEF SettingsInv

\* THE THEOREM

LEMMA SettingsInvInit == SettingsInit => SettingsInv
<1> SUFFICES ASSUME SettingsInit PROVE SettingsInv
  OBVIOUS
<1>1. /\ running = {} /\ sets = 0 /\ reloads = 0 /\ failures = 0 /\ exits = 0
      /\ settingsFile \in {Missing, Empty} /\ clobbered = FALSE
      /\ modifiedFields = [p \in Process |-> {}] /\ writeQueue = [p \in Process |-> <<>>]
      /\ creating = [p \in Process |-> FALSE] /\ everSet = [p \in Process |-> Empty]
  BY DEF SettingsInit
<1>2. SettingsTypes
  <2>1. /\ globalSettings \in [Process -> Settings] /\ everSet \in [Process -> Settings]
        /\ modifiedFields \in [Process -> SUBSET Field] /\ settingsError \in [Process -> BOOLEAN]
        /\ writeQueue \in [Process -> Seq(Task)] /\ creating \in [Process -> BOOLEAN]
        /\ writer \in [Field -> Process \union {Missing}] /\ forgotten \in [Process -> SUBSET Field]
    BY EmptyType DEF SettingsInit
  <2>2. /\ 0 \in Value /\ 0 \in 0 .. MaxReloads /\ 0 \in 0 .. MaxFailures /\ 0 \in 0 .. MaxExits
    BY SettingsBounds DEF Value
  <2> QED BY <1>1, <2>1, <2>2, EmptyType DEF SettingsTypes
<1>3. ASSUME NEW p \in Process
      PROVE  ProcessInv(p)
  <2>1. /\ writeQueue[p] = <<>> /\ modifiedFields[p] = {} /\ ~creating[p]
        /\ \A f \in Field : everSet[p][f] = 0
    BY <1>1, EmptyType
  <2>2. QueueIsBounded(p) /\ NothingWithoutProcess(p) /\ CreatorIsFirst(p)
    BY <1>1, <2>1 DEF QueueIsBounded, NothingWithoutProcess, CreatorIsFirst
  <2>3. \A f \in Field : MarkedIsLast(p, f) /\ TasksAgree(p, f) /\ UnmarkedIsWritten(p, f)
    BY <2>1 DEF MarkedIsLast, TasksAgree, UnmarkedIsWritten
  <2> QED BY <2>2, <2>3 DEF ProcessInv
<1> QED BY <1>2, <1>3 DEF SettingsInv

LEMMA SettingsInvNext == SettingsInv /\ [SettingsNext]_settingsVars => SettingsInv'
<1> SUFFICES ASSUME SettingsInv, [SettingsNext]_settingsVars PROVE SettingsInv'
  OBVIOUS
<1>1. CASE UNCHANGED settingsVars
  <2>1. UNCHANGED <<settingsFile, running, globalSettings, modifiedFields, settingsError,
                    writeQueue, creating, sets, reloads, failures, exits, everSet, writer,
                    forgotten, clobbered>>
    BY <1>1 DEF settingsVars
  <2>2. SettingsTypes'
    BY <2>1 DEF SettingsInv, SettingsTypes
  <2>3. \A p \in Process : ProcessInv(p)'
    BY <2>1 DEF SettingsInv, ProcessInv, QueueIsBounded, NothingWithoutProcess, CreatorIsFirst,
                MarkedIsLast, TasksAgree, UnmarkedIsWritten, Writes, WritesLast
  <2> QED BY <2>2, <2>3 DEF SettingsInv
<1> QED
  BY <1>1, CreateKeeps, SetFieldKeeps, PersistKeeps, ReadMissingKeeps, WriteMissingKeeps,
     WriteFailsKeeps, SettingsReloadKeeps, ReloadedKeeps, ExitKeeps DEF SettingsNext

\* However many processes share settings.json, a process that has nothing more to write has
\* in it, for every field, the value it gave the field last, unless the field is still marked,
\* was unmarked too early, or was written later by another process, or the file was created
\* twice or torn.
THEOREM SettingsAreKept == SettingsSpec => []SettingsKept
<1>1. SettingsInv => SettingsKept
  <2> SUFFICES ASSUME SettingsInv PROVE SettingsKept
    OBVIOUS
  <2>1. ASSUME NEW p \in Process
        PROVE  /\ Len(writeQueue[p]) <= MaxSets + MaxReloads
               /\ \A n \in DOMAIN writeQueue[p] : writeQueue[p][n] \in Task
    <3>1. writeQueue[p] \in Seq(Task)
      BY DEF SettingsInv, SettingsTypes
    <3>2. Len(writeQueue[p]) \in Nat /\ Len(writeQueue[p]) <= sets + reloads
      BY <3>1 DEF SettingsInv, ProcessInv, QueueIsBounded
    <3>3. sets \in 0 .. MaxSets /\ reloads \in 0 .. MaxReloads
      BY DEF SettingsInv, SettingsTypes, Value
    <3> QED BY <3>1, <3>2, <3>3, SettingsBounds
  <2>2. SettingsTypeOK
    BY <2>1 DEF SettingsInv, SettingsTypes, SettingsTypeOK
  <2>3. ASSUME ~clobbered, NEW p \in Process, NEW f \in Field, everSet[p][f] # 0,
               writer[f] \in {p, Missing}, f \notin modifiedFields[p] \union forgotten[p]
        PROVE  settingsFile \notin {Missing, Broken} /\ settingsFile[f] = everSet[p][f]
    BY <2>3, SettingsNames DEF SettingsInv, ProcessInv, UnmarkedIsWritten
  <2> QED BY <2>2, <2>3 DEF SettingsKept
<1> QED BY SettingsInvInit, SettingsInvNext, <1>1, PTL DEF SettingsSpec

-----------------------------------------------------------------------------
(* The three together.                                                     *)

\* A step of GuardedFiles is a step of one component and leaves the others as they are.
LEMMA StepOfOne ==
  [Next]_vars => [QueueNext]_queueVars /\ [AuthNext]_authVars /\ [SettingsNext]_settingsVars
BY DEF Next, vars

\* Whichever of them a behaviour exercises: mutations of a file take turns
\* (file-mutation-queue.ts), no credential is lost or used twice (auth-storage.ts) and no
\* setting is lost (settings-manager.ts).
THEOREM FilesAreGuarded ==
  Spec => []MutationsTakeTurns /\ []CredentialsKept /\ []SettingsKept
<1>1. Init => QueueInit /\ AuthInit /\ SettingsInit
  BY DEF Init
<1>2. Spec => QueueSpec
  BY <1>1, StepOfOne, PTL DEF Spec, QueueSpec
<1>3. Spec => AuthSpec
  BY <1>1, StepOfOne, PTL DEF Spec, AuthSpec
<1>4. Spec => SettingsSpec
  BY <1>1, StepOfOne, PTL DEF Spec, SettingsSpec
<1> QED
  BY <1>2, <1>3, <1>4, MutationsTakeTurnsAlways, CredentialsAreKept, SettingsAreKept, PTL
=============================================================================
