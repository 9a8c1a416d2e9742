--------------------------- MODULE HarnessSession ---------------------------
(***************************************************************************)
(* The session below an AgentHarness: Session over JsonlSessionStorage     *)
(* (packages/agent/src/harness/session/).  An append reads the leaf, then  *)
(* awaits the write of its line, then changes the tree in memory, so two   *)
(* appends can overlap.  Contents are left out: an entry is its kind, its  *)
(* place in the tree, the thing it holds and, for a leaf entry, the entry  *)
(* it points to, or for a compaction the first entry kept.                 *)
(***************************************************************************)
EXTENDS Selection

CONSTANT Calls  \* who appends: the calls of the harness

VARIABLES
  file,       \* the entries in the file, one per line
  entries,    \* the storage's entries, in memory
  leafId,     \* currentLeafId; 0 is null
  appending,  \* the append each call awaits
  overlapped, \* history: two appends were under way at once
  refused     \* history: the file system refused a line

session == <<file, entries, leafId, appending, overlapped, refused>>

EntryKind == {"user", "assistant", "result", "custom", "setting",
              "compaction", "summary", "leaf"}
Entry(k, id, parent, item, target) ==
  [kind |-> k, id |-> id, parentId |-> parent, item |-> item, target |-> target]
SessionEntry ==
  [kind : EntryKind, id : Nat \ {0}, parentId : Nat, item : Nat, target : Nat]

Msg(kind, item) == [kind |-> kind, item |-> item]

Nobody == [stage |-> "none", entry |-> Entry("leaf", 1, 0, 0, 0)]

SessionInit ==
  /\ file = <<>> /\ entries = <<>> /\ leafId = 0
  /\ appending = [c \in Calls |-> Nobody]
  /\ overlapped = FALSE /\ refused = FALSE

-----------------------------------------------------------------------------
(* Reading.                                                                *)

EntryOf(id) == entries[CHOOSE p \in DOMAIN entries : entries[p].id = id]
Stored(id)  == \E p \in DOMAIN entries : entries[p].id = id

(* getPathToRoot.  A parent is always older than its children.             *)
Path(leaf) ==
  LET up[i \in Nat] ==
        IF Stored(i) THEN Append(up[EntryOf(i).parentId], EntryOf(i)) ELSE <<>>
  IN up[leaf]

(* buildSessionContext: what the messages of a path hold; after the last   *)
(* compaction, its summary, what it kept and what followed.                *)
ContextOf(path) ==
  LET c == SelectLastInSeq(path, LAMBDA e : e.kind = "compaction")
      k == SelectInSeq(path, LAMBDA e : e.id = path[c].target)
      seen == IF c = 0 THEN path
              ELSE <<path[c]>>
                   \o (IF k = 0 THEN <<>> ELSE SubSeq(path, k, c - 1))
                   \o SubSeq(path, c + 1, Len(path))
      shown == Only(seen, {e \in SessionEntry : e.kind \notin {"setting", "leaf"}})
  IN [p \in DOMAIN shown |-> Msg(shown[p].kind, shown[p].item)]
Context == ContextOf(Path(leafId))

(* leafIdAfterEntry, and loadJsonlStorage: the leaf of a file opened again *)
LeafAfter(e)  == IF e.kind = "leaf" THEN e.target ELSE e.id
LeafOfFile(f) == IF f = <<>> THEN 0 ELSE LeafAfter(Last(f))

-----------------------------------------------------------------------------
(* Appending: appendTypedEntry and setLeafId, up to the await of           *)
(* appendFile; the line; the change in memory.                             *)

UsedIds == {entries[p].id : p \in DOMAIN entries} \union {file[p].id : p \in DOMAIN file}
           \union {appending[c].entry.id : c \in {d \in Calls : appending[d] # Nobody}}
FreshId == 1 + Max(UsedIds \union {0})

Appends(c)     == appending[c] # Nobody
Committing(c)  == appending[c].stage = "memory"
AppendFailed(c) == appending[c].stage = "failed"

BeginAppendAt(c, kind, item, target, parent) ==
  /\ ~Appends(c)
  /\ appending' = [appending EXCEPT ![c] =
       [stage |-> "file", entry |-> Entry(kind, FreshId, parent, item, target)]]
  /\ overlapped' = (overlapped \/ \E d \in Calls \ {c} : Appends(d))
  /\ UNCHANGED <<file, entries, leafId, refused>>

BeginAppend(c, kind, item, target) == BeginAppendAt(c, kind, item, target, leafId)

AppendLine(c) ==
  /\ appending[c].stage = "file"
  /\ file' = Append(file, appending[c].entry)
  /\ appending' = [appending EXCEPT ![c].stage = "memory"]
  /\ UNCHANGED <<entries, leafId, overlapped, refused>>

(* The file system reports an error; it is taken to have written nothing.  *)
FailLine(c) ==
  /\ appending[c].stage = "file"
  /\ appending' = [appending EXCEPT ![c].stage = "failed"]
  /\ refused' = TRUE
  /\ UNCHANGED <<file, entries, leafId, overlapped>>

Commit(c) ==
  /\ Committing(c)
  /\ entries' = Append(entries, appending[c].entry)
  /\ leafId' = LeafAfter(appending[c].entry)
  /\ appending' = [appending EXCEPT ![c] = Nobody]
  /\ UNCHANGED <<file, overlapped, refused>>

Abandon(c) ==
  /\ AppendFailed(c)
  /\ appending' = [appending EXCEPT ![c] = Nobody]
  /\ UNCHANGED <<file, entries, leafId, overlapped, refused>>

-----------------------------------------------------------------------------
SessionTypeOK ==
  /\ file \in Seq(SessionEntry) /\ entries \in Seq(SessionEntry) /\ leafId \in Nat
  /\ appending \in [Calls -> [stage : {"none", "file", "memory", "failed"},
                              entry : SessionEntry]]
  /\ overlapped \in BOOLEAN /\ refused \in BOOLEAN

(* "Reopening storage must reconstruct the current leaf from the latest    *)
(* persisted leaf-affecting entry" (agent/docs/agent-harness.md): while no *)
(* append is under way, and none ever overlapped another, the file holds   *)
(* the tree in memory and gives the same leaf.                             *)
ReopensAtLeaf ==
  (~overlapped /\ \A c \in Calls : ~Appends(c)) =>
    file = entries /\ LeafOfFile(file) = leafId
=============================================================================
