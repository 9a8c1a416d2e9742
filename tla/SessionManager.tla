--------------------------- MODULE SessionManager ---------------------------
(***************************************************************************)
(* SessionManager (packages/coding-agent/src/core/session-manager.ts): a   *)
(* conversation kept as a tree of entries in memory and as the lines of an *)
(* append-only file.  Nothing is written until the first assistant message *)
(* is there; then all the entries are, and later entries one at a time.    *)
(*                                                                         *)
(* Every operation is synchronous: between the lines it writes the process *)
(* can only die, so a step is either an operation up to its first write or *)
(* the write of one line.  Contents are left out: an entry is its kind,    *)
(* id, parent, and the entry it is about.                                  *)
(***************************************************************************)
EXTENDS Selection

CONSTANTS
  MaxEntries,   \* bound: entries ever created
  MaxFiles,     \* bound: session files ever named
  Limits        \* bounds of a behaviour: how many "entries" are created, how many sessions
                \* it "opens" (begun, opened or forked), the "kinds" of entries the callers
                \* append, and the "faults": "crash" and "torn", the process may die
                \* between two lines or within one; "refused", a write may throw, between
                \* two lines or within one, while the process goes on

EntryKind == {"user", "assistant", "setting", "summary", "compaction", "label"}

ASSUME ManagerAssumption ==
  /\ MaxEntries \in Nat /\ MaxFiles \in Nat
  /\ \A l \in Limits : /\ l.entries \in 0 .. MaxEntries /\ l.opens \in Nat
                       /\ l.kinds \subseteq EntryKind
                       /\ l.faults \subseteq {"crash", "torn", "refused"}

VARIABLES
  disk,         \* the lines of each file
  unended,      \* the files whose last line has no newline
  created,      \* the files that exist
  nextFile,     \* the next file name
  nextId,       \* the next entry id
  opens,        \* how many sessions were begun, opened or forked
  alive,        \* FALSE when no process runs
  sessionFile, fileEntries, leafId, flushed,
  labels,       \* the keys of labelsById
  pending,      \* the lines the operation in progress has still to write
  unsaved,      \* history: the entry whose write was refused; bound: at most one
  limits        \* the bounds of this behaviour

memory == <<sessionFile, fileEntries, leafId, labels>>
vars   == <<disk, unended, created, nextFile, nextId, opens, alive, memory, flushed, pending,
          unsaved, limits>>

-----------------------------------------------------------------------------
(* Entries and lines.  "user" stands for every message that is not an      *)
(* assistant's, "setting" for the kinds that are not part of the context.  *)
(* "target" is a label's target or a compaction's firstKeptEntryId, "set"  *)
(* whether a label is set or cleared.  Id 0 is null.                       *)

File == 1 .. MaxFiles
Id   == 1 .. MaxEntries

Entry(k, id, parent, target, set) ==
  [kind |-> k, id |-> id, parentId |-> parent, target |-> target, set |-> set]
Header    == Entry("session", 0, 0, 0, FALSE)
Malformed == Entry("malformed", 0, 0, 0, FALSE)  \* a line that does not parse: cut
                                                 \* short, or what came after the cut
Glued     == Entry("glued", 0, 0, 0, FALSE)      \* an entry and more on one line

SessionEntry ==
  [kind : EntryKind, id : Id, parentId : 0 .. MaxEntries, target : 0 .. MaxEntries,
   set : BOOLEAN]
FileEntry == SessionEntry \union {Header}

IdsOf(es)        == {es[p].id : p \in DOMAIN es} \ {0}
EntryOf(es, id)  == es[CHOOSE p \in DOMAIN es : es[p].id = id]
HasAssistant(es) == \E p \in DOMAIN es : es[p].kind = "assistant"

(* getBranch: from the root, or from where the chain of parents breaks, to *)
(* the entry.  A parent is always older than its children.                 *)
Path(es, id) ==
  LET ids == IdsOf(es)
      up[i \in Nat] ==
        IF i \in ids THEN Append(up[EntryOf(es, i).parentId], EntryOf(es, i)) ELSE <<>>
  IN up[id]

(* buildSessionContext: the messages of the path, or from its last         *)
(* compaction on, the summary, what that compaction kept, and the rest.    *)
Messages(path) == SelectSeq(path, LAMBDA e : e.kind \in {"user", "assistant", "summary"})
Context(es, id) ==
  LET path == Path(es, id)
      c    == SelectLastInSeq(path, LAMBDA e : e.kind = "compaction")
      kept == SelectInSeq(path, LAMBDA e : e.id = path[c].target)
      from == IF kept \in 1 .. c - 1 THEN kept ELSE c
  IN IF c = 0 THEN Messages(path)
     ELSE <<path[c]>> \o Messages(SubSeq(path, from, c - 1))
                      \o Messages(SubSeq(path, c + 1, Len(path)))

(* _buildIndex: the leaf and the labels a list of entries amounts to.      *)
Own(es)    == Only(es, SessionEntry)   \* without headers
LeafOf(es) == IF Own(es) = <<>> THEN 0 ELSE Last(Own(es)).id

Relabel(set, e) ==
  CASE e.kind = "label" /\ e.set  -> set \union {e.target}
    [] e.kind = "label" /\ ~e.set -> set \ {e.target}
    [] OTHER -> set
LabelsOf(es) ==
  LET of[n \in 0 .. Len(es)] == IF n = 0 THEN {} ELSE Relabel(of[n - 1], es[n])
  IN of[Len(es)]

(* loadEntriesFromFile: lines that do not parse are skipped; a file that   *)
(* does not begin with a header is no session.                             *)
(* Mutant: reading stops at the first such line.                           *)
Parses(line) == line.kind \notin {"malformed", "glued"}
LoadUntilMalformed(lines) ==
  LET bad == SelectInSeq(lines, LAMBDA l : ~Parses(l))
      es  == IF bad = 0 THEN lines ELSE SubSeq(lines, 1, bad - 1)
  IN IF es # <<>> /\ es[1] = Header THEN es ELSE <<>>
Load(lines) ==
  LET es == Only(lines, FileEntry)
  IN IF es # <<>> /\ es[1] = Header THEN es ELSE <<>>

(* appendFileSync: the first line goes on where the file ends, which is on  *)
(* its last line when that one was cut, even if only its newline was lost.  *)
AppendLine(lines, ended, line) ==
  IF ended THEN Append(lines, line)
  ELSE Append(Front(lines), IF Last(lines) = Malformed THEN Malformed ELSE Glued)
AppendLines(lines, ended, new) ==
  IF new = <<>> THEN lines ELSE AppendLine(lines, ended, Head(new)) \o Tail(new)

-----------------------------------------------------------------------------
Init ==
  /\ disk = [f \in File |-> <<>>] /\ unended = {} /\ created = {} /\ nextFile = 1
  /\ nextId = 1 /\ opens = 0
  /\ alive = FALSE
  /\ sessionFile = 0 /\ fileEntries = <<>> /\ leafId = 0 /\ labels = {}
  /\ flushed = FALSE /\ pending = <<>> /\ unsaved = {}
  /\ limits \in Limits

Ready == alive /\ pending = <<>>

(* Lines reach the file of the session, the last one with its newline or   *)
(* cut: all of it but the newline, or not enough of it to be read.         *)
Write(lines, cut) ==
  /\ disk' = [disk EXCEPT ![sessionFile] = AppendLines(@, sessionFile \notin unended, lines)]
  /\ unended' = CASE lines = <<>> -> unended
                  [] lines # <<>> /\ cut  -> unended \union {sessionFile}
                  [] lines # <<>> /\ ~cut -> unended \ {sessionFile}
  /\ created' = created \union {sessionFile}
WriteCut(lines, next) == \E line \in {Malformed, next} : Write(Append(lines, line), TRUE)

(* No operation is in progress, and a session is put in its place. *)
OpenSession ==
  /\ pending = <<>>
  /\ opens < limits.opens
  /\ opens' = opens + 1
  /\ alive' = TRUE

(* newSession, or the constructor without a file: only a name is taken.    *)
NewSession ==
  /\ OpenSession
  /\ nextFile <= MaxFiles
  /\ nextFile' = nextFile + 1
  /\ sessionFile' = nextFile
  /\ fileEntries' = <<Header>>
  /\ leafId' = 0
  /\ labels' = {}
  /\ flushed' = FALSE
  /\ UNCHANGED <<disk, unended, created, nextId, pending, unsaved, limits>>

(* Memory becomes what a list of entries says. *)
Index(es) ==
  /\ fileEntries' = es
  /\ leafId' = LeafOf(es)
  /\ labels' = LabelsOf(es)

(* setSessionFile, in this process or a new one.  A file with no session   *)
(* in it is truncated and given a header.                                  *)
Open(f) ==
  /\ OpenSession
  /\ f \in created
  /\ sessionFile' = f
  /\ IF Load(disk[f]) # <<>>
       THEN Index(Load(disk[f])) /\ flushed' = TRUE /\ UNCHANGED <<disk, unended, pending>>
       ELSE /\ Index(<<Header>>)
            /\ flushed' = FALSE
            /\ disk' = [disk EXCEPT ![f] = <<>>] /\ unended' = unended \ {f}
            /\ pending' = <<Header>>
  /\ UNCHANGED <<created, nextFile, nextId, unsaved, limits>>

(* forkFrom: a new file with the entries of another one, opened.           *)
ForkFrom(f) ==
  /\ ~alive
  /\ OpenSession
  /\ f \in created
  /\ Load(disk[f]) # <<>>
  /\ nextFile <= MaxFiles
  /\ nextFile' = nextFile + 1
  /\ LET copy == <<Header>> \o Own(Load(disk[f]))
     IN Index(copy) /\ pending' = copy
  /\ sessionFile' = nextFile
  /\ flushed' = FALSE
  /\ UNCHANGED <<disk, unended, created, nextId, unsaved, limits>>

-----------------------------------------------------------------------------
(* Appending.                                                              *)

(* _persist.  Mutant: the entries held back so far are not written.        *)
ToWriteNewOnly(es) == IF HasAssistant(es) THEN <<Last(es)>> ELSE <<>>
ToWrite(es) ==
  CASE ~HasAssistant(es) -> <<>>
    [] HasAssistant(es) /\ flushed  -> <<Last(es)>>
    [] HasAssistant(es) /\ ~flushed -> es

\* _appendEntry, up to the first write.
InMemoryAppend(e) ==
  /\ Ready
  /\ nextId <= limits.entries
  /\ nextId' = nextId + 1
  /\ fileEntries' = Append(fileEntries, e)
  /\ leafId' = e.id
  /\ flushed' = (flushed /\ HasAssistant(fileEntries'))
  /\ UNCHANGED <<nextFile, opens, alive, sessionFile>>

AppendEntry(e) ==
  /\ InMemoryAppend(e)
  /\ pending' = ToWrite(fileEntries')
  /\ UNCHANGED <<disk, unended, created, unsaved, limits>>

(* A write throws, on a disk that is full: some lines may have been        *)
(* written, and a part of the next one; the entry stays in memory, and the *)
(* caller sees the exception.                                              *)
RefusedAppend(e) ==
  /\ "refused" \in limits.faults /\ unsaved = {}
  /\ InMemoryAppend(e)
  /\ LET toWrite == ToWrite(fileEntries') IN
       \E n \in 0 .. Len(toWrite) - 1 :
         Write(SubSeq(toWrite, 1, n), FALSE) \/ WriteCut(SubSeq(toWrite, 1, n), toWrite[n + 1])
  /\ unsaved' = {e.id}
  /\ UNCHANGED <<pending, labels, limits>>

(* appendMessage and the other append operations that keep no index. *)
AppendPlain(k) ==
  /\ k \in limits.kinds \intersect {"user", "assistant", "setting"}
  /\ LET entry == Entry(k, nextId, leafId, 0, FALSE)
     IN (AppendEntry(entry) /\ UNCHANGED labels) \/ RefusedAppend(entry)

(* appendCompaction keeps the path from one of its entries on. *)
AppendCompaction(kept) ==
  /\ "compaction" \in limits.kinds
  /\ Ready /\ kept \in IdsOf(Path(fileEntries, leafId))
  /\ LET entry == Entry("compaction", nextId, leafId, kept, FALSE)
     IN (AppendEntry(entry) /\ UNCHANGED labels) \/ RefusedAppend(entry)

(* appendLabelChange.  Mutant: clearing leaves the label in the map.       *)
AppendLabelNeverCleared(target, set) ==
  /\ "label" \in limits.kinds
  /\ Ready /\ target \in IdsOf(fileEntries)
  /\ AppendEntry(Entry("label", nextId, leafId, target, set))
  /\ labels' = IF set THEN labels \union {target} ELSE labels
AppendLabel(target, set) ==
  /\ "label" \in limits.kinds
  /\ Ready /\ target \in IdsOf(fileEntries)
  /\ LET entry == Entry("label", nextId, leafId, target, set) IN
       \/ /\ AppendEntry(entry)
          /\ labels' = IF set THEN labels \union {target} ELSE labels \ {target}
       \/ RefusedAppend(entry)

(* branch, resetLeaf (id 0) and branchWithSummary. *)
Branch(id) ==
  /\ Ready
  /\ id \in {0} \union IdsOf(fileEntries)
  /\ id # leafId
  /\ leafId' = id
  /\ UNCHANGED <<disk, unended, created, nextFile, nextId, opens, alive, sessionFile,
                 fileEntries, labels, flushed, pending, unsaved, limits>>

BranchWithSummary(id) ==
  /\ "summary" \in limits.kinds
  /\ id \in {0} \union IdsOf(fileEntries)
  /\ LET entry == Entry("summary", nextId, id, 0, FALSE)
     IN (AppendEntry(entry) /\ UNCHANGED labels) \/ RefusedAppend(entry)

-----------------------------------------------------------------------------
(* createBranchedSession: the path to an entry, its labels taken out and   *)
(* written again at the end, becomes a session in a new file.              *)

(* Mutant: compactions are taken out too.                                  *)
UnlabelledMessages(path) == Only(path, {e \in SessionEntry : e.kind \in {"user", "assistant"}})
Unlabelled(path) == Only(path, {e \in SessionEntry : e.kind # "label"})

\* The numbers of a finite set, from the least to the greatest.
Ascending(set) ==
  CHOOSE s \in [1 .. Cardinality(set) -> set] :
    \A p, q \in 1 .. Cardinality(set) : p < q => s[p] < s[q]

(* Mutant: every label ends up on the last entry of the path.              *)
RelabelledLast(kept) ==
  LET targets == Ascending(labels \intersect IdsOf(kept))
      last    == IF kept = <<>> THEN 0 ELSE Last(kept).id
  IN [p \in DOMAIN targets |->
        Entry("label", nextId + p - 1, IF p = 1 THEN last ELSE nextId + p - 2, last, TRUE)]

(* The labels are written in some order; here, that of their entries.     *)
Relabelled(kept) ==
  LET targets == Ascending(labels \intersect IdsOf(kept))
      last    == IF kept = <<>> THEN 0 ELSE Last(kept).id
  IN [p \in DOMAIN targets |->
        Entry("label", nextId + p - 1, IF p = 1 THEN last ELSE nextId + p - 2,
              targets[p], TRUE)]

(* Mutant: the new session is written over the old one's file.             *)
CreateBranchedSessionInPlace(id) ==
  /\ Ready
  /\ nextFile <= MaxFiles
  /\ id \in IdsOf(fileEntries)
  /\ LET kept   == Unlabelled(Path(fileEntries, id))
         branch == <<Header>> \o kept \o Relabelled(kept)
     IN /\ nextId + Len(Relabelled(kept)) <= limits.entries + 1
        /\ nextId' = nextId + Len(Relabelled(kept))
        /\ Index(branch)
        /\ pending' = IF HasAssistant(branch) THEN branch ELSE <<>>
  /\ disk' = [disk EXCEPT ![sessionFile] = <<>>] /\ unended' = unended \ {sessionFile}
  /\ flushed' = FALSE
  /\ UNCHANGED <<created, opens, alive, nextFile, sessionFile, unsaved, limits>>
CreateBranchedSession(id) ==
  /\ Ready
  /\ nextFile <= MaxFiles
  /\ nextFile' = nextFile + 1
  /\ sessionFile' = nextFile
  /\ flushed' = FALSE
  /\ id \in IdsOf(fileEntries)
  /\ LET kept   == Unlabelled(Path(fileEntries, id))
         branch == <<Header>> \o kept \o Relabelled(kept)
     IN /\ nextId + Len(Relabelled(kept)) <= limits.entries + 1
        /\ nextId' = nextId + Len(Relabelled(kept))
        /\ Index(branch)
        /\ pending' = IF HasAssistant(branch) THEN branch ELSE <<>>
  /\ UNCHANGED <<disk, unended, created, opens, alive, unsaved, limits>>

-----------------------------------------------------------------------------
(* The next line reaches the file; flushed is set after the last one.      *)
WriteLine ==
  /\ alive
  /\ pending # <<>>
  /\ Write(<<Head(pending)>>, FALSE)
  /\ pending' = Tail(pending)
  /\ flushed' = (flushed \/ Tail(pending) = <<>>)
  /\ UNCHANGED <<nextFile, nextId, opens, alive, memory, unsaved, limits>>

(* The process ends, between two lines or in the middle of one.            *)
Die ==
  /\ alive
  /\ pending # <<>> => "crash" \in limits.faults
  /\ \/ UNCHANGED <<disk, unended, created>>
     \/ "torn" \in limits.faults /\ pending # <<>> /\ WriteCut(<<>>, Head(pending))
  /\ alive' = FALSE
  /\ sessionFile' = 0 /\ fileEntries' = <<>> /\ leafId' = 0 /\ labels' = {}
  /\ flushed' = FALSE /\ pending' = <<>>
  /\ UNCHANGED <<nextFile, nextId, opens, unsaved, limits>>

Next ==
  \/ NewSession \/ WriteLine \/ Die
  \/ \E f \in File : Open(f) \/ ForkFrom(f)
  \/ \E k \in EntryKind : AppendPlain(k)
  \/ \E id \in Id : AppendCompaction(id) \/ CreateBranchedSession(id)
  \/ \E id \in Id, set \in BOOLEAN : AppendLabel(id, set)
  \/ \E id \in Id \union {0} : Branch(id) \/ BranchWithSummary(id)

Spec == Init /\ [][Next]_vars

-----------------------------------------------------------------------------
(* Types; the leaf is always an entry of the session. *)
TypeOK ==
  /\ disk \in [File -> Seq(FileEntry \union {Malformed, Glued})]
  /\ unended \subseteq {f \in File : disk[f] # <<>>}
  /\ created \subseteq File
  /\ nextFile \in 1 .. MaxFiles + 1 /\ nextId \in 1 .. MaxEntries + 1
  /\ opens \in 0 .. limits.opens /\ limits \in Limits
  /\ alive \in BOOLEAN /\ flushed \in BOOLEAN
  /\ sessionFile \in 0 .. MaxFiles
  /\ fileEntries \in Seq(FileEntry) /\ pending \in Seq(FileEntry)
  /\ leafId \in {0} \union IdsOf(fileEntries)
  /\ labels \subseteq Id /\ unsaved \subseteq Id

(* A file that got the header of a session twice loads its entries twice.  *)
Distinct(es) ==
  LET of[n \in 0 .. Len(es)] ==
        IF n = 0 THEN <<>>
        ELSE IF \E m \in 1 .. n - 1 : es[m] = es[n] THEN of[n - 1] ELSE Append(of[n - 1], es[n])
  IN of[Len(es)]

(* How many entries are lost on the lines of a file that cannot be read.   *)
Damage(lines) == Len(Only(lines, {Malformed})) + 2 * Len(Only(lines, {Glued}))
OnDisk == Distinct(Load(disk[sessionFile]))
InMemory == Distinct(fileEntries)

(* What memory holds but for the entry whose write was refused; that one   *)
(* may have been written later, with all that was held back.               *)
Saved(es) == Only(es, {e \in FileEntry : e.id \notin unsaved})
Written == pending = <<>> /\ HasAssistant(fileEntries) /\ (flushed \/ unsaved = {})

(* From its first assistant message on, a session can be resumed from its  *)
(* file as it is in memory, its leaf being the entry appended last; what a *)
(* crash leaves in the file is a beginning of it, and a write that is      *)
(* refused costs that entry alone, and the next one writes what it missed. *)
SavedSinceFirstAnswer ==
  alive /\ Damage(disk[sessionFile]) = 0 =>
    /\ IsPrefix(OnDisk, InMemory) \/ IsPrefix(OnDisk, Saved(InMemory))
    /\ Written => OnDisk \in {InMemory, Saved(InMemory)}

(* A line cut short makes the line appended after it unreadable too; when  *)
(* the cut lost no more than a newline, both are lost.  That is all a cut  *)
(* costs, however long the session goes on, as long as its file can be     *)
(* opened at all: a header that lost its newline is gone with the next     *)
(* append (session-manager.ts:855), and the session with it.               *)
CutLineCostsTwoEntries ==
  Ready /\ Written /\ OnDisk # <<>> =>
    Len(InMemory) <= Len(OnDisk) + Damage(disk[sessionFile]) + Cardinality(unsaved)

(* "Entries cannot be modified or deleted" (session-manager.ts:1105): no   *)
(* operation, and no crash, changes what the lines of a file say once they *)
(* have their newlines; an entry without one is lost to the next append.   *)
Ended(f) == IF f \in unended THEN Front(disk[f]) ELSE disk[f]
HistoryKept ==
  [][\A f \in created : IsPrefix(Load(Ended(f)), Load(disk[f])')]_vars

(* The labels in memory are those that reopening the file would give (and  *)
(* every variable has its type: the leaf is an entry); but for a label     *)
(* whose write was refused, which only the entries may have.               *)
LabelsAreReplayed ==
  TypeOK /\ labels \in {LabelsOf(fileEntries), LabelsOf(Saved(fileEntries))}

(* A branched session has the labels of the entries of its path.           *)
BranchedKeepsLabels ==
  [][\A id \in Id : CreateBranchedSession(id) =>
       labels' = labels \intersect IdsOf(Unlabelled(Path(fileEntries, id)))]_vars

BranchedContext(id) == Context(fileEntries', leafId') = Context(fileEntries, id)

(* A branched session is the same conversation, provided that no entry of  *)
(* the path hangs from a label and no compaction keeps from a label on.    *)
LabelsAside(path) ==
  \A p \in DOMAIN path, q \in DOMAIN path :
    path[p].kind = "label" /\ path[q].kind # "label" =>
      path[q].parentId # path[p].id /\ path[q].target # path[p].id
BranchedKeepsConversation ==
  [][\A id \in Id : CreateBranchedSession(id) /\ LabelsAside(Path(fileEntries, id)) =>
       BranchedContext(id)]_vars

(* "/clone: Duplicate the current active branch into a new session"        *)
(* (docs/sessions.md:31): the same conversation, whatever its labels.      *)
CloneKeepsConversation ==
  [][\A id \in Id : CreateBranchedSession(id) => BranchedContext(id)]_vars
=============================================================================
