------------------------- MODULE AgentHarnessProofs -------------------------
(***************************************************************************)
(* Proofs about AgentHarness, for every value of its constants: the        *)
(* session's file and memory agree, the writes asked for while busy are    *)
(* appended once and in order, a harness whose calls returned is as new,   *)
(* a request is about the branch of the session, and a message asked for   *)
(* is in a queue, in a hand, in the session, cleared or dropped, and at    *)
(* one of these places only.                                               *)
(***************************************************************************)
EXTENDS AgentHarness, SelectionProofs

-----------------------------------------------------------------------------
(* The inductive invariant.                                                *)

Loose   == {"poll", "pollFollowUp", "steerTaken", "followUpTaken", "stream", "turnEnd",
            "agentEnd"}
InLoop  == Showing \union Flushing \union Loose
(* The pcs of a compaction and of a navigation.                            *)
Settling == {"compacting", "navigating", "summarising"}
Pc      == {"free", "done", "append"} \union BeforeLoop \union InLoop \union Settling

ShownKind  == {"user", "assistant", "result"}
Message == [kind : EntryKind, item : Nat]
InHand  == [kind : ShownKind, item : Nat]
Local   == [op : {"prompt", "compact", "navigate", "append"}, pc : Pc, hand : Seq(InHand),
            context : Seq(Message), rounds : Nat, more : BOOLEAN, ends : BOOLEAN,
            reporting : BOOLEAN, error : BOOLEAN, thrown : BOOLEAN, goal : Nat,
            ran : BOOLEAN, stale : BOOLEAN]
(* A write that waits, and the call that keeps it waiting.                 *)
Waiting == [kind : {"custom", "setting"}, item : Nat, by : Calls]

(* Every variable has its type, and so has each local of each call.        *)
Typed ==
  /\ SessionTypeOK
  /\ phase \in {"idle", "turn", "compaction", "branch_summary"}
  /\ pendingSessionWrites \in Seq(Waiting)
  /\ steerQueue \in Seq(Nat) /\ followUpQueue \in Seq(Nat) /\ nextTurnQueue \in Seq(Nat)
  /\ runAbortController \in Calls \union {None} /\ runPromise \in Calls \union {None}
  /\ call \in [Calls -> Local]
  /\ aborted \subseteq Calls /\ limits \in Limits /\ nextMessage \in Nat /\ nextWrite \in Nat
  /\ faults \in Nat /\ asked \in Seq(Nat) /\ accepted \in Seq(Nat)

(* The tree: what an entry points to is older.                              *)
Known(n) == n = 0 \/ \E p \in DOMAIN entries : n <= entries[p].id
Older(e) == e.parentId < e.id /\ e.target < e.id
(* An entry's parent and target are older than it, also of an entry still  *)
(* on its way; the leaf and the goals of the calls are ids seen before.    *)
Rooted ==
  /\ \A p \in DOMAIN entries : Older(entries[p])
  /\ \A c \in Calls : Appends(c) => Older(appending[c].entry)
  /\ Known(leafId)
  /\ \A c \in Calls : Known(call[c].goal)

(* Until two appends overlap, one is under way at most.                    *)
Serial ==
  ~overlapped => \A c, d \in Calls : Appends(c) /\ Appends(d) => c = d

(* Until two appends overlap, the file is the tree in memory, or one line  *)
(* ahead of it; it gives the leaf, and what is under way is newer.         *)
Mirrored ==
  ~overlapped =>
    /\ \A c \in Calls : Committing(c) => file = Append(entries, appending[c].entry)
    /\ (\A c \in Calls : ~Committing(c)) => file = entries
    /\ LeafOfFile(entries) = leafId
    /\ \A c \in Calls : Appends(c) =>
         \A p \in DOMAIN entries : entries[p].id < appending[c].entry.id

(* Where a call is.                                                        *)
Placed(c) ==
  /\ At(c, "append") <=> Active(c) /\ call[c].op = "append"
  /\ Appends(c) => call[c].pc \in Showing \union Flushing \union Settling \union {"append"}
  /\ call[c].error => At(c, "final")
  /\ call[c].ran => call[c].pc \in InLoop \union {"done"}
  /\ call[c].pc \in {"takeNext", "beforeHook", "steerTaken", "followUpTaken"} \union Showing
       => call[c].hand # <<>>
  /\ At(c, "takeNext") => Len(call[c].hand) > 1
  /\ AppendFailed(c) => refused

(* The calls that hold the phase: a run up to agent_end, and beyond it     *)
(* only to report an error.                                                *)
Busy(c) == /\ Active(c) /\ ~At(c, "append") /\ ~At(c, "agentEnd")
           /\ At(c, "final") => call[c].error

(* The phase, the promise and the controller belong to a call at a place   *)
(* that accounts for them.   Patient callers make one call at a time,      *)
(* except for an append in a listener of agent_end.                        *)
Controlled ==
  /\ \A c \in Calls : Placed(c)
  /\ phase # "idle" => \E c \in Calls : Busy(c)
  /\ runPromise # None => call[runPromise].pc \in BeforeLoop \union InLoop
  /\ runAbortController # None => call[runAbortController].pc \in InLoop
  /\ limits.patient =>
       /\ \A c, d \in Calls : (Active(c) /\ Active(d) /\ c # d) =>
            \/ At(c, "append") /\ At(d, "agentEnd")
            \/ At(d, "append") /\ At(c, "agentEnd")
       /\ \A c \in Calls : call[c].pc \in BeforeLoop => phase = "turn"

(* The writes.                                                             *)
WriteEntry(e) == e.kind \in {"custom", "setting"}
PendingItems == [p \in DOMAIN pendingSessionWrites |-> pendingSessionWrites[p].item]
(* An entry on its way is the one its call should be writing: the first    *)
(* message in hand, the first write that waits, or a write nobody else     *)
(* counts.                                                                 *)
Writer(c) ==
  LET e == appending[c].entry IN
  /\ WriteEntry(e) => e.item < nextWrite
  /\ At(c, "append") => WriteEntry(e) /\ \A p \in DOMAIN accepted : accepted[p] # e.item
  /\ call[c].pc \in Showing => e.kind = Head(call[c].hand).kind
                               /\ e.item = Head(call[c].hand).item
  /\ call[c].pc \in Settling => ~WriteEntry(e)
  /\ ~overlapped /\ call[c].pc \in Flushing =>
       /\ pendingSessionWrites # <<>>
       /\ e.kind = Head(pendingSessionWrites).kind
       /\ e.item = Head(pendingSessionWrites).item
(* WritesOnceInOrder with what keeps it: the writes seen are below the     *)
(* next one, and an append holds the entry of its writer.                  *)
Writing ==
  /\ \A p \in DOMAIN accepted : accepted[p] < nextWrite
  /\ \A p \in DOMAIN entries : WriteEntry(entries[p]) => entries[p].item < nextWrite
  /\ \A p \in DOMAIN pendingSessionWrites : pendingSessionWrites[p].item < nextWrite
  /\ \A c \in Calls : Appends(c) => Writer(c)
  /\ WritesOnceInOrder

(* A write that waits on a call that ran a loop waits on one that is still *)
(* active, so that its last flush is yet to come.                          *)
Awaited ==
  (~refused /\ ~overlapped) =>
    \A p \in DOMAIN pendingSessionWrites :
      call[pendingSessionWrites[p].by].ran => Active(pendingSessionWrites[p].by)

(* The context of a request.                                               *)
Branching ==
  limits.patient => \A c \in Calls :
    /\ Appends(c) /\ call[c].pc \in Showing => appending[c].entry.parentId = leafId
    /\ call[c].pc \in {"takeNext", "beforeHook", "inject", "poll", "pollFollowUp",
                       "steerTaken", "followUpTaken", "stream"} => call[c].context = Context
    /\ At(c, "prompts") => call[c].context = Context \o call[c].hand

(* The inductive invariant.                                                *)
IInv == /\ Typed /\ Rooted /\ Serial /\ Mirrored /\ Controlled /\ Writing /\ Awaited
        /\ AppendsAreSerial /\ Branching

-----------------------------------------------------------------------------
(* Bounds over the calls.                                                  *)

(* The naturals of finitely many calls have a bound.                       *)
LEMMA BoundedOnCalls ==
  ASSUME NEW f \in [Calls -> Nat]
  PROVE  \E b \in Nat : \A c \in Calls : f[c] <= b
<1>0. PICK n \in Nat : \E g \in [1..n -> Calls] : \A c \in Calls : \E i \in 1..n : g[i] = c
  <2>1. IsFiniteSet(Calls)
    BY HarnessAssumption
  <2>2. Cardinality(Calls) \in Nat /\ ExistsBijection(1..Cardinality(Calls), Calls)
    BY <2>1, FS_CardinalityType
  <2> QED BY <2>2 DEF ExistsBijection, Bijection, Injection, Surjection
<1>1. PICK g \in [1..n -> Calls] : \A c \in Calls : \E i \in 1..n : g[i] = c
  BY <1>0
<1> DEFINE h == [i \in 1..n |-> f[g[i]]]
<1>2. h \in [1..n -> Nat]
  OBVIOUS
<1>3. PICK b \in Nat : \A i \in 1..n : h[i] <= b
  <2> HIDE DEF h
  <2> QED BY <1>2, BoundedImage
<1>4. \A c \in Calls : f[c] <= b
  BY <1>1, <1>3
<1> QED BY <1>4

(* Of some calls one is the last.                                          *)
LEMMA MaxOfCalls ==
  ASSUME NEW S, S \subseteq Calls, S # {}
  PROVE  Max(S) \in S
<1> DEFINE f == [c \in Calls |-> c]
<1>1. f \in [Calls -> Nat]
  BY HarnessAssumption
<1>2. PICK b \in Nat : \A c \in Calls : f[c] <= b
  <2> HIDE DEF f
  <2> QED BY <1>1, BoundedOnCalls
<1>3. S \subseteq Nat /\ \A x \in S : x <= b
  BY <1>2, HarnessAssumption
<1> QED BY <1>3, MaxOfBounded

-----------------------------------------------------------------------------
(* Changed, field by field.                                                *)
LEMMA ChangedLocals ==
  ASSUME NEW r, NEW fields, NEW x \in DOMAIN r
  PROVE  /\ DOMAIN Changed(r, fields) = DOMAIN r
         /\ Changed(r, fields)[x] = IF x \in DOMAIN fields THEN fields[x] ELSE r[x]
BY DEF Changed

-----------------------------------------------------------------------------
(* Fresh ids, and the paths of a tree.                                     *)

(* The ids of a sequence of entries have a bound.                          *)
LEMMA BoundedIds ==
  ASSUME NEW es \in Seq(SessionEntry)
  PROVE  \E b \in Nat : \A p \in DOMAIN es : es[p].id <= b
<1> DEFINE f == [p \in 1..Len(es) |-> es[p].id]
<1>1. Len(es) \in Nat /\ DOMAIN es = 1..Len(es) /\ \A p \in 1..Len(es) : es[p] \in SessionEntry
  OBVIOUS
<1>2. f \in [1..Len(es) -> Nat]
  BY <1>1 DEF SessionEntry
<1>3. PICK b \in Nat : \A p \in 1..Len(es) : f[p] <= b
  <2> HIDE DEF f
  <2> QED BY <1>1, <1>2, BoundedImage
<1> QED BY <1>1, <1>3

(* FreshId is an id nobody has.                                            *)
LEMMA FreshIdIsFresh ==
  ASSUME SessionTypeOK
  PROVE  /\ FreshId \in Nat \ {0}
         /\ \A p \in DOMAIN entries : entries[p].id < FreshId
         /\ \A c \in Calls : Appends(c) => appending[c].entry.id < FreshId
<1>1. PICK a \in Nat : \A p \in DOMAIN entries : entries[p].id <= a
  BY BoundedIds DEF SessionTypeOK
<1>2. PICK b \in Nat : \A p \in DOMAIN file : file[p].id <= b
  BY BoundedIds DEF SessionTypeOK
<1> DEFINE f == [c \in Calls |-> appending[c].entry.id]
<1>3. f \in [Calls -> Nat]
  BY DEF SessionTypeOK, SessionEntry
<1>4. PICK d \in Nat : \A c \in Calls : f[c] <= d
  <2> HIDE DEF f
  <2> QED BY <1>3, BoundedOnCalls
<1> DEFINE U == UsedIds \union {0}
           w == a + b + d
<1>5. /\ \A p \in DOMAIN entries : entries[p].id \in Nat
      /\ \A p \in DOMAIN file : file[p].id \in Nat
  <2>1. /\ \A p \in DOMAIN entries : entries[p] \in SessionEntry
        /\ \A p \in DOMAIN file : file[p] \in SessionEntry
    BY DEF SessionTypeOK
  <2> QED BY <2>1 DEF SessionEntry
<1>6. U \subseteq Nat /\ U # {}
  BY <1>3, <1>5 DEF UsedIds
<1>7. w \in Nat /\ \A x \in U : x <= w
  <2>1. w \in Nat /\ a <= w /\ b <= w /\ d <= w /\ 0 <= w
    OBVIOUS
  <2>2. ASSUME NEW x \in U PROVE x <= w
    <3>1. CASE \E p \in DOMAIN entries : x = entries[p].id
      BY <1>1, <1>5, <2>1, <3>1
    <3>2. CASE \E p \in DOMAIN file : x = file[p].id
      BY <1>2, <1>5, <2>1, <3>2
    <3>3. CASE \E c \in Calls : x = appending[c].entry.id
      <4>1. PICK c \in Calls : x = f[c]
        BY <3>3
      <4> QED BY <1>3, <1>4, <2>1, <4>1
    <3> QED BY <2>1, <3>1, <3>2, <3>3 DEF UsedIds
  <2> QED BY <2>1, <2>2
<1>8. Max(U) \in U /\ \A x \in U : x <= Max(U)
  <2> HIDE DEF U, w
  <2> QED BY <1>6, <1>7, MaxOfBounded
<1>9. FreshId = 1 + Max(U)
  BY DEF FreshId
<1>10. /\ \A p \in DOMAIN entries : entries[p].id \in U
       /\ \A c \in Calls : Appends(c) => appending[c].entry.id \in U
  BY DEF UsedIds, Appends
<1> HIDE DEF U, f, w
<1> DEFINE g == Max(U)
<1>11. g \in Nat /\ (\A x \in U : x <= g) /\ FreshId = 1 + g /\ U \subseteq Nat
  BY <1>6, <1>8, <1>9
<1> HIDE DEF g
<1>12. 1 + g \in Nat \ {0} /\ \A x \in U : x < 1 + g
  BY <1>11
<1> QED BY <1>10, <1>11, <1>12

-----------------------------------------------------------------------------
(* The paths of a tree, for any sequence of entries.                       *)
StoredIn(es, i) == \E p \in DOMAIN es : es[p].id = i
EntryIn(es, i)  == es[CHOOSE p \in DOMAIN es : es[p].id = i]
UpFrom(es, up, i) ==
  IF StoredIn(es, i) THEN Append(up[EntryIn(es, i).parentId], EntryIn(es, i)) ELSE <<>>
PathIn(es, leaf) == (CHOOSE up : up = [i \in Nat |-> UpFrom(es, up, i)])[leaf]
Rising(es) == \A p \in DOMAIN es : es[p].parentId < es[p].id

(* Path is PathIn of the entries in memory.                                *)
LEMMA PathIsPathIn ==
  ASSUME NEW n
  PROVE  Path(n) = PathIn(entries, n)
BY DEF Path, PathIn, UpFrom, StoredIn, Stored, EntryIn, EntryOf

(* The entry of a stored id is one of the entries.                         *)
LEMMA EntryInStored ==
  ASSUME NEW es, NEW i, StoredIn(es, i)
  PROVE  \E p \in DOMAIN es : EntryIn(es, i) = es[p] /\ es[p].id = i
BY DEF EntryIn, StoredIn

(* Its parent is older.                                                    *)
LEMMA EntryInOlder ==
  ASSUME NEW es \in Seq(SessionEntry), Rising(es), NEW i, StoredIn(es, i)
  PROVE  /\ EntryIn(es, i) \in ToSet(es) /\ EntryIn(es, i) \in SessionEntry
         /\ EntryIn(es, i).id = i
         /\ EntryIn(es, i).parentId \in Nat /\ EntryIn(es, i).parentId < i
<1>1. PICK p \in DOMAIN es : EntryIn(es, i) = es[p] /\ es[p].id = i
  BY EntryInStored
<1>2. es[p] \in SessionEntry /\ es[p] \in ToSet(es)
  BY DEF ToSet
<1>3. es[p].parentId \in Nat
  BY <1>2 DEF SessionEntry
<1> QED BY <1>1, <1>2, <1>3 DEF Rising

PathUpto(es, n, f) == \A i \in 0..n : f[i] = UpFrom(es, f, i)

(* Two functions that compute paths agree where both do.                   *)
LEMMA PathUnique ==
  ASSUME NEW es \in Seq(SessionEntry), Rising(es), NEW n \in Nat, NEW m \in Nat, NEW f, NEW g,
         PathUpto(es, n, f), PathUpto(es, m, g), NEW k \in Nat, k <= n, k <= m
  PROVE  f[k] = g[k]
<1> DEFINE Z == {i \in Nat : i <= k => f[i] = g[i]}
<1>1. ASSUME NEW i \in Nat, \A j \in Nat : j < i => j \in Z PROVE i \in Z
  <2> SUFFICES ASSUME i <= k PROVE f[i] = g[i]
    OBVIOUS
  <2>1. f[i] = UpFrom(es, f, i) /\ g[i] = UpFrom(es, g, i)
    BY DEF PathUpto
  <2>2. CASE StoredIn(es, i)
    <3>1. EntryIn(es, i).parentId < i /\ EntryIn(es, i).parentId \in Nat
      BY <2>2, EntryInOlder
    <3>2. f[EntryIn(es, i).parentId] = g[EntryIn(es, i).parentId]
      BY <3>1, <1>1
    <3> QED BY <2>1, <3>2 DEF UpFrom
  <2>3. CASE ~StoredIn(es, i)
    BY <2>1, <2>3 DEF UpFrom
  <2> QED BY <2>2, <2>3
<1>2. Z = Nat
  <2> HIDE DEF Z
  <2>1. Z \subseteq Nat BY DEF Z
  <2> QED BY <1>1, <2>1, StrongInduction
<1> QED BY <1>2

(* There is one up to every id.                                            *)
LEMMA PathUptoExists ==
  ASSUME NEW es \in Seq(SessionEntry), Rising(es), NEW n \in Nat
  PROVE  \E f \in [0..n -> Seq(ToSet(es))] : PathUpto(es, n, f)
<1> DEFINE E == ToSet(es)
           Z == {k \in Nat : \E f \in [0..k -> Seq(E)] : PathUpto(es, k, f)}
<1>0. ASSUME NEW i \in Nat, StoredIn(es, i)
      PROVE  EntryIn(es, i).parentId < i /\ EntryIn(es, i).parentId \in Nat /\ EntryIn(es, i) \in E
  BY <1>0, EntryInOlder
<1> HIDE DEF E
<1>1. 0 \in Z
  <2> DEFINE f == [i \in 0..0 |-> <<>>]
  <2>1. f \in [0..0 -> Seq(E)]
    OBVIOUS
  <2>2. ~StoredIn(es, 0)
    BY <1>0
  <2>3. f[0] = UpFrom(es, f, 0)
    BY <2>2 DEF UpFrom
  <2> HIDE DEF f
  <2>4. PathUpto(es, 0, f)
    BY <2>3 DEF PathUpto
  <2> QED BY <2>1, <2>4
<1>2. ASSUME NEW k \in Z PROVE k + 1 \in Z
  <2>1. PICK f \in [0..k -> Seq(E)] : PathUpto(es, k, f)
    OBVIOUS
  <2> DEFINE g == [i \in 0..(k + 1) |-> IF i = k + 1 THEN UpFrom(es, f, k + 1) ELSE f[i]]
  <2>2. k \in Nat /\ k + 1 \in Nat
    OBVIOUS
  <2>3. UpFrom(es, f, k + 1) \in Seq(E)
    <3>1. CASE StoredIn(es, k + 1)
      <4>1. EntryIn(es, k + 1).parentId \in 0..k /\ EntryIn(es, k + 1) \in E
        BY <1>0, <2>2, <3>1
      <4>2. f[EntryIn(es, k + 1).parentId] \in Seq(E)
        BY <4>1
      <4> QED BY <3>1, <4>1, <4>2 DEF UpFrom
    <3>2. CASE ~StoredIn(es, k + 1)
      BY <3>2 DEF UpFrom
    <3> QED BY <3>1, <3>2
  <2>4. g \in [0..(k + 1) -> Seq(E)]
    BY <2>3
  <2>5. g[k + 1] = UpFrom(es, f, k + 1) /\ \A i \in 0..k : g[i] = f[i]
    BY <2>2
  <2> HIDE DEF g
  <2>6. ASSUME NEW i \in 0..(k + 1) PROVE g[i] = UpFrom(es, g, i) /\ UpFrom(es, f, i) = UpFrom(es, g, i)
    <3>1. UpFrom(es, f, i) = UpFrom(es, g, i)
      <4>1. CASE StoredIn(es, i)
        <5>1. EntryIn(es, i).parentId \in 0..k
          BY <1>0, <2>2, <4>1
        <5> QED BY <2>5, <5>1 DEF UpFrom
      <4>2. CASE ~StoredIn(es, i)
        BY <4>2 DEF UpFrom
      <4> QED BY <4>1, <4>2
    <3>2. CASE i = k + 1
      BY <2>5, <3>1, <3>2
    <3>3. CASE i \in 0..k
      BY <2>1, <2>5, <3>1, <3>3 DEF PathUpto
    <3> QED BY <2>2, <3>1, <3>2, <3>3
  <2>7. PathUpto(es, k + 1, g)
    BY <2>6 DEF PathUpto
  <2> QED BY <2>2, <2>4, <2>7
<1>3. Z = Nat
  <2> HIDE DEF Z
  <2>1. Z \subseteq Nat BY DEF Z
  <2> QED BY <1>1, <1>2, <2>1, SetInduction
<1> QED BY <1>3 DEF E

(* The path to an entry is the path to its parent and the entry.           *)
LEMMA PathUnfold ==
  ASSUME NEW es \in Seq(SessionEntry), Rising(es), NEW n \in Nat
  PROVE  /\ PathIn(es, n) \in Seq(ToSet(es))
         /\ PathIn(es, n) = IF StoredIn(es, n)
                            THEN Append(PathIn(es, EntryIn(es, n).parentId), EntryIn(es, n))
                            ELSE <<>>
<1> DEFINE F(i) == CHOOSE f \in [0..i -> Seq(ToSet(es))] : PathUpto(es, i, f)
           up == [i \in Nat |-> F(i)[i]]
           top == CHOOSE u : u = [i \in Nat |-> UpFrom(es, u, i)]
<1>1. \A i \in Nat : F(i) \in [0..i -> Seq(ToSet(es))] /\ PathUpto(es, i, F(i))
  BY PathUptoExists
<1> HIDE DEF F
<1>2. \A i \in Nat : up[i] \in Seq(ToSet(es))
  BY <1>1
<1>3. ASSUME NEW i \in Nat PROVE up[i] = UpFrom(es, up, i)
  <2>1. F(i)[i] = UpFrom(es, F(i), i)
    BY <1>1 DEF PathUpto
  <2>2. CASE StoredIn(es, i)
    <3> DEFINE q == EntryIn(es, i).parentId
    <3>1. q < i /\ q \in Nat
      BY <2>2, EntryInOlder
    <3> HIDE DEF q
    <3>2. F(i)[q] = F(q)[q]
      BY <1>1, <3>1, PathUnique
    <3>3. up[q] = F(i)[q]
      BY <3>1, <3>2
    <3> QED BY <2>1, <2>2, <3>3 DEF UpFrom, q
  <2>3. CASE ~StoredIn(es, i)
    BY <2>1, <2>3 DEF UpFrom
  <2> QED BY <2>2, <2>3
<1>4. up = [i \in Nat |-> UpFrom(es, up, i)]
  <2>1. \A i \in Nat : up[i] = [j \in Nat |-> UpFrom(es, up, j)][i]
    BY <1>3
  <2>2. DOMAIN up = Nat /\ up = [i \in Nat |-> up[i]]
    OBVIOUS
  <2> HIDE DEF up
  <2> QED BY <2>1, <2>2
<1> HIDE DEF up
<1>5. top = [i \in Nat |-> UpFrom(es, top, i)]
  BY <1>4
<1> HIDE DEF top
<1>6. \A i \in Nat : PathUpto(es, i, top) /\ PathUpto(es, i, up)
  <2>1. \A i \in Nat : top[i] = UpFrom(es, top, i)
    BY <1>5
  <2> QED BY <1>3, <2>1 DEF PathUpto
<1>7. \A i \in Nat : top[i] = up[i]
  BY <1>6, PathUnique
<1>8. \A i \in Nat : PathIn(es, i) = top[i]
  BY DEF PathIn, top
<1>9. top[n] = UpFrom(es, top, n)
  BY <1>6 DEF PathUpto
<1>10. CASE StoredIn(es, n)
  <2>1. EntryIn(es, n).parentId \in Nat
    BY <1>10, EntryInOlder
  <2> QED BY <1>2, <1>7, <1>8, <1>9, <1>10, <2>1 DEF UpFrom
<1>11. CASE ~StoredIn(es, n)
  BY <1>2, <1>7, <1>8, <1>9, <1>11 DEF UpFrom
<1> QED BY <1>10, <1>11

(* An entry newer than the others leaves every path alone and extends its  *)
(* parent's.                                                               *)
LEMMA PathGrows ==
  ASSUME NEW es \in Seq(SessionEntry), NEW e \in SessionEntry, Rising(es),
         e.parentId < e.id, \A p \in DOMAIN es : es[p].id < e.id
  PROVE  /\ Rising(Append(es, e))
         /\ \A n \in Nat : n < e.id => PathIn(Append(es, e), n) = PathIn(es, n)
         /\ PathIn(Append(es, e), e.id) = Append(PathIn(es, e.parentId), e)
<1> DEFINE fs == Append(es, e)
           Z == {n \in Nat : n < e.id => PathIn(fs, n) = PathIn(es, n)}
<1>0. /\ fs \in Seq(SessionEntry) /\ DOMAIN fs = 1..(Len(es) + 1) /\ DOMAIN es = 1..Len(es)
      /\ Len(es) \in Nat /\ fs[Len(es) + 1] = e /\ \A p \in 1..Len(es) : fs[p] = es[p]
      /\ e.id \in Nat /\ e.parentId \in Nat
  BY DEF SessionEntry
<1> HIDE DEF fs
<1>1. Rising(fs)
  BY <1>0 DEF Rising
<1>2. ASSUME NEW n \in Nat, n < e.id
      PROVE  /\ StoredIn(fs, n) <=> StoredIn(es, n)
             /\ StoredIn(es, n) => EntryIn(fs, n) = EntryIn(es, n)
  <2>1. \A p \in DOMAIN fs : fs[p].id = n <=> p \in DOMAIN es /\ es[p].id = n
    BY <1>0, <1>2
  <2>2. StoredIn(fs, n) <=> StoredIn(es, n)
    BY <1>0, <2>1 DEF StoredIn
  <2>3. ASSUME StoredIn(es, n) PROVE EntryIn(fs, n) = EntryIn(es, n)
    <3>1. (CHOOSE p \in DOMAIN fs : fs[p].id = n) = (CHOOSE p \in DOMAIN es : es[p].id = n)
      <4>1. \A p : (p \in DOMAIN fs /\ fs[p].id = n) <=> (p \in DOMAIN es /\ es[p].id = n)
        BY <1>0, <2>1
      <4> QED BY <4>1
    <3>2. (CHOOSE p \in DOMAIN es : es[p].id = n) \in DOMAIN es
      BY <2>3 DEF StoredIn
    <3> QED BY <1>0, <3>1, <3>2 DEF EntryIn
  <2> QED BY <2>2, <2>3
<1>3. ASSUME NEW n \in Nat, \A m \in Nat : m < n => m \in Z PROVE n \in Z
  <2> SUFFICES ASSUME n < e.id PROVE PathIn(fs, n) = PathIn(es, n)
    OBVIOUS
  <2>1. CASE StoredIn(es, n)
    <3> DEFINE q == EntryIn(es, n).parentId
    <3>1. q \in Nat /\ q < n
      BY <2>1, EntryInOlder
    <3> HIDE DEF q
    <3>2. PathIn(fs, q) = PathIn(es, q)
      BY <1>0, <1>3, <3>1
    <3>3. PathIn(fs, n) = Append(PathIn(fs, q), EntryIn(es, n))
      BY <1>0, <1>1, <1>2, <2>1, PathUnfold DEF q
    <3>4. PathIn(es, n) = Append(PathIn(es, q), EntryIn(es, n))
      BY <2>1, PathUnfold DEF q
    <3> QED BY <3>2, <3>3, <3>4
  <2>2. CASE ~StoredIn(es, n)
    <3>1. PathIn(fs, n) = <<>>
      BY <1>0, <1>1, <1>2, <2>2, PathUnfold
    <3>2. PathIn(es, n) = <<>>
      BY <2>2, PathUnfold
    <3> QED BY <3>1, <3>2
  <2> QED BY <2>1, <2>2
<1>4. Z = Nat
  <2> HIDE DEF Z
  <2>1. Z \subseteq Nat BY DEF Z
  <2> QED BY <1>3, <2>1, StrongInduction
<1>5. StoredIn(fs, e.id) /\ EntryIn(fs, e.id) = e
  <2>1. \A p \in DOMAIN fs : fs[p].id = e.id => p = Len(es) + 1
    BY <1>0
  <2>2. fs[Len(es) + 1].id = e.id /\ Len(es) + 1 \in DOMAIN fs
    BY <1>0
  <2>3. StoredIn(fs, e.id)
    BY <2>2 DEF StoredIn
  <2>4. PICK p \in DOMAIN fs : EntryIn(fs, e.id) = fs[p] /\ fs[p].id = e.id
    BY <2>3, EntryInStored
  <2> QED BY <1>0, <2>1, <2>3, <2>4
<1>6. PathIn(fs, e.id) = Append(PathIn(fs, e.parentId), e)
  BY <1>0, <1>1, <1>5, PathUnfold
<1>7. PathIn(fs, e.parentId) = PathIn(es, e.parentId)
  BY <1>0, <1>4
<1> QED BY <1>1, <1>4, <1>6, <1>7 DEF fs

-----------------------------------------------------------------------------
(* The context of a path.                                                  *)

(* ContextOf in parts: the last compaction, the first entry it kept, the   *)
(* entries seen, those shown, and what they hold.                          *)
Compaction(path) == SelectLastInSeq(path, LAMBDA e : e.kind = "compaction")
FirstKept(path)  == SelectInSeq(path, LAMBDA e : e.id = path[Compaction(path)].target)
Seen(path) ==
  IF Compaction(path) = 0 THEN path
  ELSE <<path[Compaction(path)]>>
       \o (IF FirstKept(path) = 0 THEN <<>>
           ELSE SubSeq(path, FirstKept(path), Compaction(path) - 1))
       \o SubSeq(path, Compaction(path) + 1, Len(path))
Visible == {e \in SessionEntry : e.kind \notin {"setting", "leaf"}}
Contents(es) == [p \in DOMAIN es |-> Msg(es[p].kind, es[p].item)]

(* ContextOf is made of these parts.                                       *)
LEMMA ContextIs ==
  ASSUME NEW path
  PROVE  ContextOf(path) = Contents(Only(Seen(path), Visible))
BY DEF ContextOf, Contents, Seen, Visible, Compaction, FirstKept

(* The last compaction is a position of the path, or 0.                    *)
LEMMA CompactionIn ==
  ASSUME NEW path \in Seq(SessionEntry)
  PROVE  Compaction(path) \in 0..Len(path)
<1> DEFINE I == {i \in 1..Len(path) : path[i].kind = "compaction"}
<1>1. Compaction(path) = IF I # {} THEN Max(I) ELSE 0
  BY DEF Compaction, SelectLastInSeq
<1>2. Len(path) \in Nat /\ I \subseteq Nat /\ \A i \in I : i <= Len(path)
  OBVIOUS
<1>3. I # {} => Max(I) \in I
  <2> HIDE DEF I
  <2> QED BY <1>2, MaxOfBounded
<1> QED BY <1>1, <1>2, <1>3

(* So is the first entry kept.                                             *)
LEMMA FirstKeptIn ==
  ASSUME NEW path \in Seq(SessionEntry)
  PROVE  FirstKept(path) \in 0..Len(path)
<1> DEFINE I == {i \in 1..Len(path) : path[i].id = path[Compaction(path)].target}
<1>1. FirstKept(path) = IF I # {} THEN Min(I) ELSE 0
  BY DEF FirstKept, SelectInSeq
<1>2. Len(path) \in Nat /\ I \subseteq Nat
  OBVIOUS
<1>3. I # {} => Min(I) \in I
  <2> HIDE DEF I
  <2> QED BY <1>2, MinOf
<1> QED BY <1>1, <1>2, <1>3

(* What is seen are entries.                                               *)
LEMMA SeenType ==
  ASSUME NEW path \in Seq(SessionEntry)
  PROVE  Seen(path) \in Seq(SessionEntry)
<1> DEFINE c == Compaction(path)
           k == FirstKept(path)
<1>1. c \in 0..Len(path) /\ k \in 0..Len(path) /\ Len(path) \in Nat
  BY CompactionIn, FirstKeptIn
<1>2. Seen(path) = IF c = 0 THEN path
         ELSE <<path[c]>> \o (IF k = 0 THEN <<>> ELSE SubSeq(path, k, c - 1))
              \o SubSeq(path, c + 1, Len(path))
  BY DEF Seen
<1> HIDE DEF c, k
<1>3. CASE c = 0
  BY <1>2, <1>3
<1>4. CASE c # 0
  <2>1. <<path[c]>> \in Seq(SessionEntry)
    BY <1>1, <1>4
  <2>2. k # 0 => SubSeq(path, k, c - 1) \in Seq(SessionEntry)
    BY <1>1, <1>4
  <2>3. SubSeq(path, c + 1, Len(path)) \in Seq(SessionEntry)
    BY <1>1, <1>4
  <2> QED BY <1>2, <1>4, <2>1, <2>2, <2>3
<1> QED BY <1>3, <1>4

(* A context is a sequence of messages.                                    *)
LEMMA ContextType ==
  ASSUME NEW path \in Seq(SessionEntry)
  PROVE  ContextOf(path) \in Seq(Message)
<1> DEFINE s == Only(Seen(path), Visible)
<1>1. s \in Seq(SessionEntry)
  BY SeenType, OnlyType
<1> HIDE DEF s
<1>2. \A p \in DOMAIN s : s[p] \in SessionEntry
  BY <1>1
<1>3. \A p \in DOMAIN s : Msg(s[p].kind, s[p].item) \in Message
  BY <1>2 DEF SessionEntry, Msg, Message
<1>4. Contents(s) \in Seq(Message)
  BY <1>1, <1>3 DEF Contents
<1> QED BY <1>4, ContextIs DEF s

(* An entry that is no compaction, and not the one the last compaction     *)
(* kept from, is seen last.                                                *)
LEMMA SeenGrows ==
  ASSUME NEW path \in Seq(SessionEntry), NEW e \in SessionEntry, e.kind # "compaction",
         \A p \in 1..Len(path) : path[p].target # e.id
  PROVE  Seen(Append(path, e)) = Append(Seen(path), e)
<1> DEFINE n == Len(path)
           long == Append(path, e)
           c == Compaction(path)
           k == FirstKept(path)
<1>0. n \in Nat /\ long \in Seq(SessionEntry) /\ Len(long) = n + 1 /\ long[n + 1] = e
      /\ \A i \in 1..n : long[i] = path[i]
  OBVIOUS
<1>1. c \in 0..n /\ k \in 0..n
  BY CompactionIn, FirstKeptIn
<1> HIDE DEF n, long, c, k
<1>2. Compaction(long) = c
  <2> DEFINE I == {i \in 1..n : path[i].kind = "compaction"}
             J == {i \in 1..(n + 1) : long[i].kind = "compaction"}
  <2>1. I = J
    BY <1>0
  <2>2. c = IF I # {} THEN Max(I) ELSE 0
    BY DEF c, Compaction, SelectLastInSeq, n
  <2>3. Compaction(long) = IF J # {} THEN Max(J) ELSE 0
    BY <1>0 DEF Compaction, SelectLastInSeq
  <2> QED BY <2>1, <2>2, <2>3
<1>3. ASSUME c # 0 PROVE FirstKept(long) = k
  <2> DEFINE I == {i \in 1..n : path[i].id = path[c].target}
             J == {i \in 1..(n + 1) : long[i].id = long[c].target}
  <2>1. c \in 1..n /\ long[c] = path[c] /\ path[c].target # e.id
    BY <1>0, <1>1, <1>3 DEF n
  <2>2. I = J
    BY <1>0, <2>1
  <2>3. k = IF I # {} THEN Min(I) ELSE 0
    BY DEF k, FirstKept, SelectInSeq, c, n
  <2>4. FirstKept(long) = IF J # {} THEN Min(J) ELSE 0
    BY <1>0, <1>2 DEF FirstKept, SelectInSeq
  <2> QED BY <2>2, <2>3, <2>4
<1>4. CASE c = 0
  BY <1>2, <1>4 DEF Seen, c, long
<1>5. CASE c # 0
  <2> DEFINE s1 == <<path[c]>>
             s2 == IF k = 0 THEN <<>> ELSE SubSeq(path, k, c - 1)
             s3 == SubSeq(path, c + 1, n)
             t2 == IF k = 0 THEN <<>> ELSE SubSeq(long, k, c - 1)
             t3 == SubSeq(long, c + 1, n + 1)
  <2>1. c \in 1..n /\ long[c] = path[c] /\ path \in Seq(SessionEntry) /\ n = Len(path)
    BY <1>0, <1>1, <1>5 DEF n
  <2>2. Seen(path) = s1 \o s2 \o s3
    BY <1>5 DEF Seen, c, k, n
  <2>3. Seen(long) = s1 \o t2 \o t3
    BY <1>0, <1>2, <1>3, <1>5, <2>1 DEF Seen
  <2>4. s1 \in Seq(SessionEntry) /\ s2 \in Seq(SessionEntry) /\ s3 \in Seq(SessionEntry)
    <3>1. s1 \in Seq(SessionEntry)
      BY <2>1
    <3>2. s2 \in Seq(SessionEntry)
      BY <1>1, <2>1
    <3>3. s3 \in Seq(SessionEntry)
      BY <1>1, <2>1
    <3> QED BY <3>1, <3>2, <3>3
  <2>5. t2 = s2
    <3>1. k # 0 => SubSeq(long, k, c - 1) = SubSeq(path, k, c - 1)
      BY <1>0, <1>1, <2>1
    <3> QED BY <3>1
  <2>6. t3 = Append(s3, e)
    <3>1. c + 1 \in 1..Len(long) /\ n + 1 \in (c + 1)..Len(long) /\ (n + 1) - 1 = n
      BY <1>0, <2>1
    <3>2. t3 = SubSeq(long, c + 1, n) \o <<e>>
      BY <1>0, <3>1, SubSeqRecursiveSecond
    <3>3. SubSeq(long, c + 1, n) = s3
      BY <1>0, <2>1
    <3> QED BY <2>4, <3>2, <3>3, AppendIsConcat
  <2> HIDE DEF s1, s2, s3, t2, t3
  <2>7. s1 \o s2 \in Seq(SessionEntry)
    BY <2>4
  <2>8. (s1 \o s2) \o Append(s3, e) = Append((s1 \o s2) \o s3, e)
    BY <2>4, <2>7
  <2>9. Seen(long) = Append(Seen(path), e)
    BY <2>2, <2>3, <2>5, <2>6, <2>8
  <2> QED BY <2>9 DEF long
<1> QED BY <1>4, <1>5

(* It is the last message of the context, unless it shows nothing.         *)
LEMMA ContextGrows ==
  ASSUME NEW path \in Seq(SessionEntry), NEW e \in SessionEntry, e.kind # "compaction",
         \A p \in 1..Len(path) : path[p].target # e.id
  PROVE  ContextOf(Append(path, e)) = IF e.kind \in {"setting", "leaf"} THEN ContextOf(path)
                                      ELSE Append(ContextOf(path), Msg(e.kind, e.item))
<1> DEFINE s == Only(Seen(path), Visible)
<1>1. s \in Seq(SessionEntry)
  BY SeenType, OnlyType
<1>2. Only(Seen(Append(path, e)), Visible) = IF e \in Visible THEN Append(s, e) ELSE s
  BY SeenGrows, SeenType, OnlyAppend
<1>3. e \in Visible <=> e.kind \notin {"setting", "leaf"}
  BY DEF Visible
<1> HIDE DEF s
<1>4. Contents(Append(s, e)) = Append(Contents(s), Msg(e.kind, e.item))
  <2> DEFINE m == Msg(e.kind, e.item)
             t == Append(s, e)
  <2>1. t \in Seq(SessionEntry) /\ Len(t) = Len(s) + 1 /\ t[Len(s) + 1] = e /\ Len(s) \in Nat
        /\ \A i \in 1..Len(s) : t[i] = s[i]
    BY <1>1
  <2> HIDE DEF t
  <2>2. \A p \in DOMAIN s : s[p] \in SessionEntry
    BY <1>1
  <2>3. Contents(s) \in Seq(Message) /\ Len(Contents(s)) = Len(s)
    <3>1. \A p \in DOMAIN s : Msg(s[p].kind, s[p].item) \in Message
      BY <2>2 DEF SessionEntry, Msg, Message
    <3> QED BY <1>1, <3>1 DEF Contents
  <2>4. m \in Message
    BY DEF SessionEntry, Msg, Message
  <2> HIDE DEF m
  <2>5. /\ Append(Contents(s), m) \in Seq(Message)
        /\ Len(Append(Contents(s), m)) = Len(s) + 1
        /\ Append(Contents(s), m)[Len(s) + 1] = m
        /\ \A i \in 1..Len(s) : Append(Contents(s), m)[i] = Contents(s)[i]
    BY <2>3, <2>4
  <2>6. /\ DOMAIN Contents(t) = 1..(Len(s) + 1)
        /\ Contents(t)[Len(s) + 1] = m
        /\ \A i \in 1..Len(s) : Contents(t)[i] = Contents(s)[i]
    BY <1>1, <2>1 DEF Contents, m
  <2>7. Contents(t) \in Seq(Message)
    <3>1. \A p \in DOMAIN t : t[p] \in SessionEntry
      BY <2>1
    <3>2. \A p \in DOMAIN t : Msg(t[p].kind, t[p].item) \in Message
      BY <3>1 DEF SessionEntry, Msg, Message
    <3> QED BY <2>1, <3>2 DEF Contents
  <2>8. \A i \in 1..(Len(s) + 1) : Contents(t)[i] = Append(Contents(s), m)[i]
    BY <2>1, <2>5, <2>6
  <2>9. Len(Contents(t)) = Len(s) + 1
    BY <2>6, <2>7, <2>1
  <2> HIDE DEF t, m
  <2>10. Contents(t) = Append(Contents(s), m)
    BY <2>5, <2>7, <2>8, <2>9, SeqEqual
  <2> QED BY <2>10 DEF t, m
<1> QED BY <1>2, <1>3, <1>4, ContextIs DEF s

-----------------------------------------------------------------------------
(* A call whose locals change.                                             *)

(* Locals a step may change, with values of their types.                   *)
Fits(fields) ==
  /\ "op" \in DOMAIN fields => fields["op"] \in {"prompt", "compact", "navigate", "append"}
  /\ "pc" \in DOMAIN fields => fields["pc"] \in Pc
  /\ "hand" \in DOMAIN fields => fields["hand"] \in Seq(InHand)
  /\ "context" \in DOMAIN fields => fields["context"] \in Seq(Message)
  /\ "rounds" \in DOMAIN fields => fields["rounds"] \in Nat
  /\ "more" \in DOMAIN fields => fields["more"] \in BOOLEAN
  /\ "ends" \in DOMAIN fields => fields["ends"] \in BOOLEAN
  /\ "reporting" \in DOMAIN fields => fields["reporting"] \in BOOLEAN
  /\ "error" \in DOMAIN fields => fields["error"] \in BOOLEAN
  /\ "thrown" \in DOMAIN fields => fields["thrown"] \in BOOLEAN
  /\ "goal" \in DOMAIN fields => fields["goal"] \in Nat
  /\ "ran" \in DOMAIN fields => fields["ran"] \in BOOLEAN
  /\ "stale" \in DOMAIN fields => fields["stale"] \in BOOLEAN

LocalFields == {"op", "pc", "hand", "context", "rounds", "more", "ends", "reporting", "error",
                "thrown", "goal", "ran", "stale"}

(* Changed locals have their types, and the other fields their values.     *)
LEMMA ChangedType ==
  ASSUME NEW r \in Local, NEW fields, Fits(fields)
  PROVE  /\ Changed(r, fields) \in Local
         /\ \A x \in LocalFields :
              Changed(r, fields)[x] = IF x \in DOMAIN fields THEN fields[x] ELSE r[x]
<1>1. DOMAIN r = LocalFields
  BY DEF Local, LocalFields
<1>2. \A x \in LocalFields : Changed(r, fields)[x] = IF x \in DOMAIN fields THEN fields[x] ELSE r[x]
  BY <1>1, ChangedLocals
<1>3. DOMAIN Changed(r, fields) = LocalFields
  BY <1>1 DEF Changed
<1>4. Changed(r, fields) = [x \in LocalFields |-> Changed(r, fields)[x]]
  BY <1>1 DEF Changed
<1> DEFINE m == Changed(r, fields)
<1>5. /\ m["op"] \in {"prompt", "compact", "navigate", "append"} /\ m["pc"] \in Pc
      /\ m["hand"] \in Seq(InHand) /\ m["context"] \in Seq(Message) /\ m["rounds"] \in Nat
      /\ m["more"] \in BOOLEAN /\ m["ends"] \in BOOLEAN /\ m["reporting"] \in BOOLEAN
      /\ m["error"] \in BOOLEAN /\ m["thrown"] \in BOOLEAN /\ m["goal"] \in Nat
      /\ m["ran"] \in BOOLEAN /\ m["stale"] \in BOOLEAN
  BY <1>2 DEF Fits, Local, LocalFields
<1> HIDE DEF m
<1>6. m = [x \in LocalFields |-> m[x]]
  BY <1>4 DEF m
<1>7. m \in Local
  BY <1>5, <1>6 DEF Local, LocalFields
<1> QED BY <1>2, <1>7 DEF m

(* A step moves one call.                                                  *)
Others(c) ==
  call' \in [Calls -> Local] /\ \A d \in Calls : d # c => call'[d] = call[d]
(* The locals of a call after a change.                                    *)
Becomes(c, fields) ==
  /\ call'[c].op = IF "op" \in DOMAIN fields THEN fields["op"] ELSE call[c].op
  /\ call'[c].pc = IF "pc" \in DOMAIN fields THEN fields["pc"] ELSE call[c].pc
  /\ call'[c].hand = IF "hand" \in DOMAIN fields THEN fields["hand"] ELSE call[c].hand
  /\ call'[c].context = IF "context" \in DOMAIN fields THEN fields["context"] ELSE call[c].context
  /\ call'[c].rounds = IF "rounds" \in DOMAIN fields THEN fields["rounds"] ELSE call[c].rounds
  /\ call'[c].more = IF "more" \in DOMAIN fields THEN fields["more"] ELSE call[c].more
  /\ call'[c].ends = IF "ends" \in DOMAIN fields THEN fields["ends"] ELSE call[c].ends
  /\ call'[c].reporting = IF "reporting" \in DOMAIN fields THEN fields["reporting"] ELSE call[c].reporting
  /\ call'[c].error = IF "error" \in DOMAIN fields THEN fields["error"] ELSE call[c].error
  /\ call'[c].thrown = IF "thrown" \in DOMAIN fields THEN fields["thrown"] ELSE call[c].thrown
  /\ call'[c].goal = IF "goal" \in DOMAIN fields THEN fields["goal"] ELSE call[c].goal
  /\ call'[c].ran = IF "ran" \in DOMAIN fields THEN fields["ran"] ELSE call[c].ran
  /\ call'[c].stale = IF "stale" \in DOMAIN fields THEN fields["stale"] ELSE call[c].stale

(* What Set does.                                                          *)
LEMMA SetCall ==
  ASSUME NEW c \in Calls, NEW fields, call \in [Calls -> Local], Set(c, fields), Fits(fields)
  PROVE  Others(c) /\ Becomes(c, fields)
<1>1. call' = [call EXCEPT ![c] = Changed(call[c], fields)]
  BY DEF Set
<1>2. call'[c] = Changed(call[c], fields)
  BY <1>1
<1>3. Changed(call[c], fields) \in Local
  BY ChangedType
<1>4. \A x \in LocalFields : call'[c][x] = IF x \in DOMAIN fields THEN fields[x] ELSE call[c][x]
  BY <1>2, ChangedType
<1>5. Becomes(c, fields)
  BY <1>4 DEF Becomes, LocalFields
<1> QED BY <1>1, <1>3, <1>5 DEF Others

(* A call nobody made has locals of their types.                           *)
LEMMA FreeIsLocal == Free \in Local
BY DEF Free, Local, Pc

(* What Finish does.                                                       *)
LEMMA FinishCall ==
  ASSUME NEW c \in Calls, call \in [Calls -> Local], Finish(c)
  PROVE  /\ Others(c)
         /\ call'[c].pc = "done" /\ call'[c].op = call[c].op /\ call'[c].ran = call[c].ran
         /\ call'[c].hand = <<>> /\ call'[c].goal = 0 /\ ~call'[c].error
<1> DEFINE fields == [pc |-> "done", op |-> call[c].op, ran |-> call[c].ran]
<1>1. call' = [call EXCEPT ![c] = Changed(Free, fields)]
  BY DEF Finish
<1>2. Fits(fields)
  BY DEF Fits, Local, Pc
<1>3. Changed(Free, fields) \in Local
      /\ \A x \in LocalFields :
              Changed(Free, fields)[x] = IF x \in DOMAIN fields THEN fields[x] ELSE Free[x]
  BY <1>2, ChangedType, FreeIsLocal
<1>4. call'[c] = Changed(Free, fields) /\ call' \in [Calls -> Local]
      /\ \A d \in Calls : d # c => call'[d] = call[d]
  BY <1>1, <1>3
<1>5. /\ call'[c].pc = "done" /\ call'[c].op = call[c].op /\ call'[c].ran = call[c].ran
      /\ call'[c].hand = <<>> /\ call'[c].goal = 0 /\ ~call'[c].error
  BY <1>3, <1>4 DEF LocalFields, Free
<1> QED BY <1>4, <1>5 DEF Others

-----------------------------------------------------------------------------
(* The steps of a loop.                                                    *)

UserMessages(q) == [p \in DOMAIN q |-> Msg("user", q[p])]

(* Messages of a user, as a loop holds them.                               *)
LEMMA UserMessagesType ==
  ASSUME NEW q \in Seq(Nat)
  PROVE  UserMessages(q) \in Seq(InHand) /\ Len(UserMessages(q)) = Len(q)
<1>1. \A p \in DOMAIN q : Msg("user", q[p]) \in InHand
  BY DEF Msg, InHand, ShownKind
<1> QED BY <1>1 DEF UserMessages

(* A poll takes a non-empty part of a non-empty queue.                     *)
LEMMA TakenType ==
  ASSUME NEW q \in Seq(Nat), q # <<>>, NEW mode
  PROVE  /\ Taken(mode, q) \in Seq(Nat) /\ Taken(mode, q) # <<>>
         /\ UserMessages(Taken(mode, q)) \in Seq(InHand)
         /\ UserMessages(Taken(mode, q)) # <<>>
<1>1. Taken(mode, q) \in Seq(Nat) /\ Len(Taken(mode, q)) >= 1
  BY DEF Taken
<1> HIDE DEF Taken
<1>2. UserMessages(Taken(mode, q)) \in Seq(InHand) /\ Len(UserMessages(Taken(mode, q))) >= 1
  BY <1>1, UserMessagesType
<1> QED BY <1>1, <1>2

(* The branch of the session consists of entries, its context of messages. *)
LEMMA ContextIsTyped ==
  ASSUME Typed, Rooted
  PROVE  /\ Rising(entries) /\ Path(leafId) \in Seq(ToSet(entries))
         /\ Path(leafId) \in Seq(SessionEntry) /\ Context \in Seq(Message)
<1>1. entries \in Seq(SessionEntry) /\ leafId \in Nat
  BY DEF Typed, SessionTypeOK
<1>2. Rising(entries)
  BY DEF Rooted, Older, Rising
<1>3. Path(leafId) \in Seq(ToSet(entries))
  BY <1>1, <1>2, PathUnfold, PathIsPathIn
<1>4. ToSet(entries) \subseteq SessionEntry
  BY <1>1 DEF ToSet
<1>5. Path(leafId) \in Seq(SessionEntry)
  BY <1>3, <1>4, SeqMonotonic
<1> QED BY <1>2, <1>3, <1>5, ContextType DEF Context

(* A call keeps its kind, its goal, and whether it ran.                    *)
Keeps(c) ==
  /\ call'[c].op = call[c].op /\ call'[c].ran = call[c].ran /\ call'[c].goal = call[c].goal
(* What LoopThrows does.                                                   *)
LEMMA LoopThrowsCall ==
  ASSUME NEW c \in Calls, call \in [Calls -> Local], NEW rest, LoopThrows(c, rest)
  PROVE  /\ Others(c) /\ Keeps(c) /\ call'[c].context = call[c].context
         /\ \/ call'[c].pc = "final" /\ call'[c].error
            \/ call'[c].pc = "output" /\ call'[c].error = call[c].error /\ call'[c].hand # <<>>
         /\ UNCHANGED counters
<1> DEFINE fields == IF call[c].reporting
            THEN [pc |-> "final", hand |-> <<>>, thrown |-> FALSE, error |-> TRUE]
            ELSE [pc |-> "output", hand |-> <<Msg("assistant", 0)>>,
                  thrown |-> FALSE, reporting |-> TRUE, ends |-> TRUE]
<1>1. Set(c, fields) /\ UNCHANGED counters
  BY DEF LoopThrows
<1>2. <<>> \in Seq(InHand) /\ <<Msg("assistant", 0)>> \in Seq(InHand)
  BY DEF Msg, InHand, ShownKind
<1>3. CASE call[c].reporting
  <2> DEFINE f == [pc |-> "final", hand |-> <<>>, thrown |-> FALSE, error |-> TRUE]
  <2>1. Set(c, f)
    BY <1>1, <1>3
  <2>2. Fits(f)
    BY <1>2 DEF Fits, Pc, InLoop, Flushing
  <2>3. Others(c) /\ Becomes(c, f)
    BY <2>1, <2>2, SetCall
  <2>4. /\ Keeps(c) /\ call'[c].context = call[c].context
    BY <2>3 DEF Becomes, Keeps
  <2>5. call'[c].pc = "final" /\ call'[c].error
    BY <2>3 DEF Becomes, Keeps
  <2> QED BY <1>1, <2>3, <2>4, <2>5
<1>4. CASE ~call[c].reporting
  <2> DEFINE f == [pc |-> "output", hand |-> <<Msg("assistant", 0)>>,
                  thrown |-> FALSE, reporting |-> TRUE, ends |-> TRUE]
  <2>1. Set(c, f)
    BY <1>1, <1>4
  <2>2. Fits(f)
    BY <1>2 DEF Fits, Pc, InLoop, Showing
  <2>3. Others(c) /\ Becomes(c, f)
    BY <2>1, <2>2, SetCall
  <2>4. /\ Keeps(c) /\ call'[c].context = call[c].context
        /\ call'[c].error = call[c].error
    BY <2>3 DEF Becomes, Keeps
  <2>5. call'[c].pc = "output" /\ call'[c].hand = <<Msg("assistant", 0)>>
    BY <2>3 DEF Becomes, Keeps
  <2>6. call'[c].hand # <<>>
    BY <2>5
  <2> QED BY <1>1, <2>3, <2>4, <2>5, <2>6
<1> QED BY <1>3, <1>4

(* The pcs at which a call relies on its context being the session's.      *)
Minding == {"takeNext", "beforeHook", "inject", "poll", "pollFollowUp", "steerTaken",
            "followUpTaken", "stream"}
(* A step of a loop keeps the context in line with the session, or leaves  *)
(* Minding.                                                                *)
MindsContext(c) ==
  \/ call'[c].pc \notin Minding \union {"prompts"}
  \/ /\ UNCHANGED session /\ call[c].pc \in Minding /\ call'[c].pc \in Minding
     /\ call'[c].context = call[c].context
  \/ /\ UNCHANGED session /\ call'[c].pc \in Minding /\ call'[c].context = Context
  \/ /\ Commit(c) /\ At(c, "prompts") /\ call'[c].context = call[c].context
     /\ call'[c].hand = Tail(call[c].hand)
     /\ call'[c].pc = "prompts" \/ (call'[c].pc = "poll" /\ Len(call[c].hand) = 1)
  \/ /\ Commit(c) /\ At(c, "inject") /\ call'[c].pc \in Minding
     /\ call'[c].context = Append(call[c].context, Head(call[c].hand))

(* What every step of a loop that ends no append of another kind has in    *)
(* common.                                                                 *)
StepsInLoop(c) ==
  /\ Others(c) /\ Keeps(c)
  /\ call[c].pc \in InLoop /\ call'[c].pc \in InLoop
  /\ call'[c].error => call'[c].pc = "final"
  /\ call'[c].pc \in {"steerTaken", "followUpTaken"} \union Showing => call'[c].hand # <<>>
  /\ appending'[c] = Nobody
  /\ \/ UNCHANGED session /\ ~Appends(c)
     \/ Commit(c) /\ call[c].pc \in Showing
     \/ Abandon(c)
  /\ \/ phase' = "idle"
     \/ /\ UNCHANGED phase /\ call'[c].pc # "agentEnd"
        /\ call'[c].pc = "final" => call'[c].error \/ At(c, "agentEnd")
  /\ MindsContext(c) /\ (At(c, "agentEnd") => ListenersDone(c))
  /\ UNCHANGED <<pendingSessionWrites, runPromise, runAbortController, limits, aborted, accepted,
                 counters>>

(* What is common to the failures of a loop.                               *)
LEMMA Throwing ==
  ASSUME NEW c \in Calls, call \in [Calls -> Local], NEW rest, LoopThrows(c, rest), ~call[c].error,
         call[c].pc \in InLoop
  PROVE  /\ Others(c) /\ Keeps(c) /\ call'[c].pc \in InLoop
         /\ call'[c].error => call'[c].pc = "final"
         /\ call'[c].pc \in {"steerTaken", "followUpTaken"} \union Showing => call'[c].hand # <<>>
         /\ call'[c].pc # "agentEnd" /\ MindsContext(c)
         /\ call'[c].pc = "final" => call'[c].error
         /\ UNCHANGED counters
<1>1. "final" \in InLoop /\ "output" \in InLoop /\ "final" \notin Showing
  BY DEF InLoop, Showing, Flushing
<1>2. MindsContext(c)
  BY LoopThrowsCall DEF MindsContext, Minding
<1> QED BY <1>1, <1>2, LoopThrowsCall

(* The failures of a loop are steps of it.                                 *)
LEMMA ThrowSteps ==
  ASSUME Typed, Controlled, NEW c \in Calls,
         ShowThrows(c) \/ AnswerThrows(c) \/ FlushFails(c) \/ SavePointThrows(c)
           \/ PrepareThrows(c) \/ PollThrows(c) \/ AgentEndThrows(c)
  PROVE  StepsInLoop(c)
<1>0. call \in [Calls -> Local] /\ (call[c].error => At(c, "final")) /\ Placed(c)
      /\ appending \in [Calls -> [stage : {"none", "file", "memory", "failed"}, entry : SessionEntry]]
  BY DEF Typed, SessionTypeOK, Controlled, Placed
<1>1. CASE ShowThrows(c)
  <2>1. call[c].pc \in InLoop /\ ~At(c, "final")
    BY <1>1 DEF ShowThrows, InLoop, Showing, At
  <2>2. PICK rest : LoopThrows(c, rest)
    BY <1>1 DEF ShowThrows
  <2>3. /\ Others(c) /\ Keeps(c) /\ call'[c].pc \in InLoop
        /\ call'[c].error => call'[c].pc = "final"
        /\ call'[c].pc \in {"steerTaken", "followUpTaken"} \union Showing => call'[c].hand # <<>>
        /\ call'[c].pc # "agentEnd" /\ MindsContext(c)
        /\ call'[c].pc = "final" => call'[c].error
        /\ UNCHANGED counters
    BY <1>0, <2>1, <2>2, Throwing
  <2>4. /\ \/ UNCHANGED session /\ ~Appends(c)
           \/ Commit(c) /\ call[c].pc \in Showing
           \/ Abandon(c)
        /\ UNCHANGED <<phase, pendingSessionWrites, runPromise, runAbortController, limits, aborted,
                       accepted>>
    BY <1>1 DEF ShowThrows
  <2>5. appending'[c] = Nobody
    BY <1>0, <2>4 DEF session, Appends, Commit, Abandon
  <2>6. ~At(c, "agentEnd")
    BY <1>1 DEF ShowThrows, Showing, At
  <2> QED BY <2>1, <2>3, <2>4, <2>5, <2>6 DEF StepsInLoop
<1>2. CASE AnswerThrows(c) \/ PollThrows(c) \/ AgentEndThrows(c)
  <2>1. call[c].pc \in InLoop /\ ~At(c, "final") /\ call[c].pc \in Loose
    BY <1>2 DEF AnswerThrows, PollThrows, AgentEndThrows, InLoop, Loose, At
  <2>2. PICK rest : LoopThrows(c, rest)
    BY <1>2 DEF AnswerThrows, PollThrows, AgentEndThrows
  <2>3. /\ Others(c) /\ Keeps(c) /\ call'[c].pc \in InLoop
        /\ call'[c].error => call'[c].pc = "final"
        /\ call'[c].pc \in {"steerTaken", "followUpTaken"} \union Showing => call'[c].hand # <<>>
        /\ call'[c].pc # "agentEnd" /\ MindsContext(c)
        /\ call'[c].pc = "final" => call'[c].error
        /\ UNCHANGED counters
    BY <1>0, <2>1, <2>2, Throwing
  <2>4. UNCHANGED <<session, phase, pendingSessionWrites, runPromise, runAbortController, limits,
                    aborted, accepted>>
    BY <1>2 DEF AnswerThrows, PollThrows, AgentEndThrows
  <2>5. ~Appends(c)
    BY <1>0, <2>1 DEF Placed, Loose, Showing, Flushing, Settling
  <2>6. appending'[c] = Nobody
    BY <2>4, <2>5 DEF session, Appends
  <2>7. At(c, "agentEnd") => ListenersDone(c)
    BY <1>2 DEF AnswerThrows, PollThrows, AgentEndThrows, At
  <2> QED BY <2>1, <2>3, <2>4, <2>5, <2>6, <2>7 DEF StepsInLoop
<1>3. CASE FlushFails(c) \/ SavePointThrows(c) \/ PrepareThrows(c)
  <2>1. call[c].pc \in InLoop /\ ~At(c, "final")
    BY <1>3 DEF FlushFails, SavePointThrows, PrepareThrows, InLoop, Flushing, At
  <2>2. PICK rest : LoopThrows(c, rest)
    BY <1>3 DEF FlushFails, SavePointThrows, PrepareThrows
  <2>3. /\ Others(c) /\ Keeps(c) /\ call'[c].pc \in InLoop
        /\ call'[c].error => call'[c].pc = "final"
        /\ call'[c].pc \in {"steerTaken", "followUpTaken"} \union Showing => call'[c].hand # <<>>
        /\ call'[c].pc # "agentEnd" /\ MindsContext(c)
        /\ call'[c].pc = "final" => call'[c].error
        /\ UNCHANGED counters
    BY <1>0, <2>1, <2>2, Throwing
  <2>4. /\ (UNCHANGED session /\ ~Appends(c)) \/ Abandon(c)
        /\ UNCHANGED <<phase, pendingSessionWrites, runPromise, runAbortController, limits,
                       aborted, accepted>>
    BY <1>3 DEF FlushFails, SavePointThrows, PrepareThrows, Flushed
  <2>6. appending'[c] = Nobody
    BY <1>0, <2>4 DEF session, Appends, Abandon
  <2>7. ~At(c, "agentEnd")
    BY <1>3 DEF FlushFails, SavePointThrows, PrepareThrows, Flushing, At
  <2> QED BY <2>1, <2>3, <2>4, <2>6, <2>7 DEF StepsInLoop
<1> QED BY <1>1, <1>2, <1>3

(* So is the showing of a message.                                         *)
LEMMA ShownSteps ==
  ASSUME Typed, Controlled, NEW c \in Calls, Shown(c)
  PROVE  StepsInLoop(c)
<1>0. /\ call \in [Calls -> Local] /\ call[c] \in Local /\ Placed(c) /\ call[c].pc \in Showing
      /\ Commit(c) /\ call[c].hand # <<>> /\ call[c].hand \in Seq(InHand)
      /\ call[c].context \in Seq(Message) /\ call[c].pc \in InLoop
  BY DEF Typed, Controlled, Placed, Shown, Local, InLoop
<1> DEFINE f == [hand |-> Tail(call[c].hand),
             context |-> IF At(c, "prompts") THEN call[c].context
                         ELSE Append(call[c].context, Head(call[c].hand)),
             pc |-> IF Len(call[c].hand) > 1 THEN call[c].pc ELSE AfterShowing(c)]
<1>1. Set(c, f)
  BY DEF Shown
<1>2. Tail(call[c].hand) \in Seq(InHand) /\ Head(call[c].hand) \in InHand
      /\ Len(Tail(call[c].hand)) = Len(call[c].hand) - 1
  BY <1>0
<1>3. InHand \subseteq Message
  BY DEF InHand, Message, ShownKind, EntryKind
<1>4. f.context \in Seq(Message)
  BY <1>0, <1>2, <1>3
<1>5. AfterShowing(c) \in InLoop /\ AfterShowing(c) \in Loose
      /\ (At(c, "prompts") => AfterShowing(c) = "poll")
      /\ (At(c, "inject") => AfterShowing(c) = "stream")
      /\ (At(c, "output") => AfterShowing(c) = "turnEnd")
  BY <1>0 DEF AfterShowing, At, Showing, InLoop, Loose
<1>6. f.pc \in InLoop /\ InLoop \subseteq Pc
  BY <1>0, <1>5 DEF Pc
<1>7. Fits(f)
  BY <1>2, <1>4, <1>6 DEF Fits
<1>8. Others(c) /\ Becomes(c, f)
  BY <1>0, <1>1, <1>7, SetCall
<1>9. /\ call'[c].hand = Tail(call[c].hand) /\ Keeps(c) /\ call'[c].error = call[c].error
      /\ call'[c].context = IF At(c, "prompts") THEN call[c].context
                            ELSE Append(call[c].context, Head(call[c].hand))
      /\ call'[c].pc = IF Len(call[c].hand) > 1 THEN call[c].pc ELSE AfterShowing(c)
  BY <1>8 DEF Becomes, Keeps
<1>10. /\ ~call'[c].error /\ call'[c].pc # "final" /\ call'[c].pc # "agentEnd"
       /\ call'[c].pc \in InLoop
  BY <1>0, <1>5, <1>9 DEF Placed, At, Showing, AfterShowing
<1>11. call'[c].pc \in {"steerTaken", "followUpTaken"} \union Showing => call'[c].hand # <<>>
  <2>1. CASE Len(call[c].hand) > 1
    <3>1. Len(call'[c].hand) > 0 /\ Len(<<>>) = 0
      BY <1>0, <1>2, <1>9, <2>1, EmptySeq
    <3> QED BY <3>1
  <2>2. CASE ~(Len(call[c].hand) > 1)
    BY <1>0, <1>5, <1>9, <2>2 DEF Showing, At
  <2> QED BY <2>1, <2>2
<1>12. Len(call[c].hand) > 1 \/ Len(call[c].hand) = 1
  <2> DEFINE n == Len(call[c].hand)
  <2>1. n \in Nat \ {0}
    BY <1>0, EmptySeq
  <2> HIDE DEF n
  <2>2. n > 1 \/ n = 1
    BY <2>1
  <2> QED BY <2>2 DEF n
<1>13. MindsContext(c)
  <2>1. CASE At(c, "prompts")
    BY <1>0, <1>5, <1>9, <1>12, <2>1 DEF MindsContext, At
  <2>2. CASE At(c, "inject")
    BY <1>0, <1>5, <1>9, <1>12, <2>2 DEF MindsContext, At, Minding
  <2>3. CASE At(c, "output")
    BY <1>0, <1>5, <1>9, <2>3 DEF MindsContext, At, Minding
  <2> QED BY <1>0, <2>1, <2>2, <2>3 DEF Showing, At
<1>14. appending'[c] = Nobody
  BY <1>0 DEF Commit, Typed, SessionTypeOK
<1>15. UNCHANGED <<phase, pendingSessionWrites, runPromise, runAbortController, limits, aborted,
                   accepted, counters>>
  BY DEF Shown, past
<1>16. ~At(c, "agentEnd")
  BY <1>0 DEF Showing, At
<1> QED BY <1>0, <1>8, <1>9, <1>10, <1>11, <1>13, <1>14, <1>15, <1>16 DEF StepsInLoop

(* The steps of the loop that append nothing.                              *)
LEMMA PlainSteps ==
  ASSUME Typed, Rooted, Controlled, NEW c \in Calls,
         Answer(c) \/ TurnEnd(c) \/ SavePoint(c) \/ PrepareNextTurn(c) \/ PollSteering(c)
           \/ PollFollowUp(c) \/ Polled(c) \/ GoIdle(c) \/ AgentEnded(c)
  PROVE  StepsInLoop(c)
<1>0. /\ call \in [Calls -> Local] /\ call[c] \in Local /\ Placed(c)
      /\ appending \in [Calls -> [stage : {"none", "file", "memory", "failed"}, entry : SessionEntry]]
  BY DEF Typed, SessionTypeOK, Controlled
<1>1. call[c].pc \in InLoop /\ ~At(c, "final") /\ ~call[c].error
  BY <1>0 DEF Answer, TurnEnd, SavePoint, PrepareNextTurn, PollSteering, PollFollowUp, Polled, GoIdle,
        AgentEnded, At, InLoop, Showing, Flushing, Loose, Placed
<1>2. ~Appends(c) /\ UNCHANGED session
  BY <1>0 DEF Answer, TurnEnd, SavePoint, PrepareNextTurn, PollSteering, PollFollowUp, Polled, GoIdle,
        AgentEnded, At, Placed, Showing, Flushing, Settling, Flushed
<1>3. appending'[c] = Nobody
  BY <1>2 DEF session, Appends
<1>4. UNCHANGED <<pendingSessionWrites, runPromise, runAbortController, limits, aborted,
                   accepted, counters>>
  BY DEF Answer, TurnEnd, SavePoint, PrepareNextTurn, PollSteering, PollFollowUp, Polled, GoIdle,
        AgentEnded, past
<1> DEFINE Suffices ==
      /\ Others(c) /\ Keeps(c) /\ call'[c].pc \in InLoop /\ ~call'[c].error
      /\ call'[c].pc \in {"steerTaken", "followUpTaken"} \union Showing => call'[c].hand # <<>>
      /\ \/ phase' = "idle"
         \/ /\ UNCHANGED phase /\ call'[c].pc # "agentEnd"
            /\ call'[c].pc = "final" => At(c, "agentEnd")
      /\ MindsContext(c)
<1>4a. At(c, "agentEnd") => ListenersDone(c)
  BY DEF Answer, TurnEnd, SavePoint, PrepareNextTurn, PollSteering, PollFollowUp, Polled, GoIdle,
        AgentEnded, At
<1>5. Suffices => StepsInLoop(c)
  BY <1>1, <1>2, <1>3, <1>4, <1>4a DEF StepsInLoop
<1>6. CASE Answer(c)
  <2>1. PICK more, ends, rounds, hand :
          /\ Set(c, [pc |-> "output", more |-> more, ends |-> ends, rounds |-> rounds, hand |-> hand])
             \/ Set(c, [pc |-> "output", more |-> more, rounds |-> rounds, hand |-> hand])
             \/ Set(c, [pc |-> "output", more |-> more, ends |-> ends, hand |-> hand])
          /\ more \in BOOLEAN /\ ends \in BOOLEAN /\ rounds \in Nat /\ hand \in Seq(InHand)
          /\ hand # <<>>
    <3>1. <<Msg("assistant", 0)>> \in Seq(InHand)
          /\ <<Msg("assistant", 0), Msg("result", 0)>> \in Seq(InHand)
      BY DEF Msg, InHand, ShownKind
    <3>2. call[c].rounds + 1 \in Nat /\ call[c].rounds \in Nat /\ call[c].ends \in BOOLEAN
      BY <1>0 DEF Local
    <3>3. CASE Set(c, [pc |-> "output", more |-> TRUE, rounds |-> call[c].rounds + 1,
                   hand |-> <<Msg("assistant", 0), Msg("result", 0)>>])
      BY <3>1, <3>2, <3>3
    <3>4. CASE \E failed \in BOOLEAN : Set(c, [pc |-> "output", more |-> FALSE, ends |-> failed,
                     hand |-> <<Msg("assistant", 0)>>])
      BY <3>1, <3>2, <3>4
    <3> QED BY <1>6, <3>3, <3>4 DEF Answer
  <2> DEFINE f1 == [pc |-> "output", more |-> more, ends |-> ends, rounds |-> rounds, hand |-> hand]
             f2 == [pc |-> "output", more |-> more, rounds |-> rounds, hand |-> hand]
             f3 == [pc |-> "output", more |-> more, ends |-> ends, hand |-> hand]
  <2>2. Fits(f1) /\ Fits(f2) /\ Fits(f3)
    BY <2>1 DEF Fits, Pc, InLoop, Showing
  <2>3. Others(c) /\ (Becomes(c, f1) \/ Becomes(c, f2) \/ Becomes(c, f3))
    BY <1>0, <2>1, <2>2, SetCall
  <2>4. /\ Keeps(c) /\ call'[c].pc = "output" /\ call'[c].error = call[c].error
        /\ call'[c].hand = hand
    <3>1. CASE Becomes(c, f1)
      BY <3>1 DEF Becomes, Keeps
    <3>2. CASE Becomes(c, f2)
      BY <3>2 DEF Becomes, Keeps
    <3>3. CASE Becomes(c, f3)
      BY <3>3 DEF Becomes, Keeps
    <3> QED BY <2>3, <3>1, <3>2, <3>3
  <2>5. MindsContext(c)
    BY <2>4 DEF MindsContext, Minding
  <2>6. "output" \in InLoop /\ UNCHANGED phase
    BY <1>6 DEF InLoop, Showing, Answer
  <2> QED BY <1>1, <1>5, <2>1, <2>3, <2>4, <2>5, <2>6
<1>7. CASE TurnEnd(c)
  <2> DEFINE f1 == [pc |-> "turnFlush"]
             f2 == [pc |-> "turnFlush", thrown |-> TRUE]
  <2>1. Set(c, f1) \/ Set(c, f2)
    BY <1>7 DEF TurnEnd
  <2>2. Fits(f1) /\ Fits(f2)
    BY DEF Fits, Pc, InLoop, Flushing
  <2>3. Others(c) /\ (Becomes(c, f1) \/ Becomes(c, f2))
    BY <1>0, <2>1, <2>2, SetCall
  <2>4. Keeps(c) /\ call'[c].pc = "turnFlush" /\ call'[c].error = call[c].error
    <3>1. CASE Becomes(c, f1)
      BY <3>1 DEF Becomes, Keeps
    <3>2. CASE Becomes(c, f2)
      BY <3>2 DEF Becomes, Keeps
    <3> QED BY <2>3, <3>1, <3>2
  <2>5. MindsContext(c)
    BY <2>4 DEF MindsContext, Minding
  <2>6. "turnFlush" \in InLoop /\ "turnFlush" \notin Showing /\ UNCHANGED phase
    BY <1>7 DEF InLoop, Flushing, Showing, TurnEnd
  <2> QED BY <1>1, <1>5, <2>3, <2>4, <2>5, <2>6
<1>8. CASE SavePoint(c)
  <2> DEFINE f == [pc |-> IF call[c].ends THEN "endFlush" ELSE "prepare"]
  <2>1. Set(c, f)
    BY <1>8 DEF SavePoint
  <2>2. Fits(f)
    BY DEF Fits, Pc, InLoop, Flushing
  <2>3. Others(c) /\ Becomes(c, f)
    BY <1>0, <2>1, <2>2, SetCall
  <2>4. Keeps(c) /\ call'[c].pc \in {"endFlush", "prepare"} /\ call'[c].error = call[c].error
    BY <2>3 DEF Becomes, Keeps
  <2>5. MindsContext(c)
    BY <2>4 DEF MindsContext, Minding
  <2>6. {"endFlush", "prepare"} \subseteq InLoop /\ UNCHANGED phase
        /\ {"endFlush", "prepare"} \intersect Showing = {}
    BY <1>8 DEF InLoop, Flushing, Showing, SavePoint
  <2> QED BY <1>1, <1>5, <2>3, <2>4, <2>5, <2>6
<1>9. CASE PrepareNextTurn(c)
  <2> DEFINE f == [pc |-> "poll", context |-> Context]
  <2>1. Set(c, f)
    BY <1>9 DEF PrepareNextTurn
  <2>2. Fits(f)
    BY ContextIsTyped DEF Fits, Pc, InLoop, Loose
  <2>3. Others(c) /\ Becomes(c, f)
    BY <1>0, <2>1, <2>2, SetCall
  <2>4. Keeps(c) /\ call'[c].pc = "poll" /\ call'[c].error = call[c].error
        /\ call'[c].context = Context
    BY <2>3 DEF Becomes, Keeps
  <2>5. MindsContext(c)
    BY <1>2, <2>4 DEF MindsContext, Minding
  <2>6. "poll" \in InLoop /\ UNCHANGED phase /\ "poll" \notin Showing
    BY <1>9 DEF InLoop, Loose, Showing, PrepareNextTurn
  <2> QED BY <1>1, <1>5, <2>3, <2>4, <2>5, <2>6
<1>10. CASE PollSteering(c)
  <2>1. CASE steerQueue = <<>>
    <3> DEFINE f == [pc |-> IF call[c].more THEN "stream" ELSE "pollFollowUp"]
    <3>1. Set(c, f)
      BY <1>10, <2>1 DEF PollSteering
    <3>2. Fits(f)
      BY DEF Fits, Pc, InLoop, Loose
    <3>3. Others(c) /\ Becomes(c, f)
      BY <1>0, <3>1, <3>2, SetCall
    <3>4. Keeps(c) /\ call'[c].pc \in {"stream", "pollFollowUp"} /\ call'[c].error = call[c].error
          /\ call'[c].context = call[c].context
      BY <3>3 DEF Becomes, Keeps
    <3>5. MindsContext(c)
      BY <1>2, <1>10, <3>4 DEF MindsContext, Minding, PollSteering, At
    <3>6. {"stream", "pollFollowUp"} \subseteq InLoop /\ UNCHANGED phase
          /\ {"stream", "pollFollowUp"} \intersect Showing = {}
      BY <1>10 DEF InLoop, Loose, Showing, PollSteering
    <3> QED BY <1>1, <1>5, <3>3, <3>4, <3>5, <3>6
  <2>2. CASE steerQueue # <<>>
    <3>0. steerQueue \in Seq(Nat)
      BY DEF Typed
    <3>1. PICK mode : Set(c, [pc |-> "steerTaken", stale |-> FALSE,
                              hand |-> UserMessages(Taken(mode, steerQueue))])
      BY <1>10, <2>2 DEF PollSteering, UserMessages
    <3> DEFINE h == UserMessages(Taken(mode, steerQueue))
               f == [pc |-> "steerTaken", stale |-> FALSE, hand |-> h]
    <3>2. h \in Seq(InHand) /\ h # <<>>
      BY <2>2, <3>0, TakenType
    <3> HIDE DEF h
    <3>3. Fits(f)
      BY <3>2 DEF Fits, Pc, InLoop, Loose
    <3>4. Others(c) /\ Becomes(c, f)
      BY <1>0, <3>1, <3>3, SetCall DEF h
    <3>5. Keeps(c) /\ call'[c].pc = "steerTaken" /\ call'[c].error = call[c].error
          /\ call'[c].context = call[c].context /\ call'[c].hand = h
      BY <3>4 DEF Becomes, Keeps
    <3>6. MindsContext(c)
      BY <1>2, <1>10, <3>5 DEF MindsContext, Minding, PollSteering, At
    <3>7. "steerTaken" \in InLoop /\ UNCHANGED phase
      BY <1>10 DEF InLoop, Loose, PollSteering
    <3> QED BY <1>1, <1>5, <3>2, <3>4, <3>5, <3>6, <3>7
  <2> QED BY <2>1, <2>2
<1>11. CASE PollFollowUp(c)
  <2>1. CASE followUpQueue = <<>>
    <3> DEFINE f == [pc |-> "endFlush"]
    <3>1. Set(c, f)
      BY <1>11, <2>1 DEF PollFollowUp
    <3>2. Fits(f)
      BY DEF Fits, Pc, InLoop, Flushing
    <3>3. Others(c) /\ Becomes(c, f)
      BY <1>0, <3>1, <3>2, SetCall
    <3>4. Keeps(c) /\ call'[c].pc = "endFlush" /\ call'[c].error = call[c].error
      BY <3>3 DEF Becomes, Keeps
    <3>5. MindsContext(c)
      BY <3>4 DEF MindsContext, Minding
    <3>6. "endFlush" \in InLoop /\ UNCHANGED phase /\ "endFlush" \notin Showing
      BY <1>11 DEF InLoop, Flushing, Showing, PollFollowUp
    <3> QED BY <1>1, <1>5, <3>3, <3>4, <3>5, <3>6
  <2>2. CASE followUpQueue # <<>>
    <3>0. followUpQueue \in Seq(Nat)
      BY DEF Typed
    <3>1. PICK mode : Set(c, [pc |-> "followUpTaken", stale |-> FALSE,
                              hand |-> UserMessages(Taken(mode, followUpQueue))])
      BY <1>11, <2>2 DEF PollFollowUp, UserMessages
    <3> DEFINE h == UserMessages(Taken(mode, followUpQueue))
               f == [pc |-> "followUpTaken", stale |-> FALSE, hand |-> h]
    <3>2. h \in Seq(InHand) /\ h # <<>>
      BY <2>2, <3>0, TakenType
    <3> HIDE DEF h
    <3>3. Fits(f)
      BY <3>2 DEF Fits, Pc, InLoop, Loose
    <3>4. Others(c) /\ Becomes(c, f)
      BY <1>0, <3>1, <3>3, SetCall DEF h
    <3>5. Keeps(c) /\ call'[c].pc = "followUpTaken" /\ call'[c].error = call[c].error
          /\ call'[c].context = call[c].context /\ call'[c].hand = h
      BY <3>4 DEF Becomes, Keeps
    <3>6. MindsContext(c)
      BY <1>2, <1>11, <3>5 DEF MindsContext, Minding, PollFollowUp, At
    <3>7. "followUpTaken" \in InLoop /\ UNCHANGED phase
      BY <1>11 DEF InLoop, Loose, PollFollowUp
    <3> QED BY <1>1, <1>5, <3>2, <3>4, <3>5, <3>6, <3>7
  <2> QED BY <2>1, <2>2
<1>12. CASE Polled(c)
  <2> DEFINE f == [pc |-> "inject"]
  <2>1. Set(c, f) /\ call[c].pc \in {"steerTaken", "followUpTaken"}
    BY <1>12 DEF Polled
  <2>2. Fits(f)
    BY DEF Fits, Pc, InLoop, Showing
  <2>3. Others(c) /\ Becomes(c, f)
    BY <1>0, <2>1, <2>2, SetCall
  <2>4. Keeps(c) /\ call'[c].pc = "inject" /\ call'[c].error = call[c].error
        /\ call'[c].context = call[c].context /\ call'[c].hand = call[c].hand
    BY <2>3 DEF Becomes, Keeps
  <2>5. MindsContext(c)
    BY <1>2, <2>1, <2>4 DEF MindsContext, Minding
  <2>6. "inject" \in InLoop /\ UNCHANGED phase /\ call[c].hand # <<>>
    BY <1>0, <1>12, <2>1 DEF InLoop, Showing, Polled, Placed
  <2> QED BY <1>1, <1>5, <2>3, <2>4, <2>5, <2>6
<1>13. CASE GoIdle(c)
  <2> DEFINE f == [pc |-> "agentEnd"]
  <2>1. Set(c, f)
    BY <1>13 DEF GoIdle
  <2>2. Fits(f)
    BY DEF Fits, Pc, InLoop, Loose
  <2>3. Others(c) /\ Becomes(c, f)
    BY <1>0, <2>1, <2>2, SetCall
  <2>4. Keeps(c) /\ call'[c].pc = "agentEnd" /\ call'[c].error = call[c].error
    BY <2>3 DEF Becomes, Keeps
  <2>5. MindsContext(c)
    BY <2>4 DEF MindsContext, Minding
  <2>6. "agentEnd" \in InLoop /\ phase' = "idle" /\ "agentEnd" \notin Showing
    BY <1>13 DEF InLoop, Loose, Showing, GoIdle
  <2> QED BY <1>1, <1>5, <2>3, <2>4, <2>5, <2>6
<1>14. CASE AgentEnded(c)
  <2> DEFINE f == [pc |-> "final"]
  <2>1. Set(c, f) /\ At(c, "agentEnd")
    BY <1>14 DEF AgentEnded
  <2>2. Fits(f)
    BY DEF Fits, Pc, InLoop, Flushing
  <2>3. Others(c) /\ Becomes(c, f)
    BY <1>0, <2>1, <2>2, SetCall
  <2>4. Keeps(c) /\ call'[c].pc = "final" /\ call'[c].error = call[c].error
    BY <2>3 DEF Becomes, Keeps
  <2>5. MindsContext(c)
    BY <2>4 DEF MindsContext, Minding
  <2>6. "final" \in InLoop /\ UNCHANGED phase /\ "final" \notin Showing
    BY <1>14 DEF InLoop, Flushing, Showing, AgentEnded
  <2> QED BY <1>1, <1>5, <2>1, <2>3, <2>4, <2>5, <2>6
<1> QED BY <1>6, <1>7, <1>8, <1>9, <1>10, <1>11, <1>12, <1>13, <1>14

-----------------------------------------------------------------------------
(* The steps before a loop, and the beginnings of calls.                   *)

(* What Snapshot does to its call.                                         *)
LEMMA SnapshotCall ==
  ASSUME Typed, Rooted, NEW c \in Calls, Snapshot(c)
  PROVE  /\ Others(c) /\ Keeps(c) /\ At(c, "snapshot") /\ call'[c].pc \in {"takeNext", "beforeHook"}
         /\ call'[c].error = call[c].error /\ call'[c].hand # <<>>
         /\ call'[c].pc = "takeNext" => Len(call'[c].hand) > 1
         /\ call'[c].context = Context
<1> DEFINE h == UserMessages(nextTurnQueue) \o <<Msg("user", nextMessage)>>
           f == [pc |-> IF nextTurnQueue = <<>> THEN "beforeHook" ELSE "takeNext",
                 context |-> Context, hand |-> h]
<1>0. /\ call \in [Calls -> Local] /\ nextTurnQueue \in Seq(Nat) /\ nextMessage \in Nat
      /\ At(c, "snapshot")
  BY DEF Typed, Snapshot
<1>1. Set(c, f)
  BY DEF Snapshot, UserMessages
<1>2. UserMessages(nextTurnQueue) \in Seq(InHand) /\ <<Msg("user", nextMessage)>> \in Seq(InHand)
      /\ Len(UserMessages(nextTurnQueue)) = Len(nextTurnQueue)
  BY <1>0, UserMessagesType DEF Msg, InHand, ShownKind
<1>3. h \in Seq(InHand) /\ Len(h) = Len(nextTurnQueue) + 1
  BY <1>2
<1>4. (nextTurnQueue # <<>> => Len(h) > 1) /\ h # <<>>
  <2>1. Len(nextTurnQueue) \in Nat /\ (nextTurnQueue # <<>> => Len(nextTurnQueue) # 0)
    BY <1>0
  <2>2. Len(h) # 0 /\ (nextTurnQueue # <<>> => Len(h) > 1)
    BY <1>3, <2>1
  <2> QED BY <1>3, <2>2, EmptySeq
<1> HIDE DEF h
<1>5. Fits(f)
  BY <1>3, ContextIsTyped DEF Fits, Pc, BeforeLoop
<1>6. Others(c) /\ Becomes(c, f)
  BY <1>0, <1>1, <1>5, SetCall
<1>7. /\ Keeps(c) /\ call'[c].pc = (IF nextTurnQueue = <<>> THEN "beforeHook" ELSE "takeNext")
      /\ call'[c].error = call[c].error /\ call'[c].context = Context /\ call'[c].hand = h
  BY <1>6 DEF Becomes, Keeps
<1> QED BY <1>0, <1>4, <1>6, <1>7

(* What NextTaken does to its call.                                        *)
LEMMA NextTakenCall ==
  ASSUME Typed, NEW c \in Calls, NextTaken(c)
  PROVE  /\ Others(c) /\ Keeps(c) /\ At(c, "takeNext") /\ call'[c].pc = "beforeHook"
         /\ call'[c].error = call[c].error /\ call'[c].hand = call[c].hand
         /\ call'[c].context = call[c].context
<1> DEFINE f == [pc |-> "beforeHook"]
<1>1. Set(c, f) /\ At(c, "takeNext") /\ call \in [Calls -> Local]
  BY DEF NextTaken, Typed
<1>2. Fits(f)
  BY DEF Fits, Pc, BeforeLoop
<1>3. Others(c) /\ Becomes(c, f)
  BY <1>1, <1>2, SetCall
<1> QED BY <1>1, <1>3 DEF Becomes, Keeps

(* What RunLoop does to its call.                                          *)
LEMMA RunLoopCall ==
  ASSUME Typed, NEW c \in Calls, RunLoop(c)
  PROVE  /\ Others(c) /\ At(c, "beforeHook") /\ call'[c].pc = "prompts" /\ call'[c].ran
         /\ call'[c].op = call[c].op /\ call'[c].goal = call[c].goal
         /\ call'[c].error = call[c].error /\ call'[c].hand = call[c].hand
         /\ call'[c].context = call[c].context \o call[c].hand
<1> DEFINE x == call[c].context \o call[c].hand
           f == [pc |-> "prompts", ran |-> TRUE, more |-> TRUE, context |-> x]
<1>1. Set(c, f) /\ At(c, "beforeHook") /\ call \in [Calls -> Local]
  BY DEF RunLoop, Typed
<1>2. x \in Seq(Message)
  <2>1. InHand \subseteq Message
    BY DEF InHand, Message, ShownKind, EntryKind
  <2>2. call[c].hand \in Seq(InHand) /\ call[c].context \in Seq(Message)
    BY <1>1 DEF Local
  <2>3. call[c].hand \in Seq(Message)
    BY <2>1, <2>2, SeqMonotonic
  <2> QED BY <2>2, <2>3
<1> HIDE DEF x
<1>3. Fits(f)
  BY <1>2 DEF Fits, Pc, InLoop, Showing
<1>4. Others(c) /\ Becomes(c, f)
  BY <1>1, <1>3, SetCall
<1>5. /\ call'[c].pc = "prompts" /\ call'[c].ran
      /\ call'[c].op = call[c].op /\ call'[c].goal = call[c].goal
      /\ call'[c].error = call[c].error /\ call'[c].hand = call[c].hand
      /\ call'[c].context = x
  BY <1>4 DEF Becomes
<1> QED BY <1>1, <1>4, <1>5 DEF x

(* How a call begins.                                                      *)
BeginsAs(c, op, pc) ==
  /\ Others(c) /\ At(c, "free") /\ MayCall(c, op) /\ phase = "idle"
  /\ call'[c].op = op /\ call'[c].pc = pc
  /\ call'[c].error = call[c].error /\ call'[c].ran = call[c].ran

(* How a prompt begins.                                                    *)
LEMMA PromptCall ==
  ASSUME Typed, NEW c \in Calls, Prompt(c)
  PROVE  BeginsAs(c, "prompt", "snapshot") /\ call'[c].goal = call[c].goal
<1> DEFINE f == [op |-> "prompt", pc |-> "snapshot"]
<1>1. Set(c, f) /\ At(c, "free") /\ call \in [Calls -> Local] /\ MayCall(c, "prompt") /\ phase = "idle"
  BY DEF Prompt, MayCall, Typed
<1>2. Fits(f)
  BY DEF Fits, Pc, BeforeLoop
<1>3. Others(c) /\ Becomes(c, f)
  BY <1>1, <1>2, SetCall
<1> QED BY <1>1, <1>3 DEF Becomes, BeginsAs

(* How an append of an idle setter begins.                                 *)
LEMMA AppendIdleCall ==
  ASSUME Typed, NEW c \in Calls, NEW kind, AppendIdle(c, kind)
  PROVE  BeginsAs(c, "append", "append") /\ call'[c].goal = call[c].goal
<1> DEFINE f == [op |-> "append", pc |-> "append"]
<1>1. Set(c, f) /\ At(c, "free") /\ call \in [Calls -> Local] /\ MayCall(c, "append") /\ phase = "idle"
  BY DEF AppendIdle, MayCall, Typed
<1>2. Fits(f)
  BY DEF Fits, Pc
<1>3. Others(c) /\ Becomes(c, f)
  BY <1>1, <1>2, SetCall
<1> QED BY <1>1, <1>3 DEF Becomes, BeginsAs

(* The ids of the entries and of their parents are known.                  *)
LEMMA KnownIds ==
  ASSUME Typed, Rooted, NEW p \in DOMAIN entries
  PROVE  /\ entries[p].id \in Nat /\ Known(entries[p].id)
         /\ entries[p].parentId \in Nat /\ Known(entries[p].parentId)
<1>1. entries[p] \in SessionEntry
  BY DEF Typed, SessionTypeOK
<1>2. entries[p].parentId < entries[p].id
  BY DEF Rooted, Older
<1> QED BY <1>1, <1>2 DEF SessionEntry, Known

(* How a compaction begins.                                                *)
LEMMA CompactCall ==
  ASSUME Typed, Rooted, NEW c \in Calls, Compact(c)
  PROVE  BeginsAs(c, "compact", "compacting") /\ Known(call'[c].goal) /\ UNCHANGED session
<1>1. PICK e \in ToSet(Path(leafId)) : Set(c, [op |-> "compact", pc |-> "compacting", goal |-> e.id])
  BY DEF Compact
<1>2. PICK p \in DOMAIN entries : e = entries[p]
  <2>1. Path(leafId) \in Seq(ToSet(entries))
    BY ContextIsTyped
  <2>2. e \in ToSet(entries)
    BY <2>1 DEF ToSet
  <2> QED BY <2>2 DEF ToSet
<1> DEFINE f == [op |-> "compact", pc |-> "compacting", goal |-> e.id]
<1>3. e.id \in Nat /\ Known(e.id)
  BY <1>2, KnownIds
<1>4. Fits(f)
  BY <1>3 DEF Fits, Pc, Settling
<1>5. At(c, "free") /\ call \in [Calls -> Local] /\ UNCHANGED session /\ MayCall(c, "compact")
      /\ phase = "idle"
  BY DEF Compact, MayCall, Typed
<1>6. Others(c) /\ Becomes(c, f)
  BY <1>1, <1>4, <1>5, SetCall
<1>7. /\ call'[c].op = "compact" /\ call'[c].pc = "compacting" /\ call'[c].goal = e.id
      /\ call'[c].error = call[c].error /\ call'[c].ran = call[c].ran
  BY <1>6 DEF Becomes
<1> QED BY <1>3, <1>5, <1>6, <1>7 DEF BeginsAs

(* How a navigation begins.                                                *)
LEMMA NavigateCall ==
  ASSUME Typed, Rooted, NEW c \in Calls, NavigateTree(c)
  PROVE  BeginsAs(c, "navigate", "navigating") /\ Known(call'[c].goal) /\ UNCHANGED session
<1>1. PICK e \in ToSet(entries) : Set(c, [op |-> "navigate", pc |-> "navigating",
                  goal |-> IF e.kind \in {"user", "custom"} THEN e.parentId ELSE e.id])
  BY DEF NavigateTree
<1>2. PICK p \in DOMAIN entries : e = entries[p]
  BY DEF ToSet
<1> DEFINE g == IF e.kind \in {"user", "custom"} THEN e.parentId ELSE e.id
           f == [op |-> "navigate", pc |-> "navigating", goal |-> g]
<1>3. g \in Nat /\ Known(g)
  BY <1>2, KnownIds
<1> HIDE DEF g
<1>4. Fits(f)
  BY <1>3 DEF Fits, Pc, Settling
<1>5. At(c, "free") /\ call \in [Calls -> Local] /\ UNCHANGED session /\ MayCall(c, "navigate")
      /\ phase = "idle"
  BY DEF NavigateTree, MayCall, Typed
<1>6. Others(c) /\ Becomes(c, f)
  BY <1>1, <1>4, <1>5, SetCall DEF g
<1>7. /\ call'[c].op = "navigate" /\ call'[c].pc = "navigating" /\ call'[c].goal = g
      /\ call'[c].error = call[c].error /\ call'[c].ran = call[c].ran
  BY <1>6 DEF Becomes
<1> QED BY <1>3, <1>5, <1>6, <1>7 DEF BeginsAs

(* What Summarise does to its call.                                        *)
LEMMA SummariseCall ==
  ASSUME Typed, NEW c \in Calls, Summarise(c)
  PROVE  /\ Others(c) /\ Keeps(c) /\ At(c, "navigating") /\ call'[c].pc = "summarising"
         /\ call'[c].error = call[c].error
<1> DEFINE f == [pc |-> "summarising"]
<1>1. Set(c, f) /\ At(c, "navigating") /\ call \in [Calls -> Local]
  BY DEF Summarise, Typed
<1>2. Fits(f)
  BY DEF Fits, Pc, Settling
<1>3. Others(c) /\ Becomes(c, f)
  BY <1>1, <1>2, SetCall
<1> QED BY <1>1, <1>3 DEF Becomes, Keeps

(* abort() leaves the calls where they are.                                *)
LEMMA AbortCalls ==
  ASSUME Typed, Abort
  PROVE  /\ call' \in [Calls -> Local]
         /\ \A c \in Calls :
              /\ call'[c].op = call[c].op /\ call'[c].pc = call[c].pc
              /\ call'[c].hand = call[c].hand /\ call'[c].context = call[c].context
              /\ call'[c].error = call[c].error /\ call'[c].goal = call[c].goal
              /\ call'[c].ran = call[c].ran
<1>1. call \in [Calls -> Local]
  BY DEF Typed
<1>2. call' = [c \in Calls |->
       IF call[c].pc \in {"steerTaken", "followUpTaken"}
       THEN [call[c] EXCEPT !.stale = TRUE] ELSE call[c]]
  BY DEF Abort
<1>3. ASSUME NEW r \in Local
      PROVE  /\ [r EXCEPT !.stale = TRUE] \in Local
             /\ LET m == [r EXCEPT !.stale = TRUE] IN
                m.op = r.op /\ m.pc = r.pc /\ m.hand = r.hand /\ m.context = r.context
                /\ m.error = r.error /\ m.goal = r.goal /\ m.ran = r.ran
  BY DEF Local
<1>4. ASSUME NEW c \in Calls
      PROVE  call'[c] = call[c] \/ call'[c] = [call[c] EXCEPT !.stale = TRUE]
  BY <1>2
<1>5. ASSUME NEW c \in Calls
      PROVE  /\ call'[c] \in Local
             /\ call'[c].op = call[c].op /\ call'[c].pc = call[c].pc
             /\ call'[c].hand = call[c].hand /\ call'[c].context = call[c].context
             /\ call'[c].error = call[c].error /\ call'[c].goal = call[c].goal
             /\ call'[c].ran = call[c].ran
  BY <1>1, <1>3, <1>4
<1> QED BY <1>2, <1>5

-----------------------------------------------------------------------------
(* Controlled is kept.                                                     *)

(* A step leaves the appends of the other calls alone.                     *)
Elsewhere(c) ==
  /\ \A d \in Calls : d # c => appending'[d] = appending[d]
  /\ refused => refused'

(* No other call is active.                                                *)
Alone(c) == \A d \in Calls : d # c => ~Active(d)

(* A call of patient callers is alone, unless it is an append or its run's *)
(* listeners are heard.                                                    *)
LEMMA AloneInRun ==
  ASSUME Controlled, limits.patient, NEW c \in Calls, Active(c), ~At(c, "append"),
         At(c, "agentEnd") => ListenersDone(c)
  PROVE  Alone(c)
<1> SUFFICES ASSUME NEW d \in Calls, d # c, Active(d) PROVE FALSE
  BY DEF Alone
<1>1. At(d, "append") /\ At(c, "agentEnd")
  BY DEF Controlled
<1>2. call[d].op = "append"
  BY <1>1 DEF Controlled, Placed
<1> QED BY <1>1, <1>2 DEF ListenersDone

(* What a step of one call must do to keep Controlled.                     *)
LEMMA ControlledFrom ==
  ASSUME Controlled, NEW c \in Calls, Others(c), Elsewhere(c), Placed(c)', UNCHANGED limits,
         phase' # "idle" => Busy(c)' \/ (UNCHANGED phase /\ (Busy(c) => Busy(c)')),
         \/ runPromise' = None
         \/ /\ runPromise' = c \/ UNCHANGED runPromise
            /\ runPromise' = c => call'[c].pc \in BeforeLoop \union InLoop,
         \/ runAbortController' = None
         \/ /\ runAbortController' = c \/ UNCHANGED runAbortController
            /\ runAbortController' = c => call'[c].pc \in InLoop,
         runPromise \in Calls \union {None}, runAbortController \in Calls \union {None},
         limits.patient =>
           /\ \/ Alone(c) \/ ~Active(c)'
              \/ At(c, "append")' /\ \A d \in Calls : d # c /\ Active(d) => At(d, "agentEnd")
           /\ call'[c].pc \in BeforeLoop => phase' = "turn"
           /\ Alone(c) \/ UNCHANGED phase
  PROVE  Controlled'
<1>1. \A d \in Calls : d # c => call'[d] = call[d] /\ appending'[d] = appending[d]
  BY DEF Others, Elsewhere
<1>2. ASSUME NEW d \in Calls PROVE Placed(d)'
  <2>1. CASE d = c
    BY <2>1
  <2>2. CASE d # c
    <3>1. Placed(d) /\ call'[d] = call[d] /\ appending'[d] = appending[d] /\ (refused => refused')
      BY <1>1, <2>2 DEF Controlled, Elsewhere
    <3> QED BY <3>1 DEF Placed, At, Active, Appends, AppendFailed
  <2> QED BY <2>1, <2>2
<1>3. phase' # "idle" => \E d \in Calls : Busy(d)'
  <2> SUFFICES ASSUME phase' # "idle", ~Busy(c)' PROVE \E d \in Calls : Busy(d)'
    OBVIOUS
  <2>1. UNCHANGED phase /\ ~Busy(c)
    OBVIOUS
  <2>2. PICK d \in Calls : Busy(d)
    BY <2>1 DEF Controlled
  <2>3. call'[d] = call[d]
    BY <1>1, <2>1, <2>2
  <2> QED BY <2>2, <2>3 DEF Busy, Active, At
<1>4. runPromise' # None => call'[runPromise'].pc \in BeforeLoop \union InLoop
  BY <1>1 DEF Controlled
<1>5. runAbortController' # None => call'[runAbortController'].pc \in InLoop
  BY <1>1 DEF Controlled
<1>6. ASSUME limits.patient, NEW d \in Calls, NEW e \in Calls, Active(d)', Active(e)', d # e
      PROVE  \/ At(d, "append")' /\ At(e, "agentEnd")'
             \/ At(e, "append")' /\ At(d, "agentEnd")'
  <2>1. CASE d # c /\ e # c
    BY <1>1, <1>6, <2>1 DEF Controlled, Active, At
  <2>2. ASSUME NEW x \in Calls, x # c, Active(x)', Active(c)'
        PROVE  At(c, "append")' /\ At(x, "agentEnd")'
    <3>1. Active(x) /\ (At(x, "agentEnd") => At(x, "agentEnd")')
      BY <1>1, <2>2 DEF Active, At
    <3>2. ~Alone(c)
      BY <2>2, <3>1 DEF Alone
    <3> QED BY <1>6, <2>2, <3>1, <3>2
  <2> QED BY <1>6, <2>1, <2>2
<1>7. ASSUME limits.patient, NEW d \in Calls, call'[d].pc \in BeforeLoop PROVE phase' = "turn"
  <2>1. CASE d = c
    BY <1>7, <2>1
  <2>2. CASE d # c
    <3>1. call[d].pc \in BeforeLoop
      BY <1>1, <1>7, <2>2
    <3>2. Active(d) /\ phase = "turn"
      BY <1>7, <3>1 DEF Controlled, Active, BeforeLoop
    <3> QED BY <1>7, <2>2, <3>1, <3>2 DEF Alone
  <2> QED BY <2>1, <2>2
<1> QED BY <1>2, <1>3, <1>4, <1>5, <1>6, <1>7 DEF Controlled

-----------------------------------------------------------------------------
(* The steps of a loop do.                                                 *)
LEMMA ControlledInLoop ==
  ASSUME Typed, Controlled, NEW c \in Calls, StepsInLoop(c)
  PROVE  Controlled'
<1>1. Placed(c) /\ call'[c].pc \in InLoop /\ call[c].pc \in InLoop
  BY DEF Controlled, StepsInLoop
<1>2. Others(c) /\ UNCHANGED limits /\ UNCHANGED <<runPromise, runAbortController>>
  BY DEF StepsInLoop
<1>3. Elsewhere(c) /\ (refused => refused')
  BY DEF StepsInLoop, Elsewhere, session, Commit, Abandon, Typed, SessionTypeOK
<1>4. Active(c) /\ ~At(c, "append") /\ Active(c)' /\ ~At(c, "append")'
      /\ call'[c].pc \notin BeforeLoop /\ call'[c].pc # "takeNext"
  BY <1>1 DEF Active, At, InLoop, Showing, Flushing, Loose, BeforeLoop
<1>5. call[c].op # "append"
  BY <1>1, <1>4 DEF Placed
<1>6. Placed(c)'
  <2>1. call'[c].op # "append" /\ ~Appends(c)' /\ ~AppendFailed(c)'
    BY <1>5 DEF StepsInLoop, Keeps, Appends, AppendFailed, Nobody, Entry
  <2>2. call'[c].ran => call'[c].pc \in InLoop
    BY <1>1
  <2>3. call'[c].pc \in {"takeNext", "beforeHook", "steerTaken", "followUpTaken"} \union Showing
           => call'[c].hand # <<>>
    BY <1>4 DEF StepsInLoop, BeforeLoop
  <2>4. call'[c].error => call'[c].pc = "final"
    BY DEF StepsInLoop
  <2> QED BY <1>4, <2>1, <2>2, <2>3, <2>4 DEF Placed, At
<1>7. phase' # "idle" => Busy(c)' \/ (UNCHANGED phase /\ (Busy(c) => Busy(c)'))
  <2>1. CASE phase' = "idle"
    BY <2>1
  <2>2. CASE UNCHANGED phase /\ call'[c].pc # "agentEnd"
            /\ (call'[c].pc = "final" => call'[c].error \/ At(c, "agentEnd"))
    BY <1>4, <2>2 DEF Busy, At
  <2> QED BY <2>1, <2>2 DEF StepsInLoop
<1>8. limits.patient => Alone(c)
  BY <1>4, AloneInRun DEF StepsInLoop
<1>9. runPromise \in Calls \union {None} /\ runAbortController \in Calls \union {None}
  BY DEF Typed
<1> QED BY <1>1, <1>2, <1>3, <1>4, <1>6, <1>7, <1>8, <1>9, ControlledFrom

(* An append begins, goes on or ends, and the call stays where it is.      *)
StaysAt(c) ==
  /\ UNCHANGED <<phase, call, runPromise, runAbortController, limits>>
  /\ Elsewhere(c)
  /\ Appends(c)' => Appends(c) \/ call[c].pc \in Showing \union Flushing \union Settling
  /\ AppendFailed(c)' => refused'

(* So does a step that leaves its call where it is.                        *)
LEMMA ControlledStay ==
  ASSUME Typed, Controlled, NEW c \in Calls, StaysAt(c)
  PROVE  Controlled'
<1>1. ASSUME NEW d \in Calls PROVE Placed(d)'
  <2>1. Placed(d) /\ call' = call
    BY DEF Controlled, StaysAt
  <2>2. Appends(d)' => call[d].pc \in Showing \union Flushing \union Settling \union {"append"}
    BY <2>1 DEF StaysAt, Elsewhere, Placed, Appends
  <2>3. AppendFailed(d)' => refused'
    BY <2>1 DEF StaysAt, Elsewhere, Placed, AppendFailed
  <2> QED BY <2>1, <2>2, <2>3 DEF Placed, At, Active
<1>2. call' = call /\ UNCHANGED <<phase, runPromise, runAbortController, limits>>
  BY DEF StaysAt
<1> QED BY <1>1, <1>2 DEF Controlled, Busy, Active, At

(* The beginnings of appends, their lines and the flushed writes are such  *)
(* steps.                                                                  *)
LEMMA AppendStays ==
  ASSUME Typed, Controlled, NEW c \in Calls,
         \/ ShowMessage(c) \/ FlushWrite(c) \/ AppendCompaction(c) \/ MoveTo(c)
         \/ AppendSummary(c) \/ WriteFlushed(c) \/ Write(c)
  PROVE  StaysAt(c)
<1>0. appending \in [Calls -> [stage : {"none", "file", "memory", "failed"}, entry : SessionEntry]]
      /\ refused \in BOOLEAN
  BY DEF Typed, SessionTypeOK
<1>1. CASE ShowMessage(c) \/ FlushWrite(c) \/ AppendCompaction(c) \/ MoveTo(c) \/ AppendSummary(c)
  <2>1. PICK kind, item, target, parent : BeginAppendAt(c, kind, item, target, parent)
    BY <1>1 DEF ShowMessage, FlushWrite, AppendCompaction, MoveTo, AppendSummary, BeginAppend
  <2>2. /\ UNCHANGED <<phase, call, runPromise, runAbortController, limits>>
        /\ call[c].pc \in Showing \union Flushing \union Settling
    BY <1>1 DEF ShowMessage, FlushWrite, AppendCompaction, MoveTo, AppendSummary, At, Settling
  <2>3. Elsewhere(c) /\ appending'[c].stage = "file"
    BY <1>0, <2>1 DEF BeginAppendAt, Elsewhere
  <2> QED BY <2>2, <2>3 DEF StaysAt, AppendFailed
<1>2. CASE WriteFlushed(c)
  <2>1. Commit(c) /\ UNCHANGED <<phase, call, runPromise, runAbortController, limits>>
    BY <1>2 DEF WriteFlushed
  <2>2. Elsewhere(c) /\ appending'[c] = Nobody
    BY <1>0, <2>1 DEF Commit, Elsewhere
  <2> QED BY <2>1, <2>2 DEF StaysAt, AppendFailed, Appends, Nobody, Entry
<1>3. CASE Write(c)
  <2>1. UNCHANGED <<phase, call, runPromise, runAbortController, limits>>
    BY <1>3 DEF Write
  <2>2. CASE AppendLine(c)
    <3>1. Elsewhere(c) /\ Appends(c) /\ appending'[c].stage = "memory"
      BY <1>0, <2>2 DEF AppendLine, Elsewhere, Appends, Nobody, Entry
    <3> QED BY <2>1, <3>1 DEF StaysAt, AppendFailed
  <2>3. CASE FailLine(c)
    <3>1. Elsewhere(c) /\ Appends(c) /\ refused'
      BY <1>0, <2>3 DEF FailLine, Elsewhere, Appends, Nobody, Entry
    <3> QED BY <2>1, <3>1 DEF StaysAt, AppendFailed
  <2> QED BY <1>3, <2>2, <2>3 DEF Write
<1> QED BY <1>1, <1>2, <1>3

(* What Controlled needs of its types.                                     *)
LEMMA ControlTypes ==
  ASSUME Typed
  PROVE  /\ runPromise \in Calls \union {None} /\ runAbortController \in Calls \union {None}
         /\ appending \in [Calls -> [stage : {"none", "file", "memory", "failed"},
                                     entry : SessionEntry]]
         /\ refused \in BOOLEAN
BY DEF Typed, SessionTypeOK

(* A step that leaves the session alone leaves every append alone.         *)
LEMMA Untouched ==
  ASSUME NEW c \in Calls, UNCHANGED session
  PROVE  Elsewhere(c) /\ (Appends(c)' <=> Appends(c)) /\ (AppendFailed(c)' <=> AppendFailed(c))
         /\ refused' = refused
BY DEF session, Elsewhere, Appends, AppendFailed

(* An append that ends leaves the others alone.                            *)
LEMMA Ended ==
  ASSUME Typed, NEW c \in Calls, Commit(c) \/ Abandon(c)
  PROVE  Elsewhere(c) /\ ~Appends(c)' /\ ~AppendFailed(c)' /\ refused' = refused /\ Appends(c)
<1>1. appending \in [Calls -> [stage : {"none", "file", "memory", "failed"}, entry : SessionEntry]]
  BY DEF Typed, SessionTypeOK
<1>2. appending' = [appending EXCEPT ![c] = Nobody] /\ refused' = refused
      /\ appending[c].stage # "none"
  BY DEF Commit, Abandon, Committing, AppendFailed
<1> QED BY <1>1, <1>2 DEF Elsewhere, Appends, AppendFailed, Nobody, Entry

(* Before the loop of a prompt.                                            *)
LEMMA ControlledBeforeLoop ==
  ASSUME Typed, Rooted, Controlled, NEW c \in Calls, Snapshot(c) \/ NextTaken(c) \/ RunLoop(c)
  PROVE  Controlled'
<1>1. Placed(c) /\ call[c].pc \in BeforeLoop
  BY DEF Controlled, Snapshot, NextTaken, RunLoop, At, BeforeLoop
<1>2. /\ Others(c) /\ call'[c].op = call[c].op /\ call'[c].error = call[c].error /\ call'[c].hand # <<>>
      /\ \/ call'[c].pc \in {"takeNext", "beforeHook"} /\ call'[c].ran = call[c].ran
            /\ (call'[c].pc = "takeNext" => Len(call'[c].hand) > 1)
         \/ call'[c].pc = "prompts"
  BY <1>1, SnapshotCall, NextTakenCall, RunLoopCall DEF Keeps, Placed, At
<1>3. /\ UNCHANGED <<phase, runPromise, limits>> /\ UNCHANGED session
      /\ runAbortController' = c \/ UNCHANGED runAbortController
      /\ runAbortController' = c => call'[c].pc = "prompts" \/ runAbortController = c
  BY <1>2, RunLoopCall DEF Snapshot, NextTaken, RunLoop
<1>4. Active(c) /\ ~At(c, "append") /\ ~At(c, "agentEnd") /\ call[c].pc \notin InLoop /\ ~At(c, "final")
      /\ call[c].pc \notin Showing \union Flushing \union Settling \union {"append"}
  BY <1>1 DEF Active, At, InLoop, Showing, Flushing, Loose, BeforeLoop, Settling
<1>5. Active(c)' /\ ~At(c, "append")' /\ call[c].op # "append" /\ Busy(c)'
  BY <1>1, <1>2, <1>4 DEF Active, At, Placed, Busy
<1>6. Elsewhere(c) /\ ~Appends(c)' /\ (AppendFailed(c)' <=> AppendFailed(c)) /\ refused' = refused
  BY <1>1, <1>3, <1>4, Untouched DEF Placed
<1>7. Placed(c)'
  <2>2. ~call'[c].error
    BY <1>1, <1>2, <1>4 DEF Placed
  <2>3. call'[c].ran => call'[c].pc \in InLoop
    BY <1>1, <1>2, <1>4 DEF Placed, InLoop, Showing, At, BeforeLoop
  <2>4. ~AppendFailed(c)'
    BY <1>6, ControlTypes, Untouched, <1>3 DEF AppendFailed, Appends, Nobody, Entry
  <2> QED BY <1>2, <1>5, <1>6, <2>2, <2>3, <2>4 DEF Placed, At
<1>8. limits.patient => Alone(c) /\ phase = "turn"
  BY <1>1, <1>4, AloneInRun DEF Controlled
<1>9. runAbortController # c
  BY <1>4, HarnessAssumption DEF Controlled
<1>10. call'[c].pc \in BeforeLoop \union InLoop
  BY <1>2 DEF BeforeLoop, InLoop, Showing
<1>11. runAbortController' = c => call'[c].pc \in InLoop
  BY <1>3, <1>9 DEF InLoop, Showing
<1> QED BY <1>2, <1>3, <1>5, <1>6, <1>7, <1>8, <1>10, <1>11, ControlTypes, ControlledFrom

(* A call that returns, and leaves nothing of its own behind, keeps        *)
(* Controlled.                                                             *)
LEMMA LeavesQuietly ==
  ASSUME Typed, Controlled, NEW c \in Calls, Finish(c), Elsewhere(c), ~Appends(c)', ~AppendFailed(c)',
         UNCHANGED limits, Active(c),
         phase' = "idle" \/ (UNCHANGED phase /\ ~Busy(c)),
         limits.patient => Alone(c) \/ UNCHANGED phase,
         \/ runPromise' = None
         \/ UNCHANGED runPromise /\ call[c].pc \notin BeforeLoop \union InLoop,
         \/ runAbortController' = None
         \/ UNCHANGED runAbortController /\ call[c].pc \notin InLoop
  PROVE  Controlled'
<1>1. /\ Others(c) /\ call'[c].pc = "done" /\ call'[c].op = call[c].op /\ call'[c].ran = call[c].ran
      /\ ~call'[c].error
  BY FinishCall DEF Typed
<1>2. ~Active(c)' /\ ~At(c, "append")' /\ call'[c].pc \notin BeforeLoop
  BY <1>1 DEF Active, At, BeforeLoop
<1>3. Placed(c)'
  BY <1>1, <1>2 DEF Placed, Showing, At
<1>4. runAbortController # None => runAbortController \in Calls /\ call[runAbortController].pc \in InLoop
  BY ControlTypes DEF Controlled
<1>5. \/ runAbortController' = None
      \/ UNCHANGED runAbortController /\ runAbortController # c
  BY <1>4, HarnessAssumption
<1>6. runPromise' = None \/ (UNCHANGED runPromise /\ runPromise # c)
  BY HarnessAssumption, ControlTypes DEF Controlled
<1>7. limits.patient => Alone(c) \/ UNCHANGED phase
  OBVIOUS
<1>8. phase' # "idle" => (UNCHANGED phase /\ (Busy(c) => Busy(c)'))
  OBVIOUS
<1> QED BY <1>1, <1>2, <1>3, <1>5, <1>6, <1>7, <1>8, ControlTypes, ControlledFrom

(* A call returns.                                                         *)
LEMMA ControlledReturn ==
  ASSUME Typed, Controlled, NEW c \in Calls,
         \/ SnapshotThrows(c) \/ NextGivenBack(c) \/ BeforeHookThrows(c)
         \/ Return(c) \/ AppendedIdle(c) \/ Settle(c)
  PROVE  Controlled'
<1>0. Placed(c)
  BY DEF Controlled
<1>1. CASE SnapshotThrows(c) \/ NextGivenBack(c) \/ BeforeHookThrows(c)
  <2>1. /\ call[c].pc \in BeforeLoop /\ Finish(c) /\ phase' = "idle" /\ runPromise' = None
        /\ UNCHANGED session /\ UNCHANGED <<runAbortController, limits>>
    BY <1>1 DEF SnapshotThrows, NextGivenBack, BeforeHookThrows, Reject, BeforeLoop, At
  <2>2. Active(c) /\ ~At(c, "append") /\ ~At(c, "agentEnd") /\ call[c].pc \notin InLoop
        /\ call[c].pc \notin Showing \union Flushing \union Settling \union {"append"}
    BY <2>1 DEF Active, At, InLoop, Showing, Flushing, Loose, BeforeLoop, Settling
  <2>3. ~Appends(c)
    BY <1>0, <2>2 DEF Placed
  <2>4. Elsewhere(c) /\ ~Appends(c)' /\ ~AppendFailed(c)'
    BY <2>1, <2>3, Untouched DEF AppendFailed, Appends, Nobody, Entry
  <2>5. limits.patient => Alone(c)
    BY <2>2, AloneInRun
  <2> QED BY <2>1, <2>2, <2>4, <2>5, LeavesQuietly
<1>2. CASE Return(c)
  <2>1. /\ At(c, "final") /\ Finish(c) /\ runPromise' = None /\ runAbortController' = None
        /\ UNCHANGED limits
        /\ \/ ~Appends(c) /\ UNCHANGED session /\ phase' = (IF call[c].error THEN "idle" ELSE phase)
           \/ Abandon(c) /\ phase' = "idle"
    BY <1>2 DEF Return, Flushed
  <2>2. Active(c) /\ ~At(c, "append") /\ ~At(c, "agentEnd")
    BY <2>1 DEF Active, At
  <2>3. Elsewhere(c) /\ ~Appends(c)' /\ ~AppendFailed(c)'
    BY <2>1, Untouched, Ended DEF AppendFailed, Appends, Nobody, Entry
  <2>4. limits.patient => Alone(c)
    BY <2>2, AloneInRun
  <2>5. phase' = "idle" \/ (UNCHANGED phase /\ ~Busy(c))
    BY <2>1 DEF Busy
  <2> QED BY <2>1, <2>2, <2>3, <2>4, <2>5, LeavesQuietly
<1>3. CASE AppendedIdle(c)
  <2>1. /\ At(c, "append") /\ (Commit(c) \/ Abandon(c)) /\ Finish(c)
        /\ UNCHANGED <<phase, runPromise, runAbortController, limits>>
    BY <1>3 DEF AppendedIdle
  <2>2. Active(c) /\ ~Busy(c) /\ call[c].pc \notin BeforeLoop \union InLoop
    BY <2>1 DEF Active, At, Busy, InLoop, Showing, Flushing, Loose, BeforeLoop
  <2>3. Elsewhere(c) /\ ~Appends(c)' /\ ~AppendFailed(c)'
    BY <2>1, Ended
  <2> QED BY <2>1, <2>2, <2>3, LeavesQuietly
<1>4. CASE Settle(c)
  <2>1. /\ call[c].pc \in Settling /\ Finish(c) /\ phase' = "idle"
        /\ UNCHANGED <<runPromise, runAbortController, limits>>
        /\ (~Appends(c) /\ UNCHANGED session) \/ Commit(c) \/ Abandon(c)
    BY <1>4 DEF Settle, Settling
  <2>2. Active(c) /\ ~At(c, "append") /\ ~At(c, "agentEnd")
        /\ call[c].pc \notin BeforeLoop \union InLoop
    BY <2>1 DEF Active, At, InLoop, Showing, Flushing, Loose, Settling, BeforeLoop
  <2>3. Elsewhere(c) /\ ~Appends(c)' /\ ~AppendFailed(c)'
    BY <2>1, Untouched, Ended DEF AppendFailed, Appends, Nobody, Entry
  <2>4. limits.patient => Alone(c)
    BY <2>2, AloneInRun
  <2> QED BY <2>1, <2>2, <2>3, <2>4, LeavesQuietly
<1> QED BY <1>1, <1>2, <1>3, <1>4

(* A navigation that goes on to its summary keeps Controlled.              *)
LEMMA ControlledSummarise ==
  ASSUME Typed, Controlled, NEW c \in Calls, Summarise(c)
  PROVE  Controlled'
<1>1. /\ Others(c) /\ Keeps(c) /\ At(c, "navigating") /\ call'[c].pc = "summarising"
      /\ call'[c].error = call[c].error
  BY SummariseCall
<1>2. Commit(c) /\ UNCHANGED <<phase, runPromise, runAbortController, limits>>
  BY DEF Summarise
<1>3. Elsewhere(c) /\ ~Appends(c)' /\ ~AppendFailed(c)' /\ Placed(c)
  BY <1>2, Ended DEF Controlled
<1>4. Active(c) /\ ~At(c, "append") /\ ~At(c, "agentEnd") /\ ~At(c, "final")
      /\ call[c].pc \notin BeforeLoop \union InLoop \union {"done"}
  BY <1>1 DEF Active, At, BeforeLoop, InLoop, Showing, Flushing, Loose
<1>5. Placed(c)'
  BY <1>1, <1>3, <1>4 DEF Placed, Keeps, At, Active, Showing
<1>6. Busy(c)'
  BY <1>1 DEF Busy, Active, At
<1>7. limits.patient => Alone(c)
  BY <1>4, AloneInRun
<1>8. runPromise # c /\ runAbortController # c
  BY <1>4, HarnessAssumption DEF Controlled
<1>9. call'[c].pc \notin BeforeLoop
  BY <1>1 DEF BeforeLoop
<1> QED BY <1>1, <1>2, <1>3, <1>5, <1>6, <1>7, <1>8, <1>9, ControlTypes, ControlledFrom

(* A call that begins keeps Controlled.                                    *)
LEMMA ControlledBegin ==
  ASSUME Typed, Rooted, Controlled, NEW c \in Calls, Begin(c)
  PROVE  Controlled'
<1>0. Placed(c) /\ (Begin(c) => At(c, "free"))
  BY DEF Controlled, Begin, Prompt, Compact, NavigateTree, AppendIdle, MayCall
<1>1. At(c, "free") /\ ~Active(c) /\ call[c].pc \notin BeforeLoop \union InLoop /\ ~At(c, "agentEnd")
      /\ call[c].pc \notin Showing \union Flushing \union Settling \union {"append"}
      /\ ~At(c, "final") /\ ~At(c, "done")
  BY <1>0 DEF Active, At, BeforeLoop, InLoop, Showing, Flushing, Loose, Settling
<1>2. runPromise # c /\ runAbortController # c /\ ~call[c].error /\ ~call[c].ran /\ ~Appends(c)
  BY <1>0, <1>1, HarnessAssumption DEF Controlled, Placed, At
<1>3. CASE Prompt(c) \/ Compact(c) \/ NavigateTree(c)
  <2>1. PICK op, pc : /\ BeginsAs(c, op, pc) /\ op # "append"
                      /\ pc \in {"snapshot", "compacting", "navigating"}
                      /\ pc = "snapshot" => Prompt(c)
    BY <1>3, PromptCall, CompactCall, NavigateCall
  <2>2. /\ Others(c) /\ call'[c].op = op /\ call'[c].pc = pc /\ ~call'[c].error /\ ~call'[c].ran
        /\ MayCall(c, op)
    BY <1>2, <2>1 DEF BeginsAs
  <2>3. /\ UNCHANGED <<session, runAbortController, limits>>
        /\ (runPromise' = c /\ pc = "snapshot" /\ phase' = "turn") \/ UNCHANGED runPromise
    BY <1>3, <2>1, <2>2, PromptCall DEF Prompt, Compact, NavigateTree, BeginsAs
  <2>4. pc = "snapshot" => phase' = "turn"
    BY <2>1 DEF Prompt
  <2>5. Elsewhere(c) /\ ~Appends(c)' /\ ~AppendFailed(c)'
    BY <1>2, <2>3, Untouched DEF AppendFailed, Appends, Nobody, Entry
  <2>6. Placed(c)'
    BY <2>1, <2>2, <2>5 DEF Placed, At, Active, Showing
  <2>7. Busy(c)' /\ (runPromise' = c => call'[c].pc \in BeforeLoop \union InLoop)
    BY <1>2, <2>1, <2>2, <2>3 DEF Busy, Active, At, BeforeLoop
  <2>8. limits.patient => Alone(c)
    BY <2>1, <2>2 DEF MayCall, Alone
  <2>9. call'[c].pc \in BeforeLoop => phase' = "turn"
    BY <2>1, <2>2, <2>4 DEF BeforeLoop
  <2> QED BY <1>2, <2>2, <2>3, <2>5, <2>6, <2>7, <2>8, <2>9, ControlTypes, ControlledFrom
<1>4. ASSUME NEW kind, AppendIdle(c, kind) PROVE Controlled'
  <2>1. BeginsAs(c, "append", "append")
    BY <1>4, AppendIdleCall
  <2>2. /\ Others(c) /\ call'[c].op = "append" /\ call'[c].pc = "append" /\ ~call'[c].error
        /\ ~call'[c].ran /\ MayCall(c, "append")
    BY <1>2, <2>1 DEF BeginsAs
  <2>3. UNCHANGED <<phase, runPromise, runAbortController, limits>>
        /\ BeginAppendAt(c, kind, nextWrite, 0, leafId)
    BY <1>4 DEF AppendIdle, BeginAppend
  <2>4. Elsewhere(c) /\ ~AppendFailed(c)'
    BY <2>3, ControlTypes DEF BeginAppendAt, Elsewhere, AppendFailed
  <2>5. Placed(c)'
    BY <2>2, <2>4 DEF Placed, At, Active, Showing
  <2>6. ~Busy(c)
    BY <1>1 DEF Busy
  <2>7. limits.patient => At(c, "append")' /\ \A d \in Calls : d # c /\ Active(d) => At(d, "agentEnd")
    BY <2>2 DEF MayCall, At
  <2>8. call'[c].pc \notin BeforeLoop
    BY <2>2 DEF BeforeLoop
  <2> QED BY <1>2, <2>2, <2>3, <2>4, <2>5, <2>6, <2>7, <2>8, ControlTypes, ControlledFrom
<1> QED BY <1>3, <1>4 DEF Begin

(* What others do meanwhile keeps Controlled.                              *)
LEMMA ControlledElsewhere ==
  ASSUME Typed, Controlled, Reenter \/ UNCHANGED vars
  PROVE  Controlled'
<1>1. UNCHANGED <<session, phase, runPromise, runAbortController, limits>>
  BY DEF Reenter, Steer, FollowUp, NextTurn, Ask, Abort, AcceptWrite, vars
<1>2. UNCHANGED <<appending, refused>>
  BY <1>1 DEF session
<1>3. ASSUME NEW c \in Calls
      PROVE  /\ call'[c].op = call[c].op /\ call'[c].pc = call[c].pc
             /\ call'[c].hand = call[c].hand /\ call'[c].context = call[c].context
             /\ call'[c].error = call[c].error /\ call'[c].goal = call[c].goal
             /\ call'[c].ran = call[c].ran
  <2>1. CASE Abort
    BY <2>1, AbortCalls
  <2>2. CASE ~Abort
    <3>1. UNCHANGED call
      BY <2>2 DEF Reenter, Steer, FollowUp, NextTurn, Ask, AcceptWrite, vars
    <3> QED BY <3>1
  <2> QED BY <2>1, <2>2
<1>4. ASSUME NEW c \in Calls PROVE Placed(c)'
  BY <1>2, <1>3 DEF Controlled, Placed, At, Active, Appends, AppendFailed
<1>5. phase' # "idle" => \E c \in Calls : Busy(c)'
  BY <1>1, <1>3 DEF Controlled, Busy, At, Active
<1>6. /\ runPromise' # None => call'[runPromise'].pc \in BeforeLoop \union InLoop
      /\ runAbortController' # None => call'[runAbortController'].pc \in InLoop
  BY <1>1, <1>3, ControlTypes DEF Controlled
<1>7. limits'.patient =>
       /\ \A c, d \in Calls : (Active(c)' /\ Active(d)' /\ c # d) =>
            \/ At(c, "append")' /\ At(d, "agentEnd")'
            \/ At(d, "append")' /\ At(c, "agentEnd")'
       /\ \A c \in Calls : call'[c].pc \in BeforeLoop => phase' = "turn"
  BY <1>1, <1>3 DEF Controlled, At, Active
<1> QED BY <1>4, <1>5, <1>6, <1>7 DEF Controlled

(* Every step keeps Controlled: the phase, the promise and the controller  *)
(* stay with the call that answers for them.                               *)
LEMMA ControlledStep ==
  ASSUME Typed, Rooted, Controlled, [Next]_vars
  PROVE  Controlled'
<1>1. ASSUME NEW c \in Calls, Begin(c) PROVE Controlled'
  BY <1>1, ControlledBegin
<1>2. ASSUME NEW c \in Calls, GoOn(c) PROVE Controlled'
  <2>1. CASE \/ ShowMessage(c) \/ FlushWrite(c) \/ AppendCompaction(c) \/ MoveTo(c)
             \/ AppendSummary(c) \/ WriteFlushed(c) \/ Write(c)
    BY <2>1, AppendStays, ControlledStay
  <2>2. CASE Shown(c)
    BY <2>2, ShownSteps, ControlledInLoop
  <2>3. CASE \/ ShowThrows(c) \/ AnswerThrows(c) \/ FlushFails(c) \/ SavePointThrows(c)
             \/ PrepareThrows(c) \/ PollThrows(c) \/ AgentEndThrows(c)
    BY <2>3, ThrowSteps, ControlledInLoop
  <2>4. CASE \/ Answer(c) \/ TurnEnd(c) \/ SavePoint(c) \/ PrepareNextTurn(c) \/ PollSteering(c)
             \/ PollFollowUp(c) \/ Polled(c) \/ GoIdle(c) \/ AgentEnded(c)
    BY <2>4, PlainSteps, ControlledInLoop
  <2>5. CASE Snapshot(c) \/ NextTaken(c) \/ RunLoop(c)
    BY <2>5, ControlledBeforeLoop
  <2>6. CASE \/ SnapshotThrows(c) \/ NextGivenBack(c) \/ BeforeHookThrows(c)
             \/ Return(c) \/ AppendedIdle(c) \/ Settle(c)
    BY <2>6, ControlledReturn
  <2>7. CASE Summarise(c)
    BY <2>7, ControlledSummarise
  <2> QED BY <1>2, <2>1, <2>2, <2>3, <2>4, <2>5, <2>6, <2>7 DEF GoOn, Loop
<1> QED BY <1>1, <1>2, ControlledElsewhere DEF Next

-----------------------------------------------------------------------------
(* Typed and Rooted are kept.                                              *)

(* What a step of a call does to the session.                              *)
Opens(c) ==
  \E kind \in EntryKind, item \in Nat, target \in Nat, parent \in Nat :
    /\ Known(target) /\ Known(parent)
    /\ BeginAppendAt(c, kind, item, target, parent)
(* A step of a call does one thing to the session.                         *)
SessionMove(c) ==
  \/ UNCHANGED session \/ Opens(c)
  \/ AppendLine(c) \/ FailLine(c) \/ Commit(c) \/ Abandon(c)

(* An append begun at the leaf or the goal points to known ids.            *)
LEMMA Opening ==
  ASSUME Typed, Rooted, NEW c \in Calls, NEW kind \in EntryKind, NEW item \in Nat,
         NEW target, target = 0 \/ target = call[c].goal,
         NEW parent, parent = leafId \/ parent = call[c].goal,
         BeginAppendAt(c, kind, item, target, parent)
  PROVE  SessionMove(c)
<1>1. call[c].goal \in Nat /\ leafId \in Nat
  BY DEF Typed, SessionTypeOK, Local
<1>2. Known(call[c].goal) /\ Known(leafId) /\ Known(0)
  BY DEF Rooted, Known
<1>3. target \in Nat /\ parent \in Nat /\ Known(target) /\ Known(parent)
  BY <1>1, <1>2
<1> QED BY <1>3 DEF SessionMove, Opens

(* Every step of a call is such a move.                                    *)
LEMMA SessionMoves ==
  ASSUME Typed, Rooted, Controlled, NEW c \in Calls, Begin(c) \/ GoOn(c)
  PROVE  SessionMove(c)
<1>0. Placed(c) /\ call[c] \in Local
  BY DEF Typed, Controlled
<1>1. CASE ShowMessage(c)
  <2>1. call[c].hand \in Seq(InHand) /\ call[c].hand # <<>>
    BY <1>0, <1>1 DEF Local, Placed, ShowMessage
  <2>2. Head(call[c].hand) \in InHand
    BY <2>1
  <2>3. Head(call[c].hand).kind \in EntryKind /\ Head(call[c].hand).item \in Nat
    BY <2>2 DEF InHand, ShownKind, EntryKind
  <2> QED BY <1>1, <2>3, Opening DEF ShowMessage, BeginAppend
<1>2. CASE FlushWrite(c)
  <2>1. pendingSessionWrites \in Seq(Waiting) /\ pendingSessionWrites # <<>>
    BY <1>2 DEF Typed, FlushWrite
  <2>2. Head(pendingSessionWrites) \in Waiting
    BY <2>1
  <2>3. Head(pendingSessionWrites).kind \in EntryKind /\ Head(pendingSessionWrites).item \in Nat
    BY <2>2 DEF Waiting, EntryKind
  <2> QED BY <1>2, <2>3, Opening DEF FlushWrite, BeginAppend
<1>3. CASE AppendCompaction(c)
  BY <1>3, Opening DEF AppendCompaction, BeginAppend, EntryKind
<1>4. CASE MoveTo(c)
  BY <1>4, Opening DEF MoveTo, BeginAppend, EntryKind
<1>5. CASE AppendSummary(c)
  BY <1>5, Opening DEF AppendSummary, BeginAppend, EntryKind
<1>6. CASE Begin(c)
  <2>1. CASE Prompt(c) \/ Compact(c) \/ NavigateTree(c)
    BY <2>1 DEF Prompt, Compact, NavigateTree, SessionMove
  <2>2. ASSUME NEW kind \in WriteKinds, AppendIdle(c, kind) PROVE SessionMove(c)
    <3>1. kind \in EntryKind /\ nextWrite \in Nat
      BY HarnessAssumption DEF EntryKind, Typed
    <3> QED BY <2>2, <3>1, Opening DEF AppendIdle, BeginAppend
  <2> QED BY <1>6, <2>1, <2>2 DEF Begin
<1>7. CASE Write(c) \/ WriteFlushed(c) \/ Return(c) \/ AppendedIdle(c) \/ Summarise(c) \/ Settle(c)
  BY <1>7 DEF Write, WriteFlushed, Return, AppendedIdle, Summarise, Settle, SessionMove
<1>8. CASE \/ Shown(c) \/ ShowThrows(c) \/ AnswerThrows(c) \/ FlushFails(c) \/ SavePointThrows(c)
           \/ PrepareThrows(c) \/ PollThrows(c) \/ AgentEndThrows(c)
           \/ Answer(c) \/ TurnEnd(c) \/ SavePoint(c) \/ PrepareNextTurn(c) \/ PollSteering(c)
           \/ PollFollowUp(c) \/ Polled(c) \/ GoIdle(c) \/ AgentEnded(c)
  <2>1. StepsInLoop(c)
    BY <1>8, ShownSteps, ThrowSteps, PlainSteps
  <2> QED BY <2>1 DEF StepsInLoop, SessionMove
<1>9. CASE \/ Snapshot(c) \/ NextTaken(c) \/ RunLoop(c)
           \/ SnapshotThrows(c) \/ NextGivenBack(c) \/ BeforeHookThrows(c)
  BY <1>9 DEF Snapshot, NextTaken, RunLoop, SnapshotThrows, NextGivenBack, BeforeHookThrows, SessionMove
<1> QED BY <1>1, <1>2, <1>3, <1>4, <1>5, <1>6, <1>7, <1>8, <1>9 DEF GoOn, Loop

(* What is known is older than a fresh id.                                 *)
LEMMA KnownOlder ==
  ASSUME Typed, NEW n \in Nat, Known(n)
  PROVE  n < FreshId
<1>1. FreshId \in Nat \ {0} /\ \A p \in DOMAIN entries : entries[p].id < FreshId
  BY FreshIdIsFresh DEF Typed
<1>2. \A p \in DOMAIN entries : entries[p].id \in Nat
  <2>1. \A p \in DOMAIN entries : entries[p] \in SessionEntry
    BY DEF Typed, SessionTypeOK
  <2> QED BY <2>1 DEF SessionEntry
<1> QED BY <1>1, <1>2 DEF Known

(* The entry of an append that begins is fresh, newer than what it points  *)
(* to.                                                                     *)
LEMMA Opened ==
  ASSUME Typed, NEW c \in Calls, Opens(c)
  PROVE  /\ appending'[c].stage = "file" /\ appending'[c].entry \in SessionEntry
         /\ Older(appending'[c].entry) /\ appending'[c].entry.id = FreshId
         /\ appending' = [appending EXCEPT ![c] = appending'[c]]
<1>1. PICK kind \in EntryKind, item \in Nat, target \in Nat, parent \in Nat :
    /\ Known(target) /\ Known(parent)
    /\ BeginAppendAt(c, kind, item, target, parent)
  BY DEF Opens
<1>2. FreshId \in Nat \ {0} /\ target < FreshId /\ parent < FreshId
  BY <1>1, KnownOlder, FreshIdIsFresh DEF Typed
<1>3. appending'[c] = [stage |-> "file", entry |-> Entry(kind, FreshId, parent, item, target)]
      /\ appending' = [appending EXCEPT ![c] = appending'[c]]
  BY <1>1 DEF BeginAppendAt, Typed, SessionTypeOK
<1> HIDE DEF FreshId
<1> QED BY <1>2, <1>3 DEF Entry, SessionEntry, Older

(* A move keeps the types of the session.                                  *)
LEMMA SessionStays ==
  ASSUME Typed, NEW c \in Calls, SessionMove(c)
  PROVE  SessionTypeOK'
<1>0. SessionTypeOK
  BY DEF Typed
<1> DEFINE Stages == {"none", "file", "memory", "failed"}
<1>1. Nobody \in [stage : Stages, entry : SessionEntry]
  BY DEF Nobody, Entry, SessionEntry, EntryKind
<1>2. CASE UNCHANGED session
  BY <1>0, <1>2 DEF session, SessionTypeOK
<1>3. CASE Opens(c)
  <2>1. appending'[c].stage = "file" /\ appending'[c].entry \in SessionEntry
        /\ appending' = [appending EXCEPT ![c] = appending'[c]]
    BY <1>3, Opened
  <2>2. UNCHANGED <<file, entries, leafId, refused>> /\ overlapped' \in BOOLEAN
        /\ \E e : appending'[c] = [stage |-> "file", entry |-> e]
    BY <1>0, <1>3 DEF Opens, BeginAppendAt, SessionTypeOK
  <2>3. appending'[c] \in [stage : Stages, entry : SessionEntry]
    BY <2>1, <2>2
  <2>4. appending' \in [Calls -> [stage : Stages, entry : SessionEntry]]
    BY <1>0, <2>1, <2>3 DEF SessionTypeOK
  <2> QED BY <1>0, <2>2, <2>4 DEF SessionTypeOK
<1>4. CASE AppendLine(c)
  <2>1. Append(file, appending[c].entry) \in Seq(SessionEntry)
    BY <1>0 DEF SessionTypeOK
  <2>2. appending' \in [Calls -> [stage : Stages, entry : SessionEntry]]
    BY <1>0, <1>4 DEF SessionTypeOK, AppendLine
  <2> QED BY <1>0, <1>4, <2>1, <2>2 DEF AppendLine, SessionTypeOK
<1>5. CASE FailLine(c)
  <2>2. appending' \in [Calls -> [stage : Stages, entry : SessionEntry]]
    BY <1>0, <1>5 DEF SessionTypeOK, FailLine
  <2> QED BY <1>0, <1>5, <2>2 DEF FailLine, SessionTypeOK
<1>6. CASE Commit(c)
  <2>1. appending[c].entry \in SessionEntry
    BY <1>0 DEF SessionTypeOK
  <2>2. Append(entries, appending[c].entry) \in Seq(SessionEntry)
        /\ LeafAfter(appending[c].entry) \in Nat
    BY <1>0, <2>1 DEF SessionTypeOK, LeafAfter, SessionEntry
  <2>3. appending' \in [Calls -> [stage : Stages, entry : SessionEntry]]
    BY <1>0, <1>1, <1>6 DEF SessionTypeOK, Commit
  <2> QED BY <1>0, <1>6, <2>2, <2>3 DEF Commit, SessionTypeOK
<1>7. CASE Abandon(c)
  <2>3. appending' \in [Calls -> [stage : Stages, entry : SessionEntry]]
    BY <1>0, <1>1, <1>7 DEF SessionTypeOK, Abandon
  <2> QED BY <1>0, <1>7, <2>3 DEF Abandon, SessionTypeOK
<1> QED BY <1>2, <1>3, <1>4, <1>5, <1>6, <1>7 DEF SessionMove

(* A sequence with one more element.                                       *)
LEMMA AppendedTo ==
  ASSUME NEW S, NEW s \in Seq(S), NEW e \in S
  PROVE  /\ Append(s, e) \in Seq(S) /\ Len(Append(s, e)) = Len(s) + 1
         /\ DOMAIN s = 1..Len(s) /\ DOMAIN Append(s, e) = 1..(Len(s) + 1)
         /\ Len(s) + 1 \in DOMAIN Append(s, e)
         /\ Append(s, e)[Len(s) + 1] = e
         /\ \A p \in DOMAIN s : p \in DOMAIN Append(s, e) /\ Append(s, e)[p] = s[p]
         /\ \A p \in DOMAIN Append(s, e) : p \in DOMAIN s \/ p = Len(s) + 1
OBVIOUS

(* What is known stays known.                                              *)
LEMMA KnownStays ==
  ASSUME Typed, NEW c \in Calls, SessionMove(c), NEW n \in Nat, Known(n)
  PROVE  Known(n)'
<1>1. CASE Commit(c)
  <2>1. entries \in Seq(SessionEntry) /\ appending[c].entry \in SessionEntry
        /\ entries' = Append(entries, appending[c].entry)
    BY <1>1 DEF Typed, SessionTypeOK, Commit
  <2>2. \A p \in DOMAIN entries : p \in DOMAIN entries' /\ entries'[p] = entries[p]
    BY <2>1, AppendedTo
  <2> QED BY <2>2 DEF Known
<1>2. CASE ~Commit(c)
  <2>1. UNCHANGED entries
    BY <1>2 DEF SessionMove, session, Opens, BeginAppendAt, AppendLine, FailLine, Abandon
  <2> QED BY <2>1 DEF Known
<1> QED BY <1>1, <1>2

(* A move of the session keeps the tree rooted.                            *)
LEMMA RootedStays ==
  ASSUME Typed, Rooted, NEW c \in Calls, SessionMove(c), call' \in [Calls -> Local],
         \A d \in Calls : call'[d].goal = call[d].goal \/ Known(call'[d].goal)
  PROVE  Rooted'
<1>1. ASSUME NEW n \in Nat, Known(n)
      PROVE  n = 0 \/ \E p \in DOMAIN entries' : n <= entries'[p].id
  BY <1>1, KnownStays DEF Known
<1>2. ASSUME NEW d \in Calls PROVE Known(call[d].goal)'
  <2>1. Known(call'[d].goal) /\ call'[d].goal \in Nat
    BY DEF Rooted, Local
  <2> QED BY <1>1, <2>1 DEF Known
<1>3. /\ entries \in Seq(SessionEntry) /\ leafId \in Nat
      /\ appending \in [Calls -> [stage : {"none", "file", "memory", "failed"}, entry : SessionEntry]]
  BY DEF Typed, SessionTypeOK
<1>4. CASE Commit(c)
  <2> DEFINE e == appending[c].entry
  <2>1. Older(e) /\ e \in SessionEntry
    BY <1>3, <1>4 DEF Rooted, Commit, Committing, Appends, Nobody, Entry
  <2>2. entries' = Append(entries, e) /\ leafId' = LeafAfter(e)
        /\ appending' = [appending EXCEPT ![c] = Nobody]
    BY <1>4 DEF Commit
  <2>3. \A p \in DOMAIN entries' : Older(entries'[p])
    <3> SUFFICES ASSUME NEW p \in DOMAIN entries' PROVE Older(entries'[p])
      OBVIOUS
    <3>1. (p \in DOMAIN entries /\ entries'[p] = entries[p]) \/ entries'[p] = e
      <4> HIDE DEF e
      <4> QED BY <1>3, <2>1, <2>2, AppendedTo
    <3> QED BY <2>1, <3>1 DEF Rooted
  <2>4. \A d \in Calls : Appends(d)' => Older(appending'[d].entry)
    BY <1>3, <2>2 DEF Rooted, Appends
  <2>5. Known(leafId)'
    <3>1. \E p \in DOMAIN entries' : entries'[p] = e
      <4> HIDE DEF e
      <4> QED BY <1>3, <2>1, <2>2, AppendedTo
    <3>2. leafId' <= e.id
      BY <2>1, <2>2 DEF LeafAfter, Older, SessionEntry
    <3> HIDE DEF e
    <3> QED BY <3>1, <3>2 DEF Known
  <2>6. \A p \in DOMAIN entries' : Older(entries[p])'
    BY <2>3 DEF Older
  <2>7. \A d \in Calls : (Appends(d) => Older(appending[d].entry))'
    BY <2>4 DEF Older
  <2> HIDE DEF e
  <2> QED BY <1>2, <2>5, <2>6, <2>7 DEF Rooted
<1>5. CASE ~Commit(c)
  <2>1. UNCHANGED <<entries, leafId>>
    BY <1>5 DEF SessionMove, session, Opens, BeginAppendAt, AppendLine, FailLine, Abandon
  <2>2. ASSUME NEW d \in Calls, Appends(d)' PROVE Older(appending'[d].entry)
    <3>1. CASE Opens(c)
      BY <1>3, <2>2, <3>1, Opened DEF Appends, Rooted
    <3>2. CASE ~Opens(c)
      <4>1. Appends(d) /\ appending'[d].entry = appending[d].entry
        BY <1>3, <1>5, <2>2, <3>2 DEF SessionMove, session, AppendLine, FailLine, Abandon, Appends, Nobody, Entry
      <4> QED BY <4>1 DEF Rooted
    <3> QED BY <3>1, <3>2
  <2>3. \A d \in Calls : (Appends(d) => Older(appending[d].entry))'
    BY <2>2 DEF Older
  <2>4. Known(leafId)' /\ \A p \in DOMAIN entries' : Older(entries[p])'
    BY <2>1 DEF Rooted, Known
  <2> QED BY <1>2, <2>3, <2>4 DEF Rooted
<1> QED BY <1>4, <1>5

(* A step of a call moves that call only, and to known goals.              *)
LEMMA CallMoves ==
  ASSUME Typed, Rooted, Controlled, NEW c \in Calls, Begin(c) \/ GoOn(c)
  PROVE  /\ call' \in [Calls -> Local]
         /\ \A d \in Calls : d # c => call'[d] = call[d]
         /\ \A d \in Calls : call'[d].goal = call[d].goal \/ Known(call'[d].goal)
<1>0. call \in [Calls -> Local] /\ Known(0)
  BY DEF Typed, Known
<1> SUFFICES UNCHANGED call \/ (Others(c) /\ (call'[c].goal = call[c].goal \/ Known(call'[c].goal)))
  BY <1>0 DEF Others
<1>1. CASE \/ ShowMessage(c) \/ FlushWrite(c) \/ AppendCompaction(c) \/ MoveTo(c)
           \/ AppendSummary(c) \/ WriteFlushed(c) \/ Write(c)
  BY <1>1, AppendStays DEF StaysAt
<1>2. CASE \/ Shown(c) \/ ShowThrows(c) \/ AnswerThrows(c) \/ FlushFails(c) \/ SavePointThrows(c)
           \/ PrepareThrows(c) \/ PollThrows(c) \/ AgentEndThrows(c)
           \/ Answer(c) \/ TurnEnd(c) \/ SavePoint(c) \/ PrepareNextTurn(c) \/ PollSteering(c)
           \/ PollFollowUp(c) \/ Polled(c) \/ GoIdle(c) \/ AgentEnded(c)
  <2>1. StepsInLoop(c)
    BY <1>2, ShownSteps, ThrowSteps, PlainSteps
  <2> QED BY <2>1 DEF StepsInLoop, Keeps
<1>3. CASE Snapshot(c) \/ NextTaken(c) \/ RunLoop(c)
  BY <1>3, SnapshotCall, NextTakenCall, RunLoopCall DEF Keeps
<1>4. CASE \/ SnapshotThrows(c) \/ NextGivenBack(c) \/ BeforeHookThrows(c)
           \/ Return(c) \/ AppendedIdle(c) \/ Settle(c)
  <2>1. Finish(c)
    BY <1>4 DEF SnapshotThrows, NextGivenBack, BeforeHookThrows, Reject, Return, AppendedIdle, Settle
  <2> QED BY <1>0, <2>1, FinishCall
<1>5. CASE Summarise(c)
  BY <1>5, SummariseCall DEF Keeps
<1>6. CASE Begin(c)
  <2>1. CASE Prompt(c)
    BY <2>1, PromptCall DEF BeginsAs
  <2>2. CASE Compact(c)
    BY <2>2, CompactCall DEF BeginsAs
  <2>3. CASE NavigateTree(c)
    BY <2>3, NavigateCall DEF BeginsAs
  <2>4. ASSUME NEW kind \in WriteKinds, AppendIdle(c, kind)
        PROVE  Others(c) /\ call'[c].goal = call[c].goal
    BY <2>4, AppendIdleCall DEF BeginsAs
  <2> QED BY <1>6, <2>1, <2>2, <2>3, <2>4 DEF Begin
<1> QED BY <1>1, <1>2, <1>3, <1>4, <1>5, <1>6 DEF GoOn, Loop

(* The items a failing poll gives back.                                    *)
ItemsBack(h) == [p \in DOMAIN h |-> h[p].item]
(* They are items.                                                         *)
LEMMA ItemsBackType ==
  ASSUME NEW h \in Seq(InHand)
  PROVE  ItemsBack(h) \in Seq(Nat)
<1>1. \A p \in DOMAIN h : h[p] \in InHand
  OBVIOUS
<1>2. \A p \in DOMAIN h : h[p].item \in Nat
  BY <1>1 DEF InHand
<1>3. DOMAIN h = 1..Len(h) /\ Len(h) \in Nat
  OBVIOUS
<1> QED BY <1>2, <1>3 DEF ItemsBack

(* What a poll leaves of a queue is a queue.                               *)
LEMMA RestType ==
  ASSUME NEW q \in Seq(Nat), NEW t \in Seq(Nat)
  PROVE  SubSeq(q, Len(t) + 1, Len(q)) \in Seq(Nat)
OBVIOUS

(* What it takes is one.                                                   *)
LEMMA TakenIsSeq ==
  ASSUME NEW q \in Seq(Nat), NEW mode
  PROVE  q # <<>> => Taken(mode, q) \in Seq(Nat)
BY TakenType

(* A step of a call keeps the types of the queues.                         *)
LEMMA QueuesStay ==
  ASSUME Typed, NEW c \in Calls, Begin(c) \/ GoOn(c)
  PROVE  /\ steerQueue' \in Seq(Nat) /\ followUpQueue' \in Seq(Nat) /\ nextTurnQueue' \in Seq(Nat)
<1>0. /\ steerQueue \in Seq(Nat) /\ followUpQueue \in Seq(Nat) /\ nextTurnQueue \in Seq(Nat)
      /\ call[c].hand \in Seq(InHand)
  BY DEF Typed, Local
<1>1. CASE Snapshot(c)
  BY <1>0, <1>1 DEF Snapshot
<1>2. CASE NextGivenBack(c)
  <2> DEFINE h == call[c].hand
             k == [p \in DOMAIN Front(h) |-> h[p].item]
  <2>1. Front(h) = SubSeq(h, 1, Len(h) - 1)
    BY DEF Front
  <2>2. k \in Seq(Nat)
    <3>1. CASE h = <<>>
      <4>1. Front(h) = <<>>
        BY <2>1, <3>1
      <4> QED BY <4>1
    <3>2. CASE h # <<>>
      <4>1. Len(h) \in Nat \ {0} /\ Len(h) - 1 \in Nat
        BY <1>0, <3>2, EmptySeq
      <4>2. DOMAIN Front(h) = 1..(Len(h) - 1)
        BY <1>0, <2>1, <4>1
      <4>3. \A p \in 1..(Len(h) - 1) : h[p].item \in Nat
        <5>1. \A p \in 1..(Len(h) - 1) : h[p] \in InHand
          BY <1>0, <4>1
        <5> QED BY <5>1 DEF InHand
      <4> QED BY <4>1, <4>2, <4>3
    <3> QED BY <3>1, <3>2
  <2>3. nextTurnQueue' = k \o nextTurnQueue /\ UNCHANGED <<steerQueue, followUpQueue>>
    BY <1>2 DEF NextGivenBack
  <2> HIDE DEF k
  <2> QED BY <1>0, <2>2, <2>3
<1>3. CASE PollSteering(c)
  <2>1. UNCHANGED <<followUpQueue, nextTurnQueue>>
    BY <1>3 DEF PollSteering, queues
  <2>2. \/ UNCHANGED steerQueue
        \/ \E mode : steerQueue' = SubSeq(steerQueue, Len(Taken(mode, steerQueue)) + 1, Len(steerQueue))
           /\ steerQueue # <<>>
    BY <1>3 DEF PollSteering, queues
  <2>3. steerQueue' \in Seq(Nat)
    BY <1>0, <2>2, TakenIsSeq, RestType
  <2> QED BY <1>0, <2>1, <2>3
<1>4. CASE PollFollowUp(c)
  <2>1. UNCHANGED <<steerQueue, nextTurnQueue>>
    BY <1>4 DEF PollFollowUp, queues
  <2>2. \/ UNCHANGED followUpQueue
        \/ \E mode : followUpQueue' = SubSeq(followUpQueue, Len(Taken(mode, followUpQueue)) + 1, Len(followUpQueue))
           /\ followUpQueue # <<>>
    BY <1>4 DEF PollFollowUp, queues
  <2>3. followUpQueue' \in Seq(Nat)
    BY <1>0, <2>2, TakenIsSeq, RestType
  <2> QED BY <1>0, <2>1, <2>3
<1>5. CASE PollThrows(c)
  <2>1. ItemsBack(call[c].hand) \in Seq(Nat)
    BY <1>0, ItemsBackType
  <2>2. /\ steerQueue' = steerQueue \/ steerQueue' = ItemsBack(call[c].hand) \o steerQueue
        /\ followUpQueue' = followUpQueue \/ followUpQueue' = ItemsBack(call[c].hand) \o followUpQueue
        /\ UNCHANGED nextTurnQueue
    BY <1>5 DEF PollThrows, ItemsBack
  <2>3. /\ ItemsBack(call[c].hand) \o steerQueue \in Seq(Nat)
        /\ ItemsBack(call[c].hand) \o followUpQueue \in Seq(Nat)
    BY <1>0, <2>1
  <2> QED BY <1>0, <2>2, <2>3
<1>6. CASE ~(Snapshot(c) \/ NextGivenBack(c) \/ PollSteering(c) \/ PollFollowUp(c) \/ PollThrows(c))
  <2>1. UNCHANGED queues
    BY <1>6 DEF Begin, GoOn, Loop, Prompt, Compact, NavigateTree, AppendIdle,
      Write, SnapshotThrows, NextTaken, RunLoop, BeforeHookThrows, Return,
      AppendedIdle, AppendCompaction, MoveTo, Summarise, AppendSummary, Settle,
      ShowMessage, Shown, ShowThrows, Answer, AnswerThrows, TurnEnd, FlushWrite, WriteFlushed,
      FlushFails, SavePoint, SavePointThrows, PrepareNextTurn, PrepareThrows, Polled,
      GoIdle, AgentEnded, AgentEndThrows
  <2> QED BY <1>0, <2>1 DEF queues
<1> QED BY <1>1, <1>2, <1>3, <1>4, <1>5, <1>6

(* The rest of a sequence is one of the same elements.                     *)
LEMMA TailType ==
  ASSUME NEW S, NEW s \in Seq(S), s # <<>>
  PROVE  Tail(s) \in Seq(S)
OBVIOUS

(* A step of a call keeps the types of the other variables.                *)
LEMMA OthersStay ==
  ASSUME Typed, NEW c \in Calls, Begin(c) \/ GoOn(c)
  PROVE  /\ phase' \in {"idle", "turn", "compaction", "branch_summary"}
         /\ pendingSessionWrites' \in Seq(Waiting)
         /\ runAbortController' \in Calls \union {None} /\ runPromise' \in Calls \union {None}
         /\ aborted' \subseteq Calls /\ limits' \in Limits
         /\ nextMessage' \in Nat /\ nextWrite' \in Nat
         /\ faults' \in Nat /\ asked' \in Seq(Nat) /\ accepted' \in Seq(Nat)
<1>0. /\ phase \in {"idle", "turn", "compaction", "branch_summary"}
      /\ pendingSessionWrites \in Seq(Waiting)
      /\ runAbortController \in Calls \union {None} /\ runPromise \in Calls \union {None}
      /\ aborted \subseteq Calls /\ limits \in Limits /\ nextMessage \in Nat /\ nextWrite \in Nat
      /\ faults \in Nat /\ asked \in Seq(Nat) /\ accepted \in Seq(Nat)
  BY DEF Typed
<1>1. UNCHANGED <<aborted, limits, asked, accepted>>
  BY DEF Begin, GoOn, Loop, Prompt, Compact, NavigateTree, AppendIdle,
      Write, Snapshot, SnapshotThrows, NextTaken, NextGivenBack, RunLoop, BeforeHookThrows, Return,
      AppendedIdle, AppendCompaction, MoveTo, Summarise, AppendSummary, Settle,
      ShowMessage, Shown, ShowThrows, Answer, AnswerThrows, TurnEnd, FlushWrite, WriteFlushed,
      FlushFails, SavePoint, SavePointThrows, PrepareNextTurn, PrepareThrows, PollSteering,
      PollFollowUp, Polled, PollThrows, GoIdle, AgentEnded, AgentEndThrows, past
<1>2. UNCHANGED faults \/ faults' = faults + 1
  BY DEF Begin, GoOn, Loop, Prompt, Compact, NavigateTree, AppendIdle,
      Write, Snapshot, SnapshotThrows, NextTaken, NextGivenBack, RunLoop, BeforeHookThrows, Return,
      AppendedIdle, AppendCompaction, MoveTo, Summarise, AppendSummary, Settle,
      ShowMessage, Shown, ShowThrows, Answer, AnswerThrows, TurnEnd, FlushWrite, WriteFlushed,
      FlushFails, SavePoint, SavePointThrows, PrepareNextTurn, PrepareThrows, PollSteering,
      PollFollowUp, Polled, PollThrows, GoIdle, AgentEnded, AgentEndThrows, Fault
<1>3. /\ UNCHANGED nextMessage \/ nextMessage' = nextMessage + 1
      /\ UNCHANGED nextWrite \/ nextWrite' = nextWrite + 1
  BY DEF Begin, GoOn, Loop, Prompt, Compact, NavigateTree, AppendIdle,
      Write, Snapshot, SnapshotThrows, NextTaken, NextGivenBack, RunLoop, BeforeHookThrows, Return,
      AppendedIdle, AppendCompaction, MoveTo, Summarise, AppendSummary, Settle,
      ShowMessage, Shown, ShowThrows, Answer, AnswerThrows, TurnEnd, FlushWrite, WriteFlushed,
      FlushFails, SavePoint, SavePointThrows, PrepareNextTurn, PrepareThrows, PollSteering,
      PollFollowUp, Polled, PollThrows, GoIdle, AgentEnded, AgentEndThrows, LoopThrows, counters
<1>4. /\ UNCHANGED runPromise \/ runPromise' \in {c, None}
      /\ UNCHANGED runAbortController \/ runAbortController' \in {c, None}
      /\ UNCHANGED phase \/ phase' \in {"idle", "turn", "compaction", "branch_summary"}
  BY DEF Begin, GoOn, Loop, Prompt, Compact, NavigateTree, AppendIdle,
      Write, Snapshot, SnapshotThrows, NextTaken, NextGivenBack, RunLoop, BeforeHookThrows, Return,
      AppendedIdle, AppendCompaction, MoveTo, Summarise, AppendSummary, Settle,
      ShowMessage, Shown, ShowThrows, Answer, AnswerThrows, TurnEnd, FlushWrite, WriteFlushed,
      FlushFails, SavePoint, SavePointThrows, PrepareNextTurn, PrepareThrows, PollSteering,
      PollFollowUp, Polled, PollThrows, GoIdle, AgentEnded, AgentEndThrows, Reject
<1>5. \/ UNCHANGED pendingSessionWrites
      \/ pendingSessionWrites' = <<>>
      \/ pendingSessionWrites # <<>> /\ pendingSessionWrites' = Tail(pendingSessionWrites)
  BY DEF Begin, GoOn, Loop, Prompt, Compact, NavigateTree, AppendIdle,
      Write, Snapshot, SnapshotThrows, NextTaken, NextGivenBack, RunLoop, BeforeHookThrows, Return,
      AppendedIdle, AppendCompaction, MoveTo, Summarise, AppendSummary, Settle,
      ShowMessage, Shown, ShowThrows, Answer, AnswerThrows, TurnEnd, FlushWrite, WriteFlushed,
      FlushFails, SavePoint, SavePointThrows, PrepareNextTurn, PrepareThrows, PollSteering,
      PollFollowUp, Polled, PollThrows, GoIdle, AgentEnded, AgentEndThrows
<1>6. pendingSessionWrites' \in Seq(Waiting)
  <2>1. pendingSessionWrites # <<>> => Tail(pendingSessionWrites) \in Seq(Waiting)
    BY <1>0, TailType
  <2>2. <<>> \in Seq(Waiting)
    OBVIOUS
  <2> QED BY <1>0, <1>5, <2>1, <2>2
<1>7. faults' \in Nat /\ nextMessage' \in Nat /\ nextWrite' \in Nat
  BY <1>0, <1>2, <1>3
<1> QED BY <1>0, <1>1, <1>4, <1>6, <1>7

(* A message queued keeps the types.                                       *)
LEMMA AskTypes ==
  ASSUME Typed, Steer \/ FollowUp \/ NextTurn
  PROVE  /\ steerQueue' \in Seq(Nat) /\ followUpQueue' \in Seq(Nat) /\ nextTurnQueue' \in Seq(Nat)
         /\ asked' \in Seq(Nat) /\ nextMessage' \in Nat
         /\ UNCHANGED <<session, phase, pendingSessionWrites, runAbortController, runPromise, call,
                        aborted, limits, faults, accepted, nextWrite>>
<1>0. /\ steerQueue \in Seq(Nat) /\ followUpQueue \in Seq(Nat) /\ nextTurnQueue \in Seq(Nat)
      /\ asked \in Seq(Nat) /\ nextMessage \in Nat
  BY DEF Typed
<1>1. /\ \A q \in Seq(Nat) : Append(q, nextMessage) \in Seq(Nat)
      /\ nextMessage + 1 \in Nat
  BY <1>0
<1>2. /\ asked' = Append(asked, nextMessage) /\ nextMessage' = nextMessage + 1
      /\ UNCHANGED <<session, phase, pendingSessionWrites, runAbortController, runPromise, call,
                        aborted, limits, faults, accepted, nextWrite>>
  BY DEF Steer, FollowUp, NextTurn, Ask
<1>3. /\ UNCHANGED steerQueue \/ steerQueue' = Append(steerQueue, nextMessage)
      /\ UNCHANGED followUpQueue \/ followUpQueue' = Append(followUpQueue, nextMessage)
      /\ UNCHANGED nextTurnQueue \/ nextTurnQueue' = Append(nextTurnQueue, nextMessage)
  BY DEF Steer, FollowUp, NextTurn, Ask
<1> QED BY <1>0, <1>1, <1>2, <1>3

(* The call a write is charged to is one that keeps the harness busy.      *)
Holder == Max({c \in Calls : Active(c) /\ call[c].op # "append"})
(* Outside idle there is such a call.                                      *)
LEMMA HolderIsBusy ==
  ASSUME Controlled, phase # "idle"
  PROVE  Holder \in Calls /\ Active(Holder) /\ call[Holder].op # "append"
<1> DEFINE S == {c \in Calls : Active(c) /\ call[c].op # "append"}
<1>1. PICK c \in Calls : Busy(c)
  BY DEF Controlled
<1>2. c \in S
  BY <1>1 DEF Controlled, Placed, Busy
<1>3. Max(S) \in S
  <2>1. S \subseteq Calls /\ S # {}
    BY <1>2
  <2> HIDE DEF S
  <2> QED BY <2>1, MaxOfCalls
<1>4. Holder = Max(S)
  BY DEF Holder
<1> QED BY <1>3, <1>4

(* A write accepted is a waiting one.                                      *)
LEMMA AcceptTypes ==
  ASSUME Typed, Controlled, NEW kind \in WriteKinds, AcceptWrite(kind)
  PROVE  /\ pendingSessionWrites' = Append(pendingSessionWrites,
                                      [kind |-> kind, item |-> nextWrite, by |-> Holder])
         /\ [kind |-> kind, item |-> nextWrite, by |-> Holder] \in Waiting
         /\ pendingSessionWrites' \in Seq(Waiting)
         /\ accepted' = Append(accepted, nextWrite) /\ accepted' \in Seq(Nat)
         /\ nextWrite' = nextWrite + 1 /\ nextWrite' \in Nat
         /\ UNCHANGED <<session, phase, queues, runAbortController, runPromise, call, aborted,
                        limits, faults, asked, nextMessage>>
<1> DEFINE w == [kind |-> kind, item |-> nextWrite, by |-> Holder]
<1>0. pendingSessionWrites \in Seq(Waiting) /\ nextWrite \in Nat /\ accepted \in Seq(Nat)
  BY DEF Typed
<1>1. /\ pendingSessionWrites' = Append(pendingSessionWrites, w) /\ phase # "idle"
      /\ accepted' = Append(accepted, nextWrite) /\ nextWrite' = nextWrite + 1
      /\ UNCHANGED <<session, phase, queues, runAbortController, runPromise, call, aborted,
                        limits, faults, asked, nextMessage>>
  BY DEF AcceptWrite, Holder
<1>2. w \in Waiting
  <2>1. kind \in {"custom", "setting"}
    BY HarnessAssumption
  <2>2. Holder \in Calls
    BY <1>1, HolderIsBusy
  <2> HIDE DEF Holder
  <2> QED BY <1>0, <2>1, <2>2 DEF Waiting
<1>3. Append(pendingSessionWrites, w) \in Seq(Waiting) /\ Append(accepted, nextWrite) \in Seq(Nat)
      /\ nextWrite + 1 \in Nat
  <2> HIDE DEF w
  <2> QED BY <1>0, <1>2
<1> HIDE DEF Holder
<1> QED BY <1>1, <1>2, <1>3

(* What others do meanwhile keeps the types and the tree.                  *)
LEMMA TypedReenter ==
  ASSUME Typed, Rooted, Controlled, Reenter \/ UNCHANGED vars
  PROVE  Typed' /\ Rooted'
<1>0. SessionTypeOK' /\ UNCHANGED session
  <2>1. UNCHANGED session
    BY DEF Reenter, Steer, FollowUp, NextTurn, Ask, Abort, AcceptWrite, vars
  <2> QED BY <2>1 DEF session, SessionTypeOK, Typed
<1>1. /\ call' \in [Calls -> Local]
      /\ \A c \in Calls : call'[c].goal = call[c].goal
  <2>1. CASE Abort
    BY <2>1, AbortCalls
  <2>2. CASE ~Abort
    <3>1. UNCHANGED call
      BY <2>2 DEF Reenter, Steer, FollowUp, NextTurn, Ask, AcceptWrite, vars
    <3> QED BY <3>1 DEF Typed
  <2> QED BY <2>1, <2>2
<1>2. Rooted'
  <2>1. UNCHANGED <<entries, appending, leafId>>
    BY <1>0 DEF session
  <2> QED BY <1>1, <2>1 DEF Rooted, Known, Older, Appends
<1>3. CASE Steer \/ FollowUp \/ NextTurn
  <2>1. UNCHANGED <<phase, pendingSessionWrites, runAbortController, runPromise,
                        aborted, limits, faults, accepted, nextWrite>>
    BY <1>3, AskTypes
  <2> QED BY <1>0, <1>1, <1>2, <1>3, <2>1, AskTypes DEF Typed
<1>4. CASE \E kind \in WriteKinds : AcceptWrite(kind)
  <2>1. UNCHANGED <<phase, queues, runAbortController, runPromise,
                        aborted, limits, faults, asked, nextMessage>>
        /\ pendingSessionWrites' \in Seq(Waiting) /\ accepted' \in Seq(Nat) /\ nextWrite' \in Nat
    BY <1>4, AcceptTypes
  <2> QED BY <1>0, <1>1, <1>2, <2>1 DEF Typed, queues
<1>5. CASE Abort
  <2>1. /\ steerQueue' = <<>> /\ followUpQueue' = <<>>
        /\ aborted' = aborted \union ({runAbortController} \ {None})
        /\ UNCHANGED <<phase, pendingSessionWrites, nextTurnQueue, runAbortController,
                 runPromise, limits, counters, faults, asked, accepted>>
    BY <1>5 DEF Abort
  <2>2. <<>> \in Seq(Nat) /\ aborted' \subseteq Calls
    BY <2>1 DEF Typed
  <2> QED BY <1>0, <1>1, <1>2, <2>1, <2>2 DEF Typed, counters
<1>6. CASE UNCHANGED vars
  BY <1>0, <1>1, <1>2, <1>6 DEF Typed, vars, queues, past, counters
<1> QED BY <1>3, <1>4, <1>5, <1>6 DEF Reenter

(* Every step keeps the types and the tree.                                *)
LEMMA TypedStep ==
  ASSUME Typed, Rooted, Controlled, [Next]_vars
  PROVE  Typed' /\ Rooted'
<1>1. ASSUME NEW c \in Calls, Begin(c) \/ GoOn(c) PROVE Typed' /\ Rooted'
  <2>1. SessionMove(c) /\ call' \in [Calls -> Local]
        /\ \A d \in Calls : call'[d].goal = call[d].goal \/ Known(call'[d].goal)
    BY <1>1, SessionMoves, CallMoves
  <2>2. SessionTypeOK' /\ Rooted'
    BY <2>1, SessionStays, RootedStays
  <2> QED BY <1>1, <2>1, <2>2, OthersStay, QueuesStay DEF Typed
<1> QED BY <1>1, TypedReenter DEF Next

-----------------------------------------------------------------------------
(* Serial, Mirrored and AppendsAreSerial are kept.                         *)

(* A move of the session that does not overlap leaves one append at most.  *)
LEMMA SerialStays ==
  ASSUME Typed, Serial, NEW c \in Calls, SessionMove(c)
  PROVE  Serial'
<1>0. appending \in [Calls -> [stage : {"none", "file", "memory", "failed"}, entry : SessionEntry]]
      /\ overlapped \in BOOLEAN
  BY DEF Typed, SessionTypeOK
<1> SUFFICES ASSUME ~overlapped', NEW d \in Calls, NEW e \in Calls, Appends(d)', Appends(e)'
             PROVE  d = e
  BY DEF Serial
<1>1. CASE Opens(c)
  <2>1. \A x \in Calls \ {c} : ~Appends(x) /\ appending'[x] = appending[x]
    BY <1>0, <1>1 DEF Opens, BeginAppendAt
  <2> QED BY <2>1 DEF Appends
<1>2. CASE ~Opens(c)
  <2>1. UNCHANGED overlapped /\ \A x \in Calls : Appends(x)' => Appends(x)
    BY <1>0, <1>2 DEF SessionMove, session, AppendLine, FailLine, Commit, Abandon, Appends, Nobody, Entry
  <2> QED BY <2>1 DEF Serial
<1> QED BY <1>1, <1>2

(* A move of the session keeps file and memory in step.                    *)
LEMMA MirroredStays ==
  ASSUME Typed, Serial, Mirrored, NEW c \in Calls, SessionMove(c)
  PROVE  Mirrored'
<1>0. appending \in [Calls -> [stage : {"none", "file", "memory", "failed"}, entry : SessionEntry]]
      /\ overlapped \in BOOLEAN /\ entries \in Seq(SessionEntry) /\ file \in Seq(SessionEntry)
  BY DEF Typed, SessionTypeOK
<1> SUFFICES ASSUME ~overlapped'
             PROVE  /\ \A d \in Calls : Committing(d)' => file' = Append(entries', appending'[d].entry)
                    /\ (\A d \in Calls : ~Committing(d)') => file' = entries'
                    /\ LeafOfFile(entries') = leafId'
                    /\ \A d \in Calls : Appends(d)' =>
                         \A p \in DOMAIN entries' : entries'[p].id < appending'[d].entry.id
  BY DEF Mirrored, LeafOfFile, LeafAfter
<1>1. ~overlapped
  BY <1>0 DEF SessionMove, session, Opens, BeginAppendAt, AppendLine, FailLine, Commit, Abandon
<1>2. /\ \A d \in Calls : Committing(d) => file = Append(entries, appending[d].entry)
      /\ (\A d \in Calls : ~Committing(d)) => file = entries
      /\ LeafOfFile(entries) = leafId
      /\ \A d \in Calls : Appends(d) =>
           \A p \in DOMAIN entries : entries[p].id < appending[d].entry.id
      /\ \A d, e \in Calls : Appends(d) /\ Appends(e) => d = e
      /\ \A d \in Calls : Committing(d) => Appends(d)
  BY <1>1 DEF Mirrored, Serial, Committing, Appends, Nobody, Entry
<1>3. CASE UNCHANGED session
  BY <1>2, <1>3 DEF session, Committing, Appends
<1>4. CASE Opens(c)
  <2>1. /\ \A x \in Calls : ~Appends(x) /\ (x # c => appending'[x] = appending[x])
        /\ UNCHANGED <<file, entries, leafId>>
    BY <1>0, <1>4 DEF Opens, BeginAppendAt
  <2>2. appending'[c].stage = "file" /\ appending'[c].entry.id = FreshId
    BY <1>4, Opened
  <2>3. \A x \in Calls : ~Committing(x)' /\ (Appends(x)' => x = c)
    BY <1>2, <2>1, <2>2 DEF Committing, Appends
  <2>4. \A p \in DOMAIN entries : entries[p].id < FreshId
    BY FreshIdIsFresh DEF Typed
  <2> QED BY <1>2, <2>1, <2>2, <2>3, <2>4
<1>5. CASE AppendLine(c) \/ FailLine(c)
  <2>1. Appends(c) /\ ~Committing(c)
    BY <1>5 DEF AppendLine, FailLine, Appends, Committing, Nobody, Entry
  <2>2. \A x \in Calls : (x # c => ~Appends(x)) /\ ~Committing(x)
    BY <1>2, <2>1
  <2>3. file = entries
    BY <1>2, <2>2
  <2>4. /\ UNCHANGED <<entries, leafId>> /\ \A x \in Calls : x # c => appending'[x] = appending[x]
        /\ appending'[c].entry = appending[c].entry
    BY <1>0, <1>5 DEF AppendLine, FailLine
  <2>5. \A x \in Calls : (Appends(x)' => x = c) /\ (Committing(x)' => x = c)
    BY <1>2, <2>2, <2>4 DEF Appends, Committing
  <2>6. CASE AppendLine(c)
    <3>1. Committing(c)' /\ file' = Append(file, appending[c].entry)
      BY <1>0, <2>6 DEF AppendLine, Committing
    <3> QED BY <1>2, <2>1, <2>3, <2>4, <2>5, <3>1
  <2>7. CASE FailLine(c)
    <3>1. ~Committing(c)' /\ file' = file
      BY <1>0, <2>7 DEF FailLine, Committing
    <3> QED BY <1>2, <2>1, <2>3, <2>4, <2>5, <3>1
  <2> QED BY <1>5, <2>6, <2>7
<1>6. CASE Commit(c) \/ Abandon(c)
  <2>1. Appends(c) /\ appending' = [appending EXCEPT ![c] = Nobody] /\ file' = file
    BY <1>6 DEF Commit, Abandon, Appends, Committing, AppendFailed, Nobody, Entry
  <2>2. \A x \in Calls : ~Appends(x)' /\ ~Committing(x)'
    BY <1>0, <1>2, <2>1 DEF Appends, Committing, Nobody, Entry
  <2>3. CASE Commit(c)
    <3> DEFINE e == appending[c].entry
    <3>1. entries' = Append(entries, e) /\ leafId' = LeafAfter(e) /\ file = Append(entries, e)
      BY <1>2, <2>3 DEF Commit
    <3>2. e \in SessionEntry
      BY <1>0
    <3>3. entries' # <<>> /\ Last(entries') = e
      <4> HIDE DEF e
      <4>1. Len(entries') = Len(entries) + 1 /\ Len(entries) \in Nat /\ entries'[Len(entries) + 1] = e
        BY <1>0, <3>1, <3>2, AppendedTo
      <4>2. Len(entries') # 0
        BY <4>1
      <4> QED BY <4>1, <4>2, EmptySeq DEF Last
    <3>4. LeafOfFile(entries') = leafId'
      BY <3>1, <3>3 DEF LeafOfFile
    <3> QED BY <2>1, <2>2, <3>1, <3>4
  <2>4. CASE Abandon(c)
    <3>1. ~Committing(c) /\ UNCHANGED <<entries, leafId>>
      BY <2>4 DEF Abandon, AppendFailed, Committing
    <3>2. \A x \in Calls : ~Committing(x)
      BY <1>2, <2>1, <3>1
    <3> QED BY <1>2, <2>1, <2>2, <3>1, <3>2
  <2> QED BY <1>6, <2>3, <2>4
<1> QED BY <1>3, <1>4, <1>5, <1>6 DEF SessionMove

(* Who begins an append.                                                   *)
LEMMA OpensAlone ==
  ASSUME Typed, Controlled, AppendsAreSerial, limits.patient, NEW c \in Calls, Begin(c) \/ GoOn(c)
  PROVE  ~overlapped'
<1>0. ~overlapped
  BY DEF AppendsAreSerial
<1>1. ASSUME NEW d \in Calls, Appends(d)
      PROVE  Active(d) /\ ~At(d, "agentEnd")
  <2>1. call[d].pc \in Showing \union Flushing \union Settling \union {"append"}
    BY <1>1 DEF Controlled, Placed
  <2> QED BY <2>1 DEF Active, At, Showing, Flushing, Settling
<1>2. CASE ShowMessage(c) \/ FlushWrite(c) \/ AppendCompaction(c) \/ MoveTo(c) \/ AppendSummary(c)
  <2>1. call[c].pc \in Showing \union Flushing \union Settling
    BY <1>2 DEF ShowMessage, FlushWrite, AppendCompaction, MoveTo, AppendSummary, At, Settling
  <2>2. Active(c) /\ ~At(c, "append") /\ ~At(c, "agentEnd")
    BY <2>1 DEF Active, At, Showing, Flushing, Settling
  <2>3. \A d \in Calls \ {c} : ~Appends(d)
    BY <1>1, <2>2, AloneInRun DEF Alone
  <2>4. PICK kind, item, target, parent : BeginAppendAt(c, kind, item, target, parent)
    BY <1>2 DEF ShowMessage, FlushWrite, AppendCompaction, MoveTo, AppendSummary, BeginAppend
  <2> QED BY <1>0, <2>3, <2>4 DEF BeginAppendAt
<1>3. ASSUME NEW kind \in WriteKinds, AppendIdle(c, kind) PROVE ~overlapped'
  <2>1. MayCall(c, "append") /\ BeginAppendAt(c, kind, nextWrite, 0, leafId)
    BY <1>3 DEF AppendIdle, BeginAppend
  <2>2. \A d \in Calls \ {c} : ~Active(d) \/ At(d, "agentEnd")
    BY <2>1 DEF MayCall
  <2>3. \A d \in Calls \ {c} : ~Appends(d)
    BY <1>1, <2>2
  <2> QED BY <1>0, <2>1, <2>3 DEF BeginAppendAt
<1>4. CASE ~(\/ ShowMessage(c) \/ FlushWrite(c) \/ AppendCompaction(c) \/ MoveTo(c) \/ AppendSummary(c)
             \/ \E kind \in WriteKinds : AppendIdle(c, kind))
  <2>1. UNCHANGED overlapped
    BY <1>4 DEF Begin, GoOn, Loop, Prompt, Compact, NavigateTree,
      Write, Snapshot, SnapshotThrows, NextTaken, NextGivenBack, RunLoop, BeforeHookThrows, Return,
      AppendedIdle, Summarise, Settle,
      Shown, ShowThrows, Answer, AnswerThrows, TurnEnd, WriteFlushed,
      FlushFails, SavePoint, SavePointThrows, PrepareNextTurn, PrepareThrows, PollSteering,
      PollFollowUp, Polled, PollThrows, GoIdle, AgentEnded, AgentEndThrows, session,
      AppendLine, FailLine, Commit, Abandon
  <2> QED BY <1>0, <2>1
<1> QED BY <1>2, <1>3, <1>4

(* The bounds of a behaviour do not change.                                *)
LEMMA LimitsStay ==
  ASSUME [Next]_vars
  PROVE  UNCHANGED limits
<1>1. CASE Reenter \/ UNCHANGED vars
  BY <1>1 DEF Reenter, Steer, FollowUp, NextTurn, Ask, Abort, AcceptWrite, vars
<1>2. ASSUME NEW c \in Calls, Begin(c) PROVE UNCHANGED limits
  BY <1>2 DEF Begin, Prompt, Compact, NavigateTree, AppendIdle
<1>3. ASSUME NEW c \in Calls, GoOn(c), ~Loop(c) PROVE UNCHANGED limits
  BY <1>3 DEF GoOn, Write, Snapshot, SnapshotThrows, NextTaken, NextGivenBack, RunLoop,
      BeforeHookThrows, Return, AppendedIdle, AppendCompaction, MoveTo, Summarise, AppendSummary,
      Settle
<1>4. ASSUME NEW c \in Calls, Loop(c) PROVE UNCHANGED limits
  BY <1>4 DEF Loop, ShowMessage, Shown, ShowThrows, Answer, AnswerThrows, TurnEnd, FlushWrite,
      WriteFlushed, FlushFails, SavePoint, SavePointThrows, PrepareNextTurn, PrepareThrows,
      PollSteering, PollFollowUp, Polled, PollThrows, GoIdle, AgentEnded, AgentEndThrows
<1> QED BY <1>1, <1>2, <1>3, <1>4 DEF Next

(* Every step keeps the session's part of the invariant, and patient       *)
(* callers' appends serial.                                                *)
LEMMA SessionStep ==
  ASSUME Typed, Rooted, Controlled, Serial, Mirrored, AppendsAreSerial, [Next]_vars
  PROVE  Serial' /\ Mirrored' /\ AppendsAreSerial'
<1>0. UNCHANGED limits
  BY LimitsStay
<1>1. ASSUME NEW c \in Calls, Begin(c) \/ GoOn(c)
      PROVE  Serial' /\ Mirrored' /\ AppendsAreSerial'
  <2>1. SessionMove(c)
    BY <1>1, SessionMoves
  <2>2. limits.patient => ~overlapped'
    BY <1>1, OpensAlone
  <2> QED BY <1>0, <2>1, <2>2, SerialStays, MirroredStays DEF AppendsAreSerial
<1>2. CASE Reenter \/ UNCHANGED vars
  <2>1. UNCHANGED session
    BY <1>2 DEF Reenter, Steer, FollowUp, NextTurn, Ask, Abort, AcceptWrite, vars
  <2>2. UNCHANGED <<file, entries, leafId, appending, overlapped>>
    BY <2>1 DEF session
  <2> QED BY <1>0, <2>2 DEF Serial, Mirrored, AppendsAreSerial, Appends, Committing, LeafOfFile, LeafAfter
<1> QED BY <1>1, <1>2 DEF Next

-----------------------------------------------------------------------------
(* Writing is kept.                                                        *)

(* The entries of the writes among a set of items, and the items they      *)
(* hold.                                                                   *)
WriteEntries(A) == {e \in SessionEntry : e.kind \in {"custom", "setting"} /\ e.item \in A}
Items(es, A) == LET o == Only(es, WriteEntries(A)) IN [p \in DOMAIN o |-> o[p].item]

(* Persisted, of the writes asked for, in these terms.                     *)
LEMMA PersistedItems ==
  Persisted({"custom", "setting"}, ToSet(accepted)) = Items(entries, ToSet(accepted))
BY DEF Persisted, Items, WriteEntries

(* The items of a sequence with one more entry.                            *)
LEMMA ItemsOf ==
  ASSUME NEW o \in Seq(SessionEntry), NEW e \in SessionEntry
  PROVE  /\ [p \in DOMAIN o |-> o[p].item] \in Seq(Nat)
         /\ [p \in DOMAIN Append(o, e) |-> Append(o, e)[p].item]
              = Append([p \in DOMAIN o |-> o[p].item], e.item)
<1> DEFINE f == [p \in DOMAIN o |-> o[p].item]
           g == [p \in DOMAIN Append(o, e) |-> Append(o, e)[p].item]
<1>1. DOMAIN o = 1..Len(o) /\ Len(o) \in Nat
  OBVIOUS
<1>2. \A p \in 1..Len(o) : o[p] \in SessionEntry
  OBVIOUS
<1>3. \A p \in 1..Len(o) : o[p].item \in Nat
  BY <1>2 DEF SessionEntry
<1>4. f \in Seq(Nat) /\ Len(f) = Len(o) /\ \A p \in 1..Len(o) : f[p] = o[p].item
  BY <1>1, <1>3
<1>5. e.item \in Nat
  BY DEF SessionEntry
<1>6. DOMAIN Append(o, e) = 1..(Len(o) + 1) /\ Append(o, e)[Len(o) + 1] = e
      /\ \A p \in 1..Len(o) : Append(o, e)[p] = o[p]
  OBVIOUS
<1>7. DOMAIN g = 1..(Len(o) + 1) /\ g[Len(o) + 1] = e.item /\ \A p \in 1..Len(o) : g[p] = o[p].item
  <2>1. Len(o) + 1 \in 1..(Len(o) + 1) /\ \A p \in 1..Len(o) : p \in 1..(Len(o) + 1)
    BY <1>1
  <2> QED BY <1>6, <2>1
<1>8. g = [p \in 1..(Len(o) + 1) |-> g[p]]
  BY <1>6
<1> HIDE DEF f, g
<1>9. DOMAIN Append(f, e.item) = 1..(Len(o) + 1) /\ Append(f, e.item)[Len(o) + 1] = e.item
      /\ \A p \in 1..Len(o) : Append(f, e.item)[p] = f[p]
  BY <1>4, <1>5, <1>1
<1>10. Append(f, e.item) = [p \in 1..(Len(o) + 1) |-> Append(f, e.item)[p]]
  BY <1>4, <1>5, <1>9
<1>11. \A p \in 1..(Len(o) + 1) : g[p] = Append(f, e.item)[p]
  BY <1>1, <1>4, <1>7, <1>9
<1>12. g = Append(f, e.item)
  BY <1>8, <1>10, <1>11
<1> QED BY <1>4, <1>12 DEF f, g

(* An entry appended adds its item if it is a write among those asked for. *)
LEMMA ItemsAppend ==
  ASSUME NEW es \in Seq(SessionEntry), NEW e \in SessionEntry, NEW A
  PROVE  /\ Items(es, A) \in Seq(Nat)
         /\ Items(Append(es, e), A) = IF WriteEntry(e) /\ e.item \in A
                                      THEN Append(Items(es, A), e.item) ELSE Items(es, A)
<1> DEFINE W == WriteEntries(A)
<1>1. Only(es, W) \in Seq(SessionEntry)
  BY OnlyType
<1>2. Only(Append(es, e), W) = IF e \in W THEN Append(Only(es, W), e) ELSE Only(es, W)
  BY OnlyAppend
<1>3. e \in W <=> WriteEntry(e) /\ e.item \in A
  BY DEF WriteEntry, WriteEntries
<1> HIDE DEF W
<1>4. Items(es, A) \in Seq(Nat)
  BY <1>1, ItemsOf DEF Items, W
<1>5. CASE e \in W
  <2>1. Only(Append(es, e), W) = Append(Only(es, W), e)
    BY <1>2, <1>5
  <2>2. Items(Append(es, e), A) = Append(Items(es, A), e.item)
    BY <1>1, <2>1, ItemsOf DEF Items, W
  <2> QED BY <1>3, <1>4, <1>5, <2>2
<1>6. CASE e \notin W
  <2>1. Only(Append(es, e), W) = Only(es, W)
    BY <1>2, <1>6
  <2>2. Items(Append(es, e), A) = Items(es, A)
    BY <2>1 DEF Items, W
  <2> QED BY <1>3, <1>4, <1>6, <2>2
<1> QED BY <1>5, <1>6

(* Sets that agree on the writes in the session give the same items.       *)
LEMMA ItemsSame ==
  ASSUME NEW es \in Seq(SessionEntry), NEW A, NEW B,
         \A p \in DOMAIN es : WriteEntry(es[p]) => (es[p].item \in A <=> es[p].item \in B)
  PROVE  Items(es, A) = Items(es, B)
<1>1. \A p \in 1..Len(es) : es[p] \in SessionEntry /\ p \in DOMAIN es
  OBVIOUS
<1>2. \A p \in 1..Len(es) : es[p] \in WriteEntries(A) <=> es[p] \in WriteEntries(B)
  BY <1>1 DEF WriteEntries, WriteEntry
<1>3. Only(es, WriteEntries(A)) = Only(es, WriteEntries(B))
  BY <1>2, OnlySame
<1> QED BY <1>3 DEF Items

(* Moving the first of what waits behind what is there changes nothing.    *)
LEMMA MoveHead ==
  ASSUME NEW S, NEW a \in Seq(S), NEW b \in Seq(S), b # <<>>
  PROVE  Append(a, Head(b)) \o Tail(b) = a \o b
<1>1. Head(b) \in S /\ Tail(b) \in Seq(S) /\ <<Head(b)>> \in Seq(S)
  OBVIOUS
<1>2. Append(a, Head(b)) = a \o <<Head(b)>>
  BY <1>1, AppendIsConcat
<1>3. (a \o <<Head(b)>>) \o Tail(b) = a \o (<<Head(b)>> \o Tail(b))
  BY <1>1, ConcatAssociative
<1>4. <<Head(b)>> \o Tail(b) = b
  OBVIOUS
<1> QED BY <1>2, <1>3, <1>4

(* The items that wait, with the first gone or one more.                   *)
LEMMA PendingItemsType ==
  ASSUME NEW q \in Seq(Waiting)
  PROVE  /\ [p \in DOMAIN q |-> q[p].item] \in Seq(Nat)
         /\ q # <<>> => /\ [p \in DOMAIN q |-> q[p].item] # <<>>
                        /\ Head([p \in DOMAIN q |-> q[p].item]) = Head(q).item
                        /\ [p \in DOMAIN Tail(q) |-> Tail(q)[p].item]
                             = Tail([p \in DOMAIN q |-> q[p].item])
         /\ \A w \in Waiting : [p \in DOMAIN Append(q, w) |-> Append(q, w)[p].item]
                             = Append([p \in DOMAIN q |-> q[p].item], w.item)
<1> DEFINE f(s) == [p \in DOMAIN s |-> s[p].item]
<1>1. \A s \in Seq(Waiting) : f(s) \in Seq(Nat) /\ Len(f(s)) = Len(s)
                             /\ \A p \in 1..Len(s) : f(s)[p] = s[p].item
  <2> TAKE s \in Seq(Waiting)
  <2>1. \A p \in DOMAIN s : s[p] \in Waiting
    OBVIOUS
  <2>2. \A p \in DOMAIN s : s[p].item \in Nat
    BY <2>1 DEF Waiting
  <2>3. DOMAIN s = 1..Len(s) /\ Len(s) \in Nat
    OBVIOUS
  <2> QED BY <2>2, <2>3
<1> HIDE DEF f
<1>2. ASSUME q # <<>>
      PROVE  f(q) # <<>> /\ Head(f(q)) = Head(q).item /\ f(Tail(q)) = Tail(f(q))
  <2>1. Len(q) \in Nat /\ Len(q) # 0
    BY <1>2, EmptySeq
  <2>2. f(q) \in Seq(Nat) /\ Len(f(q)) = Len(q) /\ f(q)[1] = q[1].item
    BY <1>1, <2>1
  <2>3. f(q) # <<>>
    BY <2>1, <2>2
  <2>4. Head(f(q)) = Head(q).item
    BY <1>2, <2>2, <2>3
  <2>5. Tail(q) \in Seq(Waiting) /\ Len(Tail(q)) = Len(q) - 1
        /\ \A p \in 1..(Len(q) - 1) : Tail(q)[p] = q[p + 1]
    BY <1>2
  <2>6. f(Tail(q)) \in Seq(Nat) /\ Len(f(Tail(q))) = Len(q) - 1
        /\ \A p \in 1..(Len(q) - 1) : f(Tail(q))[p] = q[p + 1].item
    <3> DEFINE t == Tail(q)
    <3>1. t \in Seq(Waiting) /\ Len(t) = Len(q) - 1 /\ \A p \in 1..(Len(q) - 1) : t[p] = q[p + 1]
      BY <2>5
    <3> HIDE DEF t
    <3>2. f(t) \in Seq(Nat) /\ Len(f(t)) = Len(t) /\ \A p \in 1..Len(t) : f(t)[p] = t[p].item
      BY <1>1, <3>1
    <3>3. f(t) \in Seq(Nat) /\ Len(f(t)) = Len(q) - 1
          /\ \A p \in 1..(Len(q) - 1) : f(t)[p] = q[p + 1].item
      BY <3>1, <3>2
    <3> QED BY <3>3 DEF t
  <2>7. Tail(f(q)) \in Seq(Nat) /\ Len(Tail(f(q))) = Len(q) - 1
        /\ \A p \in 1..(Len(q) - 1) : Tail(f(q))[p] = f(q)[p + 1]
    BY <2>2, <2>3
  <2>8. \A p \in 1..(Len(q) - 1) : f(q)[p + 1] = q[p + 1].item
    BY <1>1, <2>1
  <2>9. f(Tail(q)) = Tail(f(q))
    BY <2>6, <2>7, <2>8, SeqEqual
  <2> QED BY <2>3, <2>4, <2>9
<1>3. ASSUME NEW w \in Waiting PROVE f(Append(q, w)) = Append(f(q), w.item)
  <2>1. w.item \in Nat
    BY DEF Waiting
  <2>2. Append(q, w) \in Seq(Waiting) /\ Len(Append(q, w)) = Len(q) + 1
        /\ Append(q, w)[Len(q) + 1] = w /\ (\A p \in 1..Len(q) : Append(q, w)[p] = q[p])
        /\ Len(q) \in Nat
    OBVIOUS
  <2>3. f(Append(q, w)) \in Seq(Nat) /\ Len(f(Append(q, w))) = Len(q) + 1
        /\ \A p \in 1..(Len(q) + 1) : f(Append(q, w))[p] = Append(q, w)[p].item
    BY <1>1, <2>2
  <2>4. f(q) \in Seq(Nat) /\ Len(f(q)) = Len(q) /\ \A p \in 1..Len(q) : f(q)[p] = q[p].item
    BY <1>1
  <2>5. Append(f(q), w.item) \in Seq(Nat) /\ Len(Append(f(q), w.item)) = Len(q) + 1
        /\ Append(f(q), w.item)[Len(q) + 1] = w.item
        /\ \A p \in 1..Len(q) : Append(f(q), w.item)[p] = f(q)[p]
    BY <2>1, <2>4
  <2>6. \A p \in 1..(Len(q) + 1) : f(Append(q, w))[p] = Append(f(q), w.item)[p]
    <3> SUFFICES ASSUME NEW p \in 1..(Len(q) + 1)
                 PROVE  f(Append(q, w))[p] = Append(f(q), w.item)[p]
      OBVIOUS
    <3>1. f(Append(q, w))[p] = Append(q, w)[p].item
      BY <2>3
    <3>2. p \in 1..Len(q) \/ p = Len(q) + 1
      BY <2>2
    <3>3. CASE p \in 1..Len(q)
      <4>1. Append(q, w)[p] = q[p]
        BY <2>2, <3>3
      <4>2. Append(f(q), w.item)[p] = f(q)[p] /\ f(q)[p] = q[p].item
        BY <2>4, <2>5, <3>3
      <4> QED BY <3>1, <4>1, <4>2
    <3>4. CASE p = Len(q) + 1
      <4>1. Append(q, w)[p] = w
        BY <2>2, <3>4
      <4>2. Append(f(q), w.item)[p] = w.item
        BY <2>5, <3>4
      <4> QED BY <3>1, <4>1, <4>2
    <3> QED BY <3>2, <3>3, <3>4
  <2> QED BY <2>3, <2>5, <2>6, SeqEqual
<1>4. f(q) \in Seq(Nat)
  BY <1>1
<1> QED BY <1>2, <1>3, <1>4 DEF f

(* A step that takes a call elsewhere, and ends its append if it has one.  *)
Departs(c) ==
  /\ Others(c) /\ UNCHANGED <<pendingSessionWrites, accepted, nextWrite>>
  /\ \/ UNCHANGED session /\ ~Appends(c)
     \/ Commit(c) /\ call[c].pc \in Showing \union Settling \union {"append"}
     \/ Abandon(c)

(* All the other steps of a call are of this form.                         *)
LEMMA Departing ==
  ASSUME Typed, Rooted, Controlled, NEW c \in Calls,
         Begin(c) \/ GoOn(c), \A kind \in WriteKinds : ~AppendIdle(c, kind),
         ~(\/ ShowMessage(c) \/ FlushWrite(c) \/ AppendCompaction(c) \/ MoveTo(c)
           \/ AppendSummary(c) \/ WriteFlushed(c) \/ Write(c))
  PROVE  Departs(c)
<1>0. Placed(c)
  BY DEF Controlled
<1>1. CASE \/ Shown(c) \/ ShowThrows(c) \/ AnswerThrows(c) \/ FlushFails(c) \/ SavePointThrows(c)
           \/ PrepareThrows(c) \/ PollThrows(c) \/ AgentEndThrows(c)
           \/ Answer(c) \/ TurnEnd(c) \/ SavePoint(c) \/ PrepareNextTurn(c) \/ PollSteering(c)
           \/ PollFollowUp(c) \/ Polled(c) \/ GoIdle(c) \/ AgentEnded(c)
  <2>1. StepsInLoop(c)
    BY <1>1, ShownSteps, ThrowSteps, PlainSteps
  <2> QED BY <2>1 DEF StepsInLoop, Departs, counters
<1>2. CASE \/ Snapshot(c) \/ NextTaken(c) \/ RunLoop(c)
           \/ SnapshotThrows(c) \/ NextGivenBack(c) \/ BeforeHookThrows(c)
  <2>1. call[c].pc \in BeforeLoop
    BY <1>2 DEF Snapshot, NextTaken, RunLoop, SnapshotThrows, NextGivenBack, BeforeHookThrows, At, BeforeLoop
  <2>2. ~Appends(c)
    BY <1>0, <2>1 DEF Placed, BeforeLoop, Showing, Flushing, Settling
  <2>3. UNCHANGED session /\ UNCHANGED <<pendingSessionWrites, accepted, nextWrite>>
    BY <1>2 DEF Snapshot, NextTaken, RunLoop, SnapshotThrows, NextGivenBack, BeforeHookThrows, past, counters
  <2>4. Others(c)
    <3>1. CASE Snapshot(c) \/ NextTaken(c) \/ RunLoop(c)
      BY <3>1, SnapshotCall, NextTakenCall, RunLoopCall
    <3>2. CASE SnapshotThrows(c) \/ NextGivenBack(c) \/ BeforeHookThrows(c)
      BY <3>2, FinishCall DEF SnapshotThrows, NextGivenBack, BeforeHookThrows, Reject, Typed
    <3> QED BY <1>2, <3>1, <3>2
  <2> QED BY <2>2, <2>3, <2>4 DEF Departs
<1>3. CASE Return(c) \/ AppendedIdle(c) \/ Settle(c)
  <2>1. Finish(c) /\ UNCHANGED <<pendingSessionWrites, accepted, nextWrite>>
    BY <1>3 DEF Return, AppendedIdle, Settle, past, counters
  <2>2. \/ UNCHANGED session /\ ~Appends(c)
        \/ Commit(c) /\ call[c].pc \in Showing \union Settling \union {"append"}
        \/ Abandon(c)
    BY <1>3 DEF Return, AppendedIdle, Settle, Flushed, Settling, At
  <2> QED BY <2>1, <2>2, FinishCall DEF Departs, Typed
<1>4. CASE Summarise(c)
  BY <1>4, SummariseCall DEF Summarise, Departs, Settling, past, counters, At
<1>5. CASE Prompt(c) \/ Compact(c) \/ NavigateTree(c)
  <2>1. At(c, "free") /\ UNCHANGED session /\ UNCHANGED <<pendingSessionWrites, accepted, nextWrite>>
    BY <1>5 DEF Prompt, Compact, NavigateTree, MayCall, past, counters
  <2>2. ~Appends(c)
    BY <1>0, <2>1 DEF Placed, At, Showing, Flushing, Settling
  <2>3. Others(c)
    BY <1>5, PromptCall, CompactCall, NavigateCall DEF BeginsAs
  <2> QED BY <2>1, <2>2, <2>3 DEF Departs
<1> QED BY <1>1, <1>2, <1>3, <1>4, <1>5 DEF Begin, GoOn, Loop

(* What Writing needs of its types.                                        *)
LEMMA WritingTypes ==
  ASSUME Typed
  PROVE  /\ appending \in [Calls -> [stage : {"none", "file", "memory", "failed"},
                                     entry : SessionEntry]]
         /\ overlapped \in BOOLEAN /\ entries \in Seq(SessionEntry)
         /\ nextWrite \in Nat /\ accepted \in Seq(Nat) /\ pendingSessionWrites \in Seq(Waiting)
         /\ \A p \in DOMAIN entries : entries[p] \in SessionEntry
         /\ \A c \in Calls : appending[c].entry \in SessionEntry
         /\ PendingItems \in Seq(Nat)
BY PendingItemsType DEF Typed, SessionTypeOK, PendingItems

(* WritesOnceInOrder in terms of Items and PendingItems.                   *)
LEMMA OnceInOrderIs ==
  WritesOnceInOrder <=> (~overlapped => accepted = Items(entries, ToSet(accepted)) \o PendingItems)
BY PersistedItems DEF WritesOnceInOrder, PendingItems

(* An entry that is not a write asked for leaves what is persisted alone.  *)
LEMMA CommitElsewhere ==
  ASSUME Typed, Writing, NEW e \in SessionEntry, entries' = Append(entries, e),
         UNCHANGED <<pendingSessionWrites, accepted, nextWrite, overlapped>>,
         WriteEntry(e) => e.item < nextWrite /\ \A p \in DOMAIN accepted : accepted[p] # e.item
  PROVE  /\ WritesOnceInOrder'
         /\ \A p \in DOMAIN entries' : WriteEntry(entries'[p]) => entries'[p].item < nextWrite'
<1>1. ~(WriteEntry(e) /\ e.item \in ToSet(accepted))
  BY DEF ToSet
<1>2. Items(entries', ToSet(accepted)) = Items(entries, ToSet(accepted))
  BY <1>1, ItemsAppend, WritingTypes
<1>3. UNCHANGED PendingItems
  BY DEF PendingItems
<1>4. ~overlapped => accepted = Items(entries, ToSet(accepted)) \o PendingItems
  BY OnceInOrderIs DEF Writing
<1>5. ~overlapped' => accepted' = Items(entries', ToSet(accepted')) \o PendingItems'
  BY <1>2, <1>3, <1>4
<1>6. WritesOnceInOrder'
  BY <1>5, PersistedItems DEF WritesOnceInOrder, PendingItems, Persisted, Items, WriteEntries
<1>7. ASSUME NEW p \in DOMAIN entries', WriteEntry(entries'[p])
      PROVE  entries'[p].item < nextWrite'
  <2>1. (p \in DOMAIN entries /\ entries'[p] = entries[p]) \/ entries'[p] = e
    BY WritingTypes, AppendedTo
  <2>2. \A q \in DOMAIN entries : WriteEntry(entries[q]) => entries[q].item < nextWrite
    BY DEF Writing
  <2>3. entries'[p].item < nextWrite
    BY <1>7, <2>1, <2>2
  <2> QED BY <2>3
<1> QED BY <1>6, <1>7

(* What a writer is told by is its own.                                    *)
LEMMA WriterStays ==
  ASSUME NEW d \in Calls, Writer(d), appending'[d].entry = appending[d].entry,
         UNCHANGED call, UNCHANGED <<pendingSessionWrites, accepted, nextWrite>>,
         overlapped => overlapped'
  PROVE  Writer(d)'
BY DEF Writer, WriteEntry, At

(* A step that takes a call elsewhere keeps Writing.                       *)
LEMMA WritingDeparts ==
  ASSUME Typed, Rooted, Controlled, Writing, NEW c \in Calls, Departs(c)
  PROVE  Writing'
<1>0. /\ \A d \in Calls : d # c => call'[d] = call[d]
      /\ UNCHANGED <<pendingSessionWrites, accepted, nextWrite>>
  BY DEF Departs, Others
<1>1. /\ UNCHANGED overlapped /\ ~Appends(c)' /\ \A d \in Calls : d # c => appending'[d] = appending[d]
  BY WritingTypes DEF Departs, session, Commit, Abandon, Appends
<1>2. ASSUME NEW d \in Calls, Appends(d)' PROVE Writer(d)'
  <2>1. d # c /\ appending'[d] = appending[d] /\ call'[d] = call[d]
    BY <1>0, <1>1, <1>2
  <2>2. Writer(d)
    BY <1>2, <2>1 DEF Appends, Writing
  <2> QED BY <1>0, <1>1, <2>1, <2>2 DEF Writer, WriteEntry, At
<1>3. CASE Commit(c) /\ call[c].pc \in Showing \union Settling \union {"append"}
  <2> DEFINE e == appending[c].entry
  <2>1. Writer(c) /\ Appends(c) /\ e \in SessionEntry /\ entries' = Append(entries, e)
    BY <1>3, WritingTypes DEF Commit, Committing, Appends, Nobody, Entry, Writing
  <2>2. call[c].pc \in Showing => ~WriteEntry(e)
    <3>1. call[c].hand \in Seq(InHand) /\ (call[c].pc \in Showing => call[c].hand # <<>>)
      BY DEF Controlled, Placed, Typed, Local
    <3>2. call[c].pc \in Showing => Head(call[c].hand) \in InHand
      BY <3>1
    <3> QED BY <2>1, <3>2 DEF InHand, ShownKind, WriteEntry, Writer
  <2>3. WriteEntry(e) => e.item < nextWrite /\ \A p \in DOMAIN accepted : accepted[p] # e.item
    BY <1>3, <2>1, <2>2 DEF Writer, At
  <2>4. /\ WritesOnceInOrder'
        /\ \A p \in DOMAIN entries' : WriteEntry(entries'[p]) => entries'[p].item < nextWrite'
    <3> HIDE DEF e
    <3> QED BY <1>0, <1>1, <2>1, <2>3, CommitElsewhere
  <2>5. \A p \in DOMAIN entries' : (WriteEntry(entries[p]))' => entries'[p].item < nextWrite'
    BY <2>4 DEF WriteEntry
  <2>6. \A p \in DOMAIN accepted' : accepted'[p] < nextWrite'
    BY <1>0 DEF Writing
  <2>7. \A p \in DOMAIN pendingSessionWrites' : pendingSessionWrites'[p].item < nextWrite'
    BY <1>0 DEF Writing
  <2> HIDE DEF e
  <2> QED BY <1>2, <2>4, <2>5, <2>6, <2>7 DEF Writing
<1>4. CASE UNCHANGED entries
  BY <1>0, <1>1, <1>2, <1>4 DEF Writing, WritesOnceInOrder, Persisted, WriteEntry
<1>5. UNCHANGED entries \/ (Commit(c) /\ call[c].pc \in Showing \union Settling \union {"append"})
  BY DEF Departs, session, Abandon
<1> QED BY <1>3, <1>4, <1>5

(* What begins an append, said field by field.                             *)
LEMMA BeginsWith ==
  ASSUME Typed, NEW c \in Calls, NEW kind, NEW item, NEW target, NEW parent,
         BeginAppendAt(c, kind, item, target, parent)
  PROVE  /\ appending'[c].entry.kind = kind /\ appending'[c].entry.item = item
         /\ appending'[c].entry.target = target /\ appending'[c].entry.parentId = parent
         /\ appending'[c].entry.id = FreshId
         /\ \A d \in Calls : d # c => appending'[d] = appending[d]
         /\ UNCHANGED <<file, entries, leafId, refused>> /\ (overlapped => overlapped')
         /\ ~overlapped' => \A d \in Calls : ~Appends(d)
<1>1. appending'[c].entry = Entry(kind, FreshId, parent, item, target)
      /\ \A d \in Calls : d # c => appending'[d] = appending[d]
  BY WritingTypes DEF BeginAppendAt
<1>2. /\ UNCHANGED <<file, entries, leafId, refused>> /\ ~Appends(c)
      /\ overlapped' = (overlapped \/ \E d \in Calls \ {c} : Appends(d))
  BY DEF BeginAppendAt
<1>3. overlapped => overlapped'
  BY <1>2
<1>4. ~overlapped' => \A d \in Calls : ~Appends(d)
  BY <1>2
<1> HIDE DEF FreshId
<1>5. /\ appending'[c].entry.kind = kind /\ appending'[c].entry.item = item
      /\ appending'[c].entry.target = target /\ appending'[c].entry.parentId = parent
      /\ appending'[c].entry.id = FreshId
  BY <1>1 DEF Entry
<1> QED BY <1>1, <1>2, <1>3, <1>4, <1>5

(* A call that begins an append of its own keeps Writing.                  *)
LEMMA WritingOpens ==
  ASSUME Typed, Rooted, Controlled, Writing, NEW c \in Calls,
         ShowMessage(c) \/ FlushWrite(c) \/ AppendCompaction(c) \/ MoveTo(c) \/ AppendSummary(c)
  PROVE  Writing'
<1>0. UNCHANGED <<call, pendingSessionWrites, accepted, nextWrite>>
  BY DEF ShowMessage, FlushWrite, AppendCompaction, MoveTo, AppendSummary, past, counters
<1>1. PICK kind, item, target, parent : BeginAppendAt(c, kind, item, target, parent)
  BY DEF ShowMessage, FlushWrite, AppendCompaction, MoveTo, AppendSummary, BeginAppend
<1>2. UNCHANGED entries /\ (overlapped => overlapped')
      /\ \A d \in Calls : d # c => appending'[d] = appending[d]
  BY <1>1, BeginsWith
<1>3. Writer(c)'
  <2>1. CASE ShowMessage(c)
    <3>1. call[c].pc \in Showing /\ call[c].hand \in Seq(InHand) /\ call[c].hand # <<>>
          /\ appending'[c].entry.kind = Head(call[c].hand).kind
          /\ appending'[c].entry.item = Head(call[c].hand).item
      <4>1. call[c].pc \in Showing
            /\ BeginAppendAt(c, Head(call[c].hand).kind, Head(call[c].hand).item, 0, leafId)
        BY <2>1 DEF ShowMessage, BeginAppend
      <4>2. call[c].hand \in Seq(InHand)
        BY DEF Typed, Local
      <4>3. call[c].hand # <<>>
        BY <4>1 DEF Controlled, Placed
      <4> QED BY <4>1, <4>2, <4>3, BeginsWith
    <3>2. Head(call[c].hand).kind \notin {"custom", "setting"}
      <4>1. Head(call[c].hand) \in InHand
        BY <3>1
      <4> QED BY <4>1 DEF InHand, ShownKind
    <3>3. ~At(c, "append") /\ call[c].pc \notin Settling \union Flushing
      BY <3>1 DEF At, Showing, Settling, Flushing
    <3> QED BY <1>0, <3>1, <3>2, <3>3 DEF Writer, WriteEntry, At
  <2>2. CASE FlushWrite(c)
    <3>1. call[c].pc \in Flushing /\ pendingSessionWrites # <<>>
          /\ appending'[c].entry.kind = Head(pendingSessionWrites).kind
          /\ appending'[c].entry.item = Head(pendingSessionWrites).item
      <4>1. call[c].pc \in Flushing /\ pendingSessionWrites # <<>>
            /\ BeginAppendAt(c, Head(pendingSessionWrites).kind, Head(pendingSessionWrites).item,
                             0, leafId)
        BY <2>2 DEF FlushWrite, BeginAppend
      <4> QED BY <4>1, BeginsWith
    <3>2. Head(pendingSessionWrites).item < nextWrite
      <4>1. 1 \in DOMAIN pendingSessionWrites /\ Head(pendingSessionWrites) = pendingSessionWrites[1]
        <5>1. pendingSessionWrites \in Seq(Waiting)
          BY WritingTypes
        <5> QED BY <3>1, <5>1
      <4> QED BY <4>1 DEF Writing
    <3>3. ~At(c, "append") /\ call[c].pc \notin Settling \union Showing
      BY <3>1 DEF At, Showing, Settling, Flushing
    <3> QED BY <1>0, <3>1, <3>2, <3>3 DEF Writer, WriteEntry, At
  <2>3. CASE AppendCompaction(c) \/ MoveTo(c) \/ AppendSummary(c)
    <3>1. call[c].pc \in Settling /\ appending'[c].entry.kind \in {"compaction", "leaf", "summary"}
      BY <2>3, BeginsWith DEF AppendCompaction, MoveTo, AppendSummary, BeginAppend, Settling, At
    <3>3. ~At(c, "append") /\ call[c].pc \notin Flushing \union Showing
      BY <3>1 DEF At, Showing, Settling, Flushing
    <3> QED BY <1>0, <3>1, <3>3 DEF Writer, WriteEntry, At
  <2> QED BY <2>1, <2>2, <2>3
<1>4. ASSUME NEW d \in Calls, Appends(d)' PROVE Writer(d)'
  <2>1. CASE d = c
    BY <1>3, <2>1
  <2>2. CASE d # c
    <3>1. Writer(d) /\ appending'[d].entry = appending[d].entry
      BY <1>2, <1>4, <2>2 DEF Writing, Appends
    <3> QED BY <1>0, <1>2, <3>1, WriterStays
  <2> QED BY <2>1, <2>2
<1> QED BY <1>0, <1>2, <1>4 DEF Writing, WritesOnceInOrder, Persisted, WriteEntry

(* A line written or refused keeps Writing.                                *)
LEMMA WritingLine ==
  ASSUME Typed, Writing, NEW c \in Calls, Write(c)
  PROVE  Writing'
<1>0. UNCHANGED <<call, pendingSessionWrites, accepted, nextWrite>>
  BY DEF Write, past, counters
<1>1. UNCHANGED <<entries, overlapped>> /\ Appends(c)
      /\ \A d \in Calls : (d # c => appending'[d] = appending[d])
                          /\ appending'[d].entry = appending[d].entry
  BY WritingTypes DEF Write, AppendLine, FailLine, Appends, Nobody, Entry
<1>2. ASSUME NEW d \in Calls, Appends(d)' PROVE Writer(d)'
  <2>1. Appends(d)
    BY <1>1, <1>2 DEF Appends
  <2> QED BY <1>0, <1>1, <2>1, WriterStays DEF Writing
<1> QED BY <1>0, <1>1, <1>2 DEF Writing, WritesOnceInOrder, Persisted, WriteEntry

(* So does an idle setter that begins its append.                          *)
LEMMA WritingIdle ==
  ASSUME Typed, Writing, NEW c \in Calls, NEW kind \in WriteKinds, AppendIdle(c, kind)
  PROVE  Writing'
<1>0. UNCHANGED <<pendingSessionWrites, accepted>> /\ nextWrite' = nextWrite + 1
      /\ BeginAppendAt(c, kind, nextWrite, 0, leafId)
  BY DEF AppendIdle, past, BeginAppend
<1>1. /\ call'[c].pc = "append" /\ \A d \in Calls : d # c => call'[d] = call[d]
  BY AppendIdleCall DEF BeginsAs, Others
<1>2. /\ UNCHANGED entries /\ (overlapped => overlapped')
      /\ \A d \in Calls : d # c => appending'[d] = appending[d]
      /\ appending'[c].entry.kind = kind /\ appending'[c].entry.item = nextWrite
  BY <1>0, BeginsWith
<1>3. /\ \A p \in DOMAIN accepted : accepted[p] \in Nat /\ accepted[p] < nextWrite
      /\ \A p \in DOMAIN entries : WriteEntry(entries[p]) =>
            entries[p].item \in Nat /\ entries[p].item < nextWrite
      /\ \A p \in DOMAIN pendingSessionWrites :
            pendingSessionWrites[p].item \in Nat /\ pendingSessionWrites[p].item < nextWrite
  <2>1. \A p \in DOMAIN pendingSessionWrites : pendingSessionWrites[p] \in Waiting
    BY WritingTypes
  <2>2. \A p \in DOMAIN accepted : accepted[p] \in Nat
    BY WritingTypes
  <2> QED BY <2>1, <2>2, WritingTypes DEF Writing, SessionEntry, Waiting
<1>4. Writer(c)'
  <2>1. kind \in {"custom", "setting"}
    BY HarnessAssumption
  <2>2. nextWrite < nextWrite'
    BY <1>0, WritingTypes
  <2>3. \A p \in DOMAIN accepted' : accepted'[p] # nextWrite
    BY <1>0, <1>3, WritingTypes
  <2>4. "append" \notin Showing \union Settling \union Flushing
    BY DEF Showing, Settling, Flushing
  <2> QED BY <1>1, <1>2, <2>1, <2>2, <2>3, <2>4 DEF Writer, WriteEntry, At
<1>5. \A n \in Nat : n < nextWrite => n < nextWrite'
  BY <1>0, WritingTypes
<1>6. ASSUME NEW d \in Calls, Appends(d)' PROVE Writer(d)'
  <2>1. CASE d = c
    BY <1>4, <2>1
  <2>2. CASE d # c
    <3>1. Writer(d) /\ appending'[d] = appending[d] /\ call'[d] = call[d]
          /\ appending[d].entry.item \in Nat
      BY <1>1, <1>2, <1>6, <2>2, WritingTypes DEF Writing, Appends, SessionEntry
    <3>2. WriteEntry(appending[d].entry) => appending[d].entry.item < nextWrite'
      BY <1>5, <3>1 DEF Writer
    <3> QED BY <1>0, <1>2, <3>1, <3>2 DEF Writer, WriteEntry, At
  <2> QED BY <2>1, <2>2
<1>7. /\ \A p \in DOMAIN accepted' : accepted'[p] < nextWrite'
      /\ \A p \in DOMAIN entries' : WriteEntry(entries[p])' => entries'[p].item < nextWrite'
      /\ \A p \in DOMAIN pendingSessionWrites' : pendingSessionWrites'[p].item < nextWrite'
  BY <1>0, <1>2, <1>3, <1>5 DEF WriteEntry
<1>8. WritesOnceInOrder'
  BY <1>0, <1>2 DEF Writing, WritesOnceInOrder, Persisted
<1> QED BY <1>6, <1>7, <1>8 DEF Writing

(* A write flushed is the first that waited: it leaves the queue as it     *)
(* enters the session.                                                     *)
LEMMA WritingFlushed ==
  ASSUME Typed, Serial, Writing, NEW c \in Calls, WriteFlushed(c)
  PROVE  Writing'
<1> DEFINE e == appending[c].entry
<1>0. /\ call[c].pc \in Flushing /\ Commit(c)
      /\ pendingSessionWrites' = IF pendingSessionWrites = <<>> THEN <<>> ELSE Tail(pendingSessionWrites)
      /\ UNCHANGED <<call, accepted, nextWrite, overlapped>>
  BY DEF WriteFlushed, Commit, past, counters
<1>1. /\ Appends(c) /\ entries' = Append(entries, e) /\ e \in SessionEntry
      /\ appending' = [appending EXCEPT ![c] = Nobody] /\ Writer(c)
  BY <1>0, WritingTypes DEF Commit, Committing, Appends, Nobody, Entry, Writing
<1>2. ~Appends(c)' /\ \A d \in Calls : d # c => appending'[d] = appending[d]
  BY <1>1, WritingTypes DEF Appends
<1>3. ASSUME NEW d \in Calls, Appends(d)' PROVE Writer(d)'
  <2>1. d # c /\ appending'[d] = appending[d] /\ Appends(d)
    BY <1>2, <1>3 DEF Appends
  <2>2. overlapped'
    BY <1>0, <1>1, <2>1 DEF Serial
  <2>3. Writer(d)
    BY <2>1 DEF Writing
  <2> QED BY <1>0, <2>1, <2>2, <2>3 DEF Writer, WriteEntry, At
<1>4. \A p \in DOMAIN pendingSessionWrites' : pendingSessionWrites'[p].item < nextWrite'
  <2>1. pendingSessionWrites \in Seq(Waiting)
    BY WritingTypes
  <2>2. CASE pendingSessionWrites = <<>>
    BY <1>0, <2>2
  <2>3. CASE pendingSessionWrites # <<>>
    <3>1. \A p \in DOMAIN Tail(pendingSessionWrites) :
            p + 1 \in DOMAIN pendingSessionWrites
            /\ Tail(pendingSessionWrites)[p] = pendingSessionWrites[p + 1]
      BY <2>1, <2>3
    <3> QED BY <1>0, <2>3, <3>1 DEF Writing
  <2> QED BY <2>2, <2>3
<1>5. \A p \in DOMAIN entries' : WriteEntry(entries'[p]) => entries'[p].item < nextWrite'
  <2> SUFFICES ASSUME NEW p \in DOMAIN entries', WriteEntry(entries'[p])
               PROVE  entries'[p].item < nextWrite'
    OBVIOUS
  <2>1. (p \in DOMAIN entries /\ entries'[p] = entries[p]) \/ entries'[p] = e
    <3> HIDE DEF e
    <3> QED BY <1>1, WritingTypes, AppendedTo
  <2>2. \A q \in DOMAIN entries : WriteEntry(entries[q]) => entries[q].item < nextWrite
    BY DEF Writing
  <2>3. WriteEntry(e) => e.item < nextWrite
    BY <1>1 DEF Writer
  <2> HIDE DEF e
  <2>4. entries'[p].item < nextWrite
    BY <2>1, <2>2, <2>3
  <2> QED BY <1>0, <2>4
<1>6. ASSUME ~overlapped
      PROVE  accepted = Items(entries', ToSet(accepted))
                        \o [p \in DOMAIN pendingSessionWrites' |-> pendingSessionWrites'[p].item]
  <2> DEFINE A == ToSet(accepted)
             x == Items(entries, A)
             w == Head(pendingSessionWrites)
  <2>1. accepted = x \o PendingItems
    BY <1>6, OnceInOrderIs DEF Writing
  <2>2. pendingSessionWrites # <<>> /\ e.kind = w.kind /\ e.item = w.item
    BY <1>0, <1>1, <1>6 DEF Writer
  <2>3. pendingSessionWrites \in Seq(Waiting) /\ w \in Waiting
    <3>1. pendingSessionWrites \in Seq(Waiting)
      BY WritingTypes
    <3> QED BY <2>2, <3>1
  <2>4. WriteEntry(e)
    BY <2>2, <2>3 DEF Waiting, WriteEntry
  <2>5. PendingItems \in Seq(Nat) /\ PendingItems # <<>> /\ Head(PendingItems) = e.item
        /\ [p \in DOMAIN pendingSessionWrites' |-> pendingSessionWrites'[p].item] = Tail(PendingItems)
    BY <1>0, <2>2, <2>3, PendingItemsType DEF PendingItems
  <2>6. x \in Seq(Nat)
    BY <1>1, ItemsAppend, WritingTypes
  <2> HIDE DEF x, e, w
  <2>7. e.item \in A
    <3>1. Len(x) \in Nat /\ Len(PendingItems) \in Nat \ {0} /\ PendingItems[1] = e.item
      <4>1. Len(PendingItems) # 0
        BY <2>5, EmptySeq
      <4> QED BY <2>5, <2>6, <4>1
    <3>2. (x \o PendingItems)[Len(x) + 1] = e.item /\ Len(x) + 1 \in DOMAIN (x \o PendingItems)
      BY <2>5, <2>6, <3>1
    <3> QED BY <2>1, <3>2 DEF ToSet
  <2>8. Items(entries', A) = Append(x, e.item)
    BY <1>1, <2>4, <2>7, ItemsAppend, WritingTypes DEF x
  <2>9. Append(x, e.item) \o Tail(PendingItems) = x \o PendingItems
    BY <2>5, <2>6, MoveHead
  <2> QED BY <2>1, <2>5, <2>8, <2>9
<1>7. WritesOnceInOrder'
  BY <1>0, <1>6, PersistedItems DEF WritesOnceInOrder, Persisted, Items, WriteEntries
<1>8. \A p \in DOMAIN entries' : WriteEntry(entries[p])' => entries'[p].item < nextWrite'
  BY <1>5 DEF WriteEntry
<1>9. \A p \in DOMAIN accepted' : accepted'[p] < nextWrite'
  BY <1>0 DEF Writing
<1> HIDE DEF e
<1> QED BY <1>3, <1>4, <1>7, <1>8, <1>9 DEF Writing

(* A write accepted while busy is the last of those asked for, and the     *)
(* last that waits.                                                        *)
LEMMA WritingAccepts ==
  ASSUME Typed, Controlled, Writing, NEW kind \in WriteKinds, AcceptWrite(kind)
  PROVE  Writing'
<1> DEFINE w == [kind |-> kind, item |-> nextWrite, by |-> Holder]
<1>0. /\ pendingSessionWrites' = Append(pendingSessionWrites, w) /\ w \in Waiting
      /\ accepted' = Append(accepted, nextWrite) /\ nextWrite' = nextWrite + 1
      /\ UNCHANGED <<call, entries, appending, overlapped>>
  BY AcceptTypes DEF session
<1>1. w.item = nextWrite
  OBVIOUS
<1> HIDE DEF w
<1>2. /\ \A p \in DOMAIN accepted : accepted[p] \in Nat /\ accepted[p] < nextWrite
      /\ \A p \in DOMAIN entries : WriteEntry(entries[p]) =>
            entries[p].item \in Nat /\ entries[p].item < nextWrite
      /\ \A p \in DOMAIN pendingSessionWrites :
            pendingSessionWrites[p].item \in Nat /\ pendingSessionWrites[p].item < nextWrite
      /\ \A d \in Calls : Appends(d) => Writer(d) /\ appending[d].entry.item \in Nat
      /\ nextWrite \in Nat
  <2>1. \A p \in DOMAIN pendingSessionWrites : pendingSessionWrites[p] \in Waiting
    BY WritingTypes
  <2>2. \A p \in DOMAIN accepted : accepted[p] \in Nat
    BY WritingTypes
  <2>3. \A d \in Calls : appending[d].entry.item \in Nat
    BY WritingTypes DEF SessionEntry
  <2> QED BY <2>1, <2>2, <2>3, WritingTypes DEF Writing, SessionEntry, Waiting
<1>3. nextWrite < nextWrite' /\ \A n \in Nat : n < nextWrite => n < nextWrite' /\ n # nextWrite
  BY <1>0, <1>2
<1>4. \A p \in DOMAIN accepted' : accepted'[p] < nextWrite'
                               /\ ((p \in DOMAIN accepted /\ accepted'[p] = accepted[p]) \/ accepted'[p] = nextWrite)
  <2>1. \A p \in DOMAIN accepted' : (p \in DOMAIN accepted /\ accepted'[p] = accepted[p]) \/ accepted'[p] = nextWrite
    BY <1>0, <1>2, WritingTypes, AppendedTo
  <2> QED BY <1>2, <1>3, <2>1
<1>5. \A p \in DOMAIN pendingSessionWrites' : pendingSessionWrites'[p].item < nextWrite'
  <2>1. \A p \in DOMAIN pendingSessionWrites' :
          (p \in DOMAIN pendingSessionWrites /\ pendingSessionWrites'[p] = pendingSessionWrites[p])
          \/ pendingSessionWrites'[p] = w
    BY <1>0, WritingTypes, AppendedTo
  <2> QED BY <1>1, <1>2, <1>3, <2>1
<1>6. \A p \in DOMAIN entries' : WriteEntry(entries[p])' => entries'[p].item < nextWrite'
  BY <1>0, <1>2, <1>3 DEF WriteEntry
<1>7. pendingSessionWrites # <<>> =>
        pendingSessionWrites' # <<>> /\ Head(pendingSessionWrites') = Head(pendingSessionWrites)
  <2>1. pendingSessionWrites \in Seq(Waiting)
    BY WritingTypes
  <2> QED BY <1>0, <2>1
<1>8. ASSUME NEW d \in Calls, Appends(d)' PROVE Writer(d)'
  <2>1. Writer(d) /\ appending'[d] = appending[d] /\ appending[d].entry.item \in Nat
    BY <1>0, <1>2, <1>8 DEF Appends
  <2> DEFINE e == appending[d].entry
  <2>2. WriteEntry(e) => e.item < nextWrite' /\ e.item # nextWrite
    BY <1>3, <2>1 DEF Writer
  <2>3. At(d, "append") => WriteEntry(e) /\ \A p \in DOMAIN accepted' : accepted'[p] # e.item
    BY <1>4, <2>1, <2>2 DEF Writer
  <2> QED BY <1>0, <1>7, <2>1, <2>2, <2>3 DEF Writer, WriteEntry, At
<1>9. ASSUME ~overlapped
      PROVE  accepted' = Items(entries, ToSet(accepted'))
                        \o [p \in DOMAIN pendingSessionWrites' |-> pendingSessionWrites'[p].item]
  <2> DEFINE x == Items(entries, ToSet(accepted))
  <2>1. accepted = x \o PendingItems
    BY <1>9, OnceInOrderIs DEF Writing
  <2>2. ToSet(accepted') = ToSet(accepted) \union {nextWrite}
    <3>1. /\ Len(accepted) + 1 \in DOMAIN accepted' /\ accepted'[Len(accepted) + 1] = nextWrite
          /\ \A p \in DOMAIN accepted : p \in DOMAIN accepted' /\ accepted'[p] = accepted[p]
      BY <1>0, <1>2, WritingTypes, AppendedTo
    <3> QED BY <1>4, <3>1 DEF ToSet
  <2>3. Items(entries, ToSet(accepted')) = x
    <3>1. \A p \in DOMAIN entries : WriteEntry(entries[p]) => entries[p].item # nextWrite
      BY <1>2, <1>3
    <3>2. \A p \in DOMAIN entries : WriteEntry(entries[p]) =>
            (entries[p].item \in ToSet(accepted) <=> entries[p].item \in ToSet(accepted'))
      BY <2>2, <3>1
    <3> DEFINE B == ToSet(accepted')
    <3> HIDE DEF B
    <3>3. Items(entries, ToSet(accepted)) = Items(entries, B)
      BY <3>2, WritingTypes, ItemsSame DEF B
    <3> QED BY <3>3 DEF B
  <2>4. [p \in DOMAIN pendingSessionWrites' |-> pendingSessionWrites'[p].item]
          = Append(PendingItems, nextWrite)
    BY <1>0, <1>1, WritingTypes, PendingItemsType DEF PendingItems
  <2>5. x \in Seq(Nat)
    <3>1. [kind |-> "leaf", id |-> 1, parentId |-> 0, item |-> 0, target |-> 0] \in SessionEntry
      BY DEF SessionEntry, EntryKind
    <3> QED BY <3>1, ItemsAppend, WritingTypes
  <2> HIDE DEF x
  <2>6. Append(x \o PendingItems, nextWrite) = x \o Append(PendingItems, nextWrite)
    <3> DEFINE N == Nat
    <3>1. x \in Seq(N) /\ PendingItems \in Seq(N) /\ nextWrite \in N
      BY <1>2, <2>5, WritingTypes
    <3> HIDE DEF N
    <3>2. x \o PendingItems \in Seq(N) /\ <<nextWrite>> \in Seq(N)
      BY <3>1
    <3>3. Append(x \o PendingItems, nextWrite) = (x \o PendingItems) \o <<nextWrite>>
      BY <3>1, <3>2, AppendIsConcat
    <3>4. Append(PendingItems, nextWrite) = PendingItems \o <<nextWrite>>
      BY <3>1, AppendIsConcat
    <3>5. (x \o PendingItems) \o <<nextWrite>> = x \o (PendingItems \o <<nextWrite>>)
      BY <3>1, <3>2, ConcatAssociative
    <3> QED BY <3>3, <3>4, <3>5
  <2> QED BY <1>0, <2>1, <2>3, <2>4, <2>6
<1>10. WritesOnceInOrder'
  BY <1>0, <1>9, PersistedItems DEF WritesOnceInOrder, Persisted, Items, WriteEntries
<1>11. \A p \in DOMAIN accepted' : accepted'[p] < nextWrite'
  BY <1>4
<1> QED BY <1>5, <1>6, <1>8, <1>10, <1>11 DEF Writing

(* Every step keeps Writing, and with it the order of the writes.          *)
LEMMA WritingStep ==
  ASSUME Typed, Rooted, Controlled, Serial, Writing, [Next]_vars
  PROVE  Writing'
<1>1. ASSUME NEW c \in Calls, Begin(c) \/ GoOn(c) PROVE Writing'
  <2>1. CASE ShowMessage(c) \/ FlushWrite(c) \/ AppendCompaction(c) \/ MoveTo(c) \/ AppendSummary(c)
    BY <2>1, WritingOpens
  <2>2. CASE Write(c) \/ WriteFlushed(c) \/ \E kind \in WriteKinds : AppendIdle(c, kind)
    BY <2>2, WritingLine, WritingFlushed, WritingIdle
  <2>3. CASE ~(\/ ShowMessage(c) \/ FlushWrite(c) \/ AppendCompaction(c) \/ MoveTo(c)
               \/ AppendSummary(c) \/ Write(c) \/ WriteFlushed(c)
               \/ \E kind \in WriteKinds : AppendIdle(c, kind))
    BY <1>1, <2>3, Departing, WritingDeparts
  <2> QED BY <2>1, <2>2, <2>3
<1>2. CASE \E kind \in WriteKinds : AcceptWrite(kind)
  BY <1>2, WritingAccepts
<1>3. CASE Steer \/ FollowUp \/ NextTurn \/ Abort \/ UNCHANGED vars
  <2>1. UNCHANGED <<session, pendingSessionWrites, accepted, nextWrite>>
    BY <1>3 DEF Steer, FollowUp, NextTurn, Ask, Abort, vars, past, counters
  <2>2. ASSUME NEW d \in Calls
        PROVE  call'[d].pc = call[d].pc /\ call'[d].hand = call[d].hand
    <3>1. CASE Abort
      BY <3>1, AbortCalls
    <3>2. CASE ~Abort
      BY <1>3, <3>2 DEF Steer, FollowUp, NextTurn, Ask, vars
    <3> QED BY <3>1, <3>2
  <2>3. UNCHANGED <<entries, appending, overlapped>>
    BY <2>1 DEF session
  <2>4. \A d \in Calls : Appends(d)' => Writer(d)'
    BY <2>1, <2>2, <2>3 DEF Writing, Writer, WriteEntry, At, Appends
  <2> QED BY <2>1, <2>3, <2>4 DEF Writing, WritesOnceInOrder, Persisted, WriteEntry
<1> QED BY <1>1, <1>2, <1>3 DEF Next, Reenter

-----------------------------------------------------------------------------
(* The writes a loop asked for, until it ends.                             *)

(* What a step of one call must do to keep Awaited.                        *)
LEMMA AwaitedFrom ==
  ASSUME Typed, Awaited, NEW c \in Calls,
         \A d \in Calls : d # c => call'[d] = call[d],
         refused => refused', overlapped => overlapped',
         \/ UNCHANGED pendingSessionWrites
         \/ pendingSessionWrites' = <<>>
         \/ pendingSessionWrites # <<>> /\ pendingSessionWrites' = Tail(pendingSessionWrites),
         \/ call'[c].ran => Active(c)'
         \/ refused' \/ pendingSessionWrites' = <<>>
  PROVE  Awaited'
<1> SUFFICES ASSUME ~refused', ~overlapped', NEW p \in DOMAIN pendingSessionWrites',
                    call'[pendingSessionWrites'[p].by].ran
             PROVE  Active(pendingSessionWrites[p].by)'
  BY DEF Awaited, Active
<1>1. PICK q \in DOMAIN pendingSessionWrites : pendingSessionWrites'[p] = pendingSessionWrites[q]
  <2>1. CASE UNCHANGED pendingSessionWrites
    BY <2>1
  <2>2. CASE pendingSessionWrites # <<>> /\ pendingSessionWrites' = Tail(pendingSessionWrites)
    <3>1. pendingSessionWrites \in Seq(Waiting)
      BY WritingTypes
    <3>2. p + 1 \in DOMAIN pendingSessionWrites
          /\ Tail(pendingSessionWrites)[p] = pendingSessionWrites[p + 1]
      BY <2>2, <3>1
    <3> QED BY <2>2, <3>2
  <2>3. pendingSessionWrites' # <<>>
    OBVIOUS
  <2> QED BY <2>1, <2>2, <2>3
<1> DEFINE d == pendingSessionWrites[q].by
<1>2. d \in Calls
  <2>1. pendingSessionWrites[q] \in Waiting
    BY WritingTypes
  <2> QED BY <2>1 DEF Waiting
<1>3. CASE d = c
  <2>1. pendingSessionWrites' # <<>>
    OBVIOUS
  <2> QED BY <1>1, <1>3, <2>1 DEF Active
<1>4. CASE d # c
  <2>1. call'[d] = call[d] /\ (call[d].ran => Active(d))
    BY <1>2, <1>4 DEF Awaited
  <2> QED BY <1>1, <2>1 DEF Active
<1> QED BY <1>3, <1>4

(* Only Return ends a call that ran its loop.                              *)
LEMMA StillRuns ==
  ASSUME Typed, Rooted, Controlled, NEW c \in Calls, Begin(c) \/ GoOn(c), ~Return(c)
  PROVE  call'[c].ran => Active(c)'
<1>0. Placed(c) /\ call \in [Calls -> Local]
  BY DEF Controlled, Typed
<1>1. CASE \/ ShowMessage(c) \/ FlushWrite(c) \/ AppendCompaction(c) \/ MoveTo(c)
           \/ AppendSummary(c) \/ WriteFlushed(c) \/ Write(c)
  <2>1. UNCHANGED call /\ Active(c)
    <3>1. CASE WriteFlushed(c) \/ ShowMessage(c) \/ FlushWrite(c) \/ AppendCompaction(c) \/ MoveTo(c)
           \/ AppendSummary(c)
      BY <3>1 DEF WriteFlushed, ShowMessage, FlushWrite, AppendCompaction, MoveTo, AppendSummary,
        At, Active, Showing, Flushing
    <3>2. CASE Write(c)
      <4>1. UNCHANGED call /\ Appends(c)
        BY <3>2, WritingTypes DEF Write, AppendLine, FailLine, Appends, Nobody, Entry
      <4> QED BY <1>0, <4>1 DEF Placed, Active, Showing, Flushing, Settling
    <3> QED BY <1>1, <3>1, <3>2
  <2> QED BY <2>1 DEF Active
<1>2. CASE \/ Shown(c) \/ ShowThrows(c) \/ AnswerThrows(c) \/ FlushFails(c) \/ SavePointThrows(c)
           \/ PrepareThrows(c) \/ PollThrows(c) \/ AgentEndThrows(c)
           \/ Answer(c) \/ TurnEnd(c) \/ SavePoint(c) \/ PrepareNextTurn(c) \/ PollSteering(c)
           \/ PollFollowUp(c) \/ Polled(c) \/ GoIdle(c) \/ AgentEnded(c)
  <2>1. StepsInLoop(c)
    BY <1>2, ShownSteps, ThrowSteps, PlainSteps
  <2> QED BY <2>1 DEF StepsInLoop, Active, InLoop, Showing, Flushing, Loose
<1>3. CASE Snapshot(c) \/ NextTaken(c) \/ RunLoop(c)
  BY <1>3, SnapshotCall, NextTakenCall, RunLoopCall DEF Active
<1>4. CASE SnapshotThrows(c) \/ NextGivenBack(c) \/ BeforeHookThrows(c) \/ AppendedIdle(c) \/ Settle(c)
  <2>1. Finish(c) /\ call[c].pc \in BeforeLoop \union Settling \union {"append"}
    BY <1>4 DEF SnapshotThrows, NextGivenBack, BeforeHookThrows, Reject, AppendedIdle, Settle,
       BeforeLoop, Settling, At
  <2>2. ~call[c].ran
    BY <1>0, <2>1 DEF Placed, InLoop, Showing, Flushing, Loose, BeforeLoop, Settling
  <2> QED BY <1>0, <2>1, <2>2, FinishCall
<1>5. CASE Summarise(c)
  BY <1>5, SummariseCall DEF Active
<1>6. CASE Begin(c)
  <2>1. CASE Prompt(c)
    BY <2>1, PromptCall DEF BeginsAs, Active
  <2>2. CASE Compact(c)
    BY <2>2, CompactCall DEF BeginsAs, Active
  <2>3. CASE NavigateTree(c)
    BY <2>3, NavigateCall DEF BeginsAs, Active
  <2>4. ASSUME NEW kind \in WriteKinds, AppendIdle(c, kind)
        PROVE  Active(c)'
    BY <2>4, AppendIdleCall DEF BeginsAs, Active
  <2> QED BY <1>6, <2>1, <2>2, <2>3, <2>4 DEF Begin
<1> QED BY <1>1, <1>2, <1>3, <1>4, <1>5, <1>6 DEF GoOn, Loop

(* Once an append overlapped, or a line was refused, it is remembered.     *)
LEMMA FlagsStay ==
  ASSUME Typed, NEW c \in Calls, SessionMove(c)
  PROVE  (refused => refused') /\ (overlapped => overlapped')
<1>1. CASE Opens(c)
  BY <1>1, BeginsWith DEF Opens
<1>2. CASE FailLine(c)
  BY <1>2 DEF FailLine
<1>3. CASE UNCHANGED session \/ AppendLine(c) \/ Commit(c) \/ Abandon(c)
  BY <1>3 DEF session, AppendLine, Commit, Abandon
<1> QED BY <1>1, <1>2, <1>3 DEF SessionMove

(* A step of a call takes the first write that waits, or none.             *)
LEMMA PendingMoves ==
  ASSUME Typed, Rooted, Controlled, NEW c \in Calls, Begin(c) \/ GoOn(c)
  PROVE  \/ UNCHANGED pendingSessionWrites
         \/ pendingSessionWrites' = <<>>
         \/ pendingSessionWrites # <<>> /\ pendingSessionWrites' = Tail(pendingSessionWrites)
<1>1. CASE \/ ShowMessage(c) \/ FlushWrite(c) \/ AppendCompaction(c) \/ MoveTo(c) \/ AppendSummary(c)
           \/ Write(c) \/ WriteFlushed(c) \/ \E kind \in WriteKinds : AppendIdle(c, kind)
  BY <1>1 DEF ShowMessage, FlushWrite, AppendCompaction, MoveTo, AppendSummary, Write, WriteFlushed,
              AppendIdle
<1>2. CASE ~(\/ ShowMessage(c) \/ FlushWrite(c) \/ AppendCompaction(c) \/ MoveTo(c) \/ AppendSummary(c)
             \/ Write(c) \/ WriteFlushed(c) \/ \E kind \in WriteKinds : AppendIdle(c, kind))
  BY <1>2, Departing DEF Departs
<1> QED BY <1>1, <1>2

(* Every step keeps Awaited: a loop returns when no write waits, or when   *)
(* the file system refused one.                                            *)
LEMMA AwaitedStep ==
  ASSUME Typed, Rooted, Controlled, Awaited, [Next]_vars
  PROVE  Awaited'
<1>1. ASSUME NEW c \in Calls, Begin(c) \/ GoOn(c) PROVE Awaited'
  <2>1. /\ \A d \in Calls : d # c => call'[d] = call[d]
        /\ refused => refused'
        /\ overlapped => overlapped'
        /\ \/ UNCHANGED pendingSessionWrites
           \/ pendingSessionWrites' = <<>>
           \/ pendingSessionWrites # <<>> /\ pendingSessionWrites' = Tail(pendingSessionWrites)
    BY <1>1, CallMoves, SessionMoves, FlagsStay, PendingMoves
  <2>2. CASE ~Return(c)
    BY <1>1, <2>1, <2>2, StillRuns, AwaitedFrom
  <2>3. CASE Return(c)
    <3>1. UNCHANGED pendingSessionWrites /\ (Flushed(c) \/ Abandon(c))
      BY <2>3 DEF Return
    <3>2. CASE Flushed(c)
      <4>1. pendingSessionWrites' = <<>>
        BY <3>1, <3>2 DEF Flushed
      <4> QED BY <2>1, <4>1, AwaitedFrom
    <3>3. CASE Abandon(c)
      <4>1. refused /\ refused' = refused
        BY <3>3 DEF Abandon, Controlled, Placed
      <4> QED BY <2>1, <4>1, AwaitedFrom
    <3> QED BY <3>1, <3>2, <3>3
  <2> QED BY <2>2, <2>3
<1>2. CASE Steer \/ FollowUp \/ NextTurn \/ Abort \/ UNCHANGED vars
  <2>1. UNCHANGED <<session, pendingSessionWrites>>
    BY <1>2 DEF Steer, FollowUp, NextTurn, Ask, Abort, vars
  <2>2. ASSUME NEW d \in Calls
        PROVE  call'[d].pc = call[d].pc /\ call'[d].ran = call[d].ran
    <3>1. CASE Abort
      BY <3>1, AbortCalls
    <3>2. CASE ~Abort
      BY <1>2, <3>2 DEF Steer, FollowUp, NextTurn, Ask, vars
    <3> QED BY <3>1, <3>2
  <2>3. UNCHANGED <<refused, overlapped>>
    BY <2>1 DEF session
  <2>4. \A p \in DOMAIN pendingSessionWrites : pendingSessionWrites[p].by \in Calls
    <3>1. \A p \in DOMAIN pendingSessionWrites : pendingSessionWrites[p] \in Waiting
      BY WritingTypes
    <3> QED BY <3>1 DEF Waiting
  <2> QED BY <2>1, <2>2, <2>3, <2>4 DEF Awaited, Active
<1>3. ASSUME NEW kind \in WriteKinds, AcceptWrite(kind) PROVE Awaited'
  <2> DEFINE w == [kind |-> kind, item |-> nextWrite, by |-> Holder]
  <2>1. /\ pendingSessionWrites' = Append(pendingSessionWrites, w) /\ w \in Waiting
        /\ UNCHANGED <<call, refused, overlapped>>
    BY <1>3, AcceptTypes DEF session
  <2>2. w.by = Holder /\ Active(Holder)
    BY <1>3, HolderIsBusy DEF AcceptWrite
  <2> HIDE DEF w
  <2>3. \A p \in DOMAIN pendingSessionWrites' :
          (p \in DOMAIN pendingSessionWrites /\ pendingSessionWrites'[p] = pendingSessionWrites[p])
          \/ pendingSessionWrites'[p] = w
    BY <2>1, WritingTypes, AppendedTo
  <2> HIDE DEF Holder
  <2>4. ASSUME ~refused', ~overlapped', NEW p \in DOMAIN pendingSessionWrites',
               call'[pendingSessionWrites'[p].by].ran
        PROVE  Active(pendingSessionWrites'[p].by)
    BY <2>1, <2>2, <2>3, <2>4 DEF Awaited
  <2> QED BY <2>1, <2>4 DEF Awaited, Active
<1> QED BY <1>1, <1>2, <1>3 DEF Next, Reenter

-----------------------------------------------------------------------------
(* Branching is kept.                                                      *)

(* The context depends on the entries and the leaf only.                   *)
LEMMA ContextStays ==
  ASSUME UNCHANGED <<entries, leafId>>
  PROVE  Context' = Context
BY DEF Context, Path, Stored, EntryOf

(* A message appended to the leaf is the next of the context.              *)
LEMMA ContextCommits ==
  ASSUME Typed, Rooted, Mirrored, ~overlapped, NEW c \in Calls, Commit(c),
         appending[c].entry.kind \in ShownKind, appending[c].entry.parentId = leafId
  PROVE  Context' = Append(Context, Msg(appending[c].entry.kind, appending[c].entry.item))
<1> DEFINE e == appending[c].entry
<1>1. /\ Appends(c) /\ entries' = Append(entries, e) /\ e \in SessionEntry /\ leafId' = e.id
      /\ entries \in Seq(SessionEntry) /\ leafId \in Nat
  BY WritingTypes DEF Commit, Committing, Appends, Nobody, Entry, LeafAfter, ShownKind, Typed, SessionTypeOK
<1>2. Older(e) /\ \A p \in DOMAIN entries : entries[p].id < e.id
  BY <1>1 DEF Rooted, Mirrored
<1>3. Rising(entries)
  BY ContextIsTyped
<1>4. PathIn(Append(entries, e), e.id) = Append(PathIn(entries, leafId), e)
  <2>1. e.parentId < e.id /\ e.parentId = leafId
    BY <1>2 DEF Older
  <2> HIDE DEF e
  <2> QED BY <1>1, <1>2, <1>3, <2>1, PathGrows
<1>5. Path(leafId)' = PathIn(entries', leafId')
  BY DEF Path, PathIn, UpFrom, StoredIn, Stored, EntryIn, EntryOf
<1>6. PathIn(entries, leafId) = Path(leafId)
  BY PathIsPathIn
<1> DEFINE path == Path(leafId)
<1>7. path \in Seq(SessionEntry) /\ path \in Seq(ToSet(entries))
  BY ContextIsTyped
<1>8. \A p \in 1..Len(path) : path[p].target # e.id
  <2> SUFFICES ASSUME NEW p \in 1..Len(path) PROVE path[p].target # e.id
    OBVIOUS
  <2> HIDE DEF path, e
  <2>1. path[p] \in ToSet(entries)
    BY <1>7
  <2>2. PICK q \in DOMAIN entries : path[p] = entries[q]
    BY <2>1 DEF ToSet
  <2>3. entries[q].target < entries[q].id /\ entries[q].id < e.id
    BY <1>2 DEF Rooted, Older
  <2>4. entries[q].target \in Nat /\ entries[q].id \in Nat /\ e.id \in Nat
    <3>1. entries[q] \in SessionEntry
      BY <1>1
    <3> QED BY <1>1, <3>1 DEF SessionEntry
  <2> QED BY <2>2, <2>3, <2>4
<1>9. Context' = ContextOf(Append(path, e))
  <2>1. Context' = ContextOf(Path(leafId)')
    BY DEF Context
  <2>2. Path(leafId)' = PathIn(Append(entries, e), e.id)
    BY <1>1, <1>5
  <2>3. Path(leafId)' = Append(path, e)
    BY <2>2, <1>4, <1>6
  <2> HIDE DEF path, e
  <2> QED BY <2>1, <2>3
<1>10. e.kind \notin {"compaction", "setting", "leaf"}
  BY DEF ShownKind
<1>11. ContextOf(Append(path, e)) = Append(ContextOf(path), Msg(e.kind, e.item))
  <2> HIDE DEF path, e
  <2> QED BY <1>1, <1>7, <1>8, <1>10, ContextGrows
<1> QED BY <1>9, <1>11 DEF Context

(* The messages in hand, while the first of them is appended.              *)
LEMMA HeadShown ==
  ASSUME Typed, Controlled, Writing, NEW c \in Calls, Commit(c), call[c].pc \in Showing
  PROVE  /\ appending[c].entry.kind \in ShownKind
         /\ Msg(appending[c].entry.kind, appending[c].entry.item) = Head(call[c].hand)
         /\ call[c].hand \in Seq(Message) /\ call[c].hand # <<>>
<1>1. Appends(c) /\ call[c].hand \in Seq(InHand) /\ call[c].hand # <<>>
  BY DEF Commit, Committing, Appends, Nobody, Entry, Controlled, Placed, Typed, Local
<1>2. Head(call[c].hand) \in InHand
  BY <1>1
<1>3. appending[c].entry.kind = Head(call[c].hand).kind
      /\ appending[c].entry.item = Head(call[c].hand).item
  BY <1>1 DEF Writing, Writer
<1>4. Msg(Head(call[c].hand).kind, Head(call[c].hand).item) = Head(call[c].hand)
  BY <1>2 DEF InHand, Msg
<1>5. InHand \subseteq Message
  BY DEF InHand, Message, ShownKind, EntryKind
<1>6. call[c].hand \in Seq(Message)
  BY <1>1, <1>5, SeqMonotonic
<1> QED BY <1>1, <1>2, <1>3, <1>4, <1>6 DEF InHand

(* The pcs at which a call relies on the session's context or leaf.        *)
Reading == Minding \union Showing
(* Branching, of one call.                                                 *)
BranchOf(c) ==
  /\ Appends(c) /\ call[c].pc \in Showing => appending[c].entry.parentId = leafId
  /\ call[c].pc \in Minding => call[c].context = Context
  /\ At(c, "prompts") => call[c].context = Context \o call[c].hand

(* Branching is that of every call.                                        *)
LEMMA BranchingIs ==
  Branching <=> (limits.patient => \A c \in Calls : BranchOf(c))
BY DEF Branching, BranchOf, Minding

(* No call of patient callers reads the session while another appends.     *)
LEMMA NoReader ==
  ASSUME Typed, Controlled, limits.patient, NEW c \in Calls, Commit(c), NEW d \in Calls, d # c
  PROVE  call[d].pc \notin Reading
<1> SUFFICES ASSUME call[d].pc \in Reading PROVE FALSE
  OBVIOUS
<1>1. Active(d) /\ ~At(d, "append") /\ ~At(d, "agentEnd")
  BY DEF Reading, Minding, Showing, Active, At
<1>2. Alone(d)
  BY <1>1, AloneInRun
<1>3. Appends(c)
  BY Ended
<1>4. Active(c)
  BY <1>3 DEF Controlled, Placed, Active, Showing, Flushing, Settling
<1> QED BY <1>2, <1>4 DEF Alone

(* A step of one call keeps it for the others.                             *)
LEMMA BranchElsewhere ==
  ASSUME Typed, Controlled, limits.patient, NEW c \in Calls, SessionMove(c),
         NEW d \in Calls, d # c, call'[d] = call[d], BranchOf(d)
  PROVE  BranchOf(d)'
<1>1. CASE Commit(c)
  <2>1. call'[d].pc \notin Reading
    BY <1>1, NoReader
  <2> QED BY <2>1 DEF BranchOf, Reading, At, Showing
<1>2. CASE ~Commit(c)
  <2>1. UNCHANGED <<entries, leafId>> /\ appending'[d] = appending[d]
    <3>1. CASE Opens(c)
      BY <3>1, BeginsWith DEF Opens
    <3>2. CASE ~Opens(c)
      BY <1>2, <3>2, WritingTypes DEF SessionMove, session, AppendLine, FailLine, Abandon
    <3> QED BY <3>1, <3>2
  <2>2. Context' = Context
    BY <2>1, ContextStays
  <2> QED BY <2>1, <2>2 DEF BranchOf, At, Appends
<1> QED BY <1>1, <1>2

(* A step of the loop keeps it for its own call.                           *)
LEMMA BranchInLoop ==
  ASSUME Typed, Rooted, Mirrored, Controlled, Writing, ~overlapped, NEW c \in Calls, BranchOf(c),
         MindsContext(c), Others(c), ~Appends(c)'
  PROVE  BranchOf(c)'
<1>1. CASE call'[c].pc \notin Minding \union {"prompts"}
  BY <1>1 DEF BranchOf, At
<1>2. CASE /\ UNCHANGED session /\ call[c].pc \in Minding /\ call'[c].pc \in Minding
           /\ call'[c].context = call[c].context
  <2>1. UNCHANGED <<entries, leafId>> /\ "prompts" \notin Minding
    BY <1>2 DEF session, Minding
  <2>2. call[c].context = Context
    BY <1>2 DEF BranchOf
  <2>3. Context' = Context
    BY <2>1, ContextStays
  <2> QED BY <1>2, <2>1, <2>2, <2>3 DEF BranchOf, At
<1>3. CASE UNCHANGED session /\ call'[c].pc \in Minding /\ call'[c].context = Context
  <2>1. UNCHANGED <<entries, leafId>> /\ "prompts" \notin Minding
    BY <1>3 DEF session, Minding
  <2> QED BY <1>3, <2>1, ContextStays DEF BranchOf, At
<1> DEFINE h == call[c].hand
<1>4. CASE /\ Commit(c) /\ At(c, "prompts") /\ call'[c].context = call[c].context
           /\ call'[c].hand = Tail(h)
           /\ call'[c].pc = "prompts" \/ (call'[c].pc = "poll" /\ Len(h) = 1)
  <2>1. call[c].pc \in Showing /\ Appends(c)
    BY <1>4, Ended DEF At, Showing
  <2>2. Context' = Append(Context, Head(h)) /\ h \in Seq(Message) /\ h # <<>>
    BY <1>4, <2>1, HeadShown, ContextCommits DEF BranchOf
  <2>3. Context \in Seq(Message)
    BY ContextIsTyped
  <2>4. call[c].context = Context \o h
    BY <1>4 DEF BranchOf
  <2>5. Context' \o Tail(h) = Context \o h
    <3> HIDE DEF h
    <3> QED BY <2>2, <2>3, MoveHead
  <2>6. CASE call'[c].pc = "prompts"
    <3>1. call'[c].context = Context' \o call'[c].hand
      BY <1>4, <2>4, <2>5
    <3> QED BY <2>6, <3>1 DEF BranchOf, At, Minding
  <2>7. CASE call'[c].pc = "poll" /\ Len(h) = 1
    <3>1. Tail(h) = <<>> /\ Append(Context, Head(h)) \in Seq(Message)
      <4> HIDE DEF h
      <4>1. Tail(h) \in Seq(Message) /\ Len(Tail(h)) = 0 /\ Head(h) \in Message
        BY <2>2, <2>7
      <4>2. Tail(h) = <<>>
        BY <4>1, EmptySeq
      <4> DEFINE x == Context
      <4>3. x \in Seq(Message)
        BY <2>3
      <4> HIDE DEF x
      <4>4. Append(x, Head(h)) \in Seq(Message)
        BY <4>1, <4>3
      <4> QED BY <4>2, <4>4 DEF x
    <3>2. Append(Context, Head(h)) \o <<>> = Append(Context, Head(h))
      <4> DEFINE x == Append(Context, Head(h))
      <4>1. x \in Seq(Message)
        BY <3>1
      <4> HIDE DEF x
      <4>2. x \o <<>> = x
        BY <4>1
      <4> QED BY <4>2 DEF x
    <3>3. call'[c].context = Context'
      BY <1>4, <2>2, <2>4, <2>5, <3>1, <3>2
    <3> QED BY <2>7, <3>3 DEF BranchOf, At
  <2> QED BY <1>4, <2>6, <2>7
<1>5. CASE /\ Commit(c) /\ At(c, "inject") /\ call'[c].pc \in Minding
           /\ call'[c].context = Append(call[c].context, Head(h))
  <2>1. call[c].pc \in Showing /\ call[c].pc \in Minding /\ Appends(c) /\ "prompts" \notin Minding
    BY <1>5, Ended DEF At, Showing, Minding
  <2>2. Context' = Append(Context, Head(h))
    BY <1>5, <2>1, HeadShown, ContextCommits DEF BranchOf
  <2>3. call[c].context = Context
    BY <2>1 DEF BranchOf
  <2> QED BY <1>5, <2>1, <2>2, <2>3 DEF BranchOf, At
<1> QED BY <1>1, <1>2, <1>3, <1>4, <1>5 DEF MindsContext

(* A call that reads nothing of the session.                               *)
LEMMA NotReading ==
  ASSUME NEW c \in Calls, call'[c].pc \notin Reading
  PROVE  BranchOf(c)'
BY DEF BranchOf, Reading, Showing, At

(* A call that waits for an append of its own, or begins one.              *)
LEMMA BranchStaysAt ==
  ASSUME Typed, Controlled, NEW c \in Calls, BranchOf(c),
         \/ ShowMessage(c) \/ FlushWrite(c) \/ AppendCompaction(c) \/ MoveTo(c)
         \/ AppendSummary(c) \/ WriteFlushed(c) \/ Write(c)
  PROVE  BranchOf(c)'
<1>1. CASE FlushWrite(c) \/ AppendCompaction(c) \/ MoveTo(c) \/ AppendSummary(c) \/ WriteFlushed(c)
  <2>1. call'[c].pc \notin Reading
    BY <1>1 DEF FlushWrite, AppendCompaction, MoveTo, AppendSummary, WriteFlushed, At,
       Reading, Minding, Showing, Flushing
  <2> QED BY <2>1, NotReading
<1>2. CASE ShowMessage(c)
  <2> DEFINE m == Head(call[c].hand)
  <2>1. BeginAppendAt(c, m.kind, m.item, 0, leafId) /\ UNCHANGED call
    BY <1>2 DEF ShowMessage, BeginAppend
  <2>2. appending'[c].entry.parentId = leafId /\ UNCHANGED <<entries, leafId>>
    BY <2>1, BeginsWith
  <2>3. Context' = Context
    BY <2>2, ContextStays
  <2> QED BY <2>1, <2>2, <2>3 DEF BranchOf, At
<1>3. CASE Write(c)
  <2>1. UNCHANGED <<entries, leafId>> /\ UNCHANGED call /\ Appends(c)
        /\ appending'[c].entry = appending[c].entry
    BY <1>3, WritingTypes DEF Write, AppendLine, FailLine, Appends, Nobody, Entry
  <2>2. Context' = Context
    BY <2>1, ContextStays
  <2> QED BY <2>1, <2>2 DEF BranchOf, At
<1> QED BY <1>1, <1>2, <1>3

(* So do the steps before the loop.                                        *)
LEMMA BranchBeforeLoop ==
  ASSUME Typed, Rooted, Controlled, NEW c \in Calls, BranchOf(c),
         Snapshot(c) \/ NextTaken(c) \/ RunLoop(c)
  PROVE  BranchOf(c)'
<1>0. UNCHANGED session
  BY DEF Snapshot, NextTaken, RunLoop
<1>1. UNCHANGED <<entries, leafId>> /\ appending' = appending
  BY <1>0 DEF session
<1>2. Context' = Context
  BY <1>1, ContextStays
<1>3. ~Appends(c)'
  <2>1. Placed(c) /\ call[c].pc \in BeforeLoop
    BY DEF Controlled, Snapshot, NextTaken, RunLoop, At, BeforeLoop
  <2> QED BY <1>1, <2>1 DEF Placed, Appends, BeforeLoop, Showing, Flushing, Settling
<1>4. CASE Snapshot(c)
  <2>1. call'[c].context = Context /\ call'[c].pc # "prompts"
    BY <1>4, SnapshotCall
  <2> QED BY <1>2, <1>3, <2>1 DEF BranchOf, At
<1>5. CASE NextTaken(c)
  <2>1. call'[c].context = call[c].context /\ call'[c].pc = "beforeHook" /\ At(c, "takeNext")
    BY <1>5, NextTakenCall
  <2>2. call[c].context = Context
    BY <2>1 DEF BranchOf, At, Minding
  <2> QED BY <1>2, <1>3, <2>1, <2>2 DEF BranchOf, At
<1>6. CASE RunLoop(c)
  <2>1. call'[c].context = call[c].context \o call[c].hand /\ call'[c].pc = "prompts"
        /\ At(c, "beforeHook") /\ call'[c].hand = call[c].hand
    BY <1>6, RunLoopCall
  <2>2. call[c].context = Context
    BY <2>1 DEF BranchOf, At, Minding
  <2>3. call'[c].context = Context' \o call'[c].hand
    BY <1>2, <2>1, <2>2
  <2> QED BY <1>3, <2>1, <2>3 DEF BranchOf, At, Minding
<1> QED BY <1>4, <1>5, <1>6

(* Any step keeps it for its own call.                                     *)
LEMMA BranchHere ==
  ASSUME Typed, Rooted, Mirrored, Controlled, Writing, ~overlapped, NEW c \in Calls, BranchOf(c),
         Begin(c) \/ GoOn(c)
  PROVE  BranchOf(c)'
<1>1. CASE \/ ShowMessage(c) \/ FlushWrite(c) \/ AppendCompaction(c) \/ MoveTo(c)
           \/ AppendSummary(c) \/ WriteFlushed(c) \/ Write(c)
  BY <1>1, BranchStaysAt
<1>2. CASE \/ Shown(c) \/ ShowThrows(c) \/ AnswerThrows(c) \/ FlushFails(c) \/ SavePointThrows(c)
           \/ PrepareThrows(c) \/ PollThrows(c) \/ AgentEndThrows(c)
           \/ Answer(c) \/ TurnEnd(c) \/ SavePoint(c) \/ PrepareNextTurn(c) \/ PollSteering(c)
           \/ PollFollowUp(c) \/ Polled(c) \/ GoIdle(c) \/ AgentEnded(c)
  <2>1. StepsInLoop(c)
    BY <1>2, ShownSteps, ThrowSteps, PlainSteps
  <2>2. MindsContext(c) /\ Others(c) /\ ~Appends(c)'
    BY <2>1 DEF StepsInLoop, Appends
  <2> QED BY <2>2, BranchInLoop
<1>3. CASE Snapshot(c) \/ NextTaken(c) \/ RunLoop(c)
  BY <1>3, BranchBeforeLoop
<1>4. CASE \/ SnapshotThrows(c) \/ NextGivenBack(c) \/ BeforeHookThrows(c)
           \/ Return(c) \/ AppendedIdle(c) \/ Settle(c) \/ Summarise(c)
  <2>1. Finish(c) \/ Summarise(c)
    BY <1>4 DEF SnapshotThrows, NextGivenBack, BeforeHookThrows, Reject, Return, AppendedIdle, Settle
  <2>2. call'[c].pc \in {"done", "summarising"}
    BY <2>1, FinishCall, SummariseCall DEF Typed
  <2>3. call'[c].pc \notin Reading
    BY <2>2 DEF Reading, Minding, Showing
  <2> QED BY <2>3, NotReading
<1>5. CASE Begin(c)
  <2>1. call'[c].pc \in {"snapshot", "compacting", "navigating", "append"}
    <3>1. CASE Prompt(c)
      BY <3>1, PromptCall DEF BeginsAs
    <3>2. CASE Compact(c)
      BY <3>2, CompactCall DEF BeginsAs
    <3>3. CASE NavigateTree(c)
      BY <3>3, NavigateCall DEF BeginsAs
    <3>4. ASSUME NEW kind \in WriteKinds, AppendIdle(c, kind) PROVE call'[c].pc = "append"
      BY <3>4, AppendIdleCall DEF BeginsAs
    <3> QED BY <1>5, <3>1, <3>2, <3>3, <3>4 DEF Begin
  <2>2. call'[c].pc \notin Reading
    BY <2>1 DEF Reading, Minding, Showing
  <2> QED BY <2>2, NotReading
<1> QED BY <1>1, <1>2, <1>3, <1>4, <1>5 DEF GoOn, Loop

(* Every step keeps Branching.                                             *)
LEMMA BranchingStep ==
  ASSUME Typed, Rooted, Mirrored, Controlled, Writing, AppendsAreSerial, Branching, [Next]_vars
  PROVE  Branching'
<1>0. UNCHANGED limits
  BY LimitsStay
<1> SUFFICES ASSUME limits.patient, NEW d \in Calls PROVE BranchOf(d)'
  <2>1. Branching' <=> (limits'.patient => \A d \in Calls : BranchOf(d)')
    BY DEF Branching, BranchOf, Minding
  <2> QED BY <1>0, <2>1
<1>1. BranchOf(d) /\ ~overlapped
  BY BranchingIs DEF AppendsAreSerial
<1>2. ASSUME NEW c \in Calls, Begin(c) \/ GoOn(c) PROVE BranchOf(d)'
  <2>1. CASE d = c
    BY <1>1, <1>2, <2>1, BranchHere
  <2>2. CASE d # c
    BY <1>1, <1>2, <2>2, SessionMoves, CallMoves, BranchElsewhere
  <2> QED BY <2>1, <2>2
<1>3. CASE Reenter \/ UNCHANGED vars
  <2>1. UNCHANGED session
    BY <1>3 DEF Reenter, Steer, FollowUp, NextTurn, Ask, Abort, AcceptWrite, vars
  <2>2. UNCHANGED <<entries, leafId>> /\ appending' = appending
    BY <2>1 DEF session
  <2>3. call'[d].pc = call[d].pc /\ call'[d].hand = call[d].hand
        /\ call'[d].context = call[d].context
    <3>1. CASE Abort
      BY <3>1, AbortCalls
    <3>2. CASE ~Abort
      BY <1>3, <3>2 DEF Reenter, Steer, FollowUp, NextTurn, Ask, AcceptWrite, vars
    <3> QED BY <3>1, <3>2
  <2>4. Context' = Context
    BY <2>2, ContextStays
  <2> QED BY <1>1, <2>2, <2>3, <2>4 DEF BranchOf, At, Appends
<1> QED BY <1>2, <1>3 DEF Next

-----------------------------------------------------------------------------
(* The invariant holds at first, and the theorems.                         *)

(* At first no call is made.                                               *)
LEMMA InitCalls ==
  ASSUME Init, NEW c \in Calls
  PROVE  /\ call[c] = Free /\ appending[c] = Nobody /\ ~Appends(c) /\ ~Committing(c) /\ ~AppendFailed(c)
         /\ ~Active(c) /\ call[c].pc = "free"
BY DEF Init, SessionInit, Appends, Committing, AppendFailed, Nobody, Entry, Active, Free

(* At first every variable has its type, and the tree is empty.            *)
LEMMA InitTyped ==
  ASSUME Init
  PROVE  Typed /\ Rooted
<1>1. SessionTypeOK
  <2>1. Nobody \in [stage : {"none", "file", "memory", "failed"}, entry : SessionEntry]
    BY DEF Nobody, Entry, SessionEntry, EntryKind
  <2>2. appending \in [Calls -> [stage : {"none", "file", "memory", "failed"}, entry : SessionEntry]]
    BY <2>1 DEF Init, SessionInit
  <2>3. file = <<>> /\ entries = <<>> /\ leafId = 0 /\ overlapped = FALSE /\ refused = FALSE
    BY DEF Init, SessionInit
  <2>4. <<>> \in Seq(SessionEntry)
    OBVIOUS
  <2>5. file \in Seq(SessionEntry) /\ entries \in Seq(SessionEntry)
    BY <2>3, <2>4
  <2> QED BY <2>2, <2>3, <2>5 DEF SessionTypeOK
<1>2. call \in [Calls -> Local]
  BY FreeIsLocal DEF Init
<1>3. Typed
  BY <1>1, <1>2 DEF Init, Typed
<1>4. entries = <<>> /\ leafId = 0 /\ \A c \in Calls : call[c].goal = 0 /\ ~Appends(c)
  BY InitCalls DEF Init, SessionInit, Free
<1>5. Rooted
  BY <1>4 DEF Rooted, Known
<1> QED BY <1>3, <1>5

(* At first nothing is under way.                                          *)
LEMMA InitRest ==
  ASSUME Init
  PROVE  Serial /\ Mirrored /\ Controlled /\ Awaited /\ AppendsAreSerial /\ Branching
<1>1. /\ entries = <<>> /\ file = <<>> /\ leafId = 0 /\ ~overlapped /\ ~refused
      /\ pendingSessionWrites = <<>> /\ accepted = <<>> /\ phase = "idle"
      /\ runPromise = None /\ runAbortController = None
  BY DEF Init, SessionInit
<1>2. Serial /\ AppendsAreSerial
  BY <1>1, InitCalls DEF Serial, AppendsAreSerial
<1>3. Mirrored
  BY <1>1, InitCalls DEF Mirrored, LeafOfFile
<1>4. Awaited
  BY <1>1 DEF Awaited
<1>5. ASSUME NEW c \in Calls PROVE Placed(c)
  BY InitCalls DEF Placed, At, Active, Free, Showing
<1>6. Controlled
  <2>1. \A c \in Calls : call[c].pc \notin BeforeLoop /\ ~Active(c)
    BY InitCalls DEF BeforeLoop
  <2> QED BY <1>1, <1>5, <2>1 DEF Controlled
<1>7. Branching
  BY InitCalls DEF Branching, Showing, At
<1> QED BY <1>2, <1>3, <1>4, <1>6, <1>7

(* At first no write was asked for.                                        *)
LEMMA InitWriting ==
  ASSUME Init
  PROVE  Writing
<1>1. /\ entries = <<>> /\ pendingSessionWrites = <<>> /\ accepted = <<>>
  BY DEF Init, SessionInit
<1>2. Only(entries, {e \in SessionEntry : e.kind \in {"custom", "setting"} /\ e.item \in ToSet(accepted)}) = <<>>
  BY <1>1, OnlyEmpty
<1>3. Persisted({"custom", "setting"}, ToSet(accepted)) = <<>>
  <2> DEFINE es == Only(entries, {e \in SessionEntry : /\ e.kind \in {"custom", "setting"}
                                                       /\ e.item \in ToSet(accepted)})
  <2>1. Persisted({"custom", "setting"}, ToSet(accepted)) = [p \in DOMAIN es |-> es[p].item]
    BY DEF Persisted
  <2>2. es = <<>>
    BY <1>2
  <2> HIDE DEF es
  <2>3. [p \in DOMAIN es |-> es[p].item] = <<>>
    BY <2>2
  <2> QED BY <2>1, <2>3
<1>4. WritesOnceInOrder
  BY <1>1, <1>3 DEF WritesOnceInOrder
<1>5. \A c \in Calls : ~Appends(c)
  BY InitCalls
<1> QED BY <1>1, <1>4, <1>5 DEF Writing

(* The inductive invariant holds in every reachable state, whatever the    *)
(* calls, modes, kinds of writes and limits.                               *)
THEOREM HarnessInvariant == Spec => []IInv
<1>1. Init => IInv
  BY InitTyped, InitRest, InitWriting DEF IInv
<1>2. IInv /\ [Next]_vars => IInv'
  <2> SUFFICES ASSUME IInv, [Next]_vars PROVE IInv'
    OBVIOUS
  <2>1. /\ Typed /\ Rooted /\ Serial /\ Mirrored /\ Controlled /\ Writing /\ Awaited
        /\ AppendsAreSerial /\ Branching
    BY DEF IInv
  <2>2. Typed' /\ Rooted'
    BY <2>1, TypedStep
  <2>3. Serial' /\ Mirrored' /\ AppendsAreSerial'
    BY <2>1, SessionStep
  <2>4. Controlled'
    BY <2>1, ControlledStep
  <2>5. Writing'
    BY <2>1, WritingStep
  <2>6. Awaited'
    BY <2>1, AwaitedStep
  <2>7. Branching'
    BY <2>1, BranchingStep
  <2> QED BY <2>2, <2>3, <2>4, <2>5, <2>6, <2>7 DEF IInv
<1> QED BY <1>1, <1>2, PTL DEF Spec

(* While no append is under way and none ever overlapped another, the file *)
(* of the session holds what is in memory and gives the same leaf when it  *)
(* is opened again (jsonl-storage.ts).                                     *)
THEOREM StorageReopensAtLeaf == Spec => []ReopensAtLeaf
<1>1. IInv => ReopensAtLeaf
  <2> SUFFICES ASSUME IInv, ~overlapped, \A c \in Calls : ~Appends(c)
               PROVE  file = entries /\ LeafOfFile(file) = leafId
    BY DEF ReopensAtLeaf
  <2>1. \A c \in Calls : ~Committing(c)
    BY DEF Committing, Appends, Nobody
  <2> QED BY <2>1 DEF IInv, Mirrored
<1> QED BY <1>1, HarnessInvariant, PTL

(* The harness of patient callers never overlaps two appends, and while it *)
(* does not, the writes asked for reach the session once each and in order *)
(* (flushPendingSessionWrites).                                            *)
THEOREM WritesOrderly == Spec => []WritesAreOrderly
<1>1. IInv => WritesAreOrderly
  BY DEF IInv, Writing, WritesAreOrderly
<1> QED BY <1>1, HarnessInvariant, PTL

(* The types of the proof imply those the runs check.                      *)
LEMMA TypesHold ==
  ASSUME Typed
  PROVE  TypeOK
<1>1. \A p \in DOMAIN pendingSessionWrites :
       pendingSessionWrites[p] \in [kind : EntryKind, item : Nat, by : Calls]
  <2>1. \A p \in DOMAIN pendingSessionWrites : pendingSessionWrites[p] \in Waiting
    BY WritingTypes
  <2> QED BY <2>1 DEF Waiting, EntryKind
<1>2. \A q \in ToSet(queues) : q \in Seq(Nat)
  BY DEF Typed, queues, ToSet
<1>3. DOMAIN call = Calls /\ \A c \in Calls : DOMAIN call[c] = DOMAIN Free
  <2>1. call \in [Calls -> Local]
    BY DEF Typed
  <2>2. ASSUME NEW r \in Local PROVE DOMAIN r = DOMAIN Free
    BY DEF Local, Free
  <2> QED BY <2>1, <2>2
<1> QED BY <1>1, <1>2, <1>3 DEF Typed, TypeOK

(* Every variable has its type; patient callers find the harness busy      *)
(* exactly while a call is; and when all calls returned no loop left a     *)
(* write behind, unless the file system refused a line (the finally blocks *)
(* of executeTurn and prompt, and agent_end).                              *)
THEOREM HarnessSettled == Spec => []HarnessSettles
<1>1. IInv => HarnessSettles
  <2> SUFFICES ASSUME IInv PROVE HarnessSettles
    OBVIOUS
  <2>1. Typed /\ Controlled /\ Awaited
    BY DEF IInv
  <2>2. PhaseIsHonest
    <3>1. phase # "idle" => \E c \in Calls : Active(c) /\ call[c].op # "append"
      <4> SUFFICES ASSUME phase # "idle" PROVE \E c \in Calls : Active(c) /\ call[c].op # "append"
        OBVIOUS
      <4>1. PICK c \in Calls : Busy(c)
        BY <2>1 DEF Controlled
      <4>2. Active(c) /\ call[c].op # "append"
        BY <2>1, <4>1 DEF Controlled, Placed, Busy
      <4> QED BY <4>2
    <3>2. (\A c \in Calls : ~Active(c)) => runAbortController = None /\ runPromise = None
      BY <2>1, ControlTypes DEF Controlled, Active, BeforeLoop, InLoop, Showing, Flushing, Loose
    <3> QED BY <2>1, <3>1, <3>2 DEF Controlled, PhaseIsHonest
  <2>3. LoopsLeaveNoWrites
    <3>1. \A p \in DOMAIN pendingSessionWrites : pendingSessionWrites[p].by \in Calls
      <4>1. \A p \in DOMAIN pendingSessionWrites : pendingSessionWrites[p] \in Waiting
        BY <2>1, WritingTypes
      <4> QED BY <4>1 DEF Waiting
    <3> QED BY <2>1, <3>1 DEF Awaited, LoopsLeaveNoWrites
  <2> QED BY <2>1, <2>2, <2>3, TypesHold DEF HarnessSettles
<1> QED BY <1>1, HarnessInvariant, PTL

(* A request of patient callers is made about the branch of the session    *)
(* (createTurnState, prepareNextTurn and the loop's own context).          *)
THEOREM RequestsSeeBranch == Spec => []RequestSeesBranch
<1>1. IInv => RequestSeesBranch
  BY DEF IInv, Branching, RequestSeesBranch, At
<1> QED BY <1>1, HarnessInvariant, PTL

-----------------------------------------------------------------------------
(* Where the messages are.                                                  *)

(* The entries of the messages among a set of items, and their items.      *)
UserEntries(A) == {e \in SessionEntry : e.kind \in {"user"} /\ e.item \in A}
MessageItems(es, A) == LET o == Only(es, UserEntries(A)) IN [p \in DOMAIN o |-> o[p].item]
Kept == MessageItems(entries, ToSet(asked))

(* No message twice in a queue, in a hand.                                 *)
Unlike(q) == \A i, j \in DOMAIN q : q[i] = q[j] => i = j
UnlikeMessages(h) ==
  \A i, j \in DOMAIN h :
    h[i].kind = "user" /\ h[j].kind = "user" /\ h[i].item = h[j].item => i = j
Climbing(q)    == \A i, j \in DOMAIN q : i < j => q[i] < q[j]
Precedes(a, b) == \A i \in DOMAIN a, j \in DOMAIN b : a[i] < b[j]
AllUsers(h)    == \A p \in DOMAIN h : h[p].kind = "user"

-----------------------------------------------------------------------------
(* Queues.                                                                  *)

(* Two queues without a number in common, one behind the other.             *)
LEMMA UnlikeConcat ==
  ASSUME NEW a \in Seq(Nat), NEW b \in Seq(Nat), Unlike(a), Unlike(b),
         ToSet(a) \intersect ToSet(b) = {}
  PROVE  Unlike(a \o b)
<1>1. /\ Len(a) \in Nat /\ Len(b) \in Nat /\ DOMAIN (a \o b) = 1 .. Len(a) + Len(b)
      /\ DOMAIN a = 1 .. Len(a) /\ DOMAIN b = 1 .. Len(b)
      /\ \A i \in 1 .. Len(a) + Len(b) : (a \o b)[i] = IF i <= Len(a) THEN a[i] ELSE b[i - Len(a)]
  OBVIOUS
<1>2. \A i \in 1 .. Len(a), j \in 1 .. Len(b) : a[i] # b[j]
  BY <1>1 DEF ToSet
<1> DEFINE s == a \o b
           m == Len(a)
           n == Len(b)
<1>3. SUFFICES ASSUME NEW i \in 1 .. m + n, NEW j \in 1 .. m + n, s[i] = s[j]
               PROVE  i = j
  BY <1>1 DEF Unlike
<1>4. /\ s[i] = IF i <= m THEN a[i] ELSE b[i - m]
      /\ s[j] = IF j <= m THEN a[j] ELSE b[j - m]
      /\ m \in Nat /\ n \in Nat
  BY <1>1
<1>5. /\ \A x, y \in 1 .. m : a[x] = a[y] => x = y
      /\ \A x, y \in 1 .. n : b[x] = b[y] => x = y
      /\ \A x \in 1 .. m, y \in 1 .. n : a[x] # b[y]
  BY <1>1, <1>2 DEF Unlike
<1> HIDE DEF s, m, n
<1>6. CASE i <= m /\ j <= m
  <2>0. s[i] = a[i] /\ s[j] = a[j]
    BY <1>4, <1>6
  <2>1. i \in 1 .. m /\ j \in 1 .. m
    BY <1>4, <1>6
  <2>2. a[i] = a[j]
    BY <1>3, <2>0
  <2> QED BY <1>5, <2>1, <2>2
<1>7. CASE i <= m /\ ~(j <= m)
  <2>1. j - m \in 1 .. n /\ i \in 1 .. m
    BY <1>4, <1>7
  <2> QED BY <1>3, <1>4, <1>5, <1>7, <2>1
<1>8. CASE ~(i <= m) /\ j <= m
  <2>1. i - m \in 1 .. n /\ j \in 1 .. m
    BY <1>4, <1>8
  <2> QED BY <1>3, <1>4, <1>5, <1>8, <2>1
<1>9. CASE ~(i <= m) /\ ~(j <= m)
  <2>1. i - m \in 1 .. n /\ j - m \in 1 .. n
    BY <1>4, <1>9
  <2>2. i - m = j - m
    BY <1>3, <1>4, <1>5, <1>9, <2>1
  <2> QED BY <1>4, <2>2
<1> QED BY <1>6, <1>7, <1>8, <1>9

(* Two queues in order, the later behind the earlier.                       *)
LEMMA ClimbingConcat ==
  ASSUME NEW a \in Seq(Nat), NEW b \in Seq(Nat), Climbing(a), Climbing(b), Precedes(a, b)
  PROVE  Climbing(a \o b)
<1>1. /\ Len(a) \in Nat /\ Len(b) \in Nat /\ DOMAIN (a \o b) = 1 .. Len(a) + Len(b)
      /\ DOMAIN a = 1 .. Len(a) /\ DOMAIN b = 1 .. Len(b)
      /\ \A i \in 1 .. Len(a) + Len(b) : (a \o b)[i] = IF i <= Len(a) THEN a[i] ELSE b[i - Len(a)]
  OBVIOUS
<1> DEFINE s == a \o b
           m == Len(a)
           n == Len(b)
<1>3. SUFFICES ASSUME NEW i \in 1 .. m + n, NEW j \in 1 .. m + n, i < j
               PROVE  s[i] < s[j]
  BY <1>1 DEF Climbing
<1>4. /\ s[i] = IF i <= m THEN a[i] ELSE b[i - m]
      /\ s[j] = IF j <= m THEN a[j] ELSE b[j - m]
      /\ m \in Nat /\ n \in Nat
  BY <1>1
<1>5. /\ \A x, y \in 1 .. m : x < y => a[x] < a[y]
      /\ \A x, y \in 1 .. n : x < y => b[x] < b[y]
      /\ \A x \in 1 .. m, y \in 1 .. n : a[x] < b[y]
  BY <1>1 DEF Climbing, Precedes
<1> HIDE DEF s, m, n
<1>6. CASE i <= m /\ j <= m
  BY <1>3, <1>4, <1>5, <1>6
<1>7. CASE i <= m /\ ~(j <= m)
  <2>1. j - m \in 1 .. n /\ i \in 1 .. m
    BY <1>4, <1>7
  <2> QED BY <1>4, <1>5, <1>7, <2>1
<1>8. CASE ~(i <= m)
  <2>1. i - m \in 1 .. n /\ j - m \in 1 .. n /\ i - m < j - m /\ ~(j <= m)
    BY <1>3, <1>4, <1>8
  <2> QED BY <1>4, <1>5, <1>8, <2>1
<1> QED BY <1>6, <1>7, <1>8

(* A number nobody has, put at the end.                                     *)
LEMMA QueuedLast ==
  ASSUME NEW q \in Seq(Nat), NEW n \in Nat, \A m \in ToSet(q) : m < n
  PROVE  /\ Unlike(q) => Unlike(Append(q, n))
         /\ Climbing(q) => Climbing(Append(q, n))
         /\ ToSet(Append(q, n)) = ToSet(q) \union {n}
<1> DEFINE s == Append(q, n)
<1>1. /\ Len(q) \in Nat /\ DOMAIN s = 1 .. Len(q) + 1 /\ DOMAIN q = 1 .. Len(q)
      /\ \A i \in 1 .. Len(q) : s[i] = q[i] /\ q[i] \in Nat
      /\ s[Len(q) + 1] = n
  OBVIOUS
<1>2. \A i \in 1 .. Len(q) : q[i] < n
  BY <1>1 DEF ToSet
<1> HIDE DEF s
<1>3. \A i \in 1 .. Len(q) + 1 : i \in 1 .. Len(q) \/ i = Len(q) + 1
  BY <1>1
<1>4. Unlike(q) => Unlike(s)
  BY <1>1, <1>2, <1>3 DEF Unlike
<1>5. Climbing(q) => Climbing(s)
  <2> SUFFICES ASSUME Climbing(q), NEW i \in 1 .. Len(q) + 1, NEW j \in 1 .. Len(q) + 1, i < j
               PROVE  s[i] < s[j]
    BY <1>1 DEF Climbing
  <2>1. i \in 1 .. Len(q)
    BY <1>1
  <2>2. CASE j \in 1 .. Len(q)
    BY <1>1, <2>1, <2>2 DEF Climbing
  <2>3. CASE j = Len(q) + 1
    BY <1>1, <1>2, <2>1, <2>3
  <2> QED BY <1>3, <2>2, <2>3
<1>6. ToSet(s) = ToSet(q) \union {n}
  BY SetOfAppend DEF s
<1> QED BY <1>4, <1>5, <1>6 DEF s

(* What a poll takes of a queue, and what it leaves.                        *)
LEMMA TakenApart ==
  ASSUME NEW q \in Seq(Nat), q # <<>>, NEW mode
  PROVE  LET t == Taken(mode, q)
             r == SubSeq(q, Len(t) + 1, Len(q)) IN
         /\ t \in Seq(Nat) /\ r \in Seq(Nat)
         /\ ToSet(t) \subseteq ToSet(q)
         /\ Unlike(q) => Unlike(t) /\ Unlike(r) /\ ToSet(r) = ToSet(q) \ ToSet(t)
         /\ Climbing(q) => Climbing(t) /\ Climbing(r) /\ Precedes(t, r)
<1> DEFINE t == Taken(mode, q)
           r == SubSeq(q, Len(t) + 1, Len(q))
           k == Len(t)
<1>0. Len(q) \in Nat /\ Len(q) >= 1 /\ DOMAIN q = 1 .. Len(q)
  BY EmptySeq
<1>1. /\ t \in Seq(Nat) /\ k \in Nat /\ k <= Len(q) /\ DOMAIN t = 1 .. k
      /\ \A i \in 1 .. k : t[i] = q[i]
  <2>1. CASE mode = "all"
    BY <1>0, <2>1 DEF Taken
  <2>2. CASE mode # "all"
    BY <1>0, <2>2 DEF Taken
  <2> QED BY <2>1, <2>2
<1> HIDE DEF t
<1>2. /\ r \in Seq(Nat) /\ DOMAIN r = 1 .. (Len(q) - k)
      /\ \A i \in 1 .. (Len(q) - k) : r[i] = q[k + i]
  BY <1>0, <1>1
<1> HIDE DEF r, k
<1>3. /\ \A i \in 1 .. k : i \in 1 .. Len(q)
      /\ \A i \in 1 .. (Len(q) - k) : k + i \in 1 .. Len(q) /\ \A j \in 1 .. k : j < k + i
      /\ \A i \in 1 .. Len(q) : i \in 1 .. k \/ (i - k \in 1 .. (Len(q) - k) /\ i = k + (i - k))
  BY <1>0, <1>1
<1>4. /\ ToSet(t) = {q[i] : i \in 1 .. k} /\ ToSet(r) = {q[k + i] : i \in 1 .. (Len(q) - k)}
      /\ ToSet(q) = {q[i] : i \in 1 .. Len(q)}
  BY <1>0, <1>1, <1>2 DEF ToSet
<1>5. ToSet(t) \subseteq ToSet(q)
  BY <1>3, <1>4
<1>6. ASSUME Unlike(q) PROVE Unlike(t) /\ Unlike(r) /\ ToSet(r) = ToSet(q) \ ToSet(t)
  <2>1. \A i, j \in 1 .. Len(q) : q[i] = q[j] => i = j
    BY <1>0, <1>6 DEF Unlike
  <2>2. Unlike(t)
    BY <1>1, <1>3, <2>1 DEF Unlike
  <2>3. Unlike(r)
    <3> SUFFICES ASSUME NEW i \in 1 .. (Len(q) - k), NEW j \in 1 .. (Len(q) - k), r[i] = r[j]
                 PROVE  i = j
      BY <1>2 DEF Unlike
    <3>1. k + i = k + j
      BY <1>2, <1>3, <2>1
    <3> QED BY <1>0, <1>1, <3>1
  <2>4. ASSUME NEW i \in 1 .. (Len(q) - k) PROVE q[k + i] \in ToSet(q) \ ToSet(t)
    <3>1. \A j \in 1 .. k : q[k + i] # q[j]
      BY <1>0, <1>1, <1>3, <2>1
    <3> QED BY <1>3, <1>4, <3>1
  <2>5. ASSUME NEW i \in 1 .. Len(q), q[i] \notin ToSet(t) PROVE q[i] \in ToSet(r)
    <3>1. i \notin 1 .. k
      BY <1>4, <2>5
    <3>2. i - k \in 1 .. (Len(q) - k) /\ i = k + (i - k)
      BY <1>3, <3>1
    <3> DEFINE m == i - k
    <3>3. m \in 1 .. (Len(q) - k) /\ i = k + m
      BY <3>2
    <3> HIDE DEF m
    <3> QED BY <1>4, <3>3
  <2> QED BY <1>4, <2>2, <2>3, <2>4, <2>5
<1>7. ASSUME Climbing(q) PROVE Climbing(t) /\ Climbing(r) /\ Precedes(t, r)
  <2>1. \A i, j \in 1 .. Len(q) : i < j => q[i] < q[j]
    BY <1>0, <1>7 DEF Climbing
  <2>2. Climbing(t)
    <3> SUFFICES ASSUME NEW i \in 1 .. k, NEW j \in 1 .. k, i < j PROVE t[i] < t[j]
      BY <1>1 DEF Climbing
    <3>1. i \in 1 .. Len(q) /\ j \in 1 .. Len(q)
      BY <1>3
    <3> QED BY <1>1, <2>1, <3>1
  <2>3. Climbing(r)
    <3> SUFFICES ASSUME NEW i \in 1 .. (Len(q) - k), NEW j \in 1 .. (Len(q) - k), i < j
                 PROVE  r[i] < r[j]
      BY <1>2 DEF Climbing
    <3>1. k + i < k + j
      BY <1>0, <1>1
    <3> QED BY <1>2, <1>3, <2>1, <3>1
  <2>4. Precedes(t, r)
    BY <1>1, <1>2, <1>3, <2>1 DEF Precedes
  <2> QED BY <2>2, <2>3, <2>4
<1> QED BY <1>1, <1>2, <1>5, <1>6, <1>7 DEF t, r

-----------------------------------------------------------------------------
(* Hands.                                                                   *)

(* A message is in a hand when an entry of a user there has its number.     *)
LEMMA MessagesIn ==
  ASSUME NEW h, NEW n
  PROVE  n \in Messages(h) <=> \E p \in DOMAIN h : h[p].kind = "user" /\ h[p].item = n
BY DEF Messages, ToSet

(* Nothing in hand, or no message of a user.                                *)
LEMMA NoMessages ==
  ASSUME NEW h, \A p \in DOMAIN h : h[p].kind # "user"
  PROVE  Messages(h) = {} /\ UnlikeMessages(h)
BY MessagesIn DEF UnlikeMessages

(* An answer and its results are no messages of a user.                     *)
LEMMA AnswersAreNone ==
  /\ Messages(<<>>) = {} /\ UnlikeMessages(<<>>)
  /\ Messages(<<Msg("assistant", 0)>>) = {} /\ UnlikeMessages(<<Msg("assistant", 0)>>)
  /\ Messages(<<Msg("assistant", 0), Msg("result", 0)>>) = {}
  /\ UnlikeMessages(<<Msg("assistant", 0), Msg("result", 0)>>)
<1>1. \A p \in DOMAIN <<>> : <<>>[p].kind # "user"
  OBVIOUS
<1> DEFINE a == <<Msg("assistant", 0)>>
           b == <<Msg("assistant", 0), Msg("result", 0)>>
<1>2. \A p \in DOMAIN a : a[p].kind # "user"
  BY DEF Msg
<1>3. \A p \in DOMAIN b : b[p].kind # "user"
  <2>1. DOMAIN b = 1 .. 2 /\ b[1].kind = "assistant" /\ b[2].kind = "result"
    BY DEF Msg
  <2> HIDE DEF b
  <2> QED BY <2>1
<1> HIDE DEF a, b
<1> QED BY <1>1, <1>2, <1>3, NoMessages DEF a, b

(* What is shown first, and what is left.                                   *)
LEMMA HandShrinks ==
  ASSUME NEW h \in Seq(InHand), h # <<>>, UnlikeMessages(h)
  PROVE  /\ UnlikeMessages(Tail(h))
         /\ Head(h).kind = "user" => /\ Head(h).item \in Messages(h)
                                     /\ Messages(Tail(h)) = Messages(h) \ {Head(h).item}
         /\ Head(h).kind # "user" => Messages(Tail(h)) = Messages(h)
<1> DEFINE t == Tail(h)
           n == Len(h)
<1>1. n \in Nat \ {0} /\ DOMAIN h = 1 .. n /\ Head(h) = h[1]
  BY EmptySeq
<1>2. DOMAIN t = 1 .. (n - 1) /\ \A i \in 1 .. (n - 1) : t[i] = h[i + 1]
  BY <1>1
<1> HIDE DEF t, n
<1>3. /\ 1 \in 1 .. n /\ \A i \in 1 .. (n - 1) : i + 1 \in 1 .. n /\ i + 1 # 1
      /\ \A i \in 1 .. n : i = 1 \/ (i - 1 \in 1 .. (n - 1) /\ i = (i - 1) + 1)
  BY <1>1
<1>4. UnlikeMessages(t)
  <2> SUFFICES ASSUME NEW i \in 1 .. (n - 1), NEW j \in 1 .. (n - 1),
                      t[i].kind = "user", t[j].kind = "user", t[i].item = t[j].item
               PROVE  i = j
    BY <1>2 DEF UnlikeMessages
  <2>0. \A x, y \in 1 .. n : h[x].kind = "user" /\ h[y].kind = "user" /\ h[x].item = h[y].item
                             => x = y
    BY <1>1 DEF UnlikeMessages
  <2>1. i + 1 = j + 1
    BY <1>2, <1>3, <2>0
  <2> QED BY <1>1, <2>1
<1>5. \A x : x \in Messages(t) <=> \E i \in 1 .. (n - 1) : h[i + 1].kind = "user" /\ h[i + 1].item = x
  <2>1. \A x : x \in Messages(t) <=> \E i \in DOMAIN t : t[i].kind = "user" /\ t[i].item = x
    BY MessagesIn
  <2> QED BY <1>2, <2>1
<1>6. \A x : x \in Messages(h) <=> \E i \in 1 .. n : h[i].kind = "user" /\ h[i].item = x
  BY <1>1, MessagesIn
<1>7. ASSUME NEW x PROVE x \in Messages(h) <=> x \in Messages(t) \/ (h[1].kind = "user" /\ h[1].item = x)
  <2>1. ASSUME NEW i \in 1 .. n, h[i].kind = "user" /\ h[i].item = x, i # 1
        PROVE  x \in Messages(t)
    <3> DEFINE j == i - 1
    <3>1. j \in 1 .. (n - 1) /\ i = j + 1
      BY <1>3, <2>1
    <3> HIDE DEF j
    <3> QED BY <1>5, <2>1, <3>1
  <2>2. x \in Messages(t) => x \in Messages(h)
    BY <1>3, <1>5, <1>6
  <2>3. h[1].kind = "user" /\ h[1].item = x => x \in Messages(h)
    BY <1>3, <1>6
  <2>4. x \in Messages(h) => x \in Messages(t) \/ (h[1].kind = "user" /\ h[1].item = x)
    BY <1>6, <2>1
  <2> QED BY <2>2, <2>3, <2>4
<1>8. h[1].kind = "user" => h[1].item \notin Messages(t)
  BY <1>1, <1>3, <1>5 DEF UnlikeMessages
<1> QED BY <1>1, <1>4, <1>7, <1>8 DEF t

(* A hand filled from a queue, and given back.                              *)
LEMMA HandOfQueue ==
  ASSUME NEW q \in Seq(Nat)
  PROVE  /\ UserMessages(q) \in Seq(InHand) /\ AllUsers(UserMessages(q))
         /\ Messages(UserMessages(q)) = ToSet(q)
         /\ ItemsBack(UserMessages(q)) = q
         /\ Unlike(q) => UnlikeMessages(UserMessages(q))
<1> DEFINE h == UserMessages(q)
<1>1. h \in Seq(InHand) /\ DOMAIN h = DOMAIN q /\ \A p \in DOMAIN q : h[p].kind = "user" /\ h[p].item = q[p]
  BY UserMessagesType DEF UserMessages, Msg
<1> HIDE DEF h
<1>2. AllUsers(h)
  BY <1>1 DEF AllUsers
<1>3. \A n : n \in Messages(h) <=> n \in ToSet(q)
  BY <1>1, MessagesIn DEF ToSet
<1>4. ItemsBack(h) = [p \in DOMAIN q |-> q[p]]
  BY <1>1 DEF ItemsBack
<1>5. q = [p \in DOMAIN q |-> q[p]]
  OBVIOUS
<1>6. Unlike(q) => UnlikeMessages(h)
  BY <1>1 DEF Unlike, UnlikeMessages
<1> QED BY <1>1, <1>2, <1>3, <1>4, <1>5, <1>6 DEF h

(* A hand given back is a queue of its messages, each once if each was      *)
(* there once.                                                              *)
LEMMA QueueOfHand ==
  ASSUME NEW h \in Seq(InHand), AllUsers(h)
  PROVE  /\ ItemsBack(h) \in Seq(Nat) /\ ToSet(ItemsBack(h)) = Messages(h)
         /\ UnlikeMessages(h) => Unlike(ItemsBack(h))
<1>1. ItemsBack(h) \in Seq(Nat)
  BY ItemsBackType
<1>2. DOMAIN ItemsBack(h) = DOMAIN h /\ \A p \in DOMAIN h : ItemsBack(h)[p] = h[p].item
  BY DEF ItemsBack
<1>3. \A n : n \in Messages(h) <=> n \in ToSet(ItemsBack(h))
  BY <1>2, MessagesIn DEF ToSet, AllUsers
<1>4. UnlikeMessages(h) => Unlike(ItemsBack(h))
  BY <1>2 DEF Unlike, UnlikeMessages, AllUsers
<1> QED BY <1>1, <1>3, <1>4

(* A prompt's own message comes last.                                       *)
LEMMA OwnLast ==
  ASSUME NEW q \in Seq(Nat), NEW n \in Nat, \A m \in ToSet(q) : m < n
  PROVE  LET h == UserMessages(q) \o <<Msg("user", n)>> IN
         /\ h \in Seq(InHand) /\ h # <<>> /\ AllUsers(h) /\ Last(h).item = n
         /\ Front(h) = UserMessages(q)
         /\ Messages(h) = ToSet(q) \union {n}
         /\ Unlike(q) => UnlikeMessages(h)
<1> DEFINE u == UserMessages(q)
           w == Msg("user", n)
           h == u \o <<w>>
           k == Len(q)
<1>1. u \in Seq(InHand) /\ Len(u) = k /\ k \in Nat /\ w \in InHand /\ w.kind = "user" /\ w.item = n
  BY UserMessagesType DEF Msg, InHand, ShownKind
<1>2. DOMAIN u = 1 .. k /\ DOMAIN q = 1 .. k /\ \A p \in 1 .. k : u[p].kind = "user" /\ u[p].item = q[p]
  BY <1>1 DEF UserMessages, Msg
<1>3. \A p \in 1 .. k : q[p] \in Nat /\ q[p] < n
  BY <1>2 DEF ToSet
<1> HIDE DEF u, w, k
<1>4. /\ h \in Seq(InHand) /\ Len(h) = k + 1 /\ DOMAIN h = 1 .. (k + 1) /\ h[k + 1] = w
      /\ \A p \in 1 .. k : h[p] = u[p]
  BY <1>1
<1>5. Front(h) = u
  <2>1. Front(h) = SubSeq(h, 1, Len(h) - 1)
    BY DEF Front
  <2> HIDE DEF h
  <2>2. Front(h) \in Seq(InHand) /\ Len(Front(h)) = k /\ \A p \in 1 .. k : Front(h)[p] = u[p]
    BY <1>1, <1>4, <2>1
  <2> QED BY <1>1, <2>2, SeqEqual
<1>6. h # <<>> /\ Last(h) = w
  BY <1>1, <1>4 DEF Last
<1> HIDE DEF h
<1>7. \A p \in 1 .. (k + 1) : p \in 1 .. k \/ p = k + 1
  BY <1>1
<1>7a. k + 1 \in 1 .. (k + 1) /\ \A p \in 1 .. k : p \in 1 .. (k + 1)
  BY <1>1
<1>8. AllUsers(h)
  BY <1>1, <1>2, <1>4, <1>7 DEF AllUsers
<1>9. ASSUME NEW x PROVE x \in Messages(h) <=> x \in ToSet(q) \union {n}
  <2>1. x \in Messages(h) <=> \E p \in 1 .. (k + 1) : h[p].kind = "user" /\ h[p].item = x
    BY <1>4, MessagesIn
  <2>2. x \in ToSet(q) <=> \E p \in 1 .. k : q[p] = x
    BY <1>2 DEF ToSet
  <2> QED BY <1>1, <1>2, <1>4, <1>7, <1>7a, <2>1, <2>2
<1>10. ASSUME Unlike(q) PROVE UnlikeMessages(h)
  <2> SUFFICES ASSUME NEW i \in 1 .. (k + 1), NEW j \in 1 .. (k + 1), h[i].item = h[j].item
               PROVE  i = j
    BY <1>4 DEF UnlikeMessages
  <2>1. CASE i \in 1 .. k /\ j \in 1 .. k
    <3>1. q[i] = q[j]
      BY <1>2, <1>4, <2>1
    <3> QED BY <1>2, <1>10, <2>1, <3>1 DEF Unlike
  <2>2. CASE i = k + 1 /\ j = k + 1
    BY <2>2
  <2>3. CASE i \in 1 .. k /\ j = k + 1
    BY <1>1, <1>2, <1>3, <1>4, <2>3
  <2>4. CASE i = k + 1 /\ j \in 1 .. k
    BY <1>1, <1>2, <1>3, <1>4, <2>4
  <2> QED BY <1>7, <2>1, <2>2, <2>3, <2>4
<1> QED BY <1>1, <1>4, <1>5, <1>6, <1>8, <1>9, <1>10 DEF h, u, w

-----------------------------------------------------------------------------
(* The messages in the session.                                             *)

(* An entry more in the session is a message more if a user asked for it.   *)
LEMMA KeptAppend ==
  ASSUME NEW es \in Seq(SessionEntry), NEW e \in SessionEntry, NEW A
  PROVE  /\ MessageItems(es, A) \in Seq(Nat)
         /\ MessageItems(Append(es, e), A) = IF e.kind = "user" /\ e.item \in A
                                             THEN Append(MessageItems(es, A), e.item)
                                             ELSE MessageItems(es, A)
<1> DEFINE W == UserEntries(A)
<1>1. Only(es, W) \in Seq(SessionEntry)
  BY OnlyType
<1>2. Only(Append(es, e), W) = IF e \in W THEN Append(Only(es, W), e) ELSE Only(es, W)
  BY OnlyAppend
<1>3. e \in W <=> e.kind = "user" /\ e.item \in A
  BY DEF UserEntries
<1> HIDE DEF W
<1>4. MessageItems(es, A) \in Seq(Nat)
  BY <1>1, ItemsOf DEF MessageItems, W
<1>5. CASE e \in W
  <2>1. Only(Append(es, e), W) = Append(Only(es, W), e)
    BY <1>2, <1>5
  <2>2. MessageItems(Append(es, e), A) = Append(MessageItems(es, A), e.item)
    BY <1>1, <2>1, ItemsOf DEF MessageItems, W
  <2> QED BY <1>3, <1>4, <1>5, <2>2
<1>6. CASE e \notin W
  <2>1. Only(Append(es, e), W) = Only(es, W)
    BY <1>2, <1>6
  <2>2. MessageItems(Append(es, e), A) = MessageItems(es, A)
    BY <2>1 DEF MessageItems, W
  <2> QED BY <1>3, <1>4, <1>6, <2>2
<1> QED BY <1>5, <1>6

(* Two sets that agree on the session's messages keep the same ones.        *)
LEMMA KeptSame ==
  ASSUME NEW es \in Seq(SessionEntry), NEW A, NEW B,
         \A p \in DOMAIN es : es[p].kind = "user" => (es[p].item \in A <=> es[p].item \in B)
  PROVE  MessageItems(es, A) = MessageItems(es, B)
<1>1. \A p \in 1..Len(es) : es[p] \in SessionEntry /\ p \in DOMAIN es
  OBVIOUS
<1>2. \A p \in 1..Len(es) : es[p] \in UserEntries(A) <=> es[p] \in UserEntries(B)
  BY <1>1 DEF UserEntries
<1>3. Only(es, UserEntries(A)) = Only(es, UserEntries(B))
  BY <1>2, OnlySame
<1> QED BY <1>3 DEF MessageItems

(* The messages kept are those the property counts as persisted.            *)
LEMMA KeptIs ==
  /\ Kept = Persisted({"user"}, ToSet(asked))
  /\ Typed => Kept \in Seq(Nat) /\ ToSet(Kept) \subseteq ToSet(asked)
<1>1. Kept = Persisted({"user"}, ToSet(asked))
  BY DEF Kept, Persisted, MessageItems, UserEntries
<1>2. ASSUME Typed PROVE Kept \in Seq(Nat) /\ ToSet(Kept) \subseteq ToSet(asked)
  <2> DEFINE A == ToSet(asked)
             o == Only(entries, UserEntries(A))
  <2>1. entries \in Seq(SessionEntry)
    BY <1>2 DEF Typed, SessionTypeOK
  <2>2. o \in Seq(SessionEntry) /\ ToSet(o) \subseteq UserEntries(A)
    BY <2>1, OnlyType, OnlyMembers
  <2> HIDE DEF o
  <2>3. \A p \in DOMAIN o : o[p].item \in A
    BY <2>2 DEF ToSet, UserEntries
  <2>4. ToSet([p \in DOMAIN o |-> o[p].item]) \subseteq A
    BY <2>3 DEF ToSet
  <2>5. Kept = [p \in DOMAIN o |-> o[p].item]
    BY DEF Kept, MessageItems, o
  <2>6. \A p \in 1 .. Len(o) : o[p].item \in Nat
    <3>1. \A p \in 1 .. Len(o) : o[p] \in SessionEntry
      BY <2>2
    <3> QED BY <3>1 DEF SessionEntry
  <2>7. [p \in DOMAIN o |-> o[p].item] \in Seq(Nat)
    BY <2>2, <2>6
  <2> QED BY <2>4, <2>5, <2>7
<1> QED BY <1>1, <1>2

Taking  == {"steerTaken", "followUpTaken"}
Holding == {"takeNext", "beforeHook"} \union Taking \union Showing
(* What a call has taken from a queue; a prompt has its own message last.  *)
TakenOut(c) == IF call[c].pc \in BeforeLoop THEN Front(call[c].hand) ELSE call[c].hand

(* Every message has a number below the next one; only those asked for are *)
(* in queues, and a prompt's own is not among them.                         *)
HandOf(c) ==
  /\ \A n \in Messages(call[c].hand) : n < nextMessage
  /\ UnlikeMessages(call[c].hand)
  /\ call[c].pc \notin Holding => call[c].hand = <<>>
  /\ call[c].pc \in {"takeNext", "beforeHook"} \union Taking =>
       AllUsers(call[c].hand) /\ Messages(TakenOut(c)) \subseteq ToSet(asked)
  /\ call[c].pc \in {"takeNext", "beforeHook"} => Last(call[c].hand).item \notin ToSet(asked)
  /\ Appends(c) /\ appending[c].entry.kind = "user" => call[c].pc \in Showing

Numbered ==
  /\ \A n \in ToSet(asked) : n < nextMessage
  /\ \A p \in DOMAIN entries : entries[p].kind = "user" => entries[p].item < nextMessage
  /\ \A c \in Calls : HandOf(c)
  /\ Unlike(steerQueue) /\ Unlike(followUpQueue) /\ Unlike(nextTurnQueue) /\ Unlike(Kept)

(* The places a message can be at.                                          *)
Spot == 1 .. 6 \union {c + 7 : c \in Calls}
Places(steer, follow, next, kept, gone, lost, held) ==
  [s \in Spot |-> CASE s = 1 -> steer [] s = 2 -> follow [] s = 3 -> next
                    [] s = 4 -> kept [] s = 5 -> gone [] s = 6 -> lost
                    [] OTHER -> held[s - 7]]
Held == [c \in Calls |-> Messages(call[c].hand) \intersect ToSet(asked)]
Placing == Places(ToSet(steerQueue), ToSet(followUpQueue), ToSet(nextTurnQueue), ToSet(Kept),
                  cleared, dropped, Held)
(* Every message asked for is at one place.                                *)
Parted(f, A) ==
  /\ \A s, t \in DOMAIN f : s # t => f[s] \intersect f[t] = {}
  /\ A = UNION {f[s] : s \in DOMAIN f}

(* Patient callers' queues are in order, and what a call may give back     *)
(* goes in front of what is queued by then.                                *)
InTurn ==
  limits.patient =>
    /\ Climbing(steerQueue) /\ Climbing(followUpQueue) /\ Climbing(nextTurnQueue)
    /\ \A c \in Calls :
         /\ call[c].pc \in {"takeNext"} \union Taking => Climbing(ItemsBack(TakenOut(c)))
         /\ At(c, "takeNext") => Precedes(ItemsBack(TakenOut(c)), nextTurnQueue)
         /\ At(c, "steerTaken") => Precedes(ItemsBack(TakenOut(c)), steerQueue)
         /\ At(c, "followUpTaken") => Precedes(ItemsBack(TakenOut(c)), followUpQueue)

(* The invariant that MessagesAccountedFor follows from.                   *)
MessageInv == Numbered /\ Parted(Placing, ToSet(asked)) /\ InTurn

-----------------------------------------------------------------------------
(* Places.                                                                  *)

(* What each place holds.                                                   *)
LEMMA PlacesAt ==
  ASSUME NEW s, NEW f, NEW n, NEW k, NEW g, NEW l, NEW h
  PROVE  LET P == Places(s, f, n, k, g, l, h) IN
         /\ DOMAIN P = Spot
         /\ P[1] = s /\ P[2] = f /\ P[3] = n /\ P[4] = k /\ P[5] = g /\ P[6] = l
         /\ \A c \in Calls : P[c + 7] = h[c]
<1>1. 1 .. 6 \subseteq Spot /\ \A c \in Calls : c + 7 \in Spot /\ c + 7 \notin 1 .. 6 /\ c + 7 - 7 = c
  <2>1. 1 .. 6 \subseteq Spot /\ \A c \in Calls : c + 7 \in Spot
    BY DEF Spot
  <2>2. \A c \in Calls : c \in Nat
    BY HarnessAssumption
  <2>3. \A m \in Nat : m + 7 \notin 1 .. 6 /\ m + 7 - 7 = m
    OBVIOUS
  <2> QED BY <2>1, <2>2, <2>3
<1> HIDE DEF Spot
<1>2. \A c \in Calls : c + 7 \notin {1, 2, 3, 4, 5, 6}
  BY <1>1, HarnessAssumption
<1>3. {1, 2, 3, 4, 5, 6} \subseteq Spot
  BY <1>1
<1> DEFINE P == Places(s, f, n, k, g, l, h)
<1>4. DOMAIN P = Spot
  BY DEF Places
<1>5. P[1] = s /\ P[2] = f /\ P[3] = n /\ P[4] = k /\ P[5] = g /\ P[6] = l
  BY <1>3 DEF Places
<1>6. ASSUME NEW c \in Calls PROVE P[c + 7] = h[c]
  <2> DEFINE x == c + 7
  <2>1. x \in Spot /\ x \notin {1, 2, 3, 4, 5, 6} /\ x - 7 = c
    BY <1>1, <1>2, HarnessAssumption
  <2> HIDE DEF x
  <2>2. P[x] = h[x - 7]
    BY <2>1 DEF Places
  <2> QED BY <2>1, <2>2 DEF x
<1> QED BY <1>4, <1>5, <1>6

(* What each place holds before a step.                                     *)
LEMMA PlacesNow ==
  /\ DOMAIN Placing = Spot
  /\ Placing[1] = ToSet(steerQueue) /\ Placing[2] = ToSet(followUpQueue)
  /\ Placing[3] = ToSet(nextTurnQueue) /\ Placing[4] = ToSet(Kept)
  /\ Placing[5] = cleared /\ Placing[6] = dropped
  /\ \A c \in Calls : Placing[c + 7] = Held[c]
BY PlacesAt DEF Placing

(* What each place holds after it.                                          *)
LEMMA PlacesNext ==
  /\ DOMAIN Placing' = Spot
  /\ Placing'[1] = ToSet(steerQueue') /\ Placing'[2] = ToSet(followUpQueue')
  /\ Placing'[3] = ToSet(nextTurnQueue') /\ Placing'[4] = ToSet(Kept')
  /\ Placing'[5] = cleared' /\ Placing'[6] = dropped'
  /\ \A c \in Calls : Placing'[c + 7] = Held'[c]
BY PlacesAt DEF Placing

(* Six places, and one for each call.                                       *)
LEMMA SpotIs ==
  /\ \A s \in Spot : s \in 1 .. 6 \/ \E c \in Calls : s = c + 7
  /\ 1 .. 6 \subseteq Spot
  /\ \A c \in Calls : c + 7 \in Spot /\ c + 7 \notin 1 .. 6
  /\ \A c, d \in Calls : c + 7 = d + 7 => c = d
BY HarnessAssumption DEF Spot

(* Messages that go from one place to another are still at one place.       *)
LEMMA PartedMove ==
  ASSUME NEW f, NEW A, Parted(f, A), NEW a \in DOMAIN f, NEW b \in DOMAIN f, a # b,
         NEW M, M \subseteq f[a], NEW g, DOMAIN g = DOMAIN f,
         g[a] = f[a] \ M, g[b] = f[b] \union M,
         \A s \in DOMAIN f : s # a /\ s # b => g[s] = f[s]
  PROVE  Parted(g, A)
<1>1. \A s, t \in DOMAIN f : s # t => f[s] \intersect f[t] = {}
  BY DEF Parted
<1>2. ASSUME NEW s \in DOMAIN f, NEW t \in DOMAIN f, s # t PROVE g[s] \intersect g[t] = {}
  <2>1. /\ g[s] = IF s = a THEN f[a] \ M ELSE IF s = b THEN f[b] \union M ELSE f[s]
        /\ g[t] = IF t = a THEN f[a] \ M ELSE IF t = b THEN f[b] \union M ELSE f[t]
    OBVIOUS
  <2>2. f[s] \intersect f[t] = {} /\ (s # a => f[s] \intersect f[a] = {})
        /\ (t # a => f[t] \intersect f[a] = {})
    BY <1>1, <1>2
  <2> QED BY <1>2, <2>1, <2>2
<1>3. \A n : (\E s \in DOMAIN f : n \in g[s]) <=> (\E s \in DOMAIN f : n \in f[s])
  <2> TAKE n
  <2>1. ASSUME NEW s \in DOMAIN f, n \in g[s] PROVE \E t \in DOMAIN f : n \in f[t]
    <3>1. CASE s = a
      BY <2>1, <3>1
    <3>2. CASE s = b
      BY <2>1, <3>2
    <3>3. CASE s \notin {a, b}
      BY <2>1, <3>3
    <3> QED BY <3>1, <3>2, <3>3
  <2>2. ASSUME NEW s \in DOMAIN f, n \in f[s] PROVE \E t \in DOMAIN f : n \in g[t]
    <3>1. CASE s = a
      BY <2>2, <3>1
    <3>2. CASE s = b
      BY <2>2, <3>2
    <3>3. CASE s \notin {a, b}
      BY <2>2, <3>3
    <3> QED BY <3>1, <3>2, <3>3
  <2> QED BY <2>1, <2>2
<1>4. A = UNION {g[s] : s \in DOMAIN g}
  BY <1>3 DEF Parted
<1> QED BY <1>2, <1>4 DEF Parted

(* A message asked for comes to one place.                                  *)
LEMMA PartedAdd ==
  ASSUME NEW f, NEW A, Parted(f, A), NEW a \in DOMAIN f, NEW n, n \notin A,
         NEW g, DOMAIN g = DOMAIN f, g[a] = f[a] \union {n},
         \A s \in DOMAIN f : s # a => g[s] = f[s]
  PROVE  Parted(g, A \union {n})
<1>1. \A s, t \in DOMAIN f : s # t => f[s] \intersect f[t] = {}
  BY DEF Parted
<1>2. \A s \in DOMAIN f : n \notin f[s]
  BY DEF Parted
<1>3. ASSUME NEW s \in DOMAIN f, NEW t \in DOMAIN f, s # t PROVE g[s] \intersect g[t] = {}
  <2>1. /\ g[s] = IF s = a THEN f[a] \union {n} ELSE f[s]
        /\ g[t] = IF t = a THEN f[a] \union {n} ELSE f[t]
    OBVIOUS
  <2> QED BY <1>1, <1>2, <1>3, <2>1
<1>4. \A m : (\E s \in DOMAIN f : m \in g[s]) <=> (\E s \in DOMAIN f : m \in f[s]) \/ m = n
  <2> TAKE m
  <2>1. ASSUME NEW s \in DOMAIN f, m \in g[s] PROVE (\E t \in DOMAIN f : m \in f[t]) \/ m = n
    BY <2>1
  <2>2. ASSUME NEW s \in DOMAIN f, m \in f[s] PROVE \E t \in DOMAIN f : m \in g[t]
    <3>1. CASE s = a
      BY <2>2, <3>1
    <3>2. CASE s # a
      BY <2>2, <3>2
    <3> QED BY <3>1, <3>2
  <2>3. n \in g[a]
    OBVIOUS
  <2> QED BY <2>1, <2>2, <2>3
<1>5. A \union {n} = UNION {g[s] : s \in DOMAIN g}
  BY <1>4 DEF Parted
<1> QED BY <1>3, <1>5 DEF Parted

(* A call that takes messages from a place, or puts them there.             *)
LEMMA HandMoves ==
  ASSUME Parted(Placing, ToSet(asked)), UNCHANGED asked, NEW c \in Calls,
         \A d \in Calls : d # c => call'[d] = call[d],
         NEW a \in 1 .. 6, NEW M,
         \/ M \subseteq Held[c] /\ Held'[c] = Held[c] \ M /\ Placing'[a] = Placing[a] \union M
         \/ M \subseteq Placing[a] /\ Held'[c] = Held[c] \union M /\ Placing'[a] = Placing[a] \ M,
         \A k \in 1 .. 6 : k # a => Placing'[k] = Placing[k]
  PROVE  Parted(Placing, ToSet(asked))'
<1>1. /\ a \in DOMAIN Placing /\ c + 7 \in DOMAIN Placing /\ a # c + 7
      /\ DOMAIN Placing' = DOMAIN Placing
  BY PlacesNow, PlacesNext, SpotIs
<1>2. Placing[c + 7] = Held[c] /\ Placing'[c + 7] = Held'[c]
  BY PlacesNow, PlacesNext
<1>3. ASSUME NEW s \in DOMAIN Placing, s # a, s # c + 7 PROVE Placing'[s] = Placing[s]
  <2>1. CASE s \in 1 .. 6
    BY <1>3, <2>1
  <2>2. CASE s \notin 1 .. 6
    <3>1. PICK d \in Calls : s = d + 7
      BY <2>2, PlacesNow, SpotIs
    <3>2. d # c
      BY <1>3, <3>1
    <3>3. Held'[d] = Held[d]
      BY <3>2 DEF Held
    <3> QED BY <3>1, <3>3, PlacesNow, PlacesNext
  <2> QED BY <2>1, <2>2
<1> DEFINE f == Placing
           g == Placing'
           A == ToSet(asked)
<1> HIDE DEF f, g, A
<1>4. Parted(g, A)
  <2>0. Parted(f, A)
    BY DEF f, A
  <2>1. CASE M \subseteq Held[c] /\ Held'[c] = Held[c] \ M /\ Placing'[a] = Placing[a] \union M
    BY <1>1, <1>2, <1>3, <2>0, <2>1, PartedMove DEF f, g
  <2>2. CASE M \subseteq Placing[a] /\ Held'[c] = Held[c] \union M /\ Placing'[a] = Placing[a] \ M
    BY <1>1, <1>2, <1>3, <2>0, <2>2, PartedMove DEF f, g
  <2> QED BY <2>1, <2>2
<1>5. Parted(Placing', ToSet(asked)) 
  BY <1>4 DEF g, A
<1>6. Parted(Placing', ToSet(asked'))
  BY <1>5
<1> QED BY <1>6 DEF Parted

-----------------------------------------------------------------------------
(* The hands of the calls.                                                  *)

(* A step of a call changes its hand and its place only.                    *)
LEMMA SetHand ==
  ASSUME NEW c \in Calls, NEW fields, call \in [Calls -> Local], Set(c, fields)
  PROVE  /\ \A d \in Calls : d # c => call'[d] = call[d]
         /\ call'[c].hand = IF "hand" \in DOMAIN fields THEN fields["hand"] ELSE call[c].hand
         /\ call'[c].pc = IF "pc" \in DOMAIN fields THEN fields["pc"] ELSE call[c].pc
<1>1. call' = [call EXCEPT ![c] = Changed(call[c], fields)]
  BY DEF Set
<1>2. call'[c] = Changed(call[c], fields) /\ \A d \in Calls : d # c => call'[d] = call[d]
  BY <1>1
<1>3. "hand" \in DOMAIN call[c] /\ "pc" \in DOMAIN call[c]
  BY DEF Local
<1> QED BY <1>2, <1>3, ChangedLocals

(* A loop that fails ends empty handed or with its failure message, and     *)
(* the rest of its messages counts as dropped.                              *)
LEMMA ThrowsHand ==
  ASSUME NEW c \in Calls, call \in [Calls -> Local], NEW rest, LoopThrows(c, rest)
  PROVE  /\ \A d \in Calls : d # c => call'[d] = call[d]
         /\ \/ call'[c].pc = "final" /\ call'[c].hand = <<>>
            \/ call'[c].pc = "output" /\ call'[c].hand = <<Msg("assistant", 0)>>
         /\ dropped' = dropped \union (ToSet(asked) \intersect Messages(rest))
         /\ UNCHANGED nextMessage
<1>0. dropped' = dropped \union (ToSet(asked) \intersect Messages(rest)) /\ UNCHANGED nextMessage
  BY DEF LoopThrows, counters
<1>1. CASE call[c].reporting
  <2> DEFINE f == [pc |-> "final", hand |-> <<>>, thrown |-> FALSE, error |-> TRUE]
  <2>1. Set(c, f)
    BY <1>1 DEF LoopThrows
  <2> QED BY <1>0, <2>1, SetHand
<1>2. CASE ~call[c].reporting
  <2> DEFINE f == [pc |-> "output", hand |-> <<Msg("assistant", 0)>>,
                  thrown |-> FALSE, reporting |-> TRUE, ends |-> TRUE]
  <2>1. Set(c, f)
    BY <1>2 DEF LoopThrows
  <2> QED BY <1>0, <2>1, SetHand
<1> QED BY <1>1, <1>2

(* A step of one call that moves no message.                                *)
Silent(c) ==
  /\ \A d \in Calls : d # c => call'[d] = call[d] /\ appending'[d] = appending[d]
  /\ UNCHANGED <<queues, asked, cleared, dropped, limits, nextMessage>>
  /\ \/ call'[c].hand = call[c].hand
     \/ Messages(call[c].hand) = {} /\ Messages(call'[c].hand) = {} /\ UnlikeMessages(call'[c].hand)
  /\ call'[c].pc \notin Holding => call'[c].hand = <<>>
  /\ call'[c].pc \in {"takeNext", "beforeHook"} \union Taking =>
       /\ call'[c].hand = call[c].hand
       /\ call'[c].pc = call[c].pc \/ (call'[c].pc = "beforeHook" /\ At(c, "takeNext"))
  /\ appending'[c] # Nobody /\ appending'[c].entry.kind = "user" => call'[c].pc \in Showing
  /\ \/ UNCHANGED entries
     \/ \E e \in SessionEntry : entries' = Append(entries, e) /\ e.kind # "user"

(* The hand of a call that does not move.                                   *)
LEMMA HandElsewhere ==
  ASSUME NEW d \in Calls, HandOf(d), call'[d] = call[d], appending'[d] = appending[d],
         UNCHANGED <<asked, nextMessage>>
  PROVE  HandOf(d)'
BY DEF HandOf, TakenOut, Appends

(* A step that moves no message keeps every message where it is.            *)
LEMMA SilentKeeps ==
  ASSUME Typed, MessageInv, NEW c \in Calls, Silent(c)
  PROVE  MessageInv'
<1>0. /\ UNCHANGED <<steerQueue, followUpQueue, nextTurnQueue, asked, cleared, dropped, limits, nextMessage>>
      /\ \A d \in Calls : d # c => call'[d] = call[d] /\ appending'[d] = appending[d]
      /\ Numbered /\ Parted(Placing, ToSet(asked)) /\ InTurn /\ HandOf(c)
      /\ entries \in Seq(SessionEntry)
  BY DEF Silent, queues, MessageInv, Numbered, Typed, SessionTypeOK
<1>1. UNCHANGED Kept /\ \A p \in DOMAIN entries' : entries'[p].kind = "user" =>
                          entries'[p].item < nextMessage
  <2>1. CASE UNCHANGED entries
    BY <1>0, <2>1 DEF Kept, Numbered
  <2>2. ASSUME NEW e \in SessionEntry, entries' = Append(entries, e), e.kind # "user"
        PROVE  UNCHANGED Kept /\ \A p \in DOMAIN entries' : entries'[p].kind = "user" =>
                                   entries'[p].item < nextMessage
    <3>1. MessageItems(entries', ToSet(asked)) = MessageItems(entries, ToSet(asked))
      BY <1>0, <2>2, KeptAppend
    <3>2. \A p \in DOMAIN entries' : (p \in DOMAIN entries /\ entries'[p] = entries[p]) \/ entries'[p] = e
      BY <1>0, <2>2
    <3> QED BY <1>0, <2>2, <3>1, <3>2 DEF Kept, Numbered
  <2> QED BY <2>1, <2>2 DEF Silent
<1>2. Messages(call'[c].hand) = Messages(call[c].hand)
  BY DEF Silent
<1>3. HandOf(c)'
  <2>1. /\ \A n \in Messages(call'[c].hand) : n < nextMessage'
        /\ UnlikeMessages(call'[c].hand)
    BY <1>0, <1>2 DEF HandOf, Silent
  <2>2. call'[c].pc \notin Holding => call'[c].hand = <<>>
    BY DEF Silent
  <2>3. Appends(c)' /\ appending'[c].entry.kind = "user" => call'[c].pc \in Showing
    BY DEF Silent, Appends
  <2>4. CASE call'[c].pc \in {"takeNext", "beforeHook"} \union Taking
    <3>1. call'[c].hand = call[c].hand
          /\ (call'[c].pc = call[c].pc \/ (call'[c].pc = "beforeHook" /\ At(c, "takeNext")))
      BY <2>4 DEF Silent
    <3>2. /\ call[c].pc \in {"takeNext", "beforeHook"} \union Taking
          /\ call'[c].pc \in {"takeNext", "beforeHook"} <=> call[c].pc \in {"takeNext", "beforeHook"}
          /\ TakenOut(c)' = TakenOut(c)
      BY <2>4, <3>1 DEF At, TakenOut, Taking, BeforeLoop
    <3>3. AllUsers(call'[c].hand) /\ Messages(TakenOut(c)') \subseteq ToSet(asked)
          /\ (call'[c].pc \in {"takeNext", "beforeHook"} => Last(call'[c].hand).item \notin ToSet(asked))
      BY <1>0, <3>1, <3>2 DEF HandOf
    <3> QED BY <1>0, <2>1, <2>2, <2>3, <3>3 DEF HandOf
  <2>5. CASE call'[c].pc \notin {"takeNext", "beforeHook"} \union Taking
    BY <2>1, <2>2, <2>3, <2>5 DEF HandOf
  <2> QED BY <2>4, <2>5
<1>4. Numbered'
  <2>1. \A d \in Calls : HandOf(d)'
    BY <1>0, <1>3, HandElsewhere DEF Numbered
  <2> QED BY <1>0, <1>1, <2>1 DEF Numbered
<1>5. Parted(Placing, ToSet(asked))'
  <2>1. Held' = Held
    BY <1>0, <1>2 DEF Held
  <2>2. Placing' = Placing
    BY <1>0, <1>1, <2>1 DEF Placing
  <2> QED BY <1>0, <2>2
<1>6. InTurn'
  <2>1. ASSUME NEW d \in Calls, call'[d].pc \in {"takeNext"} \union Taking
        PROVE  call'[d].pc = call[d].pc /\ TakenOut(d)' = TakenOut(d)
    <3>1. CASE d # c
      BY <1>0, <3>1 DEF TakenOut
    <3>2. CASE d = c
      <4>1. call'[c].hand = call[c].hand /\ call'[c].pc = call[c].pc
        BY <2>1, <3>2 DEF Silent, Taking
      <4> QED BY <3>2, <4>1 DEF TakenOut
    <3> QED BY <3>1, <3>2
  <2>2. ASSUME NEW d \in Calls, InTurn, limits.patient
        PROVE  /\ call'[d].pc \in {"takeNext"} \union Taking => Climbing(ItemsBack(TakenOut(d)'))
               /\ At(d, "takeNext")' => Precedes(ItemsBack(TakenOut(d)'), nextTurnQueue)
               /\ At(d, "steerTaken")' => Precedes(ItemsBack(TakenOut(d)'), steerQueue)
               /\ At(d, "followUpTaken")' => Precedes(ItemsBack(TakenOut(d)'), followUpQueue)
    BY <2>1, <2>2 DEF InTurn, At, Taking
  <2> QED BY <1>0, <2>2 DEF InTurn
<1> QED BY <1>4, <1>5, <1>6 DEF MessageInv

-----------------------------------------------------------------------------
(* Steps that move no message.                                              *)

(* What such a step leaves alone.                                           *)
Settled == UNCHANGED <<queues, asked, cleared, dropped, limits, nextMessage>>

(* A call that shows nothing appends no message.                            *)
LEMMA SessionSilent ==
  ASSUME Typed, Numbered, NEW c \in Calls, call[c].pc \notin Showing,
         UNCHANGED session \/ Commit(c) \/ Abandon(c)
  PROVE  /\ \A d \in Calls : d # c => appending'[d] = appending[d]
         /\ ~(appending'[c] # Nobody /\ appending'[c].entry.kind = "user")
         /\ \/ UNCHANGED entries
            \/ \E e \in SessionEntry : entries' = Append(entries, e) /\ e.kind # "user"
<1>0. ~(Appends(c) /\ appending[c].entry.kind = "user")
  BY DEF Numbered, HandOf
<1>1. CASE UNCHANGED session
  BY <1>0, <1>1 DEF session, Appends
<1>2. CASE Commit(c)
  <2>1. Appends(c) /\ appending[c].entry \in SessionEntry
    BY <1>2, WritingTypes DEF Commit, Committing, Appends, Nobody, Entry
  <2>2. entries' = Append(entries, appending[c].entry) /\ appending[c].entry.kind # "user"
    BY <1>0, <1>2, <2>1 DEF Commit
  <2>3. appending'[c] = Nobody /\ \A d \in Calls : d # c => appending'[d] = appending[d]
    BY <1>2, WritingTypes DEF Commit
  <2> QED BY <2>1, <2>2, <2>3
<1>3. CASE Abandon(c)
  BY <1>3, WritingTypes DEF Abandon
<1> QED BY <1>1, <1>2, <1>3

(* A call elsewhere with the hand it had.                                   *)
LEMMA SilentHand ==
  ASSUME Typed, Numbered, NEW c \in Calls, call[c].pc \notin Showing,
         UNCHANGED session \/ Commit(c) \/ Abandon(c), Settled,
         \A d \in Calls : d # c => call'[d] = call[d],
         \/ call'[c].hand = call[c].hand
         \/ Messages(call[c].hand) = {} /\ Messages(call'[c].hand) = {} /\ UnlikeMessages(call'[c].hand),
         call'[c].pc \notin Holding => call'[c].hand = <<>>,
         call'[c].pc \in {"takeNext", "beforeHook"} \union Taking =>
           call'[c].hand = call[c].hand /\ call'[c].pc = "beforeHook" /\ At(c, "takeNext")
  PROVE  Silent(c)
BY SessionSilent DEF Silent, Settled

(* A call with nothing in hand.                                             *)
LEMMA SilentEmpty ==
  ASSUME Typed, Numbered, NEW c \in Calls, call[c].pc \notin Holding,
         UNCHANGED session \/ Commit(c) \/ Abandon(c), Settled,
         \A d \in Calls : d # c => call'[d] = call[d],
         \/ call'[c].pc \notin Holding /\ call'[c].hand \in {<<>>, call[c].hand}
         \/ /\ call'[c].pc \in Showing
            /\ Messages(call'[c].hand) = {} /\ UnlikeMessages(call'[c].hand)
  PROVE  Silent(c)
<1>1. call[c].hand = <<>> /\ Messages(call[c].hand) = {}
  BY AnswersAreNone DEF Numbered, HandOf
<1>2. call[c].pc \notin Showing /\ (call'[c].pc \in Showing =>
        call'[c].pc \notin {"takeNext", "beforeHook"} \union Taking)
  BY DEF Holding, Showing, Taking
<1>3. call'[c].pc \notin Holding => call'[c].hand = <<>>
  BY <1>1, <1>2 DEF Holding
<1>4. call'[c].pc \notin {"takeNext", "beforeHook"} \union Taking
  BY <1>2 DEF Holding
<1>5. \/ call'[c].hand = call[c].hand
      \/ Messages(call[c].hand) = {} /\ Messages(call'[c].hand) = {} /\ UnlikeMessages(call'[c].hand)
  BY <1>1
<1> QED BY <1>2, <1>3, <1>4, <1>5, SilentHand

(* A failure of a loop with nothing in hand.                                *)
LEMMA SilentThrow ==
  ASSUME Typed, Numbered, NEW c \in Calls, call[c].pc \notin Holding,
         UNCHANGED session \/ Abandon(c), LoopThrows(c, <<>>),
         UNCHANGED <<queues, asked, cleared, limits>>
  PROVE  Silent(c)
<1>1. /\ \A d \in Calls : d # c => call'[d] = call[d]
      /\ \/ call'[c].pc = "final" /\ call'[c].hand = <<>>
         \/ call'[c].pc = "output" /\ call'[c].hand = <<Msg("assistant", 0)>>
      /\ dropped' = dropped \union (ToSet(asked) \intersect Messages(<<>>))
      /\ UNCHANGED nextMessage
  BY ThrowsHand DEF Typed
<1>2. UNCHANGED dropped
  BY <1>1, AnswersAreNone
<1>3. \/ call'[c].pc \notin Holding /\ call'[c].hand \in {<<>>, call[c].hand}
      \/ call'[c].pc \in Showing /\ Messages(call'[c].hand) = {} /\ UnlikeMessages(call'[c].hand)
  BY <1>1, AnswersAreNone DEF Holding, Taking, Showing
<1> QED BY <1>1, <1>2, <1>3, SilentEmpty DEF Settled

(* The failures of a loop that has shown all it held.                       *)
LEMMA ThrowsAreSilent ==
  ASSUME Typed, Numbered, NEW c \in Calls,
         AnswerThrows(c) \/ FlushFails(c) \/ SavePointThrows(c) \/ PrepareThrows(c) \/ AgentEndThrows(c)
  PROVE  Silent(c)
<1>1. call[c].pc \notin Holding
  BY DEF AnswerThrows, FlushFails, SavePointThrows, PrepareThrows, AgentEndThrows, At, Flushing,
         Holding, Taking, Showing
<1>2. /\ UNCHANGED session \/ Abandon(c)
      /\ LoopThrows(c, <<>>)
      /\ UNCHANGED <<queues, asked, cleared, limits>>
  BY DEF AnswerThrows, FlushFails, SavePointThrows, PrepareThrows, AgentEndThrows
<1> QED BY <1>1, <1>2, SilentThrow

(* Beginnings: a call that was free.                                        *)
LEMMA BeginningsAreSilent ==
  ASSUME Typed, Numbered, NEW c \in Calls, Prompt(c) \/ Compact(c) \/ NavigateTree(c)
  PROVE  Silent(c)
<1>1. call[c].pc \notin Holding
  BY DEF Prompt, Compact, NavigateTree, MayCall, At, Holding, Taking, Showing
<1>2. UNCHANGED session /\ Settled
  BY DEF Prompt, Compact, NavigateTree, Settled, past, counters
<1>3. PICK f : /\ Set(c, f) /\ "hand" \notin DOMAIN f /\ "pc" \in DOMAIN f
               /\ f["pc"] \in {"snapshot", "compacting", "navigating"}
  <2>1. CASE Prompt(c)
    <3> DEFINE f == [op |-> "prompt", pc |-> "snapshot"]
    <3>1. Set(c, f)
      BY <2>1 DEF Prompt
    <3> QED BY <3>1
  <2>2. CASE Compact(c)
    <3>1. PICK e : Set(c, [op |-> "compact", pc |-> "compacting", goal |-> e])
      BY <2>2 DEF Compact
    <3> QED BY <3>1
  <2>3. CASE NavigateTree(c)
    <3>1. PICK e : Set(c, [op |-> "navigate", pc |-> "navigating", goal |-> e])
      BY <2>3 DEF NavigateTree
    <3> QED BY <3>1
  <2> QED BY <2>1, <2>2, <2>3
<1>4. /\ \A d \in Calls : d # c => call'[d] = call[d]
      /\ call'[c].pc \notin Holding /\ call'[c].hand = call[c].hand
  BY <1>3, SetHand DEF Typed, Holding, Taking, Showing
<1> QED BY <1>1, <1>2, <1>4, SilentEmpty

(* The ends of calls.                                                       *)
LEMMA EndsAreSilent ==
  ASSUME Typed, Numbered, NEW c \in Calls,
         SnapshotThrows(c) \/ Return(c) \/ AppendedIdle(c) \/ Settle(c)
  PROVE  Silent(c)
<1>1. call[c].pc \notin Holding
  <2>1. AppendedIdle(c) => At(c, "append")
    BY DEF AppendedIdle
  <2> QED BY <2>1 DEF SnapshotThrows, Return, Settle, At, Holding, Taking, Showing
<1>2. (UNCHANGED session \/ Commit(c) \/ Abandon(c)) /\ Settled /\ Finish(c)
  BY DEF SnapshotThrows, Return, AppendedIdle, Settle, Reject, Settled, past, counters
<1>3. /\ \A d \in Calls : d # c => call'[d] = call[d]
      /\ call'[c].pc \notin Holding /\ call'[c].hand = <<>>
  BY <1>2, FinishCall DEF Typed, Others, Holding, Taking, Showing
<1> QED BY <1>1, <1>2, <1>3, SilentEmpty

(* Steps of a loop or a navigation with nothing in hand before or after.    *)
LEMMA PlainAreSilent ==
  ASSUME Typed, Numbered, NEW c \in Calls,
         \/ TurnEnd(c) \/ SavePoint(c) \/ PrepareNextTurn(c) \/ GoIdle(c) \/ AgentEnded(c) \/ Summarise(c)
         \/ PollSteering(c) /\ steerQueue = <<>>
         \/ PollFollowUp(c) /\ followUpQueue = <<>>
  PROVE  Silent(c)
<1>1. call[c].pc \notin Holding
  BY DEF TurnEnd, SavePoint, PrepareNextTurn, GoIdle, AgentEnded, Summarise, PollSteering, PollFollowUp,
         At, Holding, Taking, Showing
<1>2. (UNCHANGED session \/ Commit(c)) /\ Settled
  BY DEF TurnEnd, SavePoint, PrepareNextTurn, GoIdle, AgentEnded, Summarise, PollSteering, PollFollowUp,
         Settled, past, counters
<1>3. PICK f : /\ Set(c, f) /\ "hand" \notin DOMAIN f /\ "pc" \in DOMAIN f
               /\ f["pc"] \in {"turnFlush", "endFlush", "prepare", "poll", "agentEnd", "final",
                               "summarising", "stream", "pollFollowUp"}
  <2>1. CASE TurnEnd(c)
    <3> DEFINE f == [pc |-> "turnFlush"]
               g == [pc |-> "turnFlush", thrown |-> TRUE]
    <3>1. Set(c, f) \/ Set(c, g)
      BY <2>1 DEF TurnEnd
    <3> QED BY <3>1
  <2>2. CASE SavePoint(c)
    <3> DEFINE f == [pc |-> IF call[c].ends THEN "endFlush" ELSE "prepare"]
    <3>1. Set(c, f)
      BY <2>2 DEF SavePoint
    <3> QED BY <3>1
  <2>3. CASE PrepareNextTurn(c)
    <3> DEFINE f == [pc |-> "poll", context |-> Context]
    <3>1. Set(c, f)
      BY <2>3 DEF PrepareNextTurn
    <3> QED BY <3>1
  <2>4. CASE GoIdle(c)
    <3> DEFINE f == [pc |-> "agentEnd"]
    <3>1. Set(c, f)
      BY <2>4 DEF GoIdle
    <3> QED BY <3>1
  <2>5. CASE AgentEnded(c)
    <3> DEFINE f == [pc |-> "final"]
    <3>1. Set(c, f)
      BY <2>5 DEF AgentEnded
    <3> QED BY <3>1
  <2>6. CASE Summarise(c)
    <3> DEFINE f == [pc |-> "summarising"]
    <3>1. Set(c, f)
      BY <2>6 DEF Summarise
    <3> QED BY <3>1
  <2>7. CASE PollSteering(c) /\ steerQueue = <<>>
    <3> DEFINE f == [pc |-> IF call[c].more THEN "stream" ELSE "pollFollowUp"]
    <3>1. Set(c, f)
      BY <2>7 DEF PollSteering
    <3> QED BY <3>1
  <2>8. CASE PollFollowUp(c) /\ followUpQueue = <<>>
    <3> DEFINE f == [pc |-> "endFlush"]
    <3>1. Set(c, f)
      BY <2>8 DEF PollFollowUp
    <3> QED BY <3>1
  <2> QED BY <2>1, <2>2, <2>3, <2>4, <2>5, <2>6, <2>7, <2>8
<1>4. /\ \A d \in Calls : d # c => call'[d] = call[d]
      /\ call'[c].pc \notin Holding /\ call'[c].hand = call[c].hand
  BY <1>3, SetHand DEF Typed, Holding, Taking, Showing
<1> QED BY <1>1, <1>2, <1>4, SilentEmpty

(* An answer, with the results of its tools.                                *)
LEMMA AnswersAreSilent ==
  ASSUME Typed, Numbered, NEW c \in Calls, Answer(c)
  PROVE  Silent(c)
<1>1. call[c].pc \notin Holding /\ UNCHANGED session /\ Settled
  BY DEF Answer, At, Holding, Taking, Showing, Settled, past, counters
<1>2. PICK f : /\ Set(c, f) /\ {"pc", "hand"} \subseteq DOMAIN f /\ f["pc"] = "output"
               /\ f["hand"] \in {<<Msg("assistant", 0)>>, <<Msg("assistant", 0), Msg("result", 0)>>}
  <2>1. CASE Set(c, [pc |-> "output", more |-> TRUE, rounds |-> call[c].rounds + 1,
                   hand |-> <<Msg("assistant", 0), Msg("result", 0)>>])
    BY <2>1
  <2>2. ASSUME NEW failed, Set(c, [pc |-> "output", more |-> FALSE, ends |-> failed,
                     hand |-> <<Msg("assistant", 0)>>])
        PROVE  \E f : /\ Set(c, f) /\ {"pc", "hand"} \subseteq DOMAIN f /\ f["pc"] = "output"
               /\ f["hand"] \in {<<Msg("assistant", 0)>>, <<Msg("assistant", 0), Msg("result", 0)>>}
    BY <2>2
  <2> QED BY <2>1, <2>2 DEF Answer
<1>3. /\ \A d \in Calls : d # c => call'[d] = call[d]
      /\ call'[c].pc \in Showing /\ Messages(call'[c].hand) = {} /\ UnlikeMessages(call'[c].hand)
  <2>1. /\ \A d \in Calls : d # c => call'[d] = call[d]
        /\ call'[c].pc = "output" /\ call'[c].hand = f["hand"]
    BY <1>2, SetHand DEF Typed
  <2> QED BY <1>2, <2>1, AnswersAreNone DEF Showing
<1> QED BY <1>1, <1>3, SilentEmpty

(* Steps with messages in hand that stay there.                             *)
LEMMA HandedAreSilent ==
  ASSUME Typed, Numbered, NEW c \in Calls, NextTaken(c) \/ RunLoop(c) \/ Polled(c)
  PROVE  Silent(c)
<1>1. call[c].pc \notin Showing /\ UNCHANGED session /\ Settled
  BY DEF NextTaken, RunLoop, Polled, At, Showing, Settled, past, counters
<1>2. CASE NextTaken(c)
  <2>1. PICK f : Set(c, f) /\ "hand" \notin DOMAIN f /\ "pc" \in DOMAIN f /\ f["pc"] = "beforeHook"
    <3>1. Set(c, [pc |-> "beforeHook"])
      BY <1>2 DEF NextTaken
    <3> QED BY <3>1
  <2>2. /\ \A d \in Calls : d # c => call'[d] = call[d]
        /\ call'[c].pc = "beforeHook" /\ call'[c].hand = call[c].hand
    BY <2>1, SetHand DEF Typed
  <2>3. At(c, "takeNext")
    BY <1>2 DEF NextTaken
  <2> QED BY <1>1, <2>2, <2>3, SilentHand DEF Holding
<1>3. CASE RunLoop(c)
  <2>1. PICK f : Set(c, f) /\ "hand" \notin DOMAIN f /\ "pc" \in DOMAIN f /\ f["pc"] = "prompts"
    <3>1. Set(c, [pc |-> "prompts", ran |-> TRUE, more |-> TRUE, context |-> call[c].context \o call[c].hand])
      BY <1>3 DEF RunLoop
    <3> QED BY <3>1
  <2>2. /\ \A d \in Calls : d # c => call'[d] = call[d]
        /\ call'[c].pc = "prompts" /\ call'[c].hand = call[c].hand
    BY <2>1, SetHand DEF Typed
  <2> QED BY <1>1, <2>2, SilentHand DEF Holding, Showing, Taking
<1>4. CASE Polled(c)
  <2>1. PICK f : Set(c, f) /\ "hand" \notin DOMAIN f /\ "pc" \in DOMAIN f /\ f["pc"] = "inject"
    <3>1. Set(c, [pc |-> "inject"])
      BY <1>4 DEF Polled
    <3> QED BY <3>1
  <2>2. /\ \A d \in Calls : d # c => call'[d] = call[d]
        /\ call'[c].pc = "inject" /\ call'[c].hand = call[c].hand
    BY <2>1, SetHand DEF Typed
  <2> QED BY <1>1, <2>2, SilentHand DEF Holding, Showing, Taking
<1> QED BY <1>2, <1>3, <1>4

(* The beginning of an append, its line, and the end of a write.            *)
LEMMA AppendsAreSilent ==
  ASSUME Typed, Numbered, NEW c \in Calls,
         \/ ShowMessage(c) \/ FlushWrite(c) \/ AppendCompaction(c) \/ MoveTo(c) \/ AppendSummary(c)
         \/ Write(c) \/ WriteFlushed(c)
         \/ \E kind \in WriteKinds : AppendIdle(c, kind)
  PROVE  Silent(c)
<1>0. HandOf(c)
  BY DEF Numbered
<1>1. CASE WriteFlushed(c)
  <2>1. /\ call[c].pc \notin Holding /\ Commit(c) /\ Settled /\ UNCHANGED call
    BY <1>1 DEF WriteFlushed, Flushing, Holding, Taking, Showing, Settled, past, counters
  <2> QED BY <2>1, SilentEmpty
<1>2. CASE Write(c)
  <2>1. /\ UNCHANGED <<entries, call>> /\ Settled
        /\ \A d \in Calls : (d # c => appending'[d] = appending[d])
                            /\ appending'[d].entry = appending[d].entry
        /\ appending[c] # Nobody
    BY <1>2, WritingTypes DEF Write, AppendLine, FailLine, Nobody, Entry, Settled, past, counters
  <2> QED BY <1>0, <2>1 DEF Silent, Settled, HandOf, Appends
<1>3. CASE ShowMessage(c) \/ FlushWrite(c) \/ AppendCompaction(c) \/ MoveTo(c) \/ AppendSummary(c)
  <2>1. UNCHANGED call /\ Settled
    BY <1>3 DEF ShowMessage, FlushWrite, AppendCompaction, MoveTo, AppendSummary, Settled, past, counters
  <2>2. PICK kind, item, target, parent :
          /\ BeginAppendAt(c, kind, item, target, parent)
          /\ kind = "user" => call[c].pc \in Showing
    <3>1. CASE ShowMessage(c)
      BY <3>1 DEF ShowMessage, BeginAppend
    <3>2. CASE FlushWrite(c)
      <4>1. pendingSessionWrites # <<>> /\ pendingSessionWrites \in Seq(Waiting)
        BY <3>2 DEF FlushWrite, Typed
      <4>2. Head(pendingSessionWrites) \in Waiting
        BY <4>1
      <4>3. Head(pendingSessionWrites).kind # "user"
        BY <4>2 DEF Waiting
      <4> QED BY <3>2, <4>3 DEF FlushWrite, BeginAppend
    <3>3. CASE AppendCompaction(c) \/ MoveTo(c) \/ AppendSummary(c)
      BY <3>3 DEF AppendCompaction, MoveTo, AppendSummary, BeginAppend
    <3> QED BY <1>3, <3>1, <3>2, <3>3
  <2>3. /\ UNCHANGED entries /\ appending'[c].entry.kind = kind
        /\ \A d \in Calls : d # c => appending'[d] = appending[d]
    BY <2>2, BeginsWith
  <2> QED BY <1>0, <2>1, <2>2, <2>3 DEF Silent, Settled, HandOf
<1>4. ASSUME NEW kind \in WriteKinds, AppendIdle(c, kind) PROVE Silent(c)
  <2>0. PICK f : Set(c, f) /\ "hand" \notin DOMAIN f /\ "pc" \in DOMAIN f /\ f["pc"] = "append"
    <3>1. Set(c, [op |-> "append", pc |-> "append"])
      BY <1>4 DEF AppendIdle
    <3> QED BY <3>1
  <2>1. /\ BeginAppendAt(c, kind, nextWrite, 0, leafId) /\ Settled /\ At(c, "free")
    BY <1>4 DEF AppendIdle, MayCall, BeginAppend, Settled, past, counters
  <2>2. /\ \A d \in Calls : d # c => call'[d] = call[d]
        /\ call'[c].pc = "append" /\ call'[c].hand = call[c].hand
    BY <2>0, SetHand DEF Typed
  <2>3. call[c].hand = <<>> /\ call'[c].pc \notin Holding
    BY <1>0, <2>1, <2>2 DEF HandOf, At, Holding, Taking, Showing
  <2>4. /\ UNCHANGED entries /\ appending'[c].entry.kind = kind
        /\ \A d \in Calls : d # c => appending'[d] = appending[d]
    BY <2>1, BeginsWith
  <2>5. kind # "user"
    BY HarnessAssumption
  <2> QED BY <2>1, <2>2, <2>3, <2>4, <2>5 DEF Silent, Settled, Holding
<1> QED BY <1>1, <1>2, <1>3, <1>4

-----------------------------------------------------------------------------
(* Steps that move messages.                                                *)

(* A number that a queue does not have, behind it.                          *)
LEMMA UnlikeAppend ==
  ASSUME NEW q \in Seq(Nat), NEW n \in Nat, Unlike(q), n \notin ToSet(q)
  PROVE  Unlike(Append(q, n)) /\ ToSet(Append(q, n)) = ToSet(q) \union {n}
<1> DEFINE s == Append(q, n)
<1>1. /\ Len(q) \in Nat /\ DOMAIN s = 1 .. Len(q) + 1 /\ DOMAIN q = 1 .. Len(q)
      /\ \A i \in 1 .. Len(q) : s[i] = q[i]
      /\ s[Len(q) + 1] = n
  OBVIOUS
<1>2. \A i \in 1 .. Len(q) : q[i] # n
  BY <1>1 DEF ToSet
<1> HIDE DEF s
<1>3. \A i \in 1 .. Len(q) + 1 : i \in 1 .. Len(q) \/ i = Len(q) + 1
  BY <1>1
<1>4. Unlike(s)
  BY <1>1, <1>2, <1>3 DEF Unlike
<1>5. ToSet(s) = ToSet(q) \union {n}
  BY SetOfAppend DEF s
<1> QED BY <1>4, <1>5 DEF s

(* A hand without its last message.                                         *)
LEMMA WithoutLast ==
  ASSUME NEW h \in Seq(InHand), h # <<>>, AllUsers(h)
  PROVE  /\ Front(h) \in Seq(InHand) /\ AllUsers(Front(h))
         /\ Messages(h) = Messages(Front(h)) \union {Last(h).item}
         /\ UnlikeMessages(h) => UnlikeMessages(Front(h))
         /\ ItemsBack(Front(h)) = [p \in DOMAIN Front(h) |-> h[p].item]
<1> DEFINE k == Len(h) - 1
           f == Front(h)
<1>1. k \in Nat /\ Len(h) = k + 1 /\ DOMAIN h = 1 .. (k + 1)
  BY EmptySeq
<1>2. f = SubSeq(h, 1, k) /\ Last(h) = h[k + 1]
  BY <1>1 DEF Front, Last
<1> HIDE DEF f, k
<1>3. f \in Seq(InHand) /\ DOMAIN f = 1 .. k /\ \A p \in 1 .. k : f[p] = h[p]
  BY <1>1, <1>2
<1>4. /\ \A p \in 1 .. k : p \in 1 .. (k + 1)
      /\ k + 1 \in 1 .. (k + 1)
      /\ \A p \in 1 .. (k + 1) : p \in 1 .. k \/ p = k + 1
  BY <1>1
<1>5. AllUsers(f)
  BY <1>1, <1>3, <1>4 DEF AllUsers
<1>6. ASSUME NEW x PROVE x \in Messages(h) <=> x \in Messages(f) \union {Last(h).item}
  <2>1. x \in Messages(h) <=> \E p \in 1 .. (k + 1) : h[p].kind = "user" /\ h[p].item = x
    BY <1>1, MessagesIn
  <2>2. x \in Messages(f) <=> \E p \in 1 .. k : f[p].kind = "user" /\ f[p].item = x
    <3>1. x \in Messages(f) <=> \E p \in DOMAIN f : f[p].kind = "user" /\ f[p].item = x
      BY MessagesIn
    <3> QED BY <1>3, <3>1
  <2>3. h[k + 1].kind = "user"
    BY <1>1, <1>4 DEF AllUsers
  <2> QED BY <1>2, <1>3, <1>4, <2>1, <2>2, <2>3
<1>7. UnlikeMessages(h) => UnlikeMessages(f)
  BY <1>1, <1>3, <1>4 DEF UnlikeMessages
<1>8. ItemsBack(f) = [p \in DOMAIN f |-> h[p].item]
  BY <1>3 DEF ItemsBack
<1> QED BY <1>3, <1>5, <1>6, <1>7, <1>8 DEF f

(* What is in a queue was asked for, and is nowhere else.                   *)
LEMMA InPlace ==
  ASSUME Typed, MessageInv
  PROVE  /\ ToSet(steerQueue) \subseteq ToSet(asked) /\ ToSet(followUpQueue) \subseteq ToSet(asked)
         /\ ToSet(nextTurnQueue) \subseteq ToSet(asked)
         /\ \A n \in ToSet(asked) : n \in Nat /\ n < nextMessage
         /\ nextMessage \in Nat /\ nextMessage \notin ToSet(asked)
         /\ \A c \in Calls :
              /\ HandOf(c) /\ call[c].hand \in Seq(InHand) /\ call[c] \in Local
              /\ \A n \in Messages(call[c].hand) : n \in Nat
              /\ \A k \in 1 .. 6 : Placing[k] \intersect Held[c] = {}
<1>1. Numbered /\ Parted(Placing, ToSet(asked)) /\ nextMessage \in Nat /\ asked \in Seq(Nat)
  BY DEF MessageInv, Typed
<1>2. \A k \in 1 .. 6 : k \in DOMAIN Placing /\ Placing[k] \subseteq ToSet(asked)
  BY <1>1, PlacesNow, SpotIs DEF Parted
<1>3. /\ ToSet(steerQueue) \subseteq ToSet(asked) /\ ToSet(followUpQueue) \subseteq ToSet(asked)
      /\ ToSet(nextTurnQueue) \subseteq ToSet(asked)
  BY <1>2, PlacesNow
<1>4. ToSet(asked) \subseteq Nat
  BY <1>1 DEF ToSet
<1>5. \A n \in ToSet(asked) : n \in Nat /\ n < nextMessage
  BY <1>1, <1>4 DEF Numbered
<1>6. nextMessage \notin ToSet(asked)
  BY <1>1, <1>5
<1>7. ASSUME NEW c \in Calls
      PROVE  /\ HandOf(c) /\ call[c].hand \in Seq(InHand) /\ call[c] \in Local
             /\ \A n \in Messages(call[c].hand) : n \in Nat
             /\ \A k \in 1 .. 6 : Placing[k] \intersect Held[c] = {}
  <2>1. call[c] \in Local /\ call[c].hand \in Seq(InHand) /\ HandOf(c)
    BY <1>1 DEF Typed, Local, Numbered
  <2>2. \A n \in Messages(call[c].hand) : n \in Nat
    <3>1. \A p \in DOMAIN call[c].hand : call[c].hand[p] \in InHand
      BY <2>1
    <3>2. \A p \in DOMAIN call[c].hand : call[c].hand[p].item \in Nat
      BY <3>1 DEF InHand
    <3> QED BY <3>2, MessagesIn
  <2>3. c + 7 \in DOMAIN Placing /\ Placing[c + 7] = Held[c] /\ \A k \in 1 .. 6 : k # c + 7
    BY PlacesNow, SpotIs
  <2> QED BY <1>1, <1>2, <2>1, <2>2, <2>3 DEF Parted
<1> QED BY <1>1, <1>3, <1>5, <1>6, <1>7

(* Messages that go from one place to another.                              *)
Moved(f, g, a, b, M) ==
  /\ a \in DOMAIN f /\ b \in DOMAIN f /\ a # b /\ DOMAIN g = DOMAIN f
  /\ M \subseteq f[a] /\ g[a] = f[a] \ M /\ g[b] = f[b] \union M
  /\ \A s \in DOMAIN f : s # a /\ s # b => g[s] = f[s]

(* After such a move every message is at one place again.                   *)
LEMMA PartedMoved ==
  ASSUME NEW f, NEW g, NEW A, NEW a, NEW b, NEW M, Parted(f, A), Moved(f, g, a, b, M)
  PROVE  Parted(g, A)
<1>1. /\ a \in DOMAIN f /\ b \in DOMAIN f /\ a # b /\ DOMAIN g = DOMAIN f
      /\ M \subseteq f[a] /\ g[a] = f[a] \ M /\ g[b] = f[b] \union M
      /\ \A s \in DOMAIN f : s # a /\ s # b => g[s] = f[s]
  BY DEF Moved
<1> QED BY <1>1, PartedMove

(* ... from one place to two others.                                        *)
MovedTwice(f, g, h, a, b, M, N) ==
  /\ h \in DOMAIN f /\ a \in DOMAIN f /\ b \in DOMAIN f /\ h # a /\ h # b /\ a # b
  /\ M \subseteq f[h] /\ N \subseteq f[h] /\ M \intersect N = {} /\ DOMAIN g = DOMAIN f
  /\ g[h] = f[h] \ (M \union N) /\ g[a] = f[a] \union M /\ g[b] = f[b] \union N
  /\ \A s \in DOMAIN f : s # h /\ s # a /\ s # b => g[s] = f[s]

(* After this move, too.                                                    *)
LEMMA PartedTwice ==
  ASSUME NEW f, NEW g, NEW A, NEW h, NEW a, NEW b, NEW M, NEW N,
         Parted(f, A), MovedTwice(f, g, h, a, b, M, N)
  PROVE  Parted(g, A)
<1> DEFINE m == [f EXCEPT ![h] = f[h] \ M, ![a] = f[a] \union M]
<1>0. /\ h \in DOMAIN f /\ a \in DOMAIN f /\ b \in DOMAIN f /\ h # a /\ h # b /\ a # b
      /\ M \subseteq f[h] /\ N \subseteq f[h] /\ M \intersect N = {} /\ DOMAIN g = DOMAIN f
      /\ g[h] = f[h] \ (M \union N) /\ g[a] = f[a] \union M /\ g[b] = f[b] \union N
      /\ \A s \in DOMAIN f : s # h /\ s # a /\ s # b => g[s] = f[s]
  BY DEF MovedTwice
<1>1. /\ DOMAIN m = DOMAIN f /\ m[h] = f[h] \ M /\ m[a] = f[a] \union M
      /\ \A s \in DOMAIN f : s # h /\ s # a => m[s] = f[s]
  BY <1>0
<1> HIDE DEF m
<1>2. Moved(f, m, h, a, M)
  BY <1>0, <1>1 DEF Moved
<1>3. Moved(m, g, h, b, N)
  BY <1>0, <1>1 DEF Moved
<1> QED BY <1>2, <1>3, PartedMoved

(* ... from two places to a third.                                          *)
MovedInto(f, g, a, b, h) ==
  /\ h \in DOMAIN f /\ a \in DOMAIN f /\ b \in DOMAIN f /\ h # a /\ h # b /\ a # b
  /\ DOMAIN g = DOMAIN f
  /\ g[a] = {} /\ g[b] = {} /\ g[h] = f[h] \union f[a] \union f[b]
  /\ \A s \in DOMAIN f : s # h /\ s # a /\ s # b => g[s] = f[s]

(* And after this one.                                                      *)
LEMMA PartedInto ==
  ASSUME NEW f, NEW g, NEW A, NEW a, NEW b, NEW h, Parted(f, A), MovedInto(f, g, a, b, h)
  PROVE  Parted(g, A)
<1> DEFINE m == [f EXCEPT ![a] = {}, ![h] = f[h] \union f[a]]
<1>0. /\ h \in DOMAIN f /\ a \in DOMAIN f /\ b \in DOMAIN f /\ h # a /\ h # b /\ a # b
      /\ DOMAIN g = DOMAIN f
      /\ g[a] = {} /\ g[b] = {} /\ g[h] = f[h] \union f[a] \union f[b]
      /\ \A s \in DOMAIN f : s # h /\ s # a /\ s # b => g[s] = f[s]
  BY DEF MovedInto
<1>1. /\ DOMAIN m = DOMAIN f /\ m[a] = {} /\ m[h] = f[h] \union f[a]
      /\ \A s \in DOMAIN f : s # h /\ s # a => m[s] = f[s]
  BY <1>0
<1> HIDE DEF m
<1>2. Moved(f, m, a, h, f[a])
  BY <1>0, <1>1 DEF Moved
<1>3. Moved(m, g, b, h, f[b])
  BY <1>0, <1>1 DEF Moved
<1> QED BY <1>2, <1>3, PartedMoved

(* A call that gives messages in hand to a place, or takes some from there. *)
Gives(c, a, M) ==
  /\ M \subseteq Held[c] /\ Held'[c] = Held[c] \ M /\ Placing'[a] = Placing[a] \union M
  /\ \A k \in 1 .. 6 : k # a => Placing'[k] = Placing[k]
Takes(c, a, M) ==
  /\ M \subseteq Placing[a] /\ Held'[c] = Held[c] \union M /\ Placing'[a] = Placing[a] \ M
  /\ \A k \in 1 .. 6 : k # a => Placing'[k] = Placing[k]

(* The places after such a trade.                                           *)
LEMMA HandTrades ==
  ASSUME Parted(Placing, ToSet(asked)), UNCHANGED asked, NEW c \in Calls,
         \A d \in Calls : d # c => call'[d] = call[d],
         NEW a \in 1 .. 6, NEW M, Gives(c, a, M) \/ Takes(c, a, M)
  PROVE  Parted(Placing, ToSet(asked))'
BY HandMoves DEF Gives, Takes

(* A call that leaves others, and takes what it holds to the session and    *)
(* to the messages lost.                                                    *)
Leaves(c, M, N) ==
  /\ M \subseteq Held[c] /\ N \subseteq Held[c] /\ M \intersect N = {}
  /\ Held'[c] = Held[c] \ (M \union N) /\ ToSet(Kept') = ToSet(Kept) \union M
  /\ dropped' = dropped \union N

(* The places after that.                                                   *)
LEMMA HandLeaves ==
  ASSUME Parted(Placing, ToSet(asked)), UNCHANGED <<asked, queues, cleared>>, NEW c \in Calls,
         \A d \in Calls : d # c => call'[d] = call[d],
         NEW M, NEW N, Leaves(c, M, N)
  PROVE  Parted(Placing, ToSet(asked))'
<1>0. /\ M \subseteq Held[c] /\ N \subseteq Held[c] /\ M \intersect N = {}
      /\ Held'[c] = Held[c] \ (M \union N) /\ ToSet(Kept') = ToSet(Kept) \union M
      /\ dropped' = dropped \union N
  BY DEF Leaves
<1> DEFINE f == Placing
           A == ToSet(asked)
           g == Placing'
           h == c + 7
<1>1. /\ DOMAIN f = Spot /\ h \in Spot /\ 4 \in Spot /\ 6 \in Spot /\ h # 4 /\ h # 6
      /\ f[h] = Held[c] /\ f[4] = ToSet(Kept) /\ f[6] = dropped
  BY PlacesNow, SpotIs
<1>2. /\ DOMAIN g = Spot /\ g[h] = Held'[c] /\ g[4] = ToSet(Kept') /\ g[6] = dropped'
  BY PlacesNext
<1>3. ASSUME NEW s \in Spot, s # h, s # 4, s # 6 PROVE g[s] = f[s]
  <2>1. CASE s \in 1 .. 6
    <3>1. s \in {1, 2, 3, 5}
      BY <1>3, <2>1
    <3> QED BY <3>1, PlacesNow, PlacesNext DEF queues
  <2>2. CASE s \notin 1 .. 6
    <3>1. PICK d \in Calls : s = d + 7
      BY <2>2, SpotIs
    <3>2. d # c
      BY <1>3, <3>1
    <3>3. Held'[d] = Held[d]
      BY <3>2 DEF Held
    <3> QED BY <3>1, <3>3, PlacesNow, PlacesNext
  <2> QED BY <2>1, <2>2
<1>4. Parted(f, A)
  OBVIOUS
<1> HIDE DEF f, A, g, h
<1>5. Parted(g, A)
  <2>1. MovedTwice(f, g, h, 4, 6, M, N)
    BY <1>0, <1>1, <1>2, <1>3 DEF MovedTwice
  <2> QED BY <1>4, <2>1, PartedTwice
<1>6. Parted(Placing', ToSet(asked'))
  BY <1>5 DEF g, A
<1> QED BY <1>6 DEF Parted

(* A hand elsewhere, also while more is asked for.                          *)
LEMMA HandStays ==
  ASSUME Typed, NEW d \in Calls, HandOf(d), call'[d] = call[d], appending'[d] = appending[d],
         nextMessage' \in Nat, nextMessage <= nextMessage', UNCHANGED asked
  PROVE  HandOf(d)'
<1>1. call[d] \in Local /\ call[d].hand \in Seq(InHand) /\ nextMessage \in Nat
  BY DEF Typed, Local
<1>2. \A n \in Messages(call[d].hand) : n \in Nat
  <2>1. \A p \in DOMAIN call[d].hand : call[d].hand[p] \in InHand
    BY <1>1
  <2>2. \A p \in DOMAIN call[d].hand : call[d].hand[p].item \in Nat
    BY <2>1 DEF InHand
  <2> QED BY <2>2, MessagesIn
<1>3. \A n \in Messages(call'[d].hand) : n < nextMessage'
  BY <1>1, <1>2 DEF HandOf
<1> QED BY <1>3 DEF HandOf, TakenOut, Appends

(* Numbered, of a step that appends at most one entry and leaves the        *)
(* queues without a number twice.                                           *)
LEMMA NumberedFrom ==
  ASSUME Typed, Numbered, NEW c \in Calls, HandOf(c)', UNCHANGED asked,
         \A d \in Calls : d # c => call'[d] = call[d] /\ appending'[d] = appending[d],
         nextMessage' \in Nat, nextMessage <= nextMessage',
         \/ UNCHANGED entries
         \/ \E e \in SessionEntry : /\ entries' = Append(entries, e)
                                    /\ e.kind = "user" => e.item < nextMessage',
         Unlike(steerQueue'), Unlike(followUpQueue'), Unlike(nextTurnQueue'), Unlike(Kept')
  PROVE  Numbered'
<1>0. nextMessage \in Nat /\ asked \in Seq(Nat) /\ entries \in Seq(SessionEntry)
  BY DEF Typed, SessionTypeOK
<1>1. \A d \in Calls : HandOf(d)'
  BY HandStays DEF Numbered
<1>2. \A n \in ToSet(asked') : n < nextMessage'
  <2>1. \A n \in ToSet(asked) : n \in Nat /\ n < nextMessage
    BY <1>0 DEF Numbered, ToSet
  <2> QED BY <1>0, <2>1
<1>3. \A p \in DOMAIN entries' : entries'[p].kind = "user" => entries'[p].item < nextMessage'
  <2>1. \A p \in DOMAIN entries : entries[p] \in SessionEntry
    BY <1>0
  <2>2. \A p \in DOMAIN entries : entries[p].item \in Nat
    BY <2>1 DEF SessionEntry
  <2>3. \A p \in DOMAIN entries : entries[p].kind = "user" => entries[p].item < nextMessage'
    BY <1>0, <2>2 DEF Numbered
  <2>4. CASE UNCHANGED entries
    BY <2>3, <2>4
  <2>5. ASSUME NEW e \in SessionEntry, entries' = Append(entries, e),
               e.kind = "user" => e.item < nextMessage'
        PROVE  \A p \in DOMAIN entries' : entries'[p].kind = "user" => entries'[p].item < nextMessage'
    <3>1. \A p \in DOMAIN entries' : (p \in DOMAIN entries /\ entries'[p] = entries[p]) \/ entries'[p] = e
      BY <1>0, <2>5
    <3> QED BY <2>3, <2>5, <3>1
  <2> QED BY <2>4, <2>5
<1> QED BY <1>1, <1>2, <1>3 DEF Numbered

(* Patient callers' queues, by a call that is alone.                        *)
LEMMA TurnAlone ==
  ASSUME Controlled, InTurn, NEW c \in Calls, Active(c), ~At(c, "append"), ~At(c, "agentEnd"),
         \A d \in Calls : d # c => call'[d] = call[d], UNCHANGED limits,
         limits.patient =>
           /\ Climbing(steerQueue') /\ Climbing(followUpQueue') /\ Climbing(nextTurnQueue')
           /\ call'[c].pc \in {"takeNext"} \union Taking => Climbing(ItemsBack(TakenOut(c)'))
           /\ At(c, "takeNext")' => Precedes(ItemsBack(TakenOut(c)'), nextTurnQueue')
           /\ At(c, "steerTaken")' => Precedes(ItemsBack(TakenOut(c)'), steerQueue')
           /\ At(c, "followUpTaken")' => Precedes(ItemsBack(TakenOut(c)'), followUpQueue')
  PROVE  InTurn'
<1> SUFFICES ASSUME limits.patient PROVE InTurn'
  BY DEF InTurn
<1>1. ASSUME NEW d \in Calls, d # c PROVE call'[d].pc \in {"free", "done"}
  BY <1>1, AloneInRun DEF Alone, Active
<1>2. ASSUME NEW d \in Calls
      PROVE  /\ call'[d].pc \in {"takeNext"} \union Taking => Climbing(ItemsBack(TakenOut(d)'))
             /\ At(d, "takeNext")' => Precedes(ItemsBack(TakenOut(d)'), nextTurnQueue')
             /\ At(d, "steerTaken")' => Precedes(ItemsBack(TakenOut(d)'), steerQueue')
             /\ At(d, "followUpTaken")' => Precedes(ItemsBack(TakenOut(d)'), followUpQueue')
  <2>1. CASE d = c
    BY <2>1
  <2>2. CASE d # c
    BY <1>1, <2>2 DEF At, Taking
  <2> QED BY <2>1, <2>2
<1> QED BY <1>2 DEF InTurn

(* Nothing of the session changes.                                          *)
LEMMA KeptStays ==
  ASSUME UNCHANGED <<entries, asked>>
  PROVE  UNCHANGED Kept
BY DEF Kept

(* createTurnState takes the messages kept for the turn.                    *)
LEMMA SnapshotKeeps ==
  ASSUME Typed, Controlled, MessageInv, NEW c \in Calls, Snapshot(c)
  PROVE  MessageInv'
<1> DEFINE q == nextTurnQueue
           n == nextMessage
           h == UserMessages(q) \o <<Msg("user", n)>>
<1>0. /\ Numbered /\ Parted(Placing, ToSet(asked)) /\ InTurn /\ q \in Seq(Nat) /\ n \in Nat
      /\ call \in [Calls -> Local] /\ ToSet(q) \subseteq ToSet(asked) /\ n \notin ToSet(asked)
      /\ \A m \in ToSet(q) : m < n
      /\ Unlike(q) /\ HandOf(c) /\ At(c, "snapshot")
  BY InPlace DEF MessageInv, Typed, Numbered, Snapshot
<1>1. /\ UNCHANGED <<steerQueue, followUpQueue, asked, cleared, dropped, limits, entries, appending>>
      /\ nextTurnQueue' = <<>> /\ nextMessage' = n + 1
  BY DEF Snapshot, past, session
<1>2. /\ \A d \in Calls : d # c => call'[d] = call[d]
      /\ call'[c].hand = h /\ call'[c].pc \in {"takeNext", "beforeHook"}
  <2>1. PICK f : /\ Set(c, f) /\ {"pc", "hand"} \subseteq DOMAIN f
                 /\ f["hand"] = h /\ f["pc"] \in {"takeNext", "beforeHook"}
    <3>1. Set(c, [pc |-> IF q = <<>> THEN "beforeHook" ELSE "takeNext", context |-> Context, hand |-> h])
      BY DEF Snapshot, UserMessages
    <3> HIDE DEF h
    <3> QED BY <3>1
  <2> HIDE DEF h
  <2> QED BY <1>0, <2>1, SetHand
<1>3. /\ h \in Seq(InHand) /\ AllUsers(h) /\ Last(h).item = n /\ Front(h) = UserMessages(q)
      /\ Messages(h) = ToSet(q) \union {n} /\ UnlikeMessages(h)
      /\ Messages(UserMessages(q)) = ToSet(q) /\ ItemsBack(UserMessages(q)) = q
  BY <1>0, OwnLast, HandOfQueue
<1> HIDE DEF h
<1>4. HandOf(c)'
  <2>1. call[c].pc \notin Showing /\ ~(Appends(c) /\ appending[c].entry.kind = "user")
    BY <1>0 DEF HandOf, At, Showing
  <2>2. TakenOut(c)' = UserMessages(q)
    BY <1>2, <1>3 DEF TakenOut, BeforeLoop
  <2>3. \A m \in Messages(h) : m < n + 1
    BY <1>0, <1>3, InPlace
  <2>4. call'[c].pc \in Holding
    BY <1>2 DEF Holding
  <2>5. Messages(TakenOut(c)') \subseteq ToSet(asked)
    BY <1>0, <1>3, <2>2
  <2> QED BY <1>0, <1>1, <1>2, <1>3, <2>1, <2>3, <2>4, <2>5 DEF HandOf, Appends
<1>5. Numbered'
  <2>1. Unlike(<<>>)
    BY DEF Unlike
  <2>2. Unlike(steerQueue) /\ Unlike(followUpQueue) /\ Unlike(Kept) /\ UNCHANGED Kept
    BY <1>0, <1>1, KeptStays DEF Numbered
  <2>3. nextMessage <= nextMessage' /\ nextMessage' \in Nat
    BY <1>0, <1>1
  <2> QED BY <1>0, <1>1, <1>2, <1>4, <2>1, <2>2, <2>3, NumberedFrom
<1>6. Parted(Placing, ToSet(asked))'
  <2>1. Held[c] = {} /\ Held'[c] = ToSet(q)
    <3>1. Messages(call[c].hand) = {}
      BY <1>0, AnswersAreNone DEF HandOf, At, Holding, Taking, Showing
    <3> QED BY <1>0, <1>1, <1>2, <1>3, <3>1 DEF Held
  <2>2. Placing[3] = ToSet(q) /\ Placing'[3] = {}
    BY <1>1, PlacesNow, PlacesNext DEF ToSet
  <2>3. \A k \in 1 .. 6 : k # 3 => Placing'[k] = Placing[k]
    <3>1. \A k \in 1 .. 6 : k # 3 => k \in {1, 2, 4, 5, 6}
      OBVIOUS
    <3> QED BY <1>1, <3>1, KeptStays, PlacesNow, PlacesNext
  <2>4. ToSet(q) \subseteq Placing[3] /\ Held'[c] = Held[c] \union ToSet(q)
        /\ Placing'[3] = Placing[3] \ ToSet(q)
    BY <2>1, <2>2
  <2>5. Takes(c, 3, ToSet(q))
    BY <2>3, <2>4 DEF Takes
  <2> QED BY <1>0, <1>1, <1>2, <2>5, HandTrades
<1>7. InTurn'
  <2>1. Active(c) /\ ~At(c, "append") /\ ~At(c, "agentEnd")
    BY <1>0 DEF Active, At
  <2>2. TakenOut(c)' = UserMessages(q) /\ ~At(c, "steerTaken")' /\ ~At(c, "followUpTaken")'
    BY <1>2, <1>3 DEF TakenOut, BeforeLoop, At
  <2>3. Climbing(<<>>) /\ Precedes(q, <<>>)
    BY DEF Climbing, Precedes
  <2> QED BY <1>0, <1>1, <1>2, <1>3, <2>1, <2>2, <2>3, TurnAlone DEF InTurn
<1> QED BY <1>5, <1>6, <1>7 DEF MessageInv

(* A prompt that ends before its loop.                                      *)
LEMMA RejectsHand ==
  ASSUME Typed, Controlled, MessageInv, NEW c \in Calls, At(c, "takeNext") \/ At(c, "beforeHook"),
         Reject(c), UNCHANGED <<appending, nextMessage>>, UNCHANGED asked
  PROVE  LET h == call[c].hand IN
         /\ \A d \in Calls : d # c => call'[d] = call[d]
         /\ call'[c].pc = "done" /\ HandOf(c)' /\ Held'[c] = {}
         /\ h \in Seq(InHand) /\ h # <<>> /\ AllUsers(h)
         /\ Held[c] = Messages(Front(h)) /\ UnlikeMessages(Front(h))
         /\ Front(h) \in Seq(InHand) /\ AllUsers(Front(h))
         /\ ItemsBack(Front(h)) = [p \in DOMAIN Front(h) |-> h[p].item]
<1> DEFINE h == call[c].hand
<1>1. /\ \A d \in Calls : d # c => call'[d] = call[d]
      /\ call'[c].pc = "done" /\ call'[c].hand = <<>>
  BY FinishCall DEF Reject, Others, Typed
<1>2. HandOf(c) /\ h \in Seq(InHand) /\ h # <<>> /\ AllUsers(h) /\ UnlikeMessages(h)
      /\ Messages(TakenOut(c)) \subseteq ToSet(asked) /\ Last(h).item \notin ToSet(asked)
      /\ TakenOut(c) = Front(h)
  <2>1. HandOf(c) /\ h \in Seq(InHand) /\ Placed(c)
    BY InPlace DEF Controlled
  <2> QED BY <2>1 DEF HandOf, Placed, At, TakenOut, BeforeLoop
<1> HIDE DEF h
<1>3. /\ Front(h) \in Seq(InHand) /\ AllUsers(Front(h))
      /\ Messages(h) = Messages(Front(h)) \union {Last(h).item}
      /\ UnlikeMessages(Front(h)) /\ ItemsBack(Front(h)) = [p \in DOMAIN Front(h) |-> h[p].item]
  BY <1>2, WithoutLast
<1>4. Held[c] = Messages(Front(h))
  BY <1>2, <1>3 DEF Held, h
<1>5. Held'[c] = {}
  BY <1>1, AnswersAreNone DEF Held
<1>6. HandOf(c)'
  <2>1. ~(Appends(c) /\ appending[c].entry.kind = "user")
    BY <1>2 DEF HandOf, At, Showing
  <2> QED BY <1>1, <2>1, AnswersAreNone DEF HandOf, Holding, Taking, Showing, Appends
<1> QED BY <1>1, <1>2, <1>3, <1>4, <1>5, <1>6 DEF h

(* The turn's messages go back in front of the next-turn queue, and the     *)
(* prompt's own is lost (executeTurn, catch).                               *)
LEMMA GivenBackKeeps ==
  ASSUME Typed, Controlled, MessageInv, NEW c \in Calls, NextGivenBack(c)
  PROVE  MessageInv'
<1> DEFINE q == nextTurnQueue
           b == ItemsBack(Front(call[c].hand))
<1>0. /\ Numbered /\ Parted(Placing, ToSet(asked)) /\ InTurn /\ q \in Seq(Nat) /\ nextMessage \in Nat
      /\ Unlike(q) /\ At(c, "takeNext") /\ Reject(c)
  BY DEF MessageInv, Typed, Numbered, NextGivenBack
<1>1. /\ UNCHANGED <<steerQueue, followUpQueue, asked, cleared, dropped, limits, entries, appending>>
      /\ UNCHANGED nextMessage
  BY DEF NextGivenBack, past, session, counters
<1>2. /\ \A d \in Calls : d # c => call'[d] = call[d]
      /\ call'[c].pc = "done" /\ HandOf(c)' /\ Held'[c] = {}
      /\ Held[c] = Messages(Front(call[c].hand)) /\ UnlikeMessages(Front(call[c].hand))
      /\ Front(call[c].hand) \in Seq(InHand) /\ AllUsers(Front(call[c].hand))
      /\ b = [p \in DOMAIN Front(call[c].hand) |-> call[c].hand[p].item]
  BY <1>0, <1>1, RejectsHand
<1>3. nextTurnQueue' = b \o q
  BY <1>2 DEF NextGivenBack
<1>4. b \in Seq(Nat) /\ ToSet(b) = Held[c] /\ Unlike(b)
  BY <1>2, QueueOfHand
<1>5. TakenOut(c) = Front(call[c].hand)
  BY <1>0 DEF TakenOut, At, BeforeLoop
<1>6. limits.patient => Climbing(b) /\ Precedes(b, q)
  BY <1>0, <1>5 DEF InTurn, At
<1>7. Placing[3] = ToSet(q) /\ ToSet(q) \intersect ToSet(b) = {}
  BY <1>4, PlacesNow, InPlace
<1> HIDE DEF b
<1>8. Unlike(b \o q) /\ ToSet(b \o q) = ToSet(b) \union ToSet(q)
  BY <1>0, <1>4, <1>7, UnlikeConcat, SetOfConcat
<1>9. Numbered'
  <2>1. Unlike(steerQueue) /\ Unlike(followUpQueue) /\ Unlike(Kept) /\ UNCHANGED Kept
    BY <1>0, <1>1, KeptStays DEF Numbered
  <2>2. /\ Unlike(steerQueue') /\ Unlike(followUpQueue') /\ Unlike(nextTurnQueue') /\ Unlike(Kept')
        /\ UNCHANGED <<asked, entries>> /\ nextMessage' \in Nat /\ nextMessage <= nextMessage'
        /\ \A d \in Calls : d # c => call'[d] = call[d] /\ appending'[d] = appending[d]
    BY <1>0, <1>1, <1>2, <1>3, <1>8, <2>1
  <2> QED BY <1>0, <1>2, <2>2, NumberedFrom
<1>10. Parted(Placing, ToSet(asked))'
  <2>1. Placing'[3] = Placing[3] \union Held[c]
    BY <1>3, <1>4, <1>7, <1>8, PlacesNext
  <2>2. \A k \in 1 .. 6 : k # 3 => Placing'[k] = Placing[k]
    <3>1. \A k \in 1 .. 6 : k # 3 => k \in {1, 2, 4, 5, 6}
      OBVIOUS
    <3> QED BY <1>1, <3>1, KeptStays, PlacesNow, PlacesNext
  <2>3. Held[c] \subseteq Held[c] /\ Held'[c] = Held[c] \ Held[c]
    BY <1>2
  <2>4. Gives(c, 3, Held[c])
    BY <2>1, <2>2, <2>3 DEF Gives
  <2> QED BY <1>0, <1>1, <1>2, <2>4, HandTrades
<1>11. InTurn'
  <2>1. Active(c) /\ ~At(c, "append") /\ ~At(c, "agentEnd")
    BY <1>0 DEF Active, At
  <2>2. /\ ~At(c, "steerTaken")' /\ ~At(c, "followUpTaken")' /\ ~At(c, "takeNext")'
        /\ call'[c].pc \notin {"takeNext"} \union Taking
    BY <1>2 DEF At, Taking
  <2>3. limits.patient => Climbing(b \o q)
    BY <1>0, <1>4, <1>6, ClimbingConcat DEF InTurn
  <2> QED BY <1>0, <1>1, <1>2, <1>3, <2>1, <2>2, <2>3, TurnAlone DEF InTurn
<1> QED BY <1>9, <1>10, <1>11 DEF MessageInv

(* A hook that throws before the loop loses what was taken for the turn.    *)
LEMMA HookThrowsKeeps ==
  ASSUME Typed, Controlled, MessageInv, NEW c \in Calls, BeforeHookThrows(c)
  PROVE  MessageInv'
<1>0. /\ Numbered /\ Parted(Placing, ToSet(asked)) /\ InTurn /\ nextMessage \in Nat
      /\ At(c, "beforeHook") /\ Reject(c)
  BY DEF MessageInv, Typed, BeforeHookThrows
<1>1. /\ UNCHANGED <<steerQueue, followUpQueue, nextTurnQueue, asked, cleared, limits, entries, appending>>
      /\ UNCHANGED nextMessage /\ dropped' = dropped \union Messages(Front(call[c].hand))
  BY DEF BeforeHookThrows, session, counters, queues
<1>2. /\ \A d \in Calls : d # c => call'[d] = call[d]
      /\ call'[c].pc = "done" /\ HandOf(c)' /\ Held'[c] = {}
      /\ Held[c] = Messages(Front(call[c].hand))
  BY <1>0, <1>1, RejectsHand
<1>3. Numbered'
  <2>1. /\ Unlike(steerQueue) /\ Unlike(followUpQueue) /\ Unlike(nextTurnQueue) /\ Unlike(Kept)
        /\ UNCHANGED Kept
    BY <1>0, <1>1, KeptStays DEF Numbered
  <2> QED BY <1>0, <1>1, <1>2, <2>1, NumberedFrom
<1>4. Parted(Placing, ToSet(asked))'
  <2>1. Placing'[6] = Placing[6] \union Held[c]
    BY <1>1, <1>2, PlacesNow, PlacesNext
  <2>2. \A k \in 1 .. 6 : k # 6 => Placing'[k] = Placing[k]
    <3>1. \A k \in 1 .. 6 : k # 6 => k \in {1, 2, 3, 4, 5}
      OBVIOUS
    <3> QED BY <1>1, <3>1, KeptStays, PlacesNow, PlacesNext
  <2>3. Held[c] \subseteq Held[c] /\ Held'[c] = Held[c] \ Held[c]
    BY <1>2
  <2>4. Gives(c, 6, Held[c])
    BY <2>1, <2>2, <2>3 DEF Gives
  <2> QED BY <1>0, <1>1, <1>2, <2>4, HandTrades
<1>5. InTurn'
  <2>1. Active(c) /\ ~At(c, "append") /\ ~At(c, "agentEnd")
    BY <1>0 DEF Active, At
  <2>2. /\ ~At(c, "steerTaken")' /\ ~At(c, "followUpTaken")' /\ ~At(c, "takeNext")'
        /\ call'[c].pc \notin {"takeNext"} \union Taking
    BY <1>2 DEF At, Taking
  <2> QED BY <1>0, <1>1, <1>2, <2>1, <2>2, TurnAlone DEF InTurn
<1> QED BY <1>3, <1>4, <1>5 DEF MessageInv

(* The message shown first, if it was asked for.                            *)
FirstShown(c) == IF Head(call[c].hand).kind = "user"
            THEN {Head(call[c].hand).item} \intersect ToSet(asked) ELSE {}

(* Its entry in the session.                                                *)
LEMMA HeadKept ==
  ASSUME Typed, Controlled, Writing, MessageInv, NEW c \in Calls, call[c].pc \in Showing,
         Commit(c), UNCHANGED asked
  PROVE  LET h == call[c].hand IN
         /\ Tail(h) \in Seq(InHand) /\ UnlikeMessages(Tail(h))
         /\ \A n \in Messages(Tail(h)) : n \in Messages(h)
         /\ FirstShown(c) \subseteq Held[c] /\ Messages(Tail(h)) \intersect ToSet(asked) = Held[c] \ FirstShown(c)
         /\ ToSet(Kept') = ToSet(Kept) \union FirstShown(c) /\ Unlike(Kept')
         /\ \E e \in SessionEntry : entries' = Append(entries, e)
                                    /\ (e.kind = "user" => e.item < nextMessage)
         /\ appending'[c] = Nobody /\ \A d \in Calls : d # c => appending'[d] = appending[d]
<1> DEFINE h == call[c].hand
           e == appending[c].entry
           A == ToSet(asked)
<1>0. /\ HandOf(c) /\ h \in Seq(InHand) /\ h # <<>> /\ UnlikeMessages(h) /\ Unlike(Kept)
      /\ \A n \in Messages(h) : n < nextMessage
  <2>1. Placed(c) /\ Numbered
    BY DEF Controlled, MessageInv
  <2> QED BY <2>1, InPlace DEF Placed, HandOf, Numbered
<1>1. /\ e \in SessionEntry /\ entries \in Seq(SessionEntry) /\ entries' = Append(entries, e)
      /\ e.kind = Head(h).kind /\ e.item = Head(h).item
      /\ appending'[c] = Nobody /\ \A d \in Calls : d # c => appending'[d] = appending[d]
  <2>1. Appends(c) /\ Writer(c)
    BY WritingTypes DEF Commit, Committing, Appends, Nobody, Entry, Writing
  <2> QED BY <2>1, WritingTypes DEF Commit, Writer
<1>2. Tail(h) \in Seq(InHand)
  BY <1>0
<1>3. /\ UnlikeMessages(Tail(h))
      /\ Head(h).kind = "user" => /\ Head(h).item \in Messages(h)
                                  /\ Messages(Tail(h)) = Messages(h) \ {Head(h).item}
      /\ Head(h).kind # "user" => Messages(Tail(h)) = Messages(h)
  BY <1>0, HandShrinks
<1>4. Held[c] = Messages(h) \intersect A
  BY DEF Held
<1>5. /\ FirstShown(c) \subseteq Held[c] /\ Messages(Tail(h)) \intersect A = Held[c] \ FirstShown(c)
      /\ \A n \in Messages(Tail(h)) : n \in Messages(h)
  BY <1>3, <1>4 DEF FirstShown
<1>6. Kept \in Seq(Nat) /\ Kept' = IF e.kind = "user" /\ e.item \in A THEN Append(Kept, e.item) ELSE Kept
  <2>1. Kept' = MessageItems(entries', A)
    BY DEF Kept
  <2> HIDE DEF e
  <2> QED BY <1>1, <2>1, KeptAppend, KeptIs DEF Kept
<1>7. ToSet(Kept') = ToSet(Kept) \union FirstShown(c) /\ Unlike(Kept')
  <2>1. CASE e.kind = "user" /\ e.item \in A
    <3>1. FirstShown(c) = {e.item} /\ e.item \in Held[c] /\ e.item \in Nat
      BY <1>1, <1>3, <1>4, <2>1, InPlace DEF FirstShown
    <3>2. e.item \notin ToSet(Kept)
      BY <3>1, PlacesNow, InPlace
    <3> HIDE DEF e
    <3> QED BY <1>0, <1>6, <2>1, <3>1, <3>2, UnlikeAppend
  <2>2. CASE ~(e.kind = "user" /\ e.item \in A)
    <3>1. FirstShown(c) = {}
      BY <1>1, <2>2 DEF FirstShown
    <3> QED BY <1>0, <1>6, <2>2, <3>1
  <2> QED BY <2>1, <2>2
<1>8. e.kind = "user" => e.item < nextMessage
  BY <1>0, <1>1, <1>3
<1> HIDE DEF e
<1> QED BY <1>1, <1>2, <1>3, <1>5, <1>7, <1>8

(* Numbered, of a step that shows or drops messages.                        *)
LEMMA ShowingNumbered ==
  ASSUME Typed, Numbered, NEW c \in Calls, call[c].pc \in Showing,
         UNCHANGED <<asked, queues, nextMessage>>,
         \A d \in Calls : d # c => call'[d] = call[d] /\ appending'[d] = appending[d],
         \/ UNCHANGED entries
         \/ \E e \in SessionEntry : entries' = Append(entries, e)
                                    /\ (e.kind = "user" => e.item < nextMessage),
         Unlike(Kept'), UnlikeMessages(call'[c].hand),
         \A n \in Messages(call'[c].hand) : n < nextMessage,
         call'[c].pc \notin {"takeNext", "beforeHook"} \union Taking,
         call'[c].pc \notin Holding => call'[c].hand = <<>>,
         appending'[c] = Nobody
  PROVE  Numbered'
<1>1. HandOf(c)'
  BY DEF HandOf, Appends
<1>2. nextMessage \in Nat
  BY DEF Typed
<1>3. /\ Unlike(steerQueue') /\ Unlike(followUpQueue') /\ Unlike(nextTurnQueue')
      /\ nextMessage' \in Nat /\ nextMessage <= nextMessage' /\ UNCHANGED asked
  BY <1>2 DEF queues, Numbered
<1>4. \/ UNCHANGED entries
      \/ \E e \in SessionEntry : /\ entries' = Append(entries, e)
                                 /\ e.kind = "user" => e.item < nextMessage'
  OBVIOUS
<1> QED BY <1>1, <1>3, <1>4, NumberedFrom

(* A call that shows messages gives none back, so its queues stay in order. *)
LEMMA ShowingInTurn ==
  ASSUME Typed, Controlled, InTurn, NEW c \in Calls, call[c].pc \in Showing,
         UNCHANGED <<queues, limits>>, \A d \in Calls : d # c => call'[d] = call[d],
         call'[c].pc \notin {"takeNext", "beforeHook"} \union Taking
  PROVE  InTurn'
<1>1. Active(c) /\ ~At(c, "append") /\ ~At(c, "agentEnd")
  BY DEF Active, At, Showing
<1>2. /\ ~At(c, "steerTaken")' /\ ~At(c, "followUpTaken")' /\ ~At(c, "takeNext")'
      /\ call'[c].pc \notin {"takeNext"} \union Taking
  BY DEF At, Taking
<1>3. UNCHANGED <<steerQueue, followUpQueue, nextTurnQueue>>
  BY DEF queues
<1> QED BY <1>1, <1>2, <1>3, TurnAlone DEF InTurn

(* The first message in hand is appended to the session.                    *)
LEMMA ShownKeeps ==
  ASSUME Typed, Controlled, Writing, MessageInv, NEW c \in Calls, Shown(c)
  PROVE  MessageInv'
<1> DEFINE h == call[c].hand
<1>0. /\ Numbered /\ Parted(Placing, ToSet(asked)) /\ InTurn /\ call[c].pc \in Showing /\ Commit(c)
      /\ HandOf(c) /\ h \in Seq(InHand)
  BY InPlace DEF MessageInv, Shown
<1>1. UNCHANGED <<queues, asked, cleared, dropped, limits, nextMessage>>
  BY DEF Shown, past, counters
<1>2. /\ \A d \in Calls : d # c => call'[d] = call[d]
      /\ call'[c].hand = Tail(h)
      /\ call'[c].pc = IF Len(h) > 1 THEN call[c].pc ELSE AfterShowing(c)
  <2>1. PICK f : /\ Set(c, f) /\ {"pc", "hand"} \subseteq DOMAIN f /\ f["hand"] = Tail(h)
                 /\ f["pc"] = IF Len(h) > 1 THEN call[c].pc ELSE AfterShowing(c)
    <3> DEFINE x == IF At(c, "prompts") THEN call[c].context
                    ELSE Append(call[c].context, Head(call[c].hand))
               p == IF Len(h) > 1 THEN call[c].pc ELSE AfterShowing(c)
               t == Tail(h)
    <3>1. Set(c, [hand |-> t, context |-> x, pc |-> p])
      BY DEF Shown
    <3> HIDE DEF x, p, t
    <3>2. \E f : Set(c, f) /\ {"pc", "hand"} \subseteq DOMAIN f /\ f["hand"] = t /\ f["pc"] = p
      BY <3>1
    <3> QED BY <3>2 DEF p, t
  <2> QED BY <2>1, SetHand DEF Typed
<1>3. /\ Tail(h) \in Seq(InHand) /\ UnlikeMessages(Tail(h))
      /\ \A n \in Messages(Tail(h)) : n \in Messages(h)
      /\ FirstShown(c) \subseteq Held[c] /\ Messages(Tail(h)) \intersect ToSet(asked) = Held[c] \ FirstShown(c)
      /\ ToSet(Kept') = ToSet(Kept) \union FirstShown(c) /\ Unlike(Kept')
      /\ \E e \in SessionEntry : entries' = Append(entries, e)
                                 /\ (e.kind = "user" => e.item < nextMessage)
      /\ appending'[c] = Nobody /\ \A d \in Calls : d # c => appending'[d] = appending[d]
  BY <1>0, <1>1, HeadKept
<1>4. /\ call'[c].pc \notin {"takeNext", "beforeHook"} \union Taking
      /\ call'[c].pc \notin Holding => Tail(h) = <<>>
  <2>1. AfterShowing(c) \in {"poll", "stream", "turnEnd"}
    BY <1>0 DEF AfterShowing, Showing, At
  <2>2. ~(Len(h) > 1) => Tail(h) = <<>>
    <3> HIDE DEF h
    <3>1. h # <<>>
      BY <1>0 DEF h, Controlled, Placed
    <3>2. ~(Len(h) > 1) => Len(Tail(h)) = 0
      <4>1. Len(h) \in Nat /\ Len(h) # 0
        BY <1>0, <3>1, EmptySeq
      <4>2. Len(Tail(h)) = Len(h) - 1
        BY <1>0, <3>1
      <4> QED BY <4>1, <4>2
    <3> QED BY <1>3, <3>2, EmptySeq
  <2> QED BY <1>0, <1>2, <2>1, <2>2 DEF Holding, Taking, Showing
<1>5. \A n \in Messages(Tail(h)) : n < nextMessage
  BY <1>0, <1>3 DEF HandOf
<1>6. Numbered'
  BY <1>0, <1>1, <1>2, <1>3, <1>4, <1>5, ShowingNumbered
<1>7. Parted(Placing, ToSet(asked))'
  <2>1. Held'[c] = Held[c] \ (FirstShown(c) \union {}) /\ dropped' = dropped \union {}
    BY <1>1, <1>2, <1>3 DEF Held
  <2>2. Leaves(c, FirstShown(c), {})
    BY <1>3, <2>1 DEF Leaves
  <2> QED BY <1>0, <1>1, <1>2, <2>2, HandLeaves
<1>8. InTurn'
  BY <1>0, <1>1, <1>2, <1>4, ShowingInTurn
<1> QED BY <1>6, <1>7, <1>8 DEF MessageInv

(* A message that could not be shown, and those behind it.                  *)
LEMMA ShowThrowsKeeps ==
  ASSUME Typed, Controlled, Writing, MessageInv, NEW c \in Calls, ShowThrows(c)
  PROVE  MessageInv'
<1> DEFINE h == call[c].hand
<1>0. /\ Numbered /\ Parted(Placing, ToSet(asked)) /\ InTurn /\ call[c].pc \in Showing
      /\ HandOf(c) /\ h \in Seq(InHand) /\ Unlike(Kept)
  BY InPlace DEF MessageInv, ShowThrows, Numbered
<1>1. UNCHANGED <<queues, asked, cleared, limits>>
  BY DEF ShowThrows
<1>2. ASSUME NEW rest, LoopThrows(c, rest)
      PROVE  /\ \A d \in Calls : d # c => call'[d] = call[d]
             /\ Messages(call'[c].hand) = {} /\ UnlikeMessages(call'[c].hand)
             /\ call'[c].pc \notin {"takeNext", "beforeHook"} \union Taking
             /\ call'[c].pc \notin Holding => call'[c].hand = <<>>
             /\ dropped' = dropped \union (ToSet(asked) \intersect Messages(rest))
             /\ UNCHANGED nextMessage /\ Held'[c] = {}
  <2>1. /\ \A d \in Calls : d # c => call'[d] = call[d]
        /\ \/ call'[c].pc = "final" /\ call'[c].hand = <<>>
           \/ call'[c].pc = "output" /\ call'[c].hand = <<Msg("assistant", 0)>>
        /\ dropped' = dropped \union (ToSet(asked) \intersect Messages(rest))
        /\ UNCHANGED nextMessage
    BY <1>2, ThrowsHand DEF Typed
  <2>2. Messages(call'[c].hand) = {} /\ UnlikeMessages(call'[c].hand)
    BY <2>1, AnswersAreNone
  <2>3. Held'[c] = {}
    BY <2>2 DEF Held
  <2> QED BY <2>1, <2>2, <2>3 DEF Holding, Taking, Showing
<1>3. CASE ((~Appends(c) /\ UNCHANGED session) \/ Abandon(c)) /\ LoopThrows(c, h)
  <2>1. /\ UNCHANGED entries /\ appending'[c] = Nobody
        /\ \A d \in Calls : d # c => appending'[d] = appending[d]
    <3>1. CASE ~Appends(c) /\ UNCHANGED session
      BY <3>1 DEF session, Appends
    <3>2. CASE Abandon(c)
      BY <3>2, WritingTypes DEF Abandon
    <3> QED BY <1>3, <3>1, <3>2
  <2>2. /\ \A d \in Calls : d # c => call'[d] = call[d]
        /\ Messages(call'[c].hand) = {} /\ UnlikeMessages(call'[c].hand)
        /\ call'[c].pc \notin {"takeNext", "beforeHook"} \union Taking
        /\ call'[c].pc \notin Holding => call'[c].hand = <<>>
        /\ dropped' = dropped \union (ToSet(asked) \intersect Messages(h))
        /\ UNCHANGED nextMessage /\ Held'[c] = {}
    BY <1>2, <1>3
  <2>3. UNCHANGED Kept
    BY <1>1, <2>1, KeptStays
  <2>4. Numbered'
    <3>1. /\ \A d \in Calls : d # c => call'[d] = call[d] /\ appending'[d] = appending[d]
          /\ Unlike(Kept') /\ \A n \in Messages(call'[c].hand) : n < nextMessage
          /\ UNCHANGED <<asked, queues, nextMessage>>
      BY <1>0, <1>1, <2>1, <2>2, <2>3
    <3> QED BY <1>0, <2>1, <2>2, <3>1, ShowingNumbered
  <2>5. Parted(Placing, ToSet(asked))'
    <3>1. dropped' = dropped \union Held[c]
      BY <2>2 DEF Held
    <3>2. Held'[c] = Held[c] \ ({} \union Held[c]) /\ ToSet(Kept') = ToSet(Kept) \union {}
      BY <2>2, <2>3
    <3>3. Leaves(c, {}, Held[c])
      BY <3>1, <3>2 DEF Leaves
    <3> QED BY <1>0, <1>1, <2>2, <3>3, HandLeaves
  <2>6. InTurn'
    BY <1>0, <1>1, <2>2, ShowingInTurn
  <2> QED BY <2>4, <2>5, <2>6 DEF MessageInv
<1>4. CASE Commit(c) /\ LoopThrows(c, Tail(h))
  <2>1. /\ FirstShown(c) \subseteq Held[c] /\ Messages(Tail(h)) \intersect ToSet(asked) = Held[c] \ FirstShown(c)
        /\ ToSet(Kept') = ToSet(Kept) \union FirstShown(c) /\ Unlike(Kept')
        /\ \E e \in SessionEntry : entries' = Append(entries, e)
                                   /\ (e.kind = "user" => e.item < nextMessage)
        /\ appending'[c] = Nobody /\ \A d \in Calls : d # c => appending'[d] = appending[d]
    BY <1>0, <1>1, <1>4, HeadKept
  <2>2. /\ \A d \in Calls : d # c => call'[d] = call[d]
        /\ Messages(call'[c].hand) = {} /\ UnlikeMessages(call'[c].hand)
        /\ call'[c].pc \notin {"takeNext", "beforeHook"} \union Taking
        /\ call'[c].pc \notin Holding => call'[c].hand = <<>>
        /\ dropped' = dropped \union (ToSet(asked) \intersect Messages(Tail(h)))
        /\ UNCHANGED nextMessage /\ Held'[c] = {}
    BY <1>2, <1>4
  <2>3. Numbered'
    <3>1. /\ \A d \in Calls : d # c => call'[d] = call[d] /\ appending'[d] = appending[d]
          /\ \A n \in Messages(call'[c].hand) : n < nextMessage
          /\ UNCHANGED <<asked, queues, nextMessage>>
      BY <1>1, <2>1, <2>2
    <3> QED BY <1>0, <2>1, <2>2, <3>1, ShowingNumbered
  <2>4. Parted(Placing, ToSet(asked))'
    <3> DEFINE N == Held[c] \ FirstShown(c)
    <3>1. dropped' = dropped \union N /\ N \subseteq Held[c] /\ FirstShown(c) \intersect N = {}
      BY <2>1, <2>2
    <3>2. Held'[c] = Held[c] \ (FirstShown(c) \union N)
      BY <2>1, <2>2
    <3> HIDE DEF N
    <3>3. Leaves(c, FirstShown(c), N)
      BY <2>1, <3>1, <3>2 DEF Leaves
    <3> QED BY <1>0, <1>1, <2>2, <3>3, HandLeaves
  <2>5. InTurn'
    BY <1>0, <1>1, <2>2, ShowingInTurn
  <2> QED BY <2>3, <2>4, <2>5 DEF MessageInv
<1> QED BY <1>3, <1>4 DEF ShowThrows

(* What a poll takes from a queue.                                          *)
LEMMA PollTakes ==
  ASSUME Typed, MessageInv, NEW c \in Calls, call[c].pc \in {"poll", "pollFollowUp"},
         NEW q \in Seq(Nat), q # <<>>, Unlike(q), ToSet(q) \subseteq ToSet(asked), NEW mode,
         UNCHANGED <<asked, appending, nextMessage>>,
         call'[c].hand = UserMessages(Taken(mode, q)), call'[c].pc \in Taking
  PROVE  LET t == Taken(mode, q)
             r == SubSeq(q, Len(t) + 1, Len(q)) IN
         /\ HandOf(c)' /\ Held[c] = {} /\ Held'[c] = ToSet(t)
         /\ ToSet(t) \subseteq ToSet(q) /\ ToSet(r) = ToSet(q) \ ToSet(t) /\ Unlike(r)
         /\ ItemsBack(TakenOut(c)') = t
         /\ Climbing(q) => Climbing(t) /\ Climbing(r) /\ Precedes(t, r)
<1> DEFINE t == Taken(mode, q)
           r == SubSeq(q, Len(t) + 1, Len(q))
           h == UserMessages(t)
<1>0. /\ HandOf(c) /\ \A n \in ToSet(asked) : n < nextMessage
  BY InPlace
<1>1. /\ t \in Seq(Nat) /\ ToSet(t) \subseteq ToSet(q) /\ ToSet(r) = ToSet(q) \ ToSet(t)
      /\ Unlike(t) /\ Unlike(r)
      /\ Climbing(q) => Climbing(t) /\ Climbing(r) /\ Precedes(t, r)
  BY TakenApart
<1> HIDE DEF t, r
<1>2. /\ h \in Seq(InHand) /\ AllUsers(h) /\ Messages(h) = ToSet(t) /\ ItemsBack(h) = t
      /\ UnlikeMessages(h)
  BY <1>1, HandOfQueue
<1>3. call'[c].hand = h /\ TakenOut(c)' = h
  BY DEF t, TakenOut, Taking, BeforeLoop
<1> HIDE DEF h
<1>4. Held[c] = {}
  <2>1. call[c].hand = <<>>
    BY <1>0 DEF HandOf, Holding, Taking, Showing
  <2> QED BY <2>1, AnswersAreNone DEF Held
<1>5. Held'[c] = ToSet(t)
  BY <1>1, <1>2, <1>3 DEF Held
<1>6. HandOf(c)'
  <2>1. ~(Appends(c) /\ appending[c].entry.kind = "user")
    BY <1>0 DEF HandOf, Showing
  <2>2. call'[c].pc \in Holding /\ call'[c].pc \notin {"takeNext", "beforeHook"}
    BY DEF Holding, Taking
  <2>3. /\ \A n \in Messages(h) : n < nextMessage
        /\ Messages(h) \subseteq ToSet(asked)
    BY <1>0, <1>1, <1>2
  <2> QED BY <1>2, <1>3, <2>1, <2>2, <2>3 DEF HandOf, Appends
<1> QED BY <1>1, <1>2, <1>3, <1>4, <1>5, <1>6 DEF t, r

(* A poll of the steering queue, with its hook's outcomes to come.          *)
LEMMA PollSteeringKeeps ==
  ASSUME Typed, Controlled, MessageInv, NEW c \in Calls, PollSteering(c), steerQueue # <<>>
  PROVE  MessageInv'
<1> DEFINE q == steerQueue
<1>0. /\ Numbered /\ Parted(Placing, ToSet(asked)) /\ InTurn /\ q \in Seq(Nat) /\ nextMessage \in Nat
      /\ Unlike(q) /\ At(c, "poll") /\ ToSet(q) \subseteq ToSet(asked)
  BY InPlace DEF MessageInv, Typed, Numbered, PollSteering
<1>1. UNCHANGED <<followUpQueue, nextTurnQueue, asked, cleared, dropped, limits, entries, appending, nextMessage>>
  BY DEF PollSteering, past, session, counters
<1>2. PICK mode \in Modes :
        LET taken == Taken(mode, q)
        IN /\ Set(c, [pc |-> "steerTaken", stale |-> FALSE, hand |-> UserMessages(taken)])
           /\ steerQueue' = SubSeq(q, Len(taken) + 1, Len(q))
  BY DEF PollSteering, UserMessages
<1> DEFINE t == Taken(mode, q)
           r == SubSeq(q, Len(t) + 1, Len(q))
<1>3. /\ \A d \in Calls : d # c => call'[d] = call[d]
      /\ call'[c].hand = UserMessages(t) /\ call'[c].pc = "steerTaken"
  <2> DEFINE h == UserMessages(t)
  <2>0. Set(c, [pc |-> "steerTaken", stale |-> FALSE, hand |-> h])
    BY <1>2
  <2> HIDE DEF h
  <2>1. PICK f : /\ Set(c, f) /\ {"pc", "hand"} \subseteq DOMAIN f
                 /\ f["hand"] = h /\ f["pc"] = "steerTaken"
    BY <2>0
  <2>2. /\ \A d \in Calls : d # c => call'[d] = call[d]
        /\ call'[c].hand = h /\ call'[c].pc = "steerTaken"
    BY <2>1, SetHand DEF Typed
  <2> QED BY <2>2 DEF h
<1>4. /\ HandOf(c)' /\ Held[c] = {} /\ Held'[c] = ToSet(t)
      /\ ToSet(t) \subseteq ToSet(q) /\ ToSet(r) = ToSet(q) \ ToSet(t) /\ Unlike(r)
      /\ ItemsBack(TakenOut(c)') = t
      /\ Climbing(q) => Climbing(t) /\ Climbing(r) /\ Precedes(t, r)
  <2>1. call[c].pc \in {"poll", "pollFollowUp"} /\ call'[c].pc \in Taking
    BY <1>0, <1>3 DEF At, Taking
  <2>2. UNCHANGED <<asked, appending, nextMessage>> /\ q # <<>> /\ call'[c].hand = UserMessages(Taken(mode, q))
    BY <1>1, <1>3
  <2> HIDE DEF q
  <2> QED BY <1>0, <2>1, <2>2, PollTakes
<1>5. steerQueue' = r
  BY <1>2
<1> HIDE DEF t, r
<1>6. Numbered'
  <2>1. /\ Unlike(steerQueue') /\ Unlike(followUpQueue') /\ Unlike(nextTurnQueue') /\ Unlike(Kept')
        /\ UNCHANGED <<asked, entries>> /\ nextMessage' \in Nat /\ nextMessage <= nextMessage'
        /\ \A d \in Calls : d # c => call'[d] = call[d] /\ appending'[d] = appending[d]
    BY <1>0, <1>1, <1>3, <1>4, <1>5, KeptStays DEF Numbered
  <2> QED BY <1>0, <1>4, <2>1, NumberedFrom
<1>7. Parted(Placing, ToSet(asked))'
  <2>1. Placing[1] = ToSet(q) /\ Placing'[1] = ToSet(r)
    BY <1>5, PlacesNow, PlacesNext
  <2>2. \A k \in 1 .. 6 : k # 1 => Placing'[k] = Placing[k]
    <3>1. \A k \in 1 .. 6 : k # 1 => k \in {2, 3, 4, 5, 6}
      OBVIOUS
    <3> QED BY <1>1, <3>1, KeptStays, PlacesNow, PlacesNext
  <2>3. Takes(c, 1, ToSet(t))
    BY <1>4, <2>1, <2>2 DEF Takes
  <2> QED BY <1>0, <1>1, <1>3, <2>3, HandTrades
<1>8. InTurn'
  <2>1. Active(c) /\ ~At(c, "append") /\ ~At(c, "agentEnd")
    BY <1>0 DEF Active, At
  <2>2. ~At(c, "takeNext")' /\ ~At(c, "followUpTaken")'
    BY <1>3 DEF At
  <2>3. limits.patient => /\ Climbing(q) /\ Climbing(followUpQueue) /\ Climbing(nextTurnQueue)
    BY <1>0 DEF InTurn
  <2> QED BY <1>0, <1>1, <1>3, <1>4, <1>5, <2>1, <2>2, <2>3, TurnAlone
<1> QED BY <1>6, <1>7, <1>8 DEF MessageInv

(* A poll of the follow-up queue, likewise.                                 *)
LEMMA PollFollowUpKeeps ==
  ASSUME Typed, Controlled, MessageInv, NEW c \in Calls, PollFollowUp(c), followUpQueue # <<>>
  PROVE  MessageInv'
<1> DEFINE q == followUpQueue
<1>0. /\ Numbered /\ Parted(Placing, ToSet(asked)) /\ InTurn /\ q \in Seq(Nat) /\ nextMessage \in Nat
      /\ Unlike(q) /\ At(c, "pollFollowUp") /\ ToSet(q) \subseteq ToSet(asked)
  BY InPlace DEF MessageInv, Typed, Numbered, PollFollowUp
<1>1. UNCHANGED <<steerQueue, nextTurnQueue, asked, cleared, dropped, limits, entries, appending, nextMessage>>
  BY DEF PollFollowUp, past, session, counters
<1>2. PICK mode \in Modes :
        LET taken == Taken(mode, q)
        IN /\ Set(c, [pc |-> "followUpTaken", stale |-> FALSE, hand |-> UserMessages(taken)])
           /\ followUpQueue' = SubSeq(q, Len(taken) + 1, Len(q))
  BY DEF PollFollowUp, UserMessages
<1> DEFINE t == Taken(mode, q)
           r == SubSeq(q, Len(t) + 1, Len(q))
<1>3. /\ \A d \in Calls : d # c => call'[d] = call[d]
      /\ call'[c].hand = UserMessages(t) /\ call'[c].pc = "followUpTaken"
  <2> DEFINE h == UserMessages(t)
  <2>0. Set(c, [pc |-> "followUpTaken", stale |-> FALSE, hand |-> h])
    BY <1>2
  <2> HIDE DEF h
  <2>1. PICK f : /\ Set(c, f) /\ {"pc", "hand"} \subseteq DOMAIN f
                 /\ f["hand"] = h /\ f["pc"] = "followUpTaken"
    BY <2>0
  <2>2. /\ \A d \in Calls : d # c => call'[d] = call[d]
        /\ call'[c].hand = h /\ call'[c].pc = "followUpTaken"
    BY <2>1, SetHand DEF Typed
  <2> QED BY <2>2 DEF h
<1>4. /\ HandOf(c)' /\ Held[c] = {} /\ Held'[c] = ToSet(t)
      /\ ToSet(t) \subseteq ToSet(q) /\ ToSet(r) = ToSet(q) \ ToSet(t) /\ Unlike(r)
      /\ ItemsBack(TakenOut(c)') = t
      /\ Climbing(q) => Climbing(t) /\ Climbing(r) /\ Precedes(t, r)
  <2>1. call[c].pc \in {"poll", "pollFollowUp"} /\ call'[c].pc \in Taking
    BY <1>0, <1>3 DEF At, Taking
  <2>2. UNCHANGED <<asked, appending, nextMessage>> /\ q # <<>> /\ call'[c].hand = UserMessages(Taken(mode, q))
    BY <1>1, <1>3
  <2> HIDE DEF q
  <2> QED BY <1>0, <2>1, <2>2, PollTakes
<1>5. followUpQueue' = r
  BY <1>2
<1> HIDE DEF t, r
<1>6. Numbered'
  <2>1. /\ Unlike(steerQueue') /\ Unlike(followUpQueue') /\ Unlike(nextTurnQueue') /\ Unlike(Kept')
        /\ UNCHANGED <<asked, entries>> /\ nextMessage' \in Nat /\ nextMessage <= nextMessage'
        /\ \A d \in Calls : d # c => call'[d] = call[d] /\ appending'[d] = appending[d]
    BY <1>0, <1>1, <1>3, <1>4, <1>5, KeptStays DEF Numbered
  <2> QED BY <1>0, <1>4, <2>1, NumberedFrom
<1>7. Parted(Placing, ToSet(asked))'
  <2>1. Placing[2] = ToSet(q) /\ Placing'[2] = ToSet(r)
    BY <1>5, PlacesNow, PlacesNext
  <2>2. \A k \in 1 .. 6 : k # 2 => Placing'[k] = Placing[k]
    <3>1. \A k \in 1 .. 6 : k # 2 => k \in {1, 3, 4, 5, 6}
      OBVIOUS
    <3> QED BY <1>1, <3>1, KeptStays, PlacesNow, PlacesNext
  <2>3. Takes(c, 2, ToSet(t))
    BY <1>4, <2>1, <2>2 DEF Takes
  <2> QED BY <1>0, <1>1, <1>3, <2>3, HandTrades
<1>8. InTurn'
  <2>1. Active(c) /\ ~At(c, "append") /\ ~At(c, "agentEnd")
    BY <1>0 DEF Active, At
  <2>2. ~At(c, "takeNext")' /\ ~At(c, "steerTaken")'
    BY <1>3 DEF At
  <2>3. limits.patient => /\ Climbing(q) /\ Climbing(steerQueue) /\ Climbing(nextTurnQueue)
    BY <1>0 DEF InTurn
  <2> QED BY <1>0, <1>1, <1>3, <1>4, <1>5, <2>1, <2>2, <2>3, TurnAlone
<1> QED BY <1>6, <1>7, <1>8 DEF MessageInv

(* A message that goes back to its queue, or is lost.                       *)
LEMMA PollThrowsKeeps ==
  ASSUME Typed, Controlled, MessageInv, NEW c \in Calls, PollThrows(c)
  PROVE  MessageInv'
<1> DEFINE h == call[c].hand
           b == ItemsBack(h)
<1>0. /\ Numbered /\ Parted(Placing, ToSet(asked)) /\ InTurn /\ call[c].pc \in Taking
      /\ steerQueue \in Seq(Nat) /\ followUpQueue \in Seq(Nat) /\ nextMessage \in Nat
      /\ Unlike(steerQueue) /\ Unlike(followUpQueue) /\ Unlike(nextTurnQueue) /\ Unlike(Kept)
      /\ HandOf(c) /\ h \in Seq(InHand)
  BY InPlace DEF MessageInv, Typed, Numbered, PollThrows, Taking
<1>1. UNCHANGED <<nextTurnQueue, asked, cleared, limits, entries, appending>>
  BY DEF PollThrows, session
<1>2. /\ AllUsers(h) /\ UnlikeMessages(h) /\ Messages(h) \subseteq ToSet(asked) /\ TakenOut(c) = h
      /\ call[c].pc \notin Showing
  BY <1>0 DEF HandOf, TakenOut, Taking, BeforeLoop, Showing
<1>3. b \in Seq(Nat) /\ ToSet(b) = Held[c] /\ Unlike(b)
  BY <1>0, <1>2, QueueOfHand DEF Held
<1>4. ASSUME NEW rest, LoopThrows(c, rest)
      PROVE  /\ \A d \in Calls : d # c => call'[d] = call[d]
             /\ HandOf(c)' /\ Held'[c] = {}
             /\ dropped' = dropped \union (ToSet(asked) \intersect Messages(rest))
             /\ UNCHANGED nextMessage
             /\ call'[c].pc \in {"final", "output"}
  <2>1. /\ \A d \in Calls : d # c => call'[d] = call[d]
        /\ \/ call'[c].pc = "final" /\ call'[c].hand = <<>>
           \/ call'[c].pc = "output" /\ call'[c].hand = <<Msg("assistant", 0)>>
        /\ dropped' = dropped \union (ToSet(asked) \intersect Messages(rest))
        /\ UNCHANGED nextMessage
    BY <1>4, ThrowsHand DEF Typed
  <2>2. Messages(call'[c].hand) = {} /\ UnlikeMessages(call'[c].hand)
    BY <2>1, AnswersAreNone
  <2>3. ~(Appends(c) /\ appending[c].entry.kind = "user")
    BY <1>0, <1>2 DEF HandOf
  <2>4. Held'[c] = {}
    BY <2>2 DEF Held
  <2>5. HandOf(c)'
    BY <1>1, <2>1, <2>2, <2>3 DEF HandOf, Holding, Taking, Showing, Appends
  <2> QED BY <2>1, <2>4, <2>5
<1>5. ASSUME \A d \in Calls : d # c => call'[d] = call[d], HandOf(c)', UNCHANGED nextMessage,
             Unlike(steerQueue'), Unlike(followUpQueue')
      PROVE  Numbered'
  <2>1. /\ Unlike(nextTurnQueue') /\ Unlike(Kept')
        /\ UNCHANGED <<asked, entries>> /\ nextMessage' \in Nat /\ nextMessage <= nextMessage'
        /\ \A d \in Calls : d # c => call'[d] = call[d] /\ appending'[d] = appending[d]
    BY <1>0, <1>1, <1>5, KeptStays
  <2> QED BY <1>0, <1>5, <2>1, NumberedFrom
<1>6. ASSUME \A d \in Calls : d # c => call'[d] = call[d], call'[c].pc \in {"final", "output"},
             limits.patient => Climbing(steerQueue') /\ Climbing(followUpQueue')
      PROVE  InTurn'
  <2>1. Active(c) /\ ~At(c, "append") /\ ~At(c, "agentEnd")
    BY <1>0 DEF Active, At, Taking
  <2>2. /\ ~At(c, "steerTaken")' /\ ~At(c, "followUpTaken")' /\ ~At(c, "takeNext")'
        /\ call'[c].pc \notin {"takeNext"} \union Taking
    BY <1>6 DEF At, Taking
  <2> QED BY <1>0, <1>1, <1>6, <2>1, <2>2, TurnAlone DEF InTurn
<1>7. UNCHANGED Kept
  BY <1>1, KeptStays
<1> HIDE DEF b
<1>8. CASE ~call[c].stale /\ At(c, "steerTaken")
  <2>1. /\ steerQueue' = b \o steerQueue /\ UNCHANGED followUpQueue /\ LoopThrows(c, <<>>)
    BY <1>8 DEF PollThrows, b, ItemsBack, At
  <2>2. /\ \A d \in Calls : d # c => call'[d] = call[d]
        /\ HandOf(c)' /\ Held'[c] = {} /\ UNCHANGED <<dropped, nextMessage>>
        /\ call'[c].pc \in {"final", "output"}
    BY <1>4, <2>1, AnswersAreNone
  <2>3. Placing[1] = ToSet(steerQueue) /\ ToSet(b) \intersect ToSet(steerQueue) = {}
    BY <1>3, PlacesNow, InPlace
  <2>4. Unlike(b \o steerQueue) /\ ToSet(b \o steerQueue) = ToSet(b) \union ToSet(steerQueue)
    BY <1>0, <1>3, <2>3, UnlikeConcat, SetOfConcat
  <2>5. Numbered'
    BY <1>0, <1>5, <2>1, <2>2, <2>4
  <2>6. Parted(Placing, ToSet(asked))'
    <3>1. Placing'[1] = Placing[1] \union Held[c]
      BY <1>3, <2>1, <2>3, <2>4, PlacesNext
    <3>2. \A k \in 1 .. 6 : k # 1 => Placing'[k] = Placing[k]
      <4>1. \A k \in 1 .. 6 : k # 1 => k \in {2, 3, 4, 5, 6}
        OBVIOUS
      <4> QED BY <1>1, <1>7, <2>1, <2>2, <4>1, PlacesNow, PlacesNext
    <3>3. Gives(c, 1, Held[c])
      BY <2>2, <3>1, <3>2 DEF Gives
    <3> QED BY <1>0, <1>1, <2>2, <3>3, HandTrades
  <2>7. InTurn'
    <3>1. limits.patient => Climbing(b) /\ Precedes(b, steerQueue) /\ Climbing(followUpQueue)
                            /\ Climbing(steerQueue)
      BY <1>0, <1>2, <1>8 DEF InTurn, At, Taking, b
    <3>2. limits.patient => Climbing(b \o steerQueue)
      BY <1>0, <1>3, <3>1, ClimbingConcat
    <3> QED BY <1>6, <2>1, <2>2, <3>1, <3>2
  <2> QED BY <2>5, <2>6, <2>7 DEF MessageInv
<1>9. CASE ~call[c].stale /\ At(c, "followUpTaken")
  <2>1. /\ followUpQueue' = b \o followUpQueue /\ UNCHANGED steerQueue /\ LoopThrows(c, <<>>)
    BY <1>9 DEF PollThrows, b, ItemsBack, At
  <2>2. /\ \A d \in Calls : d # c => call'[d] = call[d]
        /\ HandOf(c)' /\ Held'[c] = {} /\ UNCHANGED <<dropped, nextMessage>>
        /\ call'[c].pc \in {"final", "output"}
    BY <1>4, <2>1, AnswersAreNone
  <2>3. Placing[2] = ToSet(followUpQueue) /\ ToSet(b) \intersect ToSet(followUpQueue) = {}
    BY <1>3, PlacesNow, InPlace
  <2>4. Unlike(b \o followUpQueue) /\ ToSet(b \o followUpQueue) = ToSet(b) \union ToSet(followUpQueue)
    BY <1>0, <1>3, <2>3, UnlikeConcat, SetOfConcat
  <2>5. Numbered'
    BY <1>0, <1>5, <2>1, <2>2, <2>4
  <2>6. Parted(Placing, ToSet(asked))'
    <3>1. Placing'[2] = Placing[2] \union Held[c]
      BY <1>3, <2>1, <2>3, <2>4, PlacesNext
    <3>2. \A k \in 1 .. 6 : k # 2 => Placing'[k] = Placing[k]
      <4>1. \A k \in 1 .. 6 : k # 2 => k \in {1, 3, 4, 5, 6}
        OBVIOUS
      <4> QED BY <1>1, <1>7, <2>1, <2>2, <4>1, PlacesNow, PlacesNext
    <3>3. Gives(c, 2, Held[c])
      BY <2>2, <3>1, <3>2 DEF Gives
    <3> QED BY <1>0, <1>1, <2>2, <3>3, HandTrades
  <2>7. InTurn'
    <3>1. limits.patient => Climbing(b) /\ Precedes(b, followUpQueue) /\ Climbing(steerQueue)
                            /\ Climbing(followUpQueue)
      BY <1>0, <1>2, <1>9 DEF InTurn, At, Taking, b
    <3>2. limits.patient => Climbing(b \o followUpQueue)
      BY <1>0, <1>3, <3>1, ClimbingConcat
    <3> QED BY <1>6, <2>1, <2>2, <3>1, <3>2
  <2> QED BY <2>5, <2>6, <2>7 DEF MessageInv
<1>10. CASE call[c].stale
  <2>1. UNCHANGED <<steerQueue, followUpQueue>> /\ LoopThrows(c, h)
    BY <1>10 DEF PollThrows
  <2>2. /\ \A d \in Calls : d # c => call'[d] = call[d]
        /\ HandOf(c)' /\ Held'[c] = {} /\ UNCHANGED nextMessage
        /\ dropped' = dropped \union (ToSet(asked) \intersect Messages(h))
        /\ call'[c].pc \in {"final", "output"}
    BY <1>4, <2>1
  <2>3. Numbered'
    BY <1>0, <1>5, <2>1, <2>2
  <2>4. Parted(Placing, ToSet(asked))'
    <3>1. Placing'[6] = Placing[6] \union Held[c]
      BY <2>2, PlacesNow, PlacesNext DEF Held
    <3>2. \A k \in 1 .. 6 : k # 6 => Placing'[k] = Placing[k]
      <4>1. \A k \in 1 .. 6 : k # 6 => k \in {1, 2, 3, 4, 5}
        OBVIOUS
      <4> QED BY <1>1, <1>7, <2>1, <2>2, <4>1, PlacesNow, PlacesNext
    <3>3. Gives(c, 6, Held[c])
      BY <2>2, <3>1, <3>2 DEF Gives
    <3> QED BY <1>0, <1>1, <2>2, <3>3, HandTrades
  <2>5. InTurn'
    BY <1>0, <1>6, <2>1, <2>2 DEF InTurn
  <2> QED BY <2>3, <2>4, <2>5 DEF MessageInv
<1> QED
  <2>1. At(c, "steerTaken") \/ At(c, "followUpTaken")
    BY <1>0 DEF At, Taking
  <2> QED BY <1>8, <1>9, <1>10, <2>1

(* A message asked for, at the end of one queue.                            *)
LEMMA AsksKeep ==
  ASSUME Typed, Controlled, MessageInv, Steer \/ FollowUp \/ NextTurn
  PROVE  MessageInv'
<1> DEFINE n == nextMessage
<1>0. /\ Numbered /\ Parted(Placing, ToSet(asked)) /\ InTurn
      /\ steerQueue \in Seq(Nat) /\ followUpQueue \in Seq(Nat) /\ nextTurnQueue \in Seq(Nat)
      /\ asked \in Seq(Nat) /\ entries \in Seq(SessionEntry) /\ n \in Nat /\ n \notin ToSet(asked)
      /\ \A m \in ToSet(asked) : m \in Nat /\ m < n
      /\ ToSet(steerQueue) \subseteq ToSet(asked) /\ ToSet(followUpQueue) \subseteq ToSet(asked)
      /\ ToSet(nextTurnQueue) \subseteq ToSet(asked)
  BY InPlace DEF MessageInv, Typed, SessionTypeOK
<1>1. /\ UNCHANGED <<cleared, dropped, limits, entries, appending, call>>
      /\ asked' = Append(asked, n) /\ nextMessage' = n + 1
  BY DEF Steer, FollowUp, NextTurn, Ask, session
<1>2. \/ /\ steerQueue' = Append(steerQueue, n) /\ UNCHANGED <<followUpQueue, nextTurnQueue>>
      \/ /\ followUpQueue' = Append(followUpQueue, n) /\ UNCHANGED <<steerQueue, nextTurnQueue>>
      \/ /\ nextTurnQueue' = Append(nextTurnQueue, n) /\ UNCHANGED <<steerQueue, followUpQueue>>
  BY DEF Steer, FollowUp, NextTurn, Ask
<1>3. ToSet(asked') = ToSet(asked) \union {n}
  BY <1>0, <1>1, SetOfAppend
<1>4. UNCHANGED Kept
  <2>1. \A p \in DOMAIN entries :
          entries[p].kind = "user" => (entries[p].item \in ToSet(asked) <=> entries[p].item \in ToSet(asked'))
    BY <1>0, <1>3 DEF Numbered
  <2>2. MessageItems(entries, ToSet(asked)) = MessageItems(entries, ToSet(asked'))
    BY <1>0, <2>1, KeptSame
  <2> QED BY <1>1, <2>2 DEF Kept
<1>5. ASSUME NEW q \in Seq(Nat), ToSet(q) \subseteq ToSet(asked)
      PROVE  /\ Unlike(q) => Unlike(Append(q, n))
             /\ Climbing(q) => Climbing(Append(q, n))
             /\ ToSet(Append(q, n)) = ToSet(q) \union {n}
  BY <1>0, <1>5, QueuedLast
<1>6. ASSUME NEW c \in Calls
      PROVE  /\ HandOf(c) /\ call[c].hand \in Seq(InHand)
             /\ \A m \in Messages(call[c].hand) : m \in Nat /\ m < n
             /\ Messages(call[c].hand) \intersect ToSet(asked') = Messages(call[c].hand) \intersect ToSet(asked)
  <2>1. HandOf(c) /\ call[c].hand \in Seq(InHand) /\ \A m \in Messages(call[c].hand) : m \in Nat
    BY InPlace
  <2>2. \A m \in Messages(call[c].hand) : m < n
    BY <2>1 DEF HandOf
  <2> QED BY <1>0, <1>3, <2>1, <2>2
<1>7. Held' = Held
  BY <1>1, <1>6 DEF Held
<1> HIDE DEF n
<1>8. ASSUME NEW c \in Calls PROVE HandOf(c)'
  <2>1. \A m \in Messages(call'[c].hand) : m < nextMessage'
    <3>1. call'[c] = call[c] /\ n \in Nat /\ nextMessage' = n + 1
      BY <1>0, <1>1
    <3>2. ASSUME NEW m \in Messages(call[c].hand) PROVE m < n + 1
      <4>1. m \in Nat /\ m < n
        BY <1>6, <1>8, <3>2
      <4> QED BY <3>1, <4>1
    <3> QED BY <3>1, <3>2
  <2>2. TakenOut(c)' = TakenOut(c)
    BY <1>1 DEF TakenOut
  <2>3. call[c].pc \in {"takeNext", "beforeHook"} => Last(call[c].hand).item \notin ToSet(asked')
    <3> SUFFICES ASSUME call[c].pc \in {"takeNext", "beforeHook"}
                 PROVE  Last(call[c].hand).item \notin ToSet(asked')
      OBVIOUS
    <3>1. call[c].hand # <<>> /\ AllUsers(call[c].hand) /\ Last(call[c].hand).item \notin ToSet(asked)
      BY <1>6 DEF HandOf, Controlled, Placed
    <3>2. Last(call[c].hand).item \in Messages(call[c].hand)
      BY <1>6, <3>1, WithoutLast
    <3> QED BY <1>0, <1>3, <1>6, <3>1, <3>2
  <2> QED BY <1>1, <1>3, <1>6, <2>1, <2>2, <2>3 DEF HandOf, Appends
<1>9. Numbered'
  <2>1. Unlike(steerQueue') /\ Unlike(followUpQueue') /\ Unlike(nextTurnQueue') /\ Unlike(Kept')
    BY <1>0, <1>2, <1>4, <1>5 DEF Numbered
  <2>2. \A m \in ToSet(asked') : m < nextMessage'
    BY <1>0, <1>1, <1>3
  <2>3. \A p \in DOMAIN entries' : entries'[p].kind = "user" => entries'[p].item < nextMessage'
    <3>1. \A p \in DOMAIN entries : entries[p] \in SessionEntry
      BY <1>0
    <3>2. \A p \in DOMAIN entries : entries[p].item \in Nat
      BY <3>1 DEF SessionEntry
    <3>3. \A p \in DOMAIN entries : entries[p].kind = "user" => entries[p].item < n
      BY <1>0 DEF Numbered, n
    <3> QED BY <1>0, <1>1, <3>2, <3>3
  <2> QED BY <1>8, <2>1, <2>2, <2>3 DEF Numbered
<1>10. Parted(Placing, ToSet(asked))'
  <2> DEFINE f == Placing
             g == Placing'
             A == ToSet(asked)
  <2>1. PICK a \in 1 .. 3 : g[a] = f[a] \union {n} /\ \A k \in 1 .. 6 : k # a => g[k] = f[k]
    <3>0. \A k \in 1 .. 6 : k \in {1, 2, 3, 4, 5, 6}
      OBVIOUS
    <3>1. CASE steerQueue' = Append(steerQueue, n) /\ UNCHANGED <<followUpQueue, nextTurnQueue>>
      <4>1. g[1] = f[1] \union {n} /\ \A k \in 1 .. 6 : k # 1 => g[k] = f[k]
        BY <1>0, <1>1, <1>4, <1>5, <3>0, <3>1, PlacesNow, PlacesNext
      <4> QED BY <4>1
    <3>2. CASE followUpQueue' = Append(followUpQueue, n) /\ UNCHANGED <<steerQueue, nextTurnQueue>>
      <4>1. g[2] = f[2] \union {n} /\ \A k \in 1 .. 6 : k # 2 => g[k] = f[k]
        BY <1>0, <1>1, <1>4, <1>5, <3>0, <3>2, PlacesNow, PlacesNext
      <4> QED BY <4>1
    <3>3. CASE nextTurnQueue' = Append(nextTurnQueue, n) /\ UNCHANGED <<steerQueue, followUpQueue>>
      <4>1. g[3] = f[3] \union {n} /\ \A k \in 1 .. 6 : k # 3 => g[k] = f[k]
        BY <1>0, <1>1, <1>4, <1>5, <3>0, <3>3, PlacesNow, PlacesNext
      <4> QED BY <4>1
    <3> QED BY <1>2, <3>1, <3>2, <3>3
  <2>2. /\ DOMAIN f = Spot /\ DOMAIN g = Spot /\ a \in Spot
        /\ \A s \in Spot : s # a => g[s] = f[s]
    <3>1. \A c \in Calls : g[c + 7] = f[c + 7]
      BY <1>7, PlacesNow, PlacesNext
    <3> QED BY <2>1, <3>1, PlacesNow, PlacesNext, SpotIs
  <2>3. Parted(f, A) /\ n \notin A
    BY <1>0
  <2> HIDE DEF f, g, A
  <2>4. Parted(g, A \union {n})
    BY <2>1, <2>2, <2>3, PartedAdd
  <2>5. Parted(Placing', ToSet(asked'))
    BY <1>3, <2>4 DEF g, A
  <2> QED BY <2>5 DEF Parted
<1>11. InTurn'
  <2> SUFFICES ASSUME limits.patient PROVE InTurn'
    BY <1>1 DEF InTurn
  <2>1. Climbing(steerQueue') /\ Climbing(followUpQueue') /\ Climbing(nextTurnQueue')
    BY <1>0, <1>2, <1>5 DEF InTurn
  <2>2. ASSUME NEW c \in Calls, NEW q \in Seq(Nat), ToSet(q) \subseteq ToSet(asked),
               call[c].pc \in {"takeNext"} \union Taking, Precedes(ItemsBack(TakenOut(c)), q)
        PROVE  Precedes(ItemsBack(TakenOut(c)), Append(q, n))
    <3> DEFINE b == ItemsBack(TakenOut(c))
    <3>1. TakenOut(c) \in Seq(InHand) /\ AllUsers(TakenOut(c)) /\ Messages(TakenOut(c)) \subseteq ToSet(asked)
      <4>1. call[c].hand \in Seq(InHand) /\ AllUsers(call[c].hand) /\ call[c].hand # <<>>
            /\ Messages(TakenOut(c)) \subseteq ToSet(asked)
        BY <1>6, <2>2 DEF HandOf, Controlled, Placed, Taking
      <4>2. TakenOut(c) = Front(call[c].hand) \/ TakenOut(c) = call[c].hand
        BY DEF TakenOut
      <4> QED BY <4>1, <4>2, WithoutLast
    <3>2. b \in Seq(Nat) /\ ToSet(b) \subseteq ToSet(asked)
      BY <3>1, QueueOfHand
    <3> HIDE DEF b
    <3>3. \A i \in DOMAIN b : b[i] \in Nat /\ b[i] < n
      BY <1>0, <3>2 DEF ToSet
    <3>4. \A j \in DOMAIN Append(q, n) : (j \in DOMAIN q /\ Append(q, n)[j] = q[j]) \/ Append(q, n)[j] = n
      BY <1>0, <2>2
    <3>5. Precedes(b, q)
      BY <2>2 DEF b
    <3>6. Precedes(b, Append(q, n))
      BY <3>3, <3>4, <3>5 DEF Precedes
    <3> QED BY <3>6 DEF b
  <2>3. ASSUME NEW c \in Calls
        PROVE  /\ call'[c].pc \in {"takeNext"} \union Taking => Climbing(ItemsBack(TakenOut(c)'))
               /\ At(c, "takeNext")' => Precedes(ItemsBack(TakenOut(c)'), nextTurnQueue')
               /\ At(c, "steerTaken")' => Precedes(ItemsBack(TakenOut(c)'), steerQueue')
               /\ At(c, "followUpTaken")' => Precedes(ItemsBack(TakenOut(c)'), followUpQueue')
    <3>1. /\ call[c].pc \in {"takeNext"} \union Taking => Climbing(ItemsBack(TakenOut(c)))
          /\ call[c].pc = "takeNext" => Precedes(ItemsBack(TakenOut(c)), nextTurnQueue)
          /\ call[c].pc = "steerTaken" => Precedes(ItemsBack(TakenOut(c)), steerQueue)
          /\ call[c].pc = "followUpTaken" => Precedes(ItemsBack(TakenOut(c)), followUpQueue)
      BY <1>0 DEF InTurn, At
    <3>2. TakenOut(c)' = TakenOut(c) /\ call'[c] = call[c]
      BY <1>1 DEF TakenOut
    <3>3. call[c].pc = "takeNext" => Precedes(ItemsBack(TakenOut(c)), nextTurnQueue')
      BY <1>0, <1>2, <2>2, <3>1
    <3>4. call[c].pc = "steerTaken" => Precedes(ItemsBack(TakenOut(c)), steerQueue')
      BY <1>0, <1>2, <2>2, <3>1 DEF Taking
    <3>5. call[c].pc = "followUpTaken" => Precedes(ItemsBack(TakenOut(c)), followUpQueue')
      BY <1>0, <1>2, <2>2, <3>1 DEF Taking
    <3> QED BY <3>1, <3>2, <3>3, <3>4, <3>5 DEF At
  <2> QED BY <2>1, <2>3 DEF InTurn
<1> QED BY <1>9, <1>10, <1>11 DEF MessageInv

(* abort() clears two queues.                                               *)
LEMMA AbortKeeps ==
  ASSUME Typed, MessageInv, Abort
  PROVE  MessageInv'
<1>0. Numbered /\ Parted(Placing, ToSet(asked)) /\ InTurn
  BY DEF MessageInv
<1>1. /\ steerQueue' = <<>> /\ followUpQueue' = <<>>
      /\ cleared' = cleared \union ToSet(steerQueue) \union ToSet(followUpQueue)
      /\ UNCHANGED <<nextTurnQueue, asked, dropped, limits, entries, appending, nextMessage>>
  BY DEF Abort, session, counters
<1>2. \A c \in Calls : call'[c].pc = call[c].pc /\ call'[c].hand = call[c].hand
  BY AbortCalls
<1>3. UNCHANGED Kept
  BY <1>1, KeptStays
<1>4. \A c \in Calls : TakenOut(c)' = TakenOut(c)
  BY <1>2 DEF TakenOut
<1>5. Unlike(<<>>) /\ Climbing(<<>>) /\ ToSet(<<>>) = {} /\ \A b : Precedes(b, <<>>)
  BY DEF Unlike, Climbing, ToSet, Precedes
<1>6. Numbered'
  <2>1. ASSUME NEW c \in Calls PROVE HandOf(c)'
    <3>1. HandOf(c)
      BY <1>0 DEF Numbered
    <3> QED BY <1>1, <1>2, <1>4, <3>1 DEF HandOf, Appends
  <2> QED BY <1>0, <1>1, <1>3, <1>5, <2>1 DEF Numbered
<1>7. Parted(Placing, ToSet(asked))'
  <2> DEFINE f == Placing
             g == Placing'
             A == ToSet(asked)
  <2>1. /\ DOMAIN f = Spot /\ DOMAIN g = Spot /\ 1 \in Spot /\ 2 \in Spot /\ 5 \in Spot
        /\ g[1] = {} /\ g[2] = {} /\ g[5] = f[5] \union f[1] \union f[2]
    BY <1>1, <1>5, PlacesNow, PlacesNext, SpotIs
  <2>2. ASSUME NEW s \in Spot, s # 5, s # 1, s # 2 PROVE g[s] = f[s]
    <3>1. Held' = Held
      BY <1>1, <1>2 DEF Held
    <3>2. CASE s \in 1 .. 6
      <4>1. s \in {3, 4, 6}
        BY <2>2, <3>2
      <4> QED BY <1>1, <1>3, <4>1, PlacesNow, PlacesNext
    <3>3. CASE s \notin 1 .. 6
      <4>1. PICK c \in Calls : s = c + 7
        BY <3>3, SpotIs
      <4> QED BY <3>1, <4>1, PlacesNow, PlacesNext
    <3> QED BY <3>2, <3>3
  <2>3. Parted(f, A)
    BY <1>0
  <2> HIDE DEF f, g, A
  <2>4. MovedInto(f, g, 1, 2, 5)
    BY <2>1, <2>2 DEF MovedInto
  <2>5. Parted(g, A)
    BY <2>3, <2>4, PartedInto
  <2>6. Parted(Placing', ToSet(asked'))
    BY <1>1, <2>5 DEF g, A
  <2> QED BY <2>6 DEF Parted
<1>8. InTurn'
  BY <1>0, <1>1, <1>2, <1>4, <1>5 DEF InTurn, At
<1> QED BY <1>6, <1>7, <1>8 DEF MessageInv

(* A step that leaves the messages where they are.                          *)
LEMMA NothingMoves ==
  ASSUME MessageInv, UNCHANGED <<queues, asked, cleared, dropped, limits, nextMessage, call, entries, appending>>
  PROVE  MessageInv'
<1>1. UNCHANGED Kept /\ UNCHANGED <<steerQueue, followUpQueue, nextTurnQueue>>
  BY KeptStays DEF queues
<1>2. \A c \in Calls : TakenOut(c)' = TakenOut(c) /\ HandOf(c)' = HandOf(c)
  BY DEF TakenOut, HandOf, Appends
<1>3. Placing' = Placing
  BY <1>1 DEF Placing, Held
<1>4. Numbered'
  BY <1>1, <1>2 DEF Numbered, MessageInv
<1>5. Parted(Placing, ToSet(asked))'
  BY <1>3 DEF MessageInv
<1>6. InTurn'
  BY <1>1, <1>2 DEF InTurn, MessageInv, At
<1> QED BY <1>4, <1>5, <1>6 DEF MessageInv

(* Every step keeps a message where it can be found.                        *)
LEMMA MessageStep ==
  ASSUME Typed, Controlled, Writing, MessageInv, [Next]_vars
  PROVE  MessageInv'
<1>0. Numbered
  BY DEF MessageInv
<1>1. ASSUME NEW c \in Calls, Begin(c) PROVE MessageInv'
  <2>1. Silent(c)
    BY <1>0, <1>1, BeginningsAreSilent, AppendsAreSilent DEF Begin
  <2> QED BY <2>1, SilentKeeps
<1>2. ASSUME NEW c \in Calls, Loop(c) PROVE MessageInv'
  <2>1. CASE Shown(c) \/ ShowThrows(c) \/ PollThrows(c)
    BY <2>1, ShownKeeps, ShowThrowsKeeps, PollThrowsKeeps
  <2>2. CASE PollSteering(c)
    <3>1. steerQueue = <<>> => Silent(c)
      BY <1>0, <2>2, PlainAreSilent
    <3> QED BY <2>2, <3>1, SilentKeeps, PollSteeringKeeps
  <2>3. CASE PollFollowUp(c)
    <3>1. followUpQueue = <<>> => Silent(c)
      BY <1>0, <2>3, PlainAreSilent
    <3> QED BY <2>3, <3>1, SilentKeeps, PollFollowUpKeeps
  <2>4. CASE ShowMessage(c) \/ FlushWrite(c) \/ WriteFlushed(c)
    BY <1>0, <2>4, AppendsAreSilent, SilentKeeps
  <2>5. CASE Answer(c)
    BY <1>0, <2>5, AnswersAreSilent, SilentKeeps
  <2>6. CASE AnswerThrows(c) \/ FlushFails(c) \/ SavePointThrows(c) \/ PrepareThrows(c) \/ AgentEndThrows(c)
    BY <1>0, <2>6, ThrowsAreSilent, SilentKeeps
  <2>7. CASE TurnEnd(c) \/ SavePoint(c) \/ PrepareNextTurn(c) \/ GoIdle(c) \/ AgentEnded(c)
    BY <1>0, <2>7, PlainAreSilent, SilentKeeps
  <2>8. CASE Polled(c)
    BY <1>0, <2>8, HandedAreSilent, SilentKeeps
  <2> QED BY <1>2, <2>1, <2>2, <2>3, <2>4, <2>5, <2>6, <2>7, <2>8 DEF Loop
<1>3. ASSUME NEW c \in Calls, GoOn(c), ~Loop(c) PROVE MessageInv'
  <2>1. CASE Snapshot(c) \/ NextGivenBack(c) \/ BeforeHookThrows(c)
    BY <2>1, SnapshotKeeps, GivenBackKeeps, HookThrowsKeeps
  <2>2. CASE Write(c) \/ AppendCompaction(c) \/ MoveTo(c) \/ AppendSummary(c)
    BY <1>0, <2>2, AppendsAreSilent, SilentKeeps
  <2>3. CASE SnapshotThrows(c) \/ Return(c) \/ AppendedIdle(c) \/ Settle(c)
    BY <1>0, <2>3, EndsAreSilent, SilentKeeps
  <2>4. CASE NextTaken(c) \/ RunLoop(c)
    BY <1>0, <2>4, HandedAreSilent, SilentKeeps
  <2>5. CASE Summarise(c)
    BY <1>0, <2>5, PlainAreSilent, SilentKeeps
  <2> QED BY <1>3, <2>1, <2>2, <2>3, <2>4, <2>5 DEF GoOn
<1>4. CASE Steer \/ FollowUp \/ NextTurn
  BY <1>4, AsksKeep
<1>5. CASE Abort
  BY <1>5, AbortKeeps
<1>6. CASE UNCHANGED vars \/ \E kind \in WriteKinds : AcceptWrite(kind)
  <2>1. UNCHANGED <<queues, asked, cleared, dropped, limits, nextMessage, call, entries, appending>>
    <3>1. CASE UNCHANGED vars
      BY <3>1 DEF vars, session, counters, past
    <3>2. CASE \E kind \in WriteKinds : AcceptWrite(kind)
      BY <3>2 DEF AcceptWrite, session
    <3> QED BY <1>6, <3>1, <3>2
  <2> QED BY <2>1, NothingMoves
<1> QED BY <1>1, <1>2, <1>3, <1>4, <1>5, <1>6 DEF Next, Reenter

(* At first nothing is asked for.                                           *)
LEMMA InitMessages ==
  ASSUME Init
  PROVE  MessageInv
<1>1. /\ entries = <<>> /\ steerQueue = <<>> /\ followUpQueue = <<>> /\ nextTurnQueue = <<>>
      /\ asked = <<>> /\ cleared = {} /\ dropped = {} /\ ToSet(<<>>) = {}
  BY DEF Init, SessionInit, ToSet
<1>2. ASSUME NEW c \in Calls PROVE call[c].hand = <<>> /\ call[c].pc = "free" /\ ~Appends(c)
  BY InitCalls DEF Free
<1>3. Kept = <<>>
  <2> DEFINE o == Only(entries, UserEntries(ToSet(asked)))
  <2>1. o = <<>>
    BY <1>1, OnlyEmpty
  <2>2. Kept = [p \in DOMAIN o |-> o[p].item]
    BY DEF Kept, MessageItems
  <2> HIDE DEF o
  <2> QED BY <2>1, <2>2
<1>4. Unlike(<<>>) /\ Climbing(<<>>)
  BY DEF Unlike, Climbing
<1>5. Numbered
  <2>1. ASSUME NEW c \in Calls PROVE HandOf(c)
    BY <1>2, AnswersAreNone DEF HandOf, Holding, Taking, Showing
  <2> QED BY <1>1, <1>3, <1>4, <2>1 DEF Numbered
<1>6. Parted(Placing, ToSet(asked))
  <2>1. \A c \in Calls : Held[c] = {}
    BY <1>1 DEF Held
  <2>2. ASSUME NEW s \in Spot PROVE Placing[s] = {}
    <3>1. CASE s \in 1 .. 6
      <4>1. s \in {1, 2, 3, 4, 5, 6}
        BY <3>1
      <4> QED BY <1>1, <1>3, <4>1, PlacesNow
    <3>2. CASE s \notin 1 .. 6
      <4>1. PICK c \in Calls : s = c + 7
        BY <3>2, SpotIs
      <4> QED BY <2>1, <4>1, PlacesNow
    <3> QED BY <3>1, <3>2
  <2>3. DOMAIN Placing = Spot
    BY PlacesNow
  <2> QED BY <1>1, <2>2, <2>3 DEF Parted
<1>7. InTurn
  <2>1. \A c \in Calls : call[c].pc \notin {"takeNext"} \union Taking
    BY <1>2 DEF Taking
  <2> QED BY <1>1, <1>4, <2>1 DEF InTurn, At, Taking
<1> QED BY <1>5, <1>6, <1>7 DEF MessageInv

(* A sequence of different numbers is as long as their set is large.        *)
LEMMA UnlikeCardinality ==
  ASSUME NEW q \in Seq(Nat), Unlike(q)
  PROVE  Cardinality(ToSet(q)) = Len(q)
<1>1. Len(q) \in Nat /\ DOMAIN q = 1 .. Len(q)
  OBVIOUS
<1>2. q \in Bijection(1 .. Len(q), ToSet(q))
  BY <1>1 DEF Unlike, ToSet, Bijection, Injection, Surjection, IsInjective
<1>3. IsFiniteSet(1 .. Len(q)) /\ Cardinality(1 .. Len(q)) = Len(q)
  <2>1. 1 \in Int /\ Len(q) \in Int
    BY <1>1
  <2>2. /\ IsFiniteSet(1 .. Len(q))
        /\ Cardinality(1 .. Len(q)) = IF 1 > Len(q) THEN 0 ELSE Len(q) - 1 + 1
    BY <2>1, FS_Interval
  <2>3. (IF 1 > Len(q) THEN 0 ELSE Len(q) - 1 + 1) = Len(q)
    BY <1>1
  <2> QED BY <2>2, <2>3
<1>4. ExistsBijection(1 .. Len(q), ToSet(q))
  BY <1>2 DEF ExistsBijection
<1> QED BY <1>3, <1>4, FS_Bijection

(* A message queued is in one queue, one hand, the session, or counted as   *)
(* cleared or lost, and patient callers find each queue in order            *)
(* (steer, followUp, nextTurn, drainQueuedMessages, abort and the catch     *)
(* blocks of executeTurn).                                                  *)
THEOREM MessagesAccounted == Spec => []MessagesAccountedFor
<1>1. Init => MessageInv
  BY InitMessages
<1>2. IInv /\ MessageInv /\ [Next]_vars => MessageInv'
  BY MessageStep DEF IInv
<1>3. IInv /\ MessageInv => MessagesAccountedFor
  <2> SUFFICES ASSUME IInv, MessageInv PROVE MessagesAccountedFor
    OBVIOUS
  <2> DEFINE queued == steerQueue \o followUpQueue \o nextTurnQueue
             inHands == UNION {Messages(call[c].hand) : c \in Calls}
             held == inHands \intersect ToSet(asked)
             kept == ToSet(Persisted({"user"}, ToSet(asked)))
             places == <<ToSet(queued), held, kept, cleared, dropped>>
  <2>0. /\ Typed /\ Numbered /\ Parted(Placing, ToSet(asked)) /\ InTurn
        /\ steerQueue \in Seq(Nat) /\ followUpQueue \in Seq(Nat) /\ nextTurnQueue \in Seq(Nat)
    BY DEF IInv, MessageInv, Typed
  <2>1. /\ \A s, t \in Spot : s # t => Placing[s] \intersect Placing[t] = {}
        /\ ToSet(asked) = UNION {Placing[s] : s \in Spot}
    BY <2>0, PlacesNow DEF Parted
  <2>2. ToSet(queued) = Placing[1] \union Placing[2] \union Placing[3]
    <3> DEFINE first == steerQueue \o followUpQueue
    <3>1. first \in Seq(Nat) /\ queued = first \o nextTurnQueue
      BY <2>0
    <3>2. ToSet(first) = ToSet(steerQueue) \union ToSet(followUpQueue)
      BY <2>0, SetOfConcat
    <3> HIDE DEF first, queued
    <3>3. ToSet(first \o nextTurnQueue) = ToSet(first) \union ToSet(nextTurnQueue)
      BY <2>0, <3>1, SetOfConcat
    <3> QED BY <3>1, <3>2, <3>3, PlacesNow
  <2>3. \A n : n \in held <=> \E c \in Calls : n \in Placing[c + 7]
    <3>1. \A c \in Calls : Placing[c + 7] = Messages(call[c].hand) \intersect ToSet(asked)
      BY PlacesNow DEF Held
    <3>2. \A n : n \in inHands <=> \E c \in Calls : n \in Messages(call[c].hand)
      BY Zenon
    <3> HIDE DEF inHands
    <3>3. \A n : n \in held <=> n \in inHands /\ n \in ToSet(asked)
      OBVIOUS
    <3> QED BY <3>1, <3>2, <3>3
  <2>4. kept = Placing[4] /\ cleared = Placing[5] /\ dropped = Placing[6]
    BY PlacesNow, KeptIs
  <2> HIDE DEF queued, inHands, held, kept
  <2>5. ToSet(asked) = ToSet(queued) \union held \union kept \union cleared \union dropped
    <3>1. ASSUME NEW n, n \in ToSet(asked)
          PROVE  n \in ToSet(queued) \union held \union kept \union cleared \union dropped
      <4>1. PICK s \in Spot : n \in Placing[s]
        BY <2>1, <3>1
      <4>2. CASE s \in 1 .. 6
        <5>1. s \in {1, 2, 3, 4, 5, 6}
          BY <4>2
        <5> QED BY <2>2, <2>4, <4>1, <5>1
      <4>3. CASE s \notin 1 .. 6
        BY <2>3, <4>1, <4>3, SpotIs
      <4> QED BY <4>2, <4>3
    <3>2. ASSUME NEW n, n \in ToSet(queued) \union held \union kept \union cleared \union dropped
          PROVE  n \in ToSet(asked)
      <4>1. \E s \in Spot : n \in Placing[s]
        <5>1. \A k \in 1 .. 6 : k \in Spot
          BY SpotIs
        <5>2. 1 \in Spot /\ 2 \in Spot /\ 3 \in Spot /\ 4 \in Spot /\ 5 \in Spot /\ 6 \in Spot
          BY <5>1
        <5>3. n \in held => \E s \in Spot : n \in Placing[s]
          BY <2>3, SpotIs
        <5> QED BY <2>2, <2>4, <3>2, <5>2, <5>3
      <4> QED BY <2>1, <4>1
    <3> QED BY <3>1, <3>2
  <2>6. /\ ToSet(queued) \intersect held = {} /\ ToSet(queued) \intersect kept = {}
        /\ ToSet(queued) \intersect cleared = {} /\ ToSet(queued) \intersect dropped = {}
        /\ held \intersect kept = {} /\ held \intersect cleared = {} /\ held \intersect dropped = {}
        /\ kept \intersect cleared = {} /\ kept \intersect dropped = {} /\ cleared \intersect dropped = {}
    <3>1. 1 \in Spot /\ 2 \in Spot /\ 3 \in Spot /\ 4 \in Spot /\ 5 \in Spot /\ 6 \in Spot
      BY SpotIs
    <3>2. \A c \in Calls : /\ c + 7 \in Spot /\ c + 7 # 1 /\ c + 7 # 2 /\ c + 7 # 3
                           /\ c + 7 # 4 /\ c + 7 # 5 /\ c + 7 # 6
      BY SpotIs
    <3>3. ASSUME NEW c \in Calls
          PROVE  /\ Placing[c + 7] \intersect Placing[1] = {} /\ Placing[c + 7] \intersect Placing[2] = {}
                 /\ Placing[c + 7] \intersect Placing[3] = {} /\ Placing[c + 7] \intersect Placing[4] = {}
                 /\ Placing[c + 7] \intersect Placing[5] = {} /\ Placing[c + 7] \intersect Placing[6] = {}
      BY <2>1, <3>1, <3>2
    <3>4. /\ held \intersect ToSet(queued) = {} /\ held \intersect kept = {}
          /\ held \intersect cleared = {} /\ held \intersect dropped = {}
      BY <2>2, <2>3, <2>4, <3>3
    <3>5. \A i, j \in {1, 2, 3, 4, 5, 6} : i # j => Placing[i] \intersect Placing[j] = {}
      BY <2>1, <3>1
    <3>6. /\ ToSet(queued) \intersect kept = {}
          /\ ToSet(queued) \intersect cleared = {} /\ ToSet(queued) \intersect dropped = {}
          /\ kept \intersect cleared = {} /\ kept \intersect dropped = {} /\ cleared \intersect dropped = {}
      BY <2>2, <2>4, <3>5
    <3> QED BY <3>4, <3>6
  <2>7. /\ DOMAIN places = 1 .. 5
        /\ places[1] = ToSet(queued) /\ places[2] = held /\ places[3] = kept
        /\ places[4] = cleared /\ places[5] = dropped
    OBVIOUS
  <2> HIDE DEF places
  <2>8. DOMAIN places = {1, 2, 3, 4, 5}
    BY <2>7
  <2>9. ToSet(asked) = UNION ToSet(places)
    <3>1. ToSet(places) = {ToSet(queued), held, kept, cleared, dropped}
      BY <2>7, <2>8 DEF ToSet
    <3> QED BY <2>5, <3>1
  <2>10. \A i, j \in DOMAIN places : i # j => places[i] \intersect places[j] = {}
    BY <2>6, <2>7, <2>8
  <2>11. Cardinality(kept) = Len(Persisted({"user"}, ToSet(asked)))
    BY <2>0, KeptIs, UnlikeCardinality DEF Numbered, kept
  <2>12. limits.patient =>
          \A q \in {steerQueue, followUpQueue, nextTurnQueue} :
            \A i, j \in DOMAIN q : i < j => q[i] < q[j]
    BY <2>0 DEF InTurn, Climbing
  <2> QED BY <2>9, <2>10, <2>11, <2>12 DEF MessagesAccountedFor, queued, inHands, held, kept, places
<1> QED BY <1>1, <1>2, <1>3, HarnessInvariant, PTL DEF Spec
=============================================================================
