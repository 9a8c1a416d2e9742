------------------------- MODULE SessionManagerProofs -------------------------
(***************************************************************************)
(* Proofs about SessionManager, for any number of entries, files, crashes  *)
(* and refused writes: what a file says is never changed, a session can be *)
(* resumed as it was, and its labels are those its entries amount to.      *)
(***************************************************************************)
EXTENDS SessionManager, SelectionProofs

-----------------------------------------------------------------------------
(* Sequences.                                                              *)

(* Appending and joining.                                                  *)
LEMMA ConcatAppend ==
  ASSUME NEW S, NEW s \in Seq(S), NEW t \in Seq(S), NEW e \in S
  PROVE  s \o Append(t, e) = Append(s \o t, e)
OBVIOUS

(* A sequence is built up by appending.                                    *)
LEMMA SequenceInduction ==
  ASSUME NEW S, NEW Z, <<>> \in Z, \A s \in Seq(S) : s \in Z => \A e \in S : Append(s, e) \in Z
  PROVE  Seq(S) \subseteq Z
<1> DEFINE Y == {k \in Nat : \A s \in Seq(S) : Len(s) = k => s \in Z}
<1>1. 0 \in Y
  <2>1. ASSUME NEW s \in Seq(S), Len(s) = 0 PROVE s = <<>>
    BY <2>1, EmptySeq
  <2> QED BY <2>1
<1>2. ASSUME NEW k \in Y PROVE k + 1 \in Y
  <2> SUFFICES ASSUME NEW s \in Seq(S), Len(s) = k + 1 PROVE s \in Z
    OBVIOUS
  <2>1. k \in Nat
    OBVIOUS
  <2> DEFINE f == SubSeq(s, 1, k)
             e == s[k + 1]
  <2>2. f \in Seq(S) /\ Len(f) = k /\ e \in S /\ s = Append(f, e)
    BY <2>1
  <2>3. f \in Z
    BY <2>2
  <2> HIDE DEF f, e, Y
  <2> QED BY <2>2, <2>3
<1>3. Y = Nat
  <2> HIDE DEF Y
  <2>1. Y \subseteq Nat BY DEF Y
  <2> QED BY <1>1, <1>2, <2>1, SetInduction
<1>4. ASSUME NEW s \in Seq(S) PROVE s \in Z
  <2>1. Len(s) \in Y
    BY <1>3
  <2> QED BY <2>1
<1> QED BY <1>4

-----------------------------------------------------------------------------
(* Distinct.                                                               *)
Earlier(s, n) == \E m \in 1 .. n - 1 : s[m] = s[n]
DistinctStep(s, S) ==
  [x \in (1..Len(s)) \X Seq(S) |-> IF Earlier(s, x[1]) THEN x[2] ELSE Append(x[2], s[x[1]])]

(* Distinct as a function of positions.                                    *)
LEMMA DistinctIs ==
  ASSUME NEW S, NEW s \in Seq(S), NEW f \in [0..Len(s) -> Seq(S)],
         Recursion(Len(s), <<>>, DistinctStep(s, S), f)
  PROVE  Distinct(s) = f[Len(s)]
<1> DEFINE Def(g) == g = [n \in 0..Len(s) |->
             IF n = 0 THEN <<>>
             ELSE IF \E m \in 1 .. n - 1 : s[m] = s[n] THEN g[n - 1] ELSE Append(g[n - 1], s[n])]
           of == CHOOSE g : Def(g)
<1>0. Len(s) \in Nat
  OBVIOUS
<1>a. ASSUME NEW n \in 1..Len(s)
      PROVE  f[n] = IF Earlier(s, n) THEN f[n - 1] ELSE Append(f[n - 1], s[n])
  <2>0. n - 1 \in 0..Len(s)
    BY <1>0
  <2>1. f[n - 1] \in Seq(S) /\ <<n, f[n - 1]>> \in (1..Len(s)) \X Seq(S)
    BY <2>0
  <2>2. f[n] = DistinctStep(s, S)[<<n, f[n - 1]>>]
    BY DEF Recursion
  <2> QED BY <2>1, <2>2 DEF DistinctStep
<1>b. f[0] = <<>>
  BY DEF Recursion
<1>1. Def(f)
  <2>1. \A n \in 0..Len(s) : f[n] =
             IF n = 0 THEN <<>>
             ELSE IF \E m \in 1 .. n - 1 : s[m] = s[n] THEN f[n - 1] ELSE Append(f[n - 1], s[n])
    <3> SUFFICES ASSUME NEW n \in 0..Len(s)
                 PROVE  f[n] = IF n = 0 THEN <<>>
                               ELSE IF \E m \in 1 .. n - 1 : s[m] = s[n] THEN f[n - 1]
                                    ELSE Append(f[n - 1], s[n])
      OBVIOUS
    <3>1. n # 0 => n \in 1..Len(s)
      BY <1>0
    <3> QED BY <3>1, <1>a, <1>b DEF Earlier
  <2>2. f = [n \in 0..Len(s) |-> f[n]]
    OBVIOUS
  <2> QED BY <2>1, <2>2
<1>2. Def(of)
  <2> HIDE DEF Def
  <2> QED BY <1>1
<1> HIDE DEF of
<1>3. \A n \in 0..Len(s) : of[n] = [k \in 0..Len(s) |->
             IF k = 0 THEN <<>>
             ELSE IF \E m \in 1 .. k - 1 : s[m] = s[k] THEN of[k - 1] ELSE Append(of[k - 1], s[k])][n]
  BY <1>2
<1>4. of[0] = <<>> /\ \A n \in 1..Len(s) :
        of[n] = IF Earlier(s, n) THEN of[n - 1] ELSE Append(of[n - 1], s[n])
  BY <1>0, <1>3 DEF Earlier
<1> DEFINE Z == {k \in Nat : k <= Len(s) => of[k] = f[k]}
<1>5. 0 \in Z
  BY <1>4, <1>b
<1>6. ASSUME NEW k \in Z PROVE k + 1 \in Z
  <2> SUFFICES ASSUME k + 1 <= Len(s) PROVE of[k + 1] = f[k + 1]
    OBVIOUS
  <2>1. k + 1 \in 1..Len(s) /\ of[k] = f[k] /\ (k + 1) - 1 = k
    BY <1>0
  <2> QED BY <2>1, <1>4, <1>a
<1>7. Z = Nat
  <2> HIDE DEF Z
  <2>1. Z \subseteq Nat BY DEF Z
  <2> QED BY <1>5, <1>6, <2>1, SetInduction
<1>8. of[Len(s)] = f[Len(s)]
  BY <1>0, <1>7
<1>9. Distinct(s) = of[Len(s)]
  BY DEF Distinct, of
<1> QED BY <1>8, <1>9

(* There is that function.                                                 *)
LEMMA DistinctBuilt ==
  ASSUME NEW S, NEW s \in Seq(S)
  PROVE  /\ \E f \in [0..Len(s) -> Seq(S)] : Recursion(Len(s), <<>>, DistinctStep(s, S), f)
         /\ Distinct(s) \in Seq(S)
<1>1. Len(s) \in Nat /\ <<>> \in Seq(S)
  OBVIOUS
<1>2. DistinctStep(s, S) \in [(1..Len(s)) \X Seq(S) -> Seq(S)]
  BY DEF DistinctStep
<1>3. PICK f \in [0..Len(s) -> Seq(S)] : Recursion(Len(s), <<>>, DistinctStep(s, S), f)
  <2> DEFINE st == DistinctStep(s, S)
             V == Seq(S)
             n == Len(s)
  <2>1. st \in [(1..n) \X V -> V] /\ n \in Nat /\ <<>> \in V
    BY <1>1, <1>2
  <2> HIDE DEF st, V, n
  <2>2. \E f \in [0..n -> V] : Recursion(n, <<>>, st, f)
    BY <2>1, RecursionExists
  <2> QED BY <2>2 DEF st, V, n
<1>4. Distinct(s) = f[Len(s)]
  BY <1>3, DistinctIs
<1> QED BY <1>1, <1>3, <1>4

(* Nothing is distinct in nothing.                                         *)
LEMMA DistinctEmpty == Distinct(<<>>) = <<>>
<1>1. <<>> \in Seq({}) /\ Len(<<>>) = 0
  OBVIOUS
<1>2. PICK f \in [0..Len(<<>>) -> Seq({})] : Recursion(Len(<<>>), <<>>, DistinctStep(<<>>, {}), f)
  BY <1>1, DistinctBuilt
<1>3. Distinct(<<>>) = f[Len(<<>>)]
  BY <1>1, <1>2, DistinctIs
<1> QED BY <1>1, <1>2, <1>3 DEF Recursion

(* An element more counts if it is new.                                    *)
LEMMA DistinctAppend ==
  ASSUME NEW S, NEW s \in Seq(S), NEW e \in S
  PROVE  Distinct(Append(s, e)) =
           IF e \in ToSet(s) THEN Distinct(s) ELSE Append(Distinct(s), e)
<1> DEFINE t == Append(s, e)
<1>1. t \in Seq(S) /\ Len(t) = Len(s) + 1 /\ t[Len(t)] = e /\ Len(s) \in Nat
      /\ \A n \in 1..Len(s) : t[n] = s[n]
  OBVIOUS
<1>2. PICK f \in [0..Len(t) -> Seq(S)] : Recursion(Len(t), <<>>, DistinctStep(t, S), f)
  BY <1>1, DistinctBuilt
<1>3. Distinct(t) = f[Len(t)]
  BY <1>1, <1>2, DistinctIs
<1> HIDE DEF t
<1> DEFINE g == [n \in 0..Len(s) |-> f[n]]
<1>4. g \in [0..Len(s) -> Seq(S)] /\ \A n \in 0..Len(s) : g[n] = f[n]
  BY <1>1
<1> HIDE DEF g
<1>5. ASSUME NEW n \in 1..Len(s) PROVE g[n] = DistinctStep(s, S)[<<n, g[n - 1]>>]
  <2>1. n \in 1..Len(t) /\ n - 1 \in 0..Len(s) /\ n - 1 \in 0..Len(t) /\ n \in 0..Len(s)
    BY <1>1
  <2>2. f[n] = DistinctStep(t, S)[<<n, f[n - 1]>>] /\ f[n - 1] \in Seq(S)
    BY <1>2, <2>1 DEF Recursion
  <2>3. Earlier(t, n) <=> Earlier(s, n)
    <3>1. \A m \in 1 .. n - 1 : m \in 1..Len(s)
      BY <1>1
    <3> QED BY <1>1, <3>1 DEF Earlier
  <2>4. f[n] = IF Earlier(t, n) THEN f[n - 1] ELSE Append(f[n - 1], t[n])
    BY <2>1, <2>2 DEF DistinctStep
  <2>5. DistinctStep(s, S)[<<n, f[n - 1]>>] = IF Earlier(s, n) THEN f[n - 1] ELSE Append(f[n - 1], s[n])
    BY <2>2 DEF DistinctStep
  <2>6. t[n] = s[n] /\ g[n] = f[n] /\ g[n - 1] = f[n - 1]
    BY <1>1, <1>4, <2>1
  <2> QED BY <2>3, <2>4, <2>5, <2>6
<1>6. Recursion(Len(s), <<>>, DistinctStep(s, S), g)
  <2>1. 0 \in 0..Len(s) /\ f[0] = <<>>
    BY <1>1, <1>2 DEF Recursion
  <2> QED BY <1>4, <1>5, <2>1 DEF Recursion
<1>7. Distinct(s) = f[Len(s)]
  <2>1. Distinct(s) = g[Len(s)]
    BY <1>4, <1>6, DistinctIs
  <2>2. Len(s) \in 0..Len(s)
    BY <1>1
  <2> QED BY <1>4, <2>1, <2>2
<1>8. f[Len(t)] = IF Earlier(t, Len(t)) THEN f[Len(s)] ELSE Append(f[Len(s)], e)
  <2>1. Len(t) \in 1..Len(t) /\ Len(t) - 1 = Len(s) /\ Len(s) \in 0..Len(t)
    BY <1>1
  <2>2. f[Len(t)] = DistinctStep(t, S)[<<Len(t), f[Len(s)]>>] /\ f[Len(s)] \in Seq(S)
    BY <1>2, <2>1 DEF Recursion
  <2> QED BY <1>1, <2>1, <2>2 DEF DistinctStep
<1>9. Earlier(t, Len(t)) <=> e \in ToSet(s)
  <2>1. Len(t) - 1 = Len(s) /\ DOMAIN s = 1..Len(s)
    BY <1>1
  <2> QED BY <1>1, <2>1 DEF Earlier, ToSet
<1> QED BY <1>3, <1>7, <1>8, <1>9 DEF t

(* Its elements are those of the sequence, and as many.                    *)
LEMMA DistinctMembers ==
  ASSUME NEW S, NEW s \in Seq(S)
  PROVE  /\ ToSet(Distinct(s)) = ToSet(s)
         /\ IsFiniteSet(ToSet(s)) /\ Cardinality(ToSet(s)) = Len(Distinct(s))
<1> DEFINE Z == {u \in Seq(S) : /\ ToSet(Distinct(u)) = ToSet(u)
                                /\ IsFiniteSet(ToSet(u))
                                /\ Cardinality(ToSet(u)) = Len(Distinct(u))}
<1>1. <<>> \in Z
  <2>1. ToSet(<<>>) = {} /\ Len(<<>>) = 0 /\ <<>> \in Seq(S)
    BY DEF ToSet
  <2> QED BY <2>1, DistinctEmpty, FS_EmptySet
<1>2. ASSUME NEW u \in Seq(S), u \in Z, NEW e \in S PROVE Append(u, e) \in Z
  <2>1. ToSet(Append(u, e)) = ToSet(u) \union {e} /\ Append(u, e) \in Seq(S)
    BY SetOfAppend
  <2>2. Distinct(u) \in Seq(S)
    BY DistinctBuilt
  <2>3. Distinct(Append(u, e)) = IF e \in ToSet(u) THEN Distinct(u) ELSE Append(Distinct(u), e)
    BY DistinctAppend
  <2>4. /\ ToSet(Distinct(u)) = ToSet(u) /\ IsFiniteSet(ToSet(u))
        /\ Cardinality(ToSet(u)) = Len(Distinct(u))
    BY <1>2
  <2>5. CASE e \in ToSet(u)
    <3>1. ToSet(u) \union {e} = ToSet(u)
      BY <2>5
    <3> QED BY <2>1, <2>3, <2>4, <2>5, <3>1
  <2>6. CASE e \notin ToSet(u)
    <3> DEFINE d == Distinct(u)
    <3>0. d \in Seq(S)
      BY <2>2
    <3> HIDE DEF d
    <3>1. ToSet(Append(d, e)) = ToSet(d) \union {e} /\ Len(Append(d, e)) = Len(d) + 1
      BY <3>0, SetOfAppend
    <3>2. IsFiniteSet(ToSet(u) \union {e}) /\ Cardinality(ToSet(u) \union {e}) = Cardinality(ToSet(u)) + 1
      BY <2>4, <2>6, FS_AddElement
    <3> QED BY <2>1, <2>3, <2>4, <2>6, <3>1, <3>2 DEF d
  <2> QED BY <2>5, <2>6
<1>3. Seq(S) \subseteq Z
  <2> HIDE DEF Z
  <2> QED BY <1>1, <1>2, SequenceInduction
<1> QED BY <1>3

(* What follows does not depend on repetitions in what precedes.           *)
LEMMA DistinctSame ==
  ASSUME NEW S, NEW s \in Seq(S), NEW t \in Seq(S), NEW u \in Seq(S), Distinct(s) = Distinct(t)
  PROVE  Distinct(s \o u) = Distinct(t \o u)
<1> DEFINE Z == {v \in Seq(S) : Distinct(s \o v) = Distinct(t \o v)}
<1>1. <<>> \in Z
  <2>1. s \o <<>> = s /\ t \o <<>> = t /\ <<>> \in Seq(S)
    OBVIOUS
  <2> QED BY <2>1
<1>2. ASSUME NEW v \in Seq(S), v \in Z, NEW e \in S PROVE Append(v, e) \in Z
  <2>1. s \o Append(v, e) = Append(s \o v, e) /\ t \o Append(v, e) = Append(t \o v, e)
        /\ s \o v \in Seq(S) /\ t \o v \in Seq(S) /\ Append(v, e) \in Seq(S)
    BY ConcatAppend
  <2> DEFINE a == s \o v
             b == t \o v
  <2>2. a \in Seq(S) /\ b \in Seq(S) /\ Distinct(a) = Distinct(b)
    BY <1>2, <2>1
  <2> HIDE DEF a, b
  <2>3. ToSet(a) = ToSet(b)
    BY <2>2, DistinctMembers
  <2>a. Distinct(Append(a, e)) = IF e \in ToSet(a) THEN Distinct(a) ELSE Append(Distinct(a), e)
    BY <2>2, DistinctAppend
  <2>b. Distinct(Append(b, e)) = IF e \in ToSet(b) THEN Distinct(b) ELSE Append(Distinct(b), e)
    BY <2>2, DistinctAppend
  <2>4. Distinct(Append(a, e)) = Distinct(Append(b, e))
    BY <2>2, <2>3, <2>a, <2>b
  <2> QED BY <2>1, <2>4 DEF a, b
<1>3. Seq(S) \subseteq Z
  <2> HIDE DEF Z
  <2> QED BY <1>1, <1>2, SequenceInduction
<1> QED BY <1>3

(* Repeating elements changes nothing.                                     *)
LEMMA DistinctRepeat ==
  ASSUME NEW S, NEW s \in Seq(S), NEW t \in Seq(S), ToSet(t) \subseteq ToSet(s)
  PROVE  Distinct(s \o t) = Distinct(s)
<1> DEFINE Z == {v \in Seq(S) : ToSet(v) \subseteq ToSet(s) => Distinct(s \o v) = Distinct(s)}
<1>1. <<>> \in Z
  <2>1. s \o <<>> = s /\ <<>> \in Seq(S)
    OBVIOUS
  <2> QED BY <2>1
<1>2. ASSUME NEW v \in Seq(S), v \in Z, NEW e \in S PROVE Append(v, e) \in Z
  <2>1. s \o Append(v, e) = Append(s \o v, e) /\ s \o v \in Seq(S) /\ Append(v, e) \in Seq(S)
    BY ConcatAppend
  <2>2. ToSet(Append(v, e)) = ToSet(v) \union {e}
    BY SetOfAppend
  <2>3. ToSet(s \o v) = ToSet(s) \union ToSet(v)
    BY SetOfConcat
  <2> SUFFICES ASSUME ToSet(Append(v, e)) \subseteq ToSet(s)
               PROVE  Distinct(Append(s \o v, e)) = Distinct(s)
    BY <2>1
  <2>4. Distinct(s \o v) = Distinct(s) /\ e \in ToSet(s \o v)
    BY <1>2, <2>2, <2>3
  <2> DEFINE a == s \o v
  <2>5. a \in Seq(S) /\ Distinct(a) = Distinct(s) /\ e \in ToSet(a)
    BY <2>1, <2>4
  <2> HIDE DEF a
  <2>6. Distinct(Append(a, e)) = Distinct(a)
    BY <2>5, DistinctAppend
  <2> QED BY <2>5, <2>6 DEF a
<1>3. Seq(S) \subseteq Z
  <2> HIDE DEF Z
  <2> QED BY <1>1, <1>2, SequenceInduction
<1> QED BY <1>3

(* IsPrefix, by positions.                                                 *)
LEMMA PrefixOfConcat ==
  ASSUME NEW S, NEW s \in Seq(S), NEW t \in Seq(S)
  PROVE  IsPrefix(s, s \o t)
BY DEF IsPrefix

(* One more element keeps a beginning a beginning.                          *)
LEMMA PrefixTransitive ==
  ASSUME NEW S, NEW s \in Seq(S), NEW t \in Seq(S), NEW e \in S, IsPrefix(s, t)
  PROVE  IsPrefix(s, Append(t, e))
BY DEF IsPrefix

(* More elements prolong what is distinct.                                 *)
LEMMA DistinctPrefix ==
  ASSUME NEW S, NEW s \in Seq(S), NEW t \in Seq(S)
  PROVE  IsPrefix(Distinct(s), Distinct(s \o t))
<1> DEFINE Z == {v \in Seq(S) : IsPrefix(Distinct(s), Distinct(s \o v))}
<1>0. Distinct(s) \in Seq(S)
  BY DistinctBuilt
<1>1. <<>> \in Z
  <2>1. s \o <<>> = s /\ <<>> \in Seq(S)
    OBVIOUS
  <2>2. IsPrefix(Distinct(s), Distinct(s))
    BY <1>0 DEF IsPrefix
  <2> QED BY <2>1, <2>2
<1>2. ASSUME NEW v \in Seq(S), v \in Z, NEW e \in S PROVE Append(v, e) \in Z
  <2>1. s \o Append(v, e) = Append(s \o v, e) /\ s \o v \in Seq(S) /\ Append(v, e) \in Seq(S)
    BY ConcatAppend
  <2> DEFINE a == s \o v
             b == Distinct(a)
             d == Distinct(s)
  <2>2. a \in Seq(S) /\ b \in Seq(S) /\ d \in Seq(S) /\ IsPrefix(d, b)
    BY <1>0, <1>2, <2>1, DistinctBuilt
  <2> HIDE DEF a
  <2>3. Distinct(Append(a, e)) \in {b, Append(b, e)}
    BY <2>2, DistinctAppend
  <2> HIDE DEF b, d
  <2>4. IsPrefix(d, Append(b, e))
    BY <2>2, PrefixTransitive
  <2> QED BY <2>1, <2>2, <2>3, <2>4 DEF a, d
<1>3. Seq(S) \subseteq Z
  <2> HIDE DEF Z
  <2> QED BY <1>1, <1>2, SequenceInduction
<1> QED BY <1>3

-----------------------------------------------------------------------------

(* Entries, headers and lines that cannot be read.                          *)
Unread == {Malformed, Glued}
Line   == FileEntry \union Unread

(* What a line can be: a header and an entry with an id can be read, the    *)
(* others cannot.                                                           *)
LEMMA Lines ==
  /\ Header \in FileEntry /\ Header \notin SessionEntry /\ Header.id = 0 /\ Header.kind = "session"
  /\ Malformed \notin FileEntry /\ Glued \notin FileEntry /\ Malformed # Glued
  /\ Malformed.id = 0 /\ Glued.id = 0
  /\ SessionEntry \subseteq FileEntry
  /\ \A e \in SessionEntry : e.id \in Id /\ e.id \in Nat /\ e.id # 0 /\ e.parentId \in Nat
                             /\ e.target \in 0 .. MaxEntries
  /\ \A e \in FileEntry : e \in SessionEntry <=> e.id # 0
<1> USE ManagerAssumption DEF Header, Malformed, Glued, Entry, FileEntry, SessionEntry, EntryKind, Id
<1>1. /\ Header.id = 0 /\ Header.kind = "session"
      /\ Malformed.id = 0 /\ Malformed.kind = "malformed" /\ Glued.id = 0 /\ Glued.kind = "glued"
  OBVIOUS
<1>2. \A e \in SessionEntry : e.id \in Id /\ e.id \in Nat /\ e.id # 0 /\ e.parentId \in Nat
                             /\ e.target \in 0 .. MaxEntries /\ e.kind \in EntryKind
  OBVIOUS
<1>3. Header \notin SessionEntry
  BY <1>1, <1>2
<1>4. Malformed \notin FileEntry
  <2>1. Malformed \notin SessionEntry
    BY <1>1, <1>2
  <2>2. Malformed # Header
    BY <1>1
  <2> QED BY <2>1, <2>2
<1>5. Glued \notin FileEntry
  <2>1. Glued \notin SessionEntry
    BY <1>1, <1>2
  <2>2. Glued # Header
    BY <1>1
  <2> QED BY <2>1, <2>2
<1>6. Malformed # Glued
  BY <1>1
<1> QED BY <1>1, <1>2, <1>3, <1>4, <1>5, <1>6

(* An entry that is made has the fields it is made of.                      *)
LEMMA NewEntryType ==
  ASSUME NEW k \in EntryKind, NEW i \in Id, NEW p \in 0 .. MaxEntries, NEW t \in 0 .. MaxEntries,
         NEW b \in BOOLEAN
  PROVE  /\ Entry(k, i, p, t, b) \in SessionEntry
         /\ Entry(k, i, p, t, b).id = i /\ Entry(k, i, p, t, b).kind = k
         /\ Entry(k, i, p, t, b).parentId = p /\ Entry(k, i, p, t, b).target = t
         /\ Entry(k, i, p, t, b).set = b
BY DEF Entry, SessionEntry

-----------------------------------------------------------------------------
(* The last element of a sequence, and the rest.                           *)
LEMMA FrontLast ==
  ASSUME NEW S, NEW s \in Seq(S), s # <<>>
  PROVE  /\ Front(s) \in Seq(S) /\ Last(s) \in S /\ s = Append(Front(s), Last(s))
         /\ Last(s) \in ToSet(s)
<1>1. Len(s) \in Nat \ {0}
  OBVIOUS
<1> QED BY <1>1 DEF Front, Last, ToSet

(* What is appended is last.                                                *)
LEMMA LastOfAppend ==
  ASSUME NEW S, NEW s \in Seq(S), NEW e \in S
  PROVE  Last(Append(s, e)) = e
BY DEF Last

(* A sequence that is not empty is its head before its tail.                *)
LEMMA HeadTail ==
  ASSUME NEW S, NEW s \in Seq(S), s # <<>>
  PROVE  /\ Head(s) \in S /\ Tail(s) \in Seq(S) /\ s = <<Head(s)>> \o Tail(s)
         /\ Head(s) = s[1] /\ Head(s) \in ToSet(s)
         /\ ToSet(s) = {Head(s)} \union ToSet(Tail(s))
<1>1. Len(s) \in Nat \ {0}
  OBVIOUS
<1>2. Head(s) \in S /\ Tail(s) \in Seq(S) /\ s = <<Head(s)>> \o Tail(s) /\ Head(s) = s[1]
  BY <1>1
<1>3. ToSet(<<Head(s)>>) = {Head(s)}
  BY DEF ToSet
<1> DEFINE a == <<Head(s)>>
           b == Tail(s)
<1>4. a \in Seq(S) /\ b \in Seq(S) /\ s = a \o b /\ ToSet(a) = {Head(s)}
  BY <1>2, <1>3
<1> HIDE DEF a, b
<1>5. ToSet(a \o b) = ToSet(a) \union ToSet(b)
  BY <1>4, SetOfConcat
<1> QED BY <1>2, <1>4, <1>5 DEF b

-----------------------------------------------------------------------------
(* Loading.                                                                *)
LEMMA LoadType ==
  ASSUME NEW ls \in Seq(Line)
  PROVE  /\ Load(ls) \in Seq(FileEntry) /\ ToSet(Load(ls)) \subseteq ToSet(ls)
         /\ Load(ls) # <<>> => Load(ls)[1] = Header
<1> DEFINE es == Only(ls, FileEntry)
<1>1. es \in Seq(Line) /\ ToSet(es) = ToSet(ls) \intersect FileEntry
  BY OnlyType, OnlyMembers
<1> HIDE DEF es
<1>2. es \in Seq(FileEntry)
  BY <1>1, OfMembers
<1>3. Load(ls) = IF es # <<>> /\ es[1] = Header THEN es ELSE <<>>
  BY DEF Load, es
<1>4. ToSet(<<>>) = {}
  BY DEF ToSet
<1> QED BY <1>1, <1>2, <1>3, <1>4

(* An empty file says nothing.                                              *)
LEMMA LoadNothing == Load(<<>>) = <<>> /\ Damage(<<>>) = 0
<1>1. Only(<<>>, {Malformed}) = <<>> /\ Only(<<>>, {Glued}) = <<>> /\ Only(<<>>, FileEntry) = <<>>
  BY OnlyEmpty
<1>2. Len(<<>>) = 0
  OBVIOUS
<1> QED BY <1>1, <1>2 DEF Load, Damage

(* What a file says is a beginning of what it says with more lines.        *)
LEMMA LoadPrefix ==
  ASSUME NEW s \in Seq(Line), NEW t \in Seq(Line)
  PROVE  IsPrefix(Load(s), Load(s \o t))
<1> DEFINE a == Only(s, FileEntry)
           b == Only(t, FileEntry)
<1>0. Only(s, FileEntry) \in Seq(Line) /\ Only(t, FileEntry) \in Seq(Line)
  BY OnlyType
<1>1. a \in Seq(Line) /\ b \in Seq(Line) /\ Only(s \o t, FileEntry) = a \o b
  BY <1>0, OnlyConcat
<1>2. Load(s) = IF a # <<>> /\ a[1] = Header THEN a ELSE <<>>
  BY DEF Load
<1>3. Load(s \o t) = IF a \o b # <<>> /\ (a \o b)[1] = Header THEN a \o b ELSE <<>>
  BY <1>1 DEF Load
<1>4. Load(s \o t) \in Seq(FileEntry)
  <2>1. s \o t \in Seq(Line)
    OBVIOUS
  <2> QED BY <2>1, LoadType
<1> HIDE DEF a, b
<1>5. CASE a # <<>> /\ a[1] = Header
  <2>1. a \o b # <<>> /\ (a \o b)[1] = a[1]
    <3>1. Len(a) \in Nat \ {0} /\ Len(b) \in Nat /\ Len(<<>>) = 0
      BY <1>1, <1>5
    <3>2. Len(a \o b) = Len(a) + Len(b)
      BY <1>1, ConcatProperties
    <3>3. (a \o b)[1] = a[1]
      BY <1>1, <3>1, ConcatProperties
    <3> QED BY <3>1, <3>2, <3>3
  <2>2. Load(s) = a /\ Load(s \o t) = a \o b
    BY <1>2, <1>3, <1>5, <2>1
  <2> QED BY <1>1, <2>2, PrefixOfConcat
<1>6. CASE ~(a # <<>> /\ a[1] = Header)
  BY <1>2, <1>4, <1>6 DEF IsPrefix
<1> QED BY <1>5, <1>6

(* Damage is counted line by line.                                         *)
LEMMA DamageConcat ==
  ASSUME NEW s \in Seq(Line), NEW t \in Seq(Line)
  PROVE  Damage(s \o t) = Damage(s) + Damage(t) /\ Damage(s) \in Nat /\ Damage(t) \in Nat
<1> DEFINE M(u) == Only(u, {Malformed})
           G(u) == Only(u, {Glued})
<1>1. /\ M(s) \in Seq(Line) /\ M(t) \in Seq(Line) /\ M(s \o t) = M(s) \o M(t)
      /\ G(s) \in Seq(Line) /\ G(t) \in Seq(Line) /\ G(s \o t) = G(s) \o G(t)
  <2>1. M(s) \in Seq(Line) /\ M(t) \in Seq(Line) /\ G(s) \in Seq(Line) /\ G(t) \in Seq(Line)
    BY OnlyType
  <2>2. M(s \o t) = M(s) \o M(t)
    BY OnlyConcat
  <2>3. G(s \o t) = G(s) \o G(t)
    BY OnlyConcat
  <2> QED BY <2>1, <2>2, <2>3
<1>2. /\ Damage(s) = Len(M(s)) + 2 * Len(G(s)) /\ Damage(t) = Len(M(t)) + 2 * Len(G(t))
      /\ Damage(s \o t) = Len(M(s \o t)) + 2 * Len(G(s \o t))
  BY DEF Damage
<1> HIDE DEF M, G
<1>3. Len(M(s \o t)) = Len(M(s)) + Len(M(t)) /\ Len(G(s \o t)) = Len(G(s)) + Len(G(t))
  BY <1>1, ConcatProperties
<1>4. Len(M(s)) \in Nat /\ Len(M(t)) \in Nat /\ Len(G(s)) \in Nat /\ Len(G(t)) \in Nat
  BY <1>1
<1> QED BY <1>2, <1>3, <1>4

(* A line that does not parse costs an entry, a glued one two.              *)
LEMMA DamageAppend ==
  ASSUME NEW s \in Seq(Line), NEW x \in Line
  PROVE  /\ Damage(s) \in Nat
         /\ Damage(Append(s, x))
              = Damage(s) + (IF x = Malformed THEN 1 ELSE IF x = Glued THEN 2 ELSE 0)
<1>1. /\ Only(s, {Malformed}) \in Seq(Line) /\ Only(s, {Glued}) \in Seq(Line)
      /\ Only(Append(s, x), {Malformed})
           = IF x = Malformed THEN Append(Only(s, {Malformed}), x) ELSE Only(s, {Malformed})
      /\ Only(Append(s, x), {Glued})
           = IF x = Glued THEN Append(Only(s, {Glued}), x) ELSE Only(s, {Glued})
  BY OnlyType, OnlyAppend
<1> DEFINE a == Only(s, {Malformed})
           b == Only(s, {Glued})
<1>2. /\ a \in Seq(Line) /\ b \in Seq(Line) /\ Damage(s) = Len(a) + 2 * Len(b)
      /\ Damage(Append(s, x)) = Len(IF x = Malformed THEN Append(a, x) ELSE a)
                                + 2 * Len(IF x = Glued THEN Append(b, x) ELSE b)
  BY <1>1 DEF Damage
<1> HIDE DEF a, b
<1>3. Len(Append(a, x)) = Len(a) + 1 /\ Len(Append(b, x)) = Len(b) + 1
      /\ Len(a) \in Nat /\ Len(b) \in Nat
  BY <1>2
<1>4. Malformed # Glued
  BY Lines
<1> DEFINE cost == IF x = Malformed THEN 1 ELSE IF x = Glued THEN 2 ELSE 0
           d    == Damage(s)
           e    == Damage(Append(s, x))
<1> SUFFICES d \in Nat /\ e = d + cost
  OBVIOUS
<1>5. CASE x = Malformed
  <2>1. Damage(Append(s, x)) = Len(a) + 1 + 2 * Len(b)
    BY <1>2, <1>3, <1>4, <1>5
  <2>2. d = Len(a) + 2 * Len(b) /\ e = Len(a) + 1 + 2 * Len(b) /\ cost = 1
    BY <1>2, <1>5, <2>1
  <2> HIDE DEF d, e, cost
  <2> QED BY <1>3, <2>2
<1>6. CASE x = Glued
  <2>1. Damage(Append(s, x)) = Len(a) + 2 * (Len(b) + 1)
    BY <1>2, <1>3, <1>4, <1>6
  <2>2. d = Len(a) + 2 * Len(b) /\ e = Len(a) + 2 * (Len(b) + 1) /\ cost = 2
    BY <1>2, <1>4, <1>6, <2>1
  <2> HIDE DEF d, e, cost
  <2> QED BY <1>3, <2>2
<1>7. CASE x # Malformed /\ x # Glued
  <2>1. d = Len(a) + 2 * Len(b) /\ e = Len(a) + 2 * Len(b) /\ cost = 0
    BY <1>2, <1>7
  <2> HIDE DEF d, e, cost
  <2> QED BY <1>3, <2>1
<1> QED BY <1>5, <1>6, <1>7

(* Without damage every line can be read.                                  *)
LEMMA DamageNone ==
  ASSUME NEW s \in Seq(Line), Damage(s) = 0
  PROVE  s \in Seq(FileEntry)
<1> DEFINE a == Only(s, {Malformed})
           b == Only(s, {Glued})
<1>1. a \in Seq(Line) /\ b \in Seq(Line)
      /\ ToSet(a) = ToSet(s) \intersect {Malformed} /\ ToSet(b) = ToSet(s) \intersect {Glued}
  BY OnlyType, OnlyMembers
<1>2. Len(a) + 2 * Len(b) = 0
  BY DEF Damage
<1> HIDE DEF a, b
<1>3. Len(a) = 0 /\ Len(b) = 0
  BY <1>1, <1>2
<1>4. ToSet(a) = {} /\ ToSet(b) = {}
  BY <1>1, <1>3 DEF ToSet
<1>5. ToSet(s) \subseteq Line
  BY DEF ToSet
<1>6. ToSet(s) \subseteq FileEntry
  BY <1>1, <1>4, <1>5 DEF Line, Unread
<1> QED BY <1>6, OfMembers

(* A file without damage says all of its lines.                            *)
LEMMA LoadWhole ==
  ASSUME NEW s \in Seq(Line), Damage(s) = 0, s # <<>> => s[1] = Header
  PROVE  Load(s) = s /\ s \in Seq(FileEntry)
<1>1. s \in Seq(FileEntry)
  BY DamageNone
<1>2. \A n \in 1..Len(s) : s[n] \in FileEntry
  BY <1>1
<1>3. Only(s, FileEntry) = s
  BY <1>2, OnlyAll
<1> QED BY <1>1, <1>3 DEF Load

-----------------------------------------------------------------------------
(* Writing.  The first line goes on where the file ends: after its last    *)
(* line, or on it when that one has no newline.  Then the two cost what a   *)
(* glued line costs, or no more than what was lost already.                *)
GoesOn(ls, ended, x, a) ==
  /\ a \in Seq(Line) /\ a # <<>> /\ ToSet(a) \subseteq ToSet(ls) \union {x} \union Unread
  /\ ended => a = Append(ls, x) /\ ToSet(a) = ToSet(ls) \union {x} /\ Last(a) = x
  /\ ended /\ x = Malformed => Damage(a) = Damage(ls) + 1
  /\ ended /\ x # Malformed => Damage(a) = Damage(ls)
  /\ ~ended /\ Last(ls) \in FileEntry =>
       ToSet(ls) \subseteq ToSet(a) \union {Last(ls)} /\ Damage(a) = Damage(ls) + 2
  /\ ~ended /\ Last(ls) \notin FileEntry => a = ls /\ Damage(a) >= 1
  /\ \E b \in Seq(Line), y \in Line :
       a = Append(b, y) /\ (ended => b = ls) /\ (~ended => b = Front(ls))
LEMMA AppendLineIs ==
  ASSUME NEW ls \in Seq(Line), NEW x \in FileEntry \union {Malformed}, NEW ended \in BOOLEAN,
         ls = <<>> => ended
  PROVE  GoesOn(ls, ended, x, AppendLine(ls, ended, x))
<1> DEFINE a == AppendLine(ls, ended, x)
<1>0. /\ Malformed \in Line /\ Glued \in Line /\ x \in Line /\ Malformed # Glued /\ x # Glued
      /\ Malformed \notin FileEntry /\ Glued \notin FileEntry
      /\ Malformed \in Unread /\ Glued \in Unread
  BY Lines DEF Line, Unread
<1>1. CASE ended
  <2>1. a = Append(ls, x)
    BY <1>1 DEF AppendLine
  <2> HIDE DEF a
  <2>2. Append(ls, x) \in Seq(Line) /\ ToSet(Append(ls, x)) = ToSet(ls) \union {x}
    BY <1>0, SetOfAppend
  <2>3. Append(ls, x) # <<>> /\ Last(Append(ls, x)) = x
    BY <1>0, LastOfAppend
  <2>4. /\ x = Malformed => Damage(Append(ls, x)) = Damage(ls) + 1
        /\ x # Malformed => Damage(Append(ls, x)) = Damage(ls)
    BY <1>0, DamageAppend
  <2> QED BY <1>0, <1>1, <2>1, <2>2, <2>3, <2>4 DEF GoesOn, a
<1>2. CASE ~ended
  <2> DEFINE f == Front(ls)
             l == Last(ls)
             y == IF l = Malformed THEN Malformed ELSE Glued
  <2>1. f \in Seq(Line) /\ l \in Line /\ ls = Append(f, l)
    BY <1>2, FrontLast
  <2>2. a = Append(f, y)
    BY <1>2 DEF AppendLine
  <2>3. y \in Line /\ y \in Unread
    BY <1>0
  <2>4. l \in FileEntry => y = Glued /\ l # Malformed /\ l # Glued
    BY <1>0
  <2>5. l \notin FileEntry => y = l
    BY <2>1 DEF Line, Unread
  <2> HIDE DEF f, l, y, a
  <2>6. Append(f, y) \in Seq(Line) /\ ToSet(Append(f, y)) = ToSet(f) \union {y} /\ Append(f, y) # <<>>
    BY <2>1, <2>3, SetOfAppend
  <2>7. ToSet(ls) = ToSet(f) \union {l}
    BY <2>1, SetOfAppend
  <2>8. /\ Damage(f) \in Nat
        /\ Damage(ls) = Damage(f) + (IF l = Malformed THEN 1 ELSE IF l = Glued THEN 2 ELSE 0)
        /\ Damage(a) = Damage(f) + (IF y = Malformed THEN 1 ELSE IF y = Glued THEN 2 ELSE 0)
    BY <2>1, <2>2, <2>3, DamageAppend
  <2>9. l \in FileEntry => Damage(a) = Damage(ls) + 2
    BY <1>0, <2>4, <2>8
  <2>10. Damage(a) >= 1
    <3>1. y = Malformed \/ y = Glued
      BY <2>3 DEF Unread
    <3> QED BY <1>0, <2>8, <3>1
  <2>11. l \notin FileEntry => a = ls
    BY <2>1, <2>2, <2>5
  <2> QED BY <1>2, <2>1, <2>2, <2>3, <2>6, <2>7, <2>9, <2>10, <2>11 DEF GoesOn, a, f, l
<1> QED BY <1>1, <1>2

(* Lines reach a file: what it says with newlines it still says, and       *)
(* without damage they all do.                                             *)
Extends(ls, ended, new, r) ==
  /\ r \in Seq(Line) /\ ToSet(r) \subseteq ToSet(ls) \union ToSet(new) \union Unread
  /\ new = <<>> => r = ls
  /\ new # <<>> \/ ls # <<>> => r # <<>>
  /\ Damage(r) = 0 => r = ls \o new /\ Damage(ls) = 0 /\ new \in Seq(FileEntry)
  /\ ended => IsPrefix(Load(ls), Load(r))
  /\ ~ended => IsPrefix(Load(Front(ls)), Load(r))
LEMMA AppendLinesIs ==
  ASSUME NEW ls \in Seq(Line), NEW new \in Seq(FileEntry \union {Malformed}), NEW ended \in BOOLEAN,
         ls = <<>> => ended, NEW r, r = AppendLines(ls, ended, new)
  PROVE  Extends(ls, ended, new, r)
<1> USE DEF Extends
<1>0. new \in Seq(Line)
  BY DEF Line, Unread
<1>1. CASE new = <<>>
  <2>1. r = ls /\ ls \o new = ls
    BY <1>1 DEF AppendLines
  <2>2. (ended => IsPrefix(Load(ls), Load(ls))) /\ (~ended => IsPrefix(Load(Front(ls)), Load(ls)))
    <3>1. CASE ended
      <4>1. IsPrefix(Load(ls), Load(ls \o new))
        BY <1>0, LoadPrefix
      <4> QED BY <2>1, <3>1, <4>1
    <3>2. CASE ~ended
      <4> DEFINE f == Front(ls)
                 t == <<Last(ls)>>
      <4>1. f \in Seq(Line) /\ t \in Seq(Line) /\ ls = f \o t
        <5>1. Front(ls) \in Seq(Line) /\ Last(ls) \in Line /\ ls = Append(Front(ls), Last(ls))
          BY <3>2, FrontLast
        <5>2. Append(Front(ls), Last(ls)) = Front(ls) \o <<Last(ls)>>
          BY <5>1
        <5> QED BY <5>1, <5>2
      <4> HIDE DEF f, t
      <4>2. IsPrefix(Load(f), Load(f \o t))
        BY <4>1, LoadPrefix
      <4> QED BY <3>2, <4>1, <4>2 DEF f
    <3> QED BY <3>1, <3>2
  <2> QED BY <1>1, <2>1, <2>2
<1>2. CASE new # <<>>
  <2> DEFINE h == Head(new)
             t == Tail(new)
             a == AppendLine(ls, ended, h)
  <2>1. /\ h \in FileEntry \union {Malformed} /\ t \in Seq(FileEntry \union {Malformed})
        /\ new = <<h>> \o t /\ ToSet(new) = {h} \union ToSet(t)
    BY <1>2, HeadTail
  <2>2. r = a \o t
    BY <1>2 DEF AppendLines
  <2>3. t \in Seq(Line) /\ h \in Line
    BY <2>1 DEF Line, Unread
  <2> HIDE DEF h, t
  <2>4. GoesOn(ls, ended, h, a)
    BY <2>1, AppendLineIs
  <2> HIDE DEF a
  <2>5. a \o t \in Seq(Line) /\ ToSet(a \o t) = ToSet(a) \union ToSet(t)
    <3>1. a \in Seq(Line) /\ t \in Seq(Line)
      BY <2>3, <2>4 DEF GoesOn
    <3> QED BY <3>1, SetOfConcat
  <2>6. a \o t # <<>>
    <3>1. Len(a \o t) = Len(a) + Len(t) /\ Len(a) \in Nat \ {0} /\ Len(t) \in Nat /\ Len(<<>>) = 0
      BY <2>3, <2>4 DEF GoesOn
    <3> QED BY <3>1
  <2>7. ASSUME Damage(a \o t) = 0
        PROVE  a \o t = ls \o new /\ Damage(ls) = 0 /\ new \in Seq(FileEntry)
    <3>1. Damage(a) = 0
      <4>1. Damage(a \o t) = Damage(a) + Damage(t) /\ Damage(a) \in Nat /\ Damage(t) \in Nat
        BY <2>3, <2>4, DamageConcat DEF GoesOn
      <4> QED BY <2>7, <4>1
    <3>2. Damage(ls) \in Nat
      BY <1>0, DamageConcat
    <3>3. ended
      <4> SUFFICES ASSUME ~ended PROVE FALSE
        OBVIOUS
      <4>1. CASE Last(ls) \in FileEntry
        BY <2>4, <3>1, <3>2, <4>1 DEF GoesOn
      <4>2. CASE Last(ls) \notin FileEntry
        BY <2>4, <3>1, <4>2 DEF GoesOn
      <4> QED BY <4>1, <4>2
    <3>4. a = Append(ls, h) /\ Damage(ls) = 0
      BY <2>4, <3>1, <3>2, <3>3 DEF GoesOn
    <3>5. a \o t = ls \o (<<h>> \o t)
      BY <2>3, <3>4
    <3>6. a \o t \in Seq(FileEntry)
      BY <2>5, <2>7, DamageNone
    <3>7. ToSet(new) \subseteq ToSet(a \o t)
      <4>1. ToSet(ls \o new) = ToSet(ls) \union ToSet(new)
        BY <1>0, SetOfConcat
      <4> QED BY <2>1, <3>5, <4>1
    <3>8. ToSet(a \o t) \subseteq FileEntry
      BY <3>6 DEF ToSet
    <3>9. new \in Seq(FileEntry)
      BY <1>0, <3>7, <3>8, OfMembers
    <3> QED BY <2>1, <3>4, <3>5, <3>9
  <2>8. /\ ended => IsPrefix(Load(ls), Load(a \o t))
        /\ ~ended => IsPrefix(Load(Front(ls)), Load(a \o t))
    <3>1. PICK b \in Seq(Line), y \in Line :
             a = Append(b, y) /\ (ended => b = ls) /\ (~ended => b = Front(ls))
      BY <2>4 DEF GoesOn
    <3> DEFINE u == <<y>> \o t
    <3>2. u \in Seq(Line) /\ a \o t = b \o u
      <4>1. t \in Seq(Line) /\ a = Append(b, y)
        BY <2>3, <3>1
      <4>2. Append(b, y) \o t = b \o (<<y>> \o t) /\ <<y>> \o t \in Seq(Line)
        BY <4>1
      <4> QED BY <4>1, <4>2
    <3> HIDE DEF u
    <3>3. IsPrefix(Load(b), Load(b \o u))
      BY <3>2, LoadPrefix
    <3> QED BY <3>1, <3>2, <3>3
  <2> QED BY <1>2, <2>1, <2>2, <2>4, <2>5, <2>6, <2>7, <2>8 DEF GoesOn
<1> QED BY <1>1, <1>2

-----------------------------------------------------------------------------
(* The entries of a session.                                               *)
LEMMA IdsType ==
  ASSUME NEW es \in Seq(FileEntry)
  PROVE  IdsOf(es) \subseteq Id /\ IdsOf(es) = {e.id : e \in ToSet(es)} \ {0}
<1>1. ToSet(es) \subseteq FileEntry /\ ToSet(es) = {es[p] : p \in DOMAIN es}
  BY DEF ToSet
<1>2. IdsOf(es) = {e.id : e \in ToSet(es)} \ {0}
  BY <1>1 DEF IdsOf
<1>3. ASSUME NEW e \in FileEntry, e.id # 0 PROVE e.id \in Id
  BY <1>3, Lines
<1> QED BY <1>1, <1>2, <1>3

(* An entry that is appended adds its id.                                   *)
LEMMA IdsAppend ==
  ASSUME NEW es \in Seq(FileEntry), NEW e \in SessionEntry
  PROVE  IdsOf(Append(es, e)) = IdsOf(es) \union {e.id}
<1>1. e \in FileEntry /\ e.id # 0
  BY Lines
<1>2. ToSet(Append(es, e)) = ToSet(es) \union {e} /\ Append(es, e) \in Seq(FileEntry)
  BY <1>1, SetOfAppend
<1> QED BY <1>1, <1>2, IdsType

(* The entry looked up by an id is an entry with that id.                   *)
LEMMA EntryOfType ==
  ASSUME NEW es \in Seq(FileEntry), NEW i \in IdsOf(es)
  PROVE  /\ EntryOf(es, i) \in ToSet(es) /\ EntryOf(es, i) \in SessionEntry
         /\ EntryOf(es, i).id = i
<1>1. \E p \in DOMAIN es : es[p].id = i /\ i # 0
  BY DEF IdsOf
<1>2. EntryOf(es, i) \in ToSet(es) /\ EntryOf(es, i).id = i /\ i # 0
  BY <1>1 DEF EntryOf, ToSet
<1>3. ToSet(es) \subseteq FileEntry
  BY DEF ToSet
<1> QED BY <1>2, <1>3, Lines

(* The leaf of a list of entries is one of them, or none.                   *)
LEMMA LeafType ==
  ASSUME NEW es \in Seq(FileEntry)
  PROVE  LeafOf(es) \in {0} \union IdsOf(es)
<1> DEFINE o == Own(es)
<1>1. o \in Seq(FileEntry) /\ ToSet(o) = ToSet(es) \intersect SessionEntry
  BY OnlyType, OnlyMembers DEF Own
<1>2. LeafOf(es) = IF o = <<>> THEN 0 ELSE Last(o).id
  BY DEF LeafOf
<1> HIDE DEF o
<1>3. CASE o # <<>>
  <2>1. Last(o) \in ToSet(es) /\ Last(o) \in SessionEntry
    BY <1>1, <1>3, FrontLast
  <2>2. Last(o).id # 0
    BY <2>1, Lines
  <2>3. Last(o).id \in {e.id : e \in ToSet(es)} \ {0}
    BY <2>1, <2>2
  <2> QED BY <1>2, <1>3, <2>3, IdsType
<1> QED BY <1>2, <1>3

(* Paths.                                                                  *)
Upwards(es) == \A e \in ToSet(es) : e \in SessionEntry => e.parentId < e.id

(* The path to an entry consists of entries of the list.                    *)
LEMMA PathType ==
  ASSUME NEW es \in Seq(FileEntry), Upwards(es), NEW i \in Nat
  PROVE  Path(es, i) \in Seq(ToSet(es) \intersect SessionEntry)
<1> DEFINE ids == IdsOf(es)
           par == [j \in ids |-> EntryOf(es, j).parentId]
           ent == [j \in ids |-> EntryOf(es, j)]
           E == ToSet(es) \intersect SessionEntry
           Def(g) == g = [j \in Nat |-> IF j \in ids THEN Append(g[EntryOf(es, j).parentId], EntryOf(es, j))
                                        ELSE <<>>]
           up == CHOOSE g : Def(g)
<1>1. \A j \in ids : EntryOf(es, j) \in E /\ EntryOf(es, j).id = j
                     /\ EntryOf(es, j).parentId \in Nat /\ EntryOf(es, j).parentId < j /\ j \in Nat
  <2> SUFFICES ASSUME NEW j \in ids
               PROVE  EntryOf(es, j) \in E /\ EntryOf(es, j).id = j
                      /\ EntryOf(es, j).parentId \in Nat /\ EntryOf(es, j).parentId < j /\ j \in Nat
    OBVIOUS
  <2>1. EntryOf(es, j) \in ToSet(es) /\ EntryOf(es, j) \in SessionEntry /\ EntryOf(es, j).id = j
    BY EntryOfType
  <2> QED BY <2>1, Lines DEF Upwards
<1>2. Upward(ids, par) /\ ent \in [ids -> E]
  BY <1>1 DEF Upward
<1>3. \A j \in ids : par[j] = EntryOf(es, j).parentId /\ ent[j] = EntryOf(es, j)
  OBVIOUS
<1>4. PICK f : f \in [Nat -> Seq(E)] /\ Climbs(ids, par, ent, f)
  <2> HIDE DEF ids, par, ent, E
  <2> QED BY <1>2, ClimbExists
<1>5. Def(f)
  <2>1. \A j \in Nat : f[j] = IF j \in ids THEN Append(f[EntryOf(es, j).parentId], EntryOf(es, j)) ELSE <<>>
    <3> HIDE DEF ids, par, ent, E
    <3> QED BY <1>3, <1>4 DEF Climbs, Above
  <2>2. f = [j \in Nat |-> f[j]]
    BY <1>4
  <2> QED BY <2>1, <2>2
<1>6. Def(up)
  <2> HIDE DEF Def
  <2> QED BY <1>5
<1> HIDE DEF up
<1>7. \A j \in Nat : up[j] = IF j \in ids THEN Append(up[EntryOf(es, j).parentId], EntryOf(es, j)) ELSE <<>>
  <2>1. \A j \in Nat : up[j] = [k \in Nat |-> IF k \in ids THEN Append(up[EntryOf(es, k).parentId], EntryOf(es, k))
                                        ELSE <<>>][j]
    BY <1>6
  <2> HIDE DEF ids
  <2> QED BY <2>1
<1> HIDE DEF ids, par, ent, E, Def
<1>8. Climbs(ids, par, ent, up)
  <2>1. ASSUME NEW j \in Nat PROVE up[j] = Above(ids, par, ent, up, j)
    BY <1>3, <1>7 DEF Above
  <2> QED BY <2>1 DEF Climbs
<1>9. up[i] \in Seq(E)
  BY <1>2, <1>8, ClimbType
<1>10. Path(es, i) = up[i]
  BY DEF Path, up, Def, ids
<1> QED BY <1>9, <1>10 DEF E

-----------------------------------------------------------------------------
(* Labels.                                                                 *)
Target == 0 .. MaxEntries
LabelStep(s) ==
  [x \in (1..Len(s)) \X SUBSET Target |-> Relabel(x[2], s[x[1]])]

(* What a label entry makes of a set of labels is a set of labels.          *)
LEMMA TargetType ==
  ASSUME NEW e \in FileEntry, NEW l \in SUBSET Target
  PROVE  Relabel(l, e) \in SUBSET Target
<1>1. e.target \in Target
  BY ManagerAssumption, Lines DEF Target, FileEntry, Header, Entry
<1> QED BY <1>1 DEF Relabel

(* LabelsOf as a function of positions.                                    *)
LEMMA LabelsIs ==
  ASSUME NEW s \in Seq(FileEntry), NEW f \in [0..Len(s) -> SUBSET Target],
         Recursion(Len(s), {}, LabelStep(s), f)
  PROVE  LabelsOf(s) = f[Len(s)]
<1> DEFINE Def(g) == g = [n \in 0..Len(s) |-> IF n = 0 THEN {} ELSE Relabel(g[n - 1], s[n])]
           of == CHOOSE g : Def(g)
<1>0. Len(s) \in Nat
  OBVIOUS
<1>a. ASSUME NEW n \in 1..Len(s) PROVE f[n] = Relabel(f[n - 1], s[n])
  <2>0. n - 1 \in 0..Len(s)
    BY <1>0
  <2>1. f[n - 1] \in SUBSET Target /\ <<n, f[n - 1]>> \in (1..Len(s)) \X SUBSET Target
    BY <2>0
  <2>2. f[n] = LabelStep(s)[<<n, f[n - 1]>>]
    BY DEF Recursion
  <2> QED BY <2>1, <2>2 DEF LabelStep
<1>b. f[0] = {}
  BY DEF Recursion
<1>1. Def(f)
  <2>1. \A n \in 0..Len(s) : f[n] = IF n = 0 THEN {} ELSE Relabel(f[n - 1], s[n])
    <3> SUFFICES ASSUME NEW n \in 0..Len(s)
                 PROVE  f[n] = IF n = 0 THEN {} ELSE Relabel(f[n - 1], s[n])
      OBVIOUS
    <3>1. n # 0 => n \in 1..Len(s)
      BY <1>0
    <3> QED BY <3>1, <1>a, <1>b
  <2>2. f = [n \in 0..Len(s) |-> f[n]]
    OBVIOUS
  <2> QED BY <2>1, <2>2
<1>2. Def(of)
  <2> HIDE DEF Def
  <2> QED BY <1>1
<1> HIDE DEF of
<1>3. \A n \in 0..Len(s) : of[n] = [k \in 0..Len(s) |-> IF k = 0 THEN {} ELSE Relabel(of[k - 1], s[k])][n]
  BY <1>2
<1>4. of[0] = {} /\ \A n \in 1..Len(s) : of[n] = Relabel(of[n - 1], s[n])
  BY <1>0, <1>3
<1> DEFINE Z == {k \in Nat : k <= Len(s) => of[k] = f[k]}
<1>5. 0 \in Z
  BY <1>4, <1>b
<1>6. ASSUME NEW k \in Z PROVE k + 1 \in Z
  <2> SUFFICES ASSUME k + 1 <= Len(s) PROVE of[k + 1] = f[k + 1]
    OBVIOUS
  <2>1. k + 1 \in 1..Len(s) /\ of[k] = f[k] /\ (k + 1) - 1 = k
    BY <1>0
  <2> QED BY <2>1, <1>4, <1>a
<1>7. Z = Nat
  <2> HIDE DEF Z
  <2>1. Z \subseteq Nat BY DEF Z
  <2> QED BY <1>5, <1>6, <2>1, SetInduction
<1>8. of[Len(s)] = f[Len(s)]
  BY <1>0, <1>7
<1>9. LabelsOf(s) = of[Len(s)]
  BY DEF LabelsOf, of
<1> QED BY <1>8, <1>9

(* There is that function.                                                 *)
LEMMA LabelsBuilt ==
  ASSUME NEW s \in Seq(FileEntry)
  PROVE  /\ \E f \in [0..Len(s) -> SUBSET Target] : Recursion(Len(s), {}, LabelStep(s), f)
         /\ LabelsOf(s) \in SUBSET Target
<1>1. Len(s) \in Nat /\ {} \in SUBSET Target
  OBVIOUS
<1>2. LabelStep(s) \in [(1..Len(s)) \X SUBSET Target -> SUBSET Target]
  <2>1. \A x \in (1..Len(s)) \X SUBSET Target : Relabel(x[2], s[x[1]]) \in SUBSET Target
    <3> SUFFICES ASSUME NEW n \in 1..Len(s), NEW l \in SUBSET Target
                 PROVE  Relabel(l, s[n]) \in SUBSET Target
      OBVIOUS
    <3>1. s[n] \in FileEntry
      OBVIOUS
    <3> QED BY <3>1, TargetType
  <2> QED BY <2>1 DEF LabelStep
<1>3. PICK f \in [0..Len(s) -> SUBSET Target] : Recursion(Len(s), {}, LabelStep(s), f)
  <2> DEFINE st == LabelStep(s)
             V == SUBSET Target
             n == Len(s)
  <2>1. st \in [(1..n) \X V -> V] /\ n \in Nat /\ {} \in V
    BY <1>1, <1>2
  <2> HIDE DEF st, V, n
  <2>2. \E f \in [0..n -> V] : Recursion(n, {}, st, f)
    BY <2>1, RecursionExists
  <2> QED BY <2>2 DEF st, V, n
<1>4. LabelsOf(s) = f[Len(s)]
  BY <1>3, LabelsIs
<1> QED BY <1>1, <1>3, <1>4

(* No entries, no labels.                                                   *)
LEMMA LabelsEmpty == LabelsOf(<<>>) = {}
<1>1. <<>> \in Seq(FileEntry) /\ Len(<<>>) = 0
  OBVIOUS
<1>2. PICK f \in [0..Len(<<>>) -> SUBSET Target] : Recursion(Len(<<>>), {}, LabelStep(<<>>), f)
  BY <1>1, LabelsBuilt
<1>3. LabelsOf(<<>>) = f[Len(<<>>)]
  BY <1>1, <1>2, LabelsIs
<1> QED BY <1>1, <1>2, <1>3 DEF Recursion

(* One entry more.                                                         *)
LEMMA LabelsAppend ==
  ASSUME NEW s \in Seq(FileEntry), NEW e \in FileEntry
  PROVE  LabelsOf(Append(s, e)) = Relabel(LabelsOf(s), e)
<1> DEFINE t == Append(s, e)
<1>1. t \in Seq(FileEntry) /\ Len(t) = Len(s) + 1 /\ t[Len(t)] = e /\ Len(s) \in Nat
      /\ \A n \in 1..Len(s) : t[n] = s[n]
  OBVIOUS
<1>2. PICK f \in [0..Len(t) -> SUBSET Target] : Recursion(Len(t), {}, LabelStep(t), f)
  BY <1>1, LabelsBuilt
<1>3. LabelsOf(t) = f[Len(t)]
  BY <1>1, <1>2, LabelsIs
<1> HIDE DEF t
<1> DEFINE g == [n \in 0..Len(s) |-> f[n]]
<1>4. g \in [0..Len(s) -> SUBSET Target] /\ \A n \in 0..Len(s) : g[n] = f[n]
  BY <1>1
<1> HIDE DEF g
<1>5. ASSUME NEW n \in 1..Len(s) PROVE g[n] = LabelStep(s)[<<n, g[n - 1]>>]
  <2>1. n \in 1..Len(t) /\ n - 1 \in 0..Len(s) /\ n - 1 \in 0..Len(t) /\ n \in 0..Len(s)
    BY <1>1
  <2>2. f[n] = LabelStep(t)[<<n, f[n - 1]>>] /\ f[n - 1] \in SUBSET Target
    BY <1>2, <2>1 DEF Recursion
  <2>4. f[n] = Relabel(f[n - 1], t[n])
    BY <2>1, <2>2 DEF LabelStep
  <2>5. LabelStep(s)[<<n, f[n - 1]>>] = Relabel(f[n - 1], s[n])
    BY <2>2 DEF LabelStep
  <2>6. t[n] = s[n] /\ g[n] = f[n] /\ g[n - 1] = f[n - 1]
    BY <1>1, <1>4, <2>1
  <2> QED BY <2>4, <2>5, <2>6
<1>6. Recursion(Len(s), {}, LabelStep(s), g)
  <2>1. 0 \in 0..Len(s) /\ f[0] = {}
    BY <1>1, <1>2 DEF Recursion
  <2> QED BY <1>4, <1>5, <2>1 DEF Recursion
<1>7. LabelsOf(s) = f[Len(s)]
  <2>1. LabelsOf(s) = g[Len(s)]
    BY <1>4, <1>6, LabelsIs
  <2>2. Len(s) \in 0..Len(s)
    BY <1>1
  <2> QED BY <1>4, <2>1, <2>2
<1>8. f[Len(t)] = Relabel(f[Len(s)], e)
  <2>1. Len(t) \in 1..Len(t) /\ Len(t) - 1 = Len(s) /\ Len(s) \in 0..Len(t)
    BY <1>1
  <2>2. f[Len(t)] = LabelStep(t)[<<Len(t), f[Len(s)]>>] /\ f[Len(s)] \in SUBSET Target
    BY <1>2, <2>1 DEF Recursion
  <2> QED BY <1>1, <2>1, <2>2 DEF LabelStep
<1> QED BY <1>3, <1>7, <1>8 DEF t

(* Entries that are no labels leave no label,                              *)
LEMMA LabelsOfUnlabelled ==
  ASSUME NEW s \in Seq(FileEntry), \A e \in ToSet(s) : e.kind # "label"
  PROVE  LabelsOf(s) = {}
<1> DEFINE Z == {u \in Seq(FileEntry) : (\A e \in ToSet(u) : e.kind # "label") => LabelsOf(u) = {}}
<1>1. <<>> \in Z
  BY LabelsEmpty
<1>2. ASSUME NEW u \in Seq(FileEntry), u \in Z, NEW e \in FileEntry PROVE Append(u, e) \in Z
  <2>1. Append(u, e) \in Seq(FileEntry) /\ ToSet(Append(u, e)) = ToSet(u) \union {e}
    BY SetOfAppend
  <2> SUFFICES ASSUME \A d \in ToSet(u) \union {e} : d.kind # "label"
               PROVE  LabelsOf(Append(u, e)) = {}
    BY <2>1
  <2>2. LabelsOf(u) = {} /\ e.kind # "label"
    BY <1>2
  <2>3. LabelsOf(Append(u, e)) = Relabel(LabelsOf(u), e)
    BY LabelsAppend
  <2> QED BY <2>2, <2>3 DEF Relabel
<1>3. Seq(FileEntry) \subseteq Z
  <2> HIDE DEF Z
  <2> QED BY <1>1, <1>2, SequenceInduction
<1> QED BY <1>3

(* and labels set after them are those there are.                          *)
LEMMA LabelsOfConcat ==
  ASSUME NEW s \in Seq(FileEntry), NEW t \in Seq(FileEntry),
         \A e \in ToSet(t) : e.kind = "label" /\ e.set
  PROVE  LabelsOf(s \o t) = LabelsOf(s) \union {e.target : e \in ToSet(t)}
<1> DEFINE Z == {u \in Seq(FileEntry) : (\A e \in ToSet(u) : e.kind = "label" /\ e.set) =>
                   LabelsOf(s \o u) = LabelsOf(s) \union {e.target : e \in ToSet(u)}}
<1>1. <<>> \in Z
  <2>1. s \o <<>> = s /\ ToSet(<<>>) = {} /\ <<>> \in Seq(FileEntry)
    BY DEF ToSet
  <2> QED BY <2>1
<1>2. ASSUME NEW u \in Seq(FileEntry), u \in Z, NEW e \in FileEntry PROVE Append(u, e) \in Z
  <2>1. Append(u, e) \in Seq(FileEntry) /\ ToSet(Append(u, e)) = ToSet(u) \union {e}
        /\ s \o Append(u, e) = Append(s \o u, e) /\ s \o u \in Seq(FileEntry)
    BY SetOfAppend, ConcatAppend
  <2> SUFFICES ASSUME \A d \in ToSet(u) \union {e} : d.kind = "label" /\ d.set
               PROVE  LabelsOf(Append(s \o u, e))
                        = LabelsOf(s) \union {d.target : d \in ToSet(u) \union {e}}
    BY <2>1
  <2>2. LabelsOf(s \o u) = LabelsOf(s) \union {d.target : d \in ToSet(u)}
    BY <1>2
  <2>3. e.kind = "label" /\ e.set
    OBVIOUS
  <2>4. LabelsOf(Append(s \o u, e)) = Relabel(LabelsOf(s \o u), e)
    BY <2>1, LabelsAppend
  <2>5. Relabel(LabelsOf(s \o u), e) = LabelsOf(s \o u) \union {e.target}
    BY <2>3 DEF Relabel
  <2> QED BY <2>2, <2>4, <2>5
<1>3. Seq(FileEntry) \subseteq Z
  <2> HIDE DEF Z
  <2> QED BY <1>1, <1>2, SequenceInduction
<1> QED BY <1>3

-----------------------------------------------------------------------------
(* Ascending.                                                              *)
Increasing(n, s) == \A p, q \in 1..n : p < q => s[p] < s[q]

(* A finite set of numbers can be listed in order,                         *)
LEMMA AscendingExists ==
  ASSUME NEW S, S \subseteq Nat, IsFiniteSet(S), NEW b \in Nat, \A x \in S : x <= b
  PROVE  \E s \in [1..Cardinality(S) -> S] : Increasing(Cardinality(S), s)
<1> DEFINE Z == {n \in Nat : \A T \in SUBSET S : IsFiniteSet(T) /\ Cardinality(T) = n =>
                               \E s \in [1..n -> T] : Increasing(n, s)}
<1>1. 0 \in Z
  <2> SUFFICES ASSUME NEW T \in SUBSET S
               PROVE  \E s \in [1..0 -> T] : Increasing(0, s)
    OBVIOUS
  <2> DEFINE s == [p \in 1..0 |-> p]
  <2>1. s \in [1..0 -> T]
    OBVIOUS
  <2>2. Increasing(0, s)
    BY DEF Increasing
  <2> QED BY <2>1, <2>2
<1>2. ASSUME NEW n \in Z PROVE n + 1 \in Z
  <2> SUFFICES ASSUME NEW T \in SUBSET S, IsFiniteSet(T), Cardinality(T) = n + 1
               PROVE  \E s \in [1..(n + 1) -> T] : Increasing(n + 1, s)
    OBVIOUS
  <2>0. n \in Nat /\ T \subseteq Nat /\ \A x \in T : x <= b
    OBVIOUS
  <2>1. T # {}
    BY <2>0, FS_EmptySet
  <2> DEFINE m == Max(T)
             R == T \ {m}
  <2>2. m \in T /\ \A x \in T : x <= m
    BY <2>0, <2>1, MaxOfBounded
  <2>3. IsFiniteSet(R) /\ Cardinality(R) = n
    BY <2>0, <2>2, FS_RemoveElement
  <2> HIDE DEF m
  <2>4. PICK r \in [1..n -> R] : Increasing(n, r)
    BY <2>3
  <2>5. \A x \in R : x \in T /\ x < m /\ x \in Nat
    BY <2>0, <2>2
  <2> DEFINE s == [p \in 1..(n + 1) |-> IF p = n + 1 THEN m ELSE r[p]]
  <2>6. \A p \in 1..(n + 1) : p = n + 1 \/ (p \in 1..n /\ p # n + 1)
    BY <2>0
  <2> HIDE DEF R
  <2>7. s \in [1..(n + 1) -> T]
    BY <2>2, <2>4, <2>5, <2>6
  <2>8. s[n + 1] = m /\ \A p \in 1..n : s[p] = r[p] /\ r[p] \in R
    BY <2>0, <2>4
  <2> HIDE DEF s
  <2>9. ASSUME NEW p \in 1..(n + 1), NEW q \in 1..(n + 1), p < q PROVE s[p] < s[q]
    <3>1. p \in 1..n
      BY <2>0, <2>9
    <3>2. CASE q = n + 1
      BY <2>5, <2>8, <3>1, <3>2
    <3>3. CASE q \in 1..n
      BY <2>4, <2>8, <2>9, <3>1, <3>3 DEF Increasing
    <3> QED BY <2>6, <3>2, <3>3
  <2> QED BY <2>7, <2>9 DEF Increasing
<1>3. Z = Nat
  <2> HIDE DEF Z
  <2>1. Z \subseteq Nat BY DEF Z
  <2> QED BY <1>1, <1>2, <2>1, SetInduction
<1>4. Cardinality(S) \in Z
  BY <1>3, FS_CardinalityType
<1> QED BY <1>4

(* which Ascending does.                                                   *)
LEMMA AscendingLists ==
  ASSUME NEW S, S \subseteq Id
  PROVE  /\ Ascending(S) \in Seq(S) /\ DOMAIN Ascending(S) = 1..Len(Ascending(S))
         /\ ToSet(Ascending(S)) = S
<1>1. S \subseteq Nat /\ IsFiniteSet(S) /\ MaxEntries \in Nat /\ \A x \in S : x <= MaxEntries
  <2>1. IsFiniteSet(Id)
    BY ManagerAssumption, FS_Interval DEF Id
  <2>2. IsFiniteSet(S)
    BY <2>1, FS_Subset
  <2>3. MaxEntries \in Nat /\ S \subseteq 1 .. MaxEntries
    BY ManagerAssumption DEF Id
  <2> QED BY <2>2, <2>3
<1> DEFINE n == Cardinality(S)
           a == Ascending(S)
<1>2. n \in Nat
  BY <1>1, FS_CardinalityType
<1>3. a \in [1..n -> S] /\ Increasing(n, a)
  <2>1. \E s \in [1..n -> S] : Increasing(n, s)
    BY <1>1, AscendingExists
  <2>2. \E s \in [1..n -> S] : \A p, q \in 1..n : p < q => s[p] < s[q]
    BY <2>1 DEF Increasing
  <2> QED BY <2>2 DEF Ascending, Increasing
<1>4. IsFiniteSet(1..n) /\ Cardinality(1..n) = n
  BY <1>2, FS_Interval
<1> HIDE DEF a
<1>5. a \in Injection(1..n, S)
  <2>1. ASSUME NEW p \in 1..n, NEW q \in 1..n, p # q PROVE a[p] # a[q]
    <3>1. a[p] \in Nat /\ a[q] \in Nat /\ (p < q \/ q < p)
      <4>1. a[p] \in S /\ a[q] \in S
        BY <1>3
      <4>2. p \in Nat /\ q \in Nat
        BY <1>2
      <4>3. p < q \/ q < p
        BY <2>1, <4>2
      <4>4. a[p] \in Nat /\ a[q] \in Nat
        BY <1>1, <4>1
      <4> QED BY <4>3, <4>4
    <3> QED BY <1>3, <3>1 DEF Increasing
  <2> QED BY <1>3, <2>1 DEF Injection, IsInjective
<1>6. a \in Surjection(1..n, S)
  <2> DEFINE I == 1..n
  <2>1. IsFiniteSet(S) /\ a \in Injection(I, S) /\ Cardinality(I) = Cardinality(S)
    BY <1>1, <1>4, <1>5
  <2> HIDE DEF I, n
  <2>2. a \in Surjection(I, S)
    BY <2>1, FS_Injection
  <2> QED BY <2>2 DEF I
<1>7. a \in Seq(S) /\ Len(a) = n
  BY <1>2, <1>3
<1>8. ToSet(a) = S
  BY <1>3, <1>6 DEF Surjection, ToSet
<1> QED BY <1>3, <1>7, <1>8 DEF a

-----------------------------------------------------------------------------
(* What a file that lacks some of memory holds when memory is written.     *)
LEMMA DistinctNew ==
  ASSUME NEW s \in Seq(FileEntry), NEW e \in FileEntry, e \notin ToSet(s)
  PROVE  /\ Distinct(Append(s, e)) = Append(Distinct(s), e)
         /\ Distinct(s \o <<e>>) = Append(Distinct(s), e)
<1>1. s \o <<e>> = Append(s, e)
  OBVIOUS
<1> QED BY <1>1, DistinctAppend

(* An entry that is new to both is appended to both.                        *)
LEMMA DistinctLater ==
  ASSUME NEW l \in Seq(FileEntry), NEW m \in Seq(FileEntry), NEW e \in FileEntry,
         e \notin ToSet(l), e \notin ToSet(m), Distinct(l \o m) = Distinct(m)
  PROVE  Distinct(l \o Append(m, e)) = Distinct(Append(m, e))
<1>1. l \o Append(m, e) = Append(l \o m, e) /\ l \o m \in Seq(FileEntry)
  BY ConcatAppend
<1>2. ToSet(l \o m) = ToSet(l) \union ToSet(m)
  BY SetOfConcat
<1>3. Distinct(Append(l \o m, e)) = Append(Distinct(l \o m), e)
  BY <1>1, <1>2, DistinctNew
<1> QED BY <1>1, <1>3, DistinctNew

(* Lines that are written a second time add nothing.                        *)
LEMMA DistinctAgain ==
  ASSUME NEW l \in Seq(FileEntry), NEW p \in Seq(FileEntry), NEW q \in Seq(FileEntry)
  PROVE  Distinct((l \o p) \o (p \o q)) = Distinct(l \o (p \o q))
<1> DEFINE a == l \o p
<1>1. a \in Seq(FileEntry) /\ a \o p \in Seq(FileEntry)
      /\ a \o (p \o q) = (a \o p) \o q /\ l \o (p \o q) = a \o q
  OBVIOUS
<1>2. ToSet(p) \subseteq ToSet(a)
  BY SetOfConcat
<1> HIDE DEF a
<1>3. Distinct(a \o p) = Distinct(a)
  BY <1>1, <1>2, DistinctRepeat
<1> DEFINE b == a \o p
<1>4. b \in Seq(FileEntry) /\ Distinct(b) = Distinct(a)
  BY <1>1, <1>3
<1>5. a \o (p \o q) = b \o q
  BY <1>1
<1> HIDE DEF b
<1>6. Distinct(b \o q) = Distinct(a \o q)
  BY <1>1, <1>4, DistinctSame
<1> QED BY <1>1, <1>5, <1>6 DEF a

-----------------------------------------------------------------------------
(* What is unsaved.                                                        *)
LEMMA SavedAppend ==
  ASSUME NEW s \in Seq(FileEntry), NEW e \in FileEntry
  PROVE  Saved(Append(s, e)) = IF e.id \in unsaved THEN Saved(s) ELSE Append(Saved(s), e)
BY OnlyAppend DEF Saved

(* Where no write was refused, all is saved.                                *)
LEMMA SavedAll ==
  ASSUME NEW s \in Seq(FileEntry), \A e \in ToSet(s) : e.id \notin unsaved
  PROVE  Saved(s) = s
<1>1. \A n \in 1..Len(s) : s[n] \in {e \in FileEntry : e.id \notin unsaved}
  BY DEF ToSet
<1> QED BY <1>1, OnlyAll DEF Saved

(* What is saved are entries.                                               *)
LEMMA SavedType ==
  ASSUME NEW s \in Seq(FileEntry)
  PROVE  Saved(s) \in Seq(FileEntry)
BY OnlyType DEF Saved

-----------------------------------------------------------------------------
(* The invariant.  Everything the files, the memory and the operation in   *)
(* progress speak of: ids are given out once, parents are older, and no    *)
(* entry is two.                                                           *)
Known == (UNION {ToSet(disk[f]) : f \in File}) \union ToSet(fileEntries) \union ToSet(pending)
SoundEntry(e, next) ==
  e \in SessionEntry =>
    /\ e.id < next /\ e.parentId < e.id
    /\ e.kind = "label" => e.target \in Id
Sound ==
  /\ \A e \in Known : SoundEntry(e, nextId)
  /\ \A d, e \in Known : d \in SessionEntry /\ e \in SessionEntry /\ d.id = e.id => d = e
  /\ \A i \in unsaved : i < nextId
  /\ \A i, j \in unsaved : i = j

(* The file of a session, and what it says.                                *)
Disk == disk[sessionFile]
Read == Load(disk[sessionFile])

(* Files not named yet are empty; a process has a session that begins with *)
(* its header, and so does its file when nothing in it is damaged.         *)
Files ==
  /\ \A f \in File : f >= nextFile => disk[f] = <<>>
  /\ \A f \in created : f < nextFile
  /\ sessionFile < nextFile
  /\ ~alive => pending = <<>> /\ fileEntries = <<>> /\ labels = {}
  /\ alive => /\ sessionFile \in File /\ fileEntries # <<>> /\ fileEntries[1] = Header
              /\ ToSet(pending) \subseteq ToSet(fileEntries)
              /\ Damage(Disk) = 0 /\ Disk # <<>> => Disk[1] = Header
              /\ Disk = <<>> => ~flushed
              /\ Disk = <<>> /\ pending # <<>> => Head(pending) = Header

(* After the first answer nothing is held back.                            *)
NothingHeldBack ==
  alive /\ HasAssistant(fileEntries) /\ pending = <<>> /\ unsaved = {} => flushed

(* The file has been written, or is being written.  Then it has, or will   *)
(* have, all of memory but for what is unsaved; before that, all will be   *)
(* there once memory is written.                                           *)
Writing == flushed \/ pending # <<>>
Ahead ==
  alive /\ Damage(Disk) = 0 =>
    /\ Writing =>
         Distinct(Read \o pending) \in {Distinct(fileEntries), Saved(Distinct(fileEntries))}
    /\ Writing /\ (~flushed \/ ~HasAssistant(fileEntries)) =>
         Distinct(Read \o pending) = Distinct(fileEntries)
    /\ ~Writing => Distinct(Read \o fileEntries) = Distinct(fileEntries)

(* What a damaged file lacks of memory is paid for by its damage; a last   *)
(* line without its newline that cannot be read owes the entry that will   *)
(* be put on it.                                                           *)
Unwritten == {e \in ToSet(fileEntries) : e.id \in unsaved}
Missed == ToSet(fileEntries) \ (ToSet(Disk) \union ToSet(pending) \union Unwritten)
Owed == IF sessionFile \in unended /\ Last(Disk) \notin FileEntry THEN 1 ELSE 0
Losses == alive /\ Writing => Cardinality(Missed) + Owed <= Damage(Disk)

LabelsMatch == labels \in {LabelsOf(fileEntries), LabelsOf(Saved(fileEntries))}

(* What a step does to the files: none of them says less than before, but   *)
(* for a last line that has no newline.                                    *)
Grows == \A f \in File : IsPrefix(Load(Ended(f)), Load(disk'[f]))

IInv == TypeOK /\ Files /\ NothingHeldBack /\ Sound /\ Ahead /\ Losses /\ LabelsMatch

-----------------------------------------------------------------------------
(* What the invariant gives at once.                                       *)
LEMMA Typed ==
  ASSUME IInv
  PROVE  /\ fileEntries \in Seq(FileEntry) /\ pending \in Seq(FileEntry)
         /\ \A f \in File : disk[f] \in Seq(Line) /\ ToSet(disk[f]) \subseteq Known
         /\ ToSet(fileEntries) \subseteq Known /\ ToSet(pending) \subseteq Known
         /\ alive => Disk \in Seq(Line) /\ Read \in Seq(FileEntry) /\ ToSet(Read) \subseteq Known
                     /\ sessionFile \in File
         /\ nextId \in Nat /\ nextFile \in Nat /\ sessionFile \in Nat
         /\ limits \in Limits /\ limits.entries \in 0 .. MaxEntries
         /\ leafId \in 0 .. MaxEntries /\ leafId < nextId /\ nextId >= 1
<1>1. TypeOK /\ Files /\ Sound
  BY DEF IInv
<1>2. fileEntries \in Seq(FileEntry) /\ pending \in Seq(FileEntry)
  BY <1>1 DEF TypeOK
<1>3. disk \in [File -> Seq(Line)]
  BY <1>1 DEF TypeOK, Line, Unread
<1>4. \A f \in File : disk[f] \in Seq(Line) /\ ToSet(disk[f]) \subseteq Known
  BY <1>3 DEF Known
<1>5. ToSet(fileEntries) \subseteq Known /\ ToSet(pending) \subseteq Known
  <2> DEFINE U == UNION {ToSet(disk[f]) : f \in File}
  <2>1. Known = U \union ToSet(fileEntries) \union ToSet(pending)
    BY DEF Known
  <2> HIDE DEF U
  <2> QED BY <2>1
<1>6. ASSUME alive
      PROVE  Disk \in Seq(Line) /\ Read \in Seq(FileEntry) /\ ToSet(Read) \subseteq Known
             /\ sessionFile \in File
  <2>1. sessionFile \in File
    BY <1>1, <1>6 DEF Files
  <2>2. Disk \in Seq(Line) /\ ToSet(Disk) \subseteq Known
    BY <2>1, <1>4 DEF Disk
  <2>3. Load(Disk) \in Seq(FileEntry) /\ ToSet(Load(Disk)) \subseteq ToSet(Disk)
    BY <2>2, LoadType
  <2> QED BY <2>1, <2>2, <2>3 DEF Disk, Read
<1>7. nextId \in Nat /\ nextFile \in Nat /\ sessionFile \in Nat /\ nextId >= 1
  BY <1>1, ManagerAssumption DEF TypeOK
<1>8. limits \in Limits /\ limits.entries \in 0 .. MaxEntries
  BY <1>1, ManagerAssumption DEF TypeOK
<1>9. leafId \in 0 .. MaxEntries /\ leafId < nextId
  <2>1. leafId \in {0} \union IdsOf(fileEntries)
    BY <1>1 DEF TypeOK
  <2>2. CASE leafId = 0
    BY <1>7, <2>2, ManagerAssumption
  <2>3. CASE leafId \in IdsOf(fileEntries)
    <3>1. PICK e \in ToSet(fileEntries) : e.id = leafId /\ leafId # 0
      BY <1>2, <2>3, IdsType
    <3>2. e \in Known /\ e \in FileEntry
      BY <1>2, <1>5 DEF ToSet
    <3>3. e \in SessionEntry
      BY <3>1, <3>2, Lines
    <3>4. e.id < nextId
      BY <1>1, <3>2, <3>3 DEF Sound, SoundEntry
    <3>5. leafId \in Id
      BY <3>1, <3>3, Lines
    <3> QED BY <3>1, <3>4, <3>5 DEF Id
  <2> QED BY <2>1, <2>2, <2>3
<1> QED BY <1>2, <1>4, <1>5, <1>6, <1>7, <1>8, <1>9

(* An entry with the next id is in no file yet.                            *)
LEMMA NewIsUnknown ==
  ASSUME IInv, NEW e \in SessionEntry, e.id >= nextId
  PROVE  e \notin Known /\ e.id \notin unsaved
<1>1. nextId \in Nat /\ e.id \in Nat
  BY Typed, Lines
<1>2. \A i \in unsaved : i < nextId /\ i \in Nat
  BY DEF IInv, TypeOK, Sound, Id
<1>3. e \in Known => e.id < nextId
  BY DEF IInv, Sound, SoundEntry
<1> QED BY <1>1, <1>2, <1>3

(* New entries keep it sound.                                              *)
LEMMA SoundGrows ==
  ASSUME IInv, NEW N, N \subseteq SessionEntry,
         Known' \subseteq Known \union N \union {Header, Malformed, Glued},
         nextId' \in Nat, nextId <= nextId',
         \A e \in N : nextId <= e.id /\ SoundEntry(e, nextId'),
         \A d, e \in N : d.id = e.id => d = e,
         unsaved' \subseteq Nat, \A i \in unsaved' : i < nextId', \A i, j \in unsaved' : i = j
  PROVE  Sound'
<1>1. nextId \in Nat
  BY Typed
<1>2. Header \notin SessionEntry /\ Malformed \notin SessionEntry /\ Glued \notin SessionEntry
  BY Lines
<1>3. ASSUME NEW e \in Known' PROVE SoundEntry(e, nextId')
  <2> SUFFICES ASSUME e \in SessionEntry PROVE SoundEntry(e, nextId')
    BY DEF SoundEntry
  <2>1. CASE e \in N
    BY <2>1
  <2>2. CASE e \in Known
    <3>1. SoundEntry(e, nextId)
      BY <2>2 DEF IInv, Sound
    <3>2. e.id \in Nat
      BY Lines
    <3> QED BY <1>1, <3>1, <3>2 DEF SoundEntry
  <2> QED BY <1>2, <2>1, <2>2
<1>4. ASSUME NEW d \in Known', NEW e \in Known', d \in SessionEntry, e \in SessionEntry, d.id = e.id
      PROVE  d = e
  <2>1. (d \in Known \/ d \in N) /\ (e \in Known \/ e \in N)
    BY <1>2, <1>4
  <2>2. d.id \in Nat /\ e.id \in Nat
    BY <1>4, Lines
  <2>3. \A x \in N : nextId <= x.id
    OBVIOUS
  <2>4. \A x \in Known : x \in SessionEntry => x.id < nextId
    BY DEF IInv, Sound, SoundEntry
  <2>5. CASE d \in Known /\ e \in Known
    BY <1>4, <2>5 DEF IInv, Sound
  <2>6. CASE d \in N /\ e \in N
    BY <1>4, <2>6
  <2>7. CASE d \in Known /\ e \in N
    BY <1>1, <1>4, <2>2, <2>3, <2>4, <2>7
  <2>8. CASE d \in N /\ e \in Known
    BY <1>1, <1>4, <2>2, <2>3, <2>4, <2>8
  <2> QED BY <2>1, <2>5, <2>6, <2>7, <2>8
<1> QED BY <1>3, <1>4 DEF Sound

(* A session that is begun in an empty file.                               *)
LEMMA Begun ==
  ASSUME fileEntries' \in Seq(FileEntry), disk'[sessionFile'] = <<>>, ~flushed',
         sessionFile' \notin unended', pending' = <<>> \/ pending' = fileEntries'
  PROVE  Ahead' /\ Losses'
<1>1. Load(<<>>) = <<>> /\ Read' = <<>> /\ <<>> \o fileEntries' = fileEntries' /\ ToSet(<<>>) = {}
  BY LoadNothing DEF Read, ToSet
<1>2. Writing' => pending' = fileEntries'
  BY DEF Writing
<1>3. Ahead'
  BY <1>1, <1>2 DEF Ahead
<1>4. Writing' => Missed' = {}
  BY <1>2 DEF Missed
<1>5. Owed' = 0 /\ Damage(Disk') = 0
  BY LoadNothing DEF Owed, Disk
<1>6. Cardinality({}) = 0
  BY FS_EmptySet
<1>7. Writing' => Cardinality(Missed') + Owed' <= Damage(Disk')
  <2> SUFFICES ASSUME Writing' PROVE Cardinality(Missed') + Owed' <= Damage(Disk')
    OBVIOUS
  <2>1. Cardinality(Missed') = 0
    BY <1>4, <1>6
  <2> QED BY <1>5, <2>1
<1> QED BY <1>3, <1>7 DEF Losses

-----------------------------------------------------------------------------
(* The operations that append are of two sorts: the entry is indexed and   *)
(* its lines are to be written, or a write is refused.                     *)
Fresh(e) ==
  /\ e \in SessionEntry /\ e.id = nextId /\ e.parentId < nextId
  /\ e.kind = "label" => e.target \in Id
Appended(e) == Fresh(e) /\ AppendEntry(e) /\ labels' = Relabel(labels, e)
Refused(e) == Fresh(e) /\ RefusedAppend(e)

(* An entry made with the next id is fresh.                                 *)
LEMMA NewIsFresh ==
  ASSUME IInv, Ready, nextId <= limits.entries, NEW k \in EntryKind, NEW p \in {0} \union Id, p < nextId,
         NEW t \in {0} \union Id, NEW b \in BOOLEAN, k = "label" => t \in Id
  PROVE  Fresh(Entry(k, nextId, p, t, b))
<1>1. nextId \in Id /\ p \in 0 .. MaxEntries /\ t \in 0 .. MaxEntries
  BY Typed, ManagerAssumption DEF Id
<1> QED BY <1>1, NewEntryType DEF Fresh

(* appendMessage and the others append a fresh entry, or are refused.       *)
LEMMA AppendPlainIs ==
  ASSUME IInv, NEW k \in EntryKind, AppendPlain(k)
  PROVE  \E e \in SessionEntry : Appended(e) \/ Refused(e)
<1> DEFINE e == Entry(k, nextId, leafId, 0, FALSE)
<1>1. k \in {"user", "assistant", "setting"} /\ ((AppendEntry(e) /\ UNCHANGED labels) \/ RefusedAppend(e))
  BY DEF AppendPlain
<1>2. Ready /\ nextId <= limits.entries
  BY <1>1 DEF AppendEntry, RefusedAppend, InMemoryAppend
<1>3. leafId \in {0} \union Id /\ leafId < nextId
  BY Typed DEF Id
<1>4. Fresh(e)
  BY <1>1, <1>2, <1>3, NewIsFresh
<1>5. e.kind = k
  BY DEF Entry
<1> HIDE DEF e
<1>6. Relabel(labels, e) = labels
  BY <1>1, <1>5 DEF Relabel
<1> QED BY <1>1, <1>4, <1>6 DEF Appended, Refused, Fresh

(* So does appendCompaction,                                                *)
LEMMA AppendCompactionIs ==
  ASSUME IInv, NEW kept \in Id, AppendCompaction(kept)
  PROVE  \E e \in SessionEntry : Appended(e) \/ Refused(e)
<1> DEFINE e == Entry("compaction", nextId, leafId, kept, FALSE)
<1>1. (AppendEntry(e) /\ UNCHANGED labels) \/ RefusedAppend(e)
  BY DEF AppendCompaction
<1>2. Ready /\ nextId <= limits.entries
  BY <1>1 DEF AppendEntry, RefusedAppend, InMemoryAppend
<1>3. leafId \in {0} \union Id /\ leafId < nextId /\ "compaction" \in EntryKind
  BY Typed DEF Id, EntryKind
<1>4. Fresh(e)
  BY <1>2, <1>3, NewIsFresh
<1>5. e.kind = "compaction"
  BY DEF Entry
<1> HIDE DEF e
<1>6. Relabel(labels, e) = labels
  BY <1>5 DEF Relabel
<1> QED BY <1>1, <1>4, <1>6 DEF Appended, Refused, Fresh

(* appendLabelChange, which also keeps the labels in memory,                *)
LEMMA AppendLabelIs ==
  ASSUME IInv, NEW target \in Id, NEW set \in BOOLEAN, AppendLabel(target, set)
  PROVE  \E e \in SessionEntry : Appended(e) \/ Refused(e)
<1> DEFINE e == Entry("label", nextId, leafId, target, set)
<1>1. (AppendEntry(e) /\ labels' = IF set THEN labels \union {target} ELSE labels \ {target})
      \/ RefusedAppend(e)
  BY DEF AppendLabel
<1>2. Ready /\ nextId <= limits.entries
  BY <1>1 DEF AppendEntry, RefusedAppend, InMemoryAppend
<1>3. leafId \in {0} \union Id /\ leafId < nextId /\ "label" \in EntryKind
  BY Typed DEF Id, EntryKind
<1>4. Fresh(e)
  BY <1>2, <1>3, NewIsFresh
<1>5. e.kind = "label" /\ e.target = target /\ e.set = set
  BY DEF Entry
<1> HIDE DEF e
<1>6. Relabel(labels, e) = IF set THEN labels \union {target} ELSE labels \ {target}
  BY <1>5 DEF Relabel
<1> QED BY <1>1, <1>4, <1>6 DEF Appended, Refused, Fresh

(* and branchWithSummary.                                                   *)
LEMMA BranchWithSummaryIs ==
  ASSUME IInv, NEW id \in Id \union {0}, BranchWithSummary(id)
  PROVE  \E e \in SessionEntry : Appended(e) \/ Refused(e)
<1> DEFINE e == Entry("summary", nextId, id, 0, FALSE)
<1>1. id \in {0} \union IdsOf(fileEntries) /\ ((AppendEntry(e) /\ UNCHANGED labels) \/ RefusedAppend(e))
  BY DEF BranchWithSummary
<1>2. Ready /\ nextId <= limits.entries
  BY <1>1 DEF AppendEntry, RefusedAppend, InMemoryAppend
<1>3. id < nextId
  <2>1. CASE id = 0
    BY <2>1, Typed
  <2>2. CASE id # 0
    <3>1. PICK d \in ToSet(fileEntries) : d.id = id
      BY <1>1, <2>2, Typed, IdsType
    <3>2. d \in Known /\ d \in FileEntry
      BY Typed DEF ToSet
    <3>3. d \in SessionEntry
      BY <2>2, <3>1, <3>2, Lines
    <3> QED BY <3>1, <3>2, <3>3 DEF IInv, Sound, SoundEntry
  <2> QED BY <2>1, <2>2
<1>4. Fresh(e)
  <2>1. "summary" \in EntryKind
    BY DEF EntryKind
  <2> QED BY <1>2, <1>3, <2>1, NewIsFresh
<1>5. e.kind = "summary"
  BY DEF Entry
<1> HIDE DEF e
<1>6. Relabel(labels, e) = labels
  BY <1>5 DEF Relabel
<1> QED BY <1>1, <1>4, <1>6 DEF Appended, Refused, Fresh

-----------------------------------------------------------------------------
(* Memory after an entry is appended.                                      *)
LEMMA MemoryAppended ==
  ASSUME IInv, NEW e \in SessionEntry, Fresh(e), InMemoryAppend(e)
  PROVE  /\ alive /\ alive' /\ pending = <<>> /\ sessionFile' = sessionFile /\ nextFile' = nextFile
         /\ opens' = opens /\ nextId' = nextId + 1 /\ nextId' \in 1 .. MaxEntries + 1
         /\ fileEntries' = Append(fileEntries, e) /\ fileEntries' \in Seq(FileEntry)
         /\ fileEntries' # <<>> /\ fileEntries'[1] = Header
         /\ ToSet(fileEntries') = ToSet(fileEntries) \union {e}
         /\ leafId' \in {0} \union IdsOf(fileEntries')
         /\ flushed' = (flushed /\ HasAssistant(fileEntries')) /\ flushed' \in BOOLEAN
         /\ e \in FileEntry /\ e \notin Known /\ e.id \notin unsaved
         /\ HasAssistant(fileEntries) => HasAssistant(fileEntries')
         /\ Last(fileEntries') = e
<1>1. alive /\ alive' /\ pending = <<>> /\ sessionFile' = sessionFile /\ nextFile' = nextFile
      /\ opens' = opens /\ nextId' = nextId + 1 /\ nextId <= limits.entries
      /\ fileEntries' = Append(fileEntries, e) /\ leafId' = e.id
      /\ flushed' = (flushed /\ HasAssistant(fileEntries'))
  BY DEF InMemoryAppend, Ready
<1>2. e \in FileEntry /\ e.id = nextId /\ e.id # 0
  BY Lines DEF Fresh
<1>3. nextId' \in 1 .. MaxEntries + 1
  BY <1>1, Typed, ManagerAssumption
<1>4. fileEntries \in Seq(FileEntry) /\ fileEntries # <<>> /\ fileEntries[1] = Header
  BY <1>1, Typed DEF IInv, Files
<1>5. fileEntries' \in Seq(FileEntry) /\ ToSet(fileEntries') = ToSet(fileEntries) \union {e}
  BY <1>1, <1>2, <1>4, SetOfAppend
<1>6. fileEntries' # <<>> /\ fileEntries'[1] = Header
  <2>1. Len(fileEntries) \in Nat \ {0}
    BY <1>4
  <2>2. Len(Append(fileEntries, e)) = Len(fileEntries) + 1 /\ Append(fileEntries, e)[1] = fileEntries[1]
    BY <1>2, <1>4, <2>1
  <2> QED BY <1>1, <1>4, <2>1, <2>2
<1>7. leafId' \in {0} \union IdsOf(fileEntries')
  BY <1>1, <1>4, IdsAppend
<1>8. e \notin Known /\ e.id \notin unsaved
  <2>1. e.id >= nextId
    BY <1>2, Typed
  <2> QED BY <2>1, NewIsUnknown
<1>9. HasAssistant(fileEntries) => HasAssistant(fileEntries')
  <2>1. \A p \in DOMAIN fileEntries : p \in DOMAIN Append(fileEntries, e)
                                      /\ Append(fileEntries, e)[p] = fileEntries[p]
    BY <1>2, <1>4
  <2> QED BY <1>1, <2>1 DEF HasAssistant
<1>10. flushed' \in BOOLEAN
  <2>1. HasAssistant(fileEntries') \in BOOLEAN
    BY DEF HasAssistant
  <2> QED BY <1>1, <2>1 DEF IInv, TypeOK
<1>11. Last(fileEntries') = e
  BY <1>1, <1>2, <1>4, LastOfAppend
<1> QED BY <1>1, <1>2, <1>3, <1>5, <1>6, <1>7, <1>8, <1>9, <1>10, <1>11

(* What is to be written.                                                  *)
LEMMA WhatIsWritten ==
  ASSUME NEW es
  PROVE  /\ ~HasAssistant(es) => ToWrite(es) = <<>>
         /\ HasAssistant(es) /\ flushed => ToWrite(es) = <<Last(es)>>
         /\ HasAssistant(es) /\ ~flushed => ToWrite(es) = es
BY DEF ToWrite

(* Everything known after a step that leaves the files alone.              *)
LEMMA KnownAppended ==
  ASSUME IInv, NEW e, disk' = disk, ToSet(fileEntries') = ToSet(fileEntries) \union {e},
         ToSet(pending') \subseteq ToSet(fileEntries')
  PROVE  Known' \subseteq Known \union {e}
BY DEF Known

(* The size of a smaller set, and of a set with one element more.           *)
LEMMA Fewer ==
  ASSUME NEW M, IsFiniteSet(M), NEW N, N \subseteq M
  PROVE  IsFiniteSet(N) /\ Cardinality(N) <= Cardinality(M)
         /\ Cardinality(N) \in Nat /\ Cardinality(M) \in Nat
BY FS_Subset, FS_CardinalityType

(* One element more adds at most one.                                      *)
LEMMA OneMore ==
  ASSUME NEW M, IsFiniteSet(M), NEW x, NEW N, N \subseteq M \union {x}
  PROVE  IsFiniteSet(N) /\ Cardinality(N) <= Cardinality(M) + 1
         /\ Cardinality(N) \in Nat /\ Cardinality(M) \in Nat
<1>1. /\ IsFiniteSet(M \union {x}) /\ Cardinality(M) \in Nat
      /\ Cardinality(M \union {x}) = IF x \in M THEN Cardinality(M) ELSE Cardinality(M) + 1
  BY FS_AddElement, FS_CardinalityType
<1>2. Cardinality(N) <= Cardinality(M \union {x}) /\ IsFiniteSet(N) /\ Cardinality(N) \in Nat
      /\ Cardinality(M \union {x}) \in Nat
  BY <1>1, Fewer
<1> QED BY <1>1, <1>2

(* What is missed is finite.                                               *)
LEMMA MissedFinite == ASSUME IInv PROVE IsFiniteSet(Missed)
<1>1. fileEntries \in Seq(FileEntry)
  BY Typed
<1>2. IsFiniteSet(ToSet(fileEntries))
  BY <1>1, DistinctMembers
<1> QED BY <1>2, FS_Subset DEF Missed

(* A line that cannot be read is damage.                                   *)
LEMMA LastDamaged ==
  ASSUME NEW s \in Seq(Line)
  PROVE  Damage(s) \in Nat /\ (s # <<>> /\ Last(s) \notin FileEntry => Damage(s) >= 1)
<1>1. Damage(s) \in Nat
  BY DamageConcat
<1>2. ASSUME s # <<>>, Last(s) \notin FileEntry PROVE Damage(s) >= 1
  <2> SUFFICES ASSUME Damage(s) = 0 PROVE FALSE
    BY <1>1
  <2>1. s \in Seq(FileEntry)
    BY DamageNone
  <2> QED BY <1>2, <2>1, FrontLast
<1> QED BY <1>1, <1>2

(* What a cut last line owes, the file's damage covers.                    *)
LEMMA OwedIsPaid ==
  ASSUME IInv, alive
  PROVE  Damage(Disk) \in Nat /\ (Owed = 1 => Damage(Disk) >= 1) /\ Owed \in {0, 1}
<1>1. Disk \in Seq(Line) /\ (sessionFile \in unended => Disk # <<>>)
  BY Typed DEF IInv, TypeOK, Disk
<1> QED BY <1>1, LastDamaged DEF Owed

(* Appending, up to the first write, keeps the invariant.                  *)
LEMMA AppendedKeeps ==
  ASSUME IInv, NEW e \in SessionEntry, Appended(e)
  PROVE  IInv'
<1> DEFINE m == fileEntries
           n == fileEntries'
<1>a. Fresh(e) /\ InMemoryAppend(e) /\ pending' = ToWrite(n) /\ disk' = disk /\ created' = created
      /\ unended' = unended /\ unsaved' = unsaved /\ limits' = limits /\ labels' = Relabel(labels, e)
  BY DEF Appended, AppendEntry
<1>b. /\ alive /\ alive' /\ pending = <<>> /\ sessionFile' = sessionFile /\ nextFile' = nextFile
      /\ opens' = opens /\ nextId' = nextId + 1 /\ nextId' \in 1 .. MaxEntries + 1
      /\ n = Append(m, e) /\ n \in Seq(FileEntry)
      /\ n # <<>> /\ n[1] = Header
      /\ ToSet(n) = ToSet(m) \union {e}
      /\ leafId' \in {0} \union IdsOf(n)
      /\ flushed' = (flushed /\ HasAssistant(n)) /\ flushed' \in BOOLEAN
      /\ e \in FileEntry /\ e \notin Known /\ e.id \notin unsaved
      /\ HasAssistant(m) => HasAssistant(n)
      /\ Last(n) = e
  BY <1>a, MemoryAppended
<1>w. /\ ~HasAssistant(n) => pending' = <<>>
      /\ HasAssistant(n) /\ flushed => pending' = <<e>>
      /\ HasAssistant(n) /\ ~flushed => pending' = n
  BY <1>a, <1>b, WhatIsWritten
<1>t. m \in Seq(FileEntry) /\ ToSet(m) \subseteq Known /\ nextId \in Nat
      /\ Read \in Seq(FileEntry) /\ ToSet(Read) \subseteq Known /\ sessionFile \in File
  BY <1>b, Typed
<1>r. Read' = Read /\ Disk' = Disk
  BY <1>a, <1>b DEF Read, Disk
<1>c. \/ pending' = <<>> /\ ~HasAssistant(n)
      \/ pending' = <<e>> /\ flushed
      \/ pending' = n
  <2>1. CASE ~HasAssistant(n)
    BY <1>w, <2>1
  <2>2. CASE HasAssistant(n) /\ flushed
    BY <1>w, <2>2
  <2>3. CASE HasAssistant(n) /\ ~flushed
    BY <1>w, <2>3
  <2> QED BY <2>1, <2>2, <2>3
<1>p. pending' \in Seq(FileEntry) /\ ToSet(pending') \subseteq ToSet(n)
  <2>1. ToSet(<<>>) = {} /\ ToSet(<<e>>) = {e} /\ <<>> \in Seq(FileEntry) /\ <<e>> \in Seq(FileEntry)
    BY <1>b DEF ToSet
  <2> QED BY <1>b, <1>w, <2>1
<1>l. labels' \subseteq Id
  <2>1. labels \subseteq Id /\ (e.kind = "label" => e.target \in Id)
    BY <1>a DEF IInv, TypeOK, Fresh
  <2> QED BY <1>a, <2>1 DEF Relabel
<1> HIDE DEF m, n
<1>1. TypeOK'
  BY <1>a, <1>b, <1>p, <1>l DEF IInv, TypeOK, n
<1>2. Files'
  <2>1. Head(n) = Header
    BY <1>b
  <2>3. Disk' = <<>> /\ pending' # <<>> => Head(pending') = Header
    BY <1>b, <1>c, <1>r, <2>1 DEF IInv, Files
  <2> QED BY <1>a, <1>b, <1>r, <1>p, <2>3 DEF IInv, Files, n
<1>3. NothingHeldBack'
  <2>1. HasAssistant(n) => pending' # <<>>
    <3>1. <<e>> # <<>>
      OBVIOUS
    <3> QED BY <1>b, <1>c, <3>1
  <2> QED BY <2>1 DEF NothingHeldBack, n
<1>4. Sound'
  <2>1. Known' \subseteq Known \union {e}
    BY <1>a, <1>b, <1>p, KnownAppended DEF m, n
  <2>2. SoundEntry(e, nextId') /\ nextId <= e.id
    BY <1>a, <1>b, <1>t DEF SoundEntry, Fresh
  <2>3. nextId' \in Nat /\ nextId <= nextId'
    BY <1>b, <1>t
  <2>4. unsaved' \subseteq Nat /\ (\A i \in unsaved' : i < nextId') /\ (\A i, j \in unsaved' : i = j)
    BY <1>a, <1>b, <1>t DEF IInv, Sound, TypeOK, Id
  <2> DEFINE N == {e}
  <2>5. N \subseteq SessionEntry /\ Known' \subseteq Known \union N \union {Header, Malformed, Glued}
        /\ (\A d \in N : nextId <= d.id /\ SoundEntry(d, nextId')) /\ (\A c, d \in N : c.id = d.id => d = c)
    BY <2>1, <2>2
  <2> HIDE DEF N
  <2> QED BY <2>3, <2>4, <2>5, SoundGrows
<1>new. e \notin ToSet(m) /\ e \notin ToSet(Read)
  BY <1>b, <1>t
<1>5. Ahead'
  <2> SUFFICES ASSUME Damage(Disk) = 0
               PROVE  /\ Writing' =>
                           Distinct(Read \o pending') \in {Distinct(n), Saved(Distinct(n))}
                      /\ Writing' /\ (~flushed' \/ ~HasAssistant(n)) =>
                           Distinct(Read \o pending') = Distinct(n)
                      /\ ~Writing' => Distinct(Read \o n) = Distinct(n)
    <3>1. Saved(Distinct(fileEntries))' = Saved(Distinct(n))
      BY <1>a DEF Saved, n
    <3> QED BY <1>r, <3>1 DEF Ahead, n
  <2>1. Ahead /\ alive /\ Read \o <<>> = Read
    BY <1>b, <1>t DEF IInv
  <2>2. ASSUME ~flushed \/ ~HasAssistant(m) PROVE Distinct(Read \o n) = Distinct(n)
    <3>1. Distinct(Read \o m) = Distinct(m)
      <4>1. CASE ~flushed
        BY <1>b, <2>1, <4>1 DEF Ahead, Writing, m
      <4>2. CASE flushed
        <5>1. Distinct(Read) = Distinct(m)
          BY <1>b, <2>1, <2>2, <4>2 DEF Ahead, Writing, m
        <5>2. ToSet(m) = ToSet(Read)
          BY <1>t, <5>1, DistinctMembers
        <5> QED BY <1>t, <5>1, <5>2, DistinctRepeat
      <4> QED BY <4>1, <4>2
    <3> QED BY <1>b, <1>t, <1>new, <3>1, DistinctLater
  <2>3. CASE ~HasAssistant(n)
    BY <1>b, <1>w, <2>2, <2>3 DEF Writing
  <2>4. CASE HasAssistant(n) /\ ~flushed
    <3>1. Distinct(Read \o n) = Distinct(n)
      BY <2>2, <2>4
    <3> QED BY <1>b, <1>w, <2>4, <3>1 DEF Writing
  <2>5. CASE HasAssistant(n) /\ flushed
    <3>1. Writing' /\ flushed' /\ pending' = <<e>>
      BY <1>b, <1>w, <2>5 DEF Writing
    <3>2. Distinct(Read) \in {Distinct(m), Saved(Distinct(m))}
      BY <1>b, <2>1, <2>5 DEF Ahead, Writing, m
    <3>3. Distinct(Read \o <<e>>) = Append(Distinct(Read), e) /\ Distinct(n) = Append(Distinct(m), e)
      BY <1>b, <1>t, <1>new, DistinctNew
    <3>4. Saved(Append(Distinct(m), e)) = Append(Saved(Distinct(m)), e)
      <4>1. Distinct(m) \in Seq(FileEntry)
        BY <1>t, DistinctBuilt
      <4> QED BY <1>b, <4>1, SavedAppend
    <3> QED BY <2>5, <3>1, <3>2, <3>3, <3>4
  <2> QED BY <2>3, <2>4, <2>5
<1>6. Losses'
  <2> SUFFICES ASSUME Writing' PROVE Cardinality(Missed') + Owed' <= Damage(Disk)
    BY <1>r DEF Losses
  <2>1. Missed' = ToSet(n) \ (ToSet(Disk) \union ToSet(pending') \union Unwritten') /\ Owed' = Owed
    BY <1>a, <1>b, <1>r DEF Missed, Owed, n
  <2>0. Damage(Disk) \in Nat /\ (Owed = 1 => Damage(Disk) >= 1) /\ Owed \in {0, 1}
    BY <1>b, OwedIsPaid
  <2>2. CASE pending' = n
    <3>1. Missed' = {}
      BY <2>1, <2>2
    <3>2. Cardinality(Missed') = 0
      BY <3>1, FS_EmptySet
    <3> QED BY <2>0, <2>1, <3>2
  <2>3. CASE pending' = <<e>> /\ flushed
    <3>1. ToSet(pending') = {e} /\ ToSet(pending) = {}
      BY <1>b, <2>3 DEF ToSet
    <3>2. Unwritten \subseteq Unwritten'
      BY <1>a, <1>b DEF Unwritten, m, n
    <3>3. Missed' \subseteq Missed
      BY <1>b, <2>1, <3>1, <3>2 DEF Missed, m
    <3>4. Losses /\ alive /\ Writing
      BY <1>b, <2>3 DEF IInv, Writing
    <3>5. Cardinality(Missed') <= Cardinality(Missed) /\ Cardinality(Missed') \in Nat
          /\ Cardinality(Missed) \in Nat
      BY <3>3, MissedFinite, Fewer
    <3>6. Cardinality(Missed) + Owed <= Damage(Disk)
      BY <3>4 DEF Losses
    <3> QED BY <2>0, <2>1, <3>5, <3>6
  <2> QED BY <1>b, <1>w, <2>2, <2>3 DEF Writing
<1>7. LabelsMatch'
  <2>1. LabelsOf(n) = Relabel(LabelsOf(m), e)
    BY <1>b, <1>t, LabelsAppend
  <2>2. Saved(n) = Append(Saved(m), e) /\ Saved(m) \in Seq(FileEntry)
    BY <1>b, <1>t, SavedAppend, SavedType
  <2>3. LabelsOf(Saved(n)) = Relabel(LabelsOf(Saved(m)), e)
    BY <1>b, <2>2, LabelsAppend
  <2>4. labels \in {LabelsOf(m), LabelsOf(Saved(m))}
    BY DEF IInv, LabelsMatch, m
  <2>5. Saved(fileEntries)' = Saved(n)
    BY <1>a DEF Saved, n
  <2>6. labels' \in {LabelsOf(n), LabelsOf(Saved(n))}
    BY <1>a, <2>1, <2>3, <2>4
  <2> QED BY <2>5, <2>6 DEF LabelsMatch, n
<1> QED BY <1>1, <1>2, <1>3, <1>4, <1>5, <1>6, <1>7 DEF IInv

(* The lines of one file change.                                           *)
LEMMA OneFile ==
  ASSUME NEW d, d \in [File -> Seq(Line)], NEW f \in File, NEW ls \in Seq(Line),
         NEW d1, d1 = [d EXCEPT ![f] = ls]
  PROVE  /\ d1 \in [File -> Seq(Line)] /\ d1[f] = ls
         /\ \A g \in File : g # f => d1[g] = d[g]
OBVIOUS

(* What a file says without a last line that lacks its newline it says.     *)
LEMMA EndedFirst ==
  ASSUME NEW f \in File, disk[f] \in Seq(Line), f \in unended => disk[f] # <<>>
  PROVE  IsPrefix(Load(Ended(f)), Load(disk[f]))
<1> DEFINE ls == disk[f]
<1>1. CASE f \in unended
  <2> DEFINE b == Front(ls)
             t == <<Last(ls)>>
  <2>1. ls \in Seq(Line) /\ ls # <<>>
    BY <1>1
  <2> HIDE DEF ls
  <2>2. b \in Seq(Line) /\ t \in Seq(Line) /\ ls = b \o t
    <3>1. Front(ls) \in Seq(Line) /\ Last(ls) \in Line /\ ls = Append(Front(ls), Last(ls))
      BY <2>1, FrontLast
    <3>2. Append(Front(ls), Last(ls)) = Front(ls) \o <<Last(ls)>>
      BY <3>1
    <3> QED BY <3>1, <3>2
  <2>3. Ended(f) = b
    BY <1>1 DEF Ended, ls
  <2> HIDE DEF b, t
  <2>4. IsPrefix(Load(b), Load(b \o t))
    BY <2>2, LoadPrefix
  <2> QED BY <2>2, <2>3, <2>4 DEF ls
<1>2. CASE f \notin unended
  <2>1. Load(disk[f]) \in Seq(FileEntry)
    BY LoadType
  <2> QED BY <1>2, <2>1 DEF Ended, IsPrefix
<1> QED BY <1>1, <1>2

(* No file says less when one is written and says no less, or none is.     *)
LEMMA OneFileGrows ==
  ASSUME IInv, NEW f \in File, NEW ls \in Seq(Line),
         disk' = [disk EXCEPT ![f] = ls], IsPrefix(Load(Ended(f)), Load(ls))
  PROVE  Grows
<1> SUFFICES ASSUME NEW g \in File PROVE IsPrefix(Load(Ended(g)), Load(disk'[g]))
  BY DEF Grows
<1>0. disk \in [File -> Seq(Line)] /\ (g \in unended => disk[g] # <<>>)
  BY DEF IInv, TypeOK, Line, Unread
<1>1. disk'[f] = ls /\ (g # f => disk'[g] = disk[g])
  BY <1>0
<1>2. IsPrefix(Load(Ended(g)), Load(disk[g]))
  BY <1>0, EndedFirst
<1>3. CASE g = f
  BY <1>1, <1>3
<1>4. CASE g # f
  BY <1>1, <1>2, <1>4
<1> QED BY <1>3, <1>4

(* No file says less when none is written.                                  *)
LEMMA SameGrows ==
  ASSUME IInv, disk' = disk
  PROVE  Grows
<1> SUFFICES ASSUME NEW g \in File PROVE IsPrefix(Load(Ended(g)), Load(disk'[g]))
  BY DEF Grows
<1>1. disk \in [File -> Seq(Line)] /\ (g \in unended => disk[g] # <<>>)
  BY DEF IInv, TypeOK, Line, Unread
<1> QED BY <1>1, EndedFirst

(* What is known after a file was written was known or is new.              *)
LEMMA KnownWritten ==
  ASSUME IInv, NEW f \in File, NEW ls \in Seq(Line), disk' = [disk EXCEPT ![f] = ls],
         NEW N, ToSet(ls) \subseteq Known \union N,
         ToSet(fileEntries') \subseteq Known \union N, ToSet(pending') \subseteq Known \union N
  PROVE  Known' \subseteq Known \union N
<1>1. disk \in [File -> Seq(Line)]
  BY DEF IInv, TypeOK, Line, Unread
<1>2. disk'[f] = ls /\ \A g \in File : g # f => disk'[g] = disk[g]
  BY <1>1, OneFile
<1>3. ASSUME NEW g \in File PROVE ToSet(disk'[g]) \subseteq Known \union N
  BY <1>2, Typed
<1>4. UNION {ToSet(disk'[g]) : g \in File} \subseteq Known \union N
  BY <1>3
<1> QED BY <1>4 DEF Known

(* A sequence is a beginning and the rest.                                 *)
LEMMA SplitAt ==
  ASSUME NEW S, NEW s \in Seq(S), NEW k \in 0 .. Len(s)
  PROVE  /\ s = SubSeq(s, 1, k) \o SubSeq(s, k + 1, Len(s))
         /\ SubSeq(s, 1, k) \in Seq(S) /\ SubSeq(s, k + 1, Len(s)) \in Seq(S)
<1>1. SubSeq(s, 1, k) \in Seq(S) /\ SubSeq(s, k + 1, Len(s)) \in Seq(S)
  OBVIOUS
<1>2. 1 \in 1 .. Len(s) + 1 /\ k \in 1 - 1 .. Len(s) /\ Len(s) \in k .. Len(s)
  OBVIOUS
<1>3. SubSeq(s, 1, k) \o SubSeq(s, k + 1, Len(s)) = SubSeq(s, 1, Len(s))
  BY <1>2, ConcatAdjacentSubSeq
<1> QED BY <1>1, <1>3, SubSeqFull

(* What a write leaves in the file of the session.                         *)
Result(lines) == AppendLines(Disk, sessionFile \notin unended, lines)
FilesWritten ==
  /\ \A f \in File : f >= nextFile => disk'[f] = <<>>
  /\ created' \subseteq File /\ \A f \in created' : f < nextFile
  /\ unended' \subseteq {f \in File : disk'[f] # <<>>}
LEMMA WriteIs ==
  ASSUME IInv, alive, NEW lines \in Seq(FileEntry \union {Malformed}), NEW cut \in BOOLEAN,
         Write(lines, cut)
  PROVE  /\ disk' = [disk EXCEPT ![sessionFile] = Result(lines)]
         /\ disk' \in [File -> Seq(Line)] /\ disk'[sessionFile] = Result(lines)
         /\ Result(lines) \in Seq(Line)
         /\ ToSet(Result(lines)) \subseteq ToSet(Disk) \union ToSet(lines) \union Unread
         /\ Disk # <<>> \/ lines # <<>> => Result(lines) # <<>>
         /\ Damage(Result(lines)) = 0 =>
              Result(lines) = Disk \o lines /\ Damage(Disk) = 0 /\ lines \in Seq(FileEntry)
         /\ lines = <<>> => Result(lines) = Disk /\ unended' = unended
         /\ lines # <<>> => (sessionFile \in unended' <=> cut)
         /\ FilesWritten /\ Grows
<1> DEFINE r == Result(lines)
<1>1. /\ Disk \in Seq(Line) /\ sessionFile \in File /\ sessionFile \in Nat /\ nextFile \in Nat
      /\ disk \in [File -> Seq(Line)] /\ unended \subseteq {f \in File : disk[f] # <<>>}
      /\ sessionFile < nextFile /\ created \subseteq File /\ (\A f \in created : f < nextFile)
      /\ \A f \in File : f >= nextFile => disk[f] = <<>>
  <2>1. Disk \in Seq(Line) /\ sessionFile \in File /\ sessionFile \in Nat /\ nextFile \in Nat
    BY Typed DEF Disk
  <2> QED BY <2>1 DEF IInv, TypeOK, Files, Line, Unread
<1>2. Disk = <<>> => sessionFile \notin unended
  BY <1>1 DEF Disk
<1>3. /\ r \in Seq(Line) /\ ToSet(r) \subseteq ToSet(Disk) \union ToSet(lines) \union Unread
      /\ lines = <<>> => r = Disk
      /\ lines # <<>> \/ Disk # <<>> => r # <<>>
      /\ Damage(r) = 0 => r = Disk \o lines /\ Damage(Disk) = 0 /\ lines \in Seq(FileEntry)
      /\ sessionFile \notin unended => IsPrefix(Load(Disk), Load(r))
      /\ sessionFile \in unended => IsPrefix(Load(Front(Disk)), Load(r))
  <2> DEFINE ended == sessionFile \notin unended
  <2>1. ended \in BOOLEAN /\ r = AppendLines(Disk, ended, lines) /\ (Disk = <<>> => ended)
    BY <1>2 DEF Result
  <2> HIDE DEF r
  <2>2. /\ r \in Seq(Line) /\ ToSet(r) \subseteq ToSet(Disk) \union ToSet(lines) \union Unread
        /\ lines = <<>> => r = Disk
        /\ lines # <<>> \/ Disk # <<>> => r # <<>>
        /\ Damage(r) = 0 => r = Disk \o lines /\ Damage(Disk) = 0 /\ lines \in Seq(FileEntry)
        /\ ended => IsPrefix(Load(Disk), Load(r))
        /\ ~ended => IsPrefix(Load(Front(Disk)), Load(r))
    <3> HIDE DEF ended
    <3>1. Extends(Disk, ended, lines, r)
      BY <1>1, <2>1, AppendLinesIs
    <3> QED BY <3>1 DEF Extends
  <2> QED BY <2>2
<1>4. disk' = [disk EXCEPT ![sessionFile] = r]
  BY DEF Write, Result, Disk
<1> HIDE DEF r
<1>5. disk' \in [File -> Seq(Line)] /\ disk'[sessionFile] = r
      /\ \A g \in File : g # sessionFile => disk'[g] = disk[g]
  BY <1>1, <1>3, <1>4, OneFile
<1>6. /\ lines = <<>> => unended' = unended
      /\ lines # <<>> => (sessionFile \in unended' <=> cut)
      /\ unended' \subseteq unended \union {sessionFile}
  BY DEF Write
<1>7. FilesWritten
  <2>1. ASSUME NEW f \in unended' PROVE f \in File /\ disk'[f] # <<>>
    <3>1. CASE f # sessionFile
      BY <1>1, <1>5, <1>6, <2>1, <3>1
    <3>2. CASE f = sessionFile
      BY <1>1, <1>3, <1>5, <1>6, <2>1, <3>2 DEF Disk
    <3> QED BY <3>1, <3>2
  <2>2. created' = created \union {sessionFile}
    BY DEF Write
  <2>3. ASSUME NEW f \in File, f >= nextFile PROVE disk'[f] = <<>>
    <3>1. f # sessionFile
      BY <1>1, <2>3
    <3> QED BY <1>1, <1>5, <2>3, <3>1
  <2> QED BY <1>1, <2>1, <2>2, <2>3 DEF FilesWritten
<1>8. Grows
  <2>1. IsPrefix(Load(Ended(sessionFile)), Load(r))
    BY <1>3 DEF Ended, Disk
  <2> QED BY <1>1, <1>3, <1>4, <2>1, OneFileGrows
<1> QED BY <1>3, <1>4, <1>5, <1>6, <1>7, <1>8 DEF r

(* What one line costs the session that is written.                        *)
LEMMA LossesCounted ==
  ASSUME IInv, alive, Writing, NEW x \in FileEntry \union {Malformed}, NEW cut \in BOOLEAN,
         Write(<<x>>, cut), sessionFile' = sessionFile,
         Missed' \subseteq Missed \union ((ToSet(Disk) \union {x}) \ ToSet(Disk')),
         cut => x \notin Missed'
  PROVE  Losses'
<1> DEFINE ended == sessionFile \notin unended
           r == Result(<<x>>)
<1>1. /\ <<x>> \in Seq(FileEntry \union {Malformed}) /\ <<x>> # <<>> /\ Disk \in Seq(Line)
      /\ sessionFile \in unended => Disk # <<>>
  BY Typed DEF IInv, TypeOK, Disk
<1>2. Disk' = r /\ (sessionFile' \in unended' <=> cut)
  BY <1>1, WriteIs DEF Disk
<1>3. GoesOn(Disk, ended, x, r)
  <2>1. ended \in BOOLEAN /\ (Disk = <<>> => ended)
    BY <1>1
  <2>2. r = AppendLine(Disk, ended, x)
    <3>1. r = AppendLine(Disk, ended, x) \o <<>>
      BY DEF Result, AppendLines
    <3> DEFINE a == AppendLine(Disk, ended, x)
    <3>2. a \in Seq(Line)
      <4> HIDE DEF ended
      <4> QED BY <1>1, <2>1, AppendLineIs DEF GoesOn
    <3> HIDE DEF a
    <3>3. a \o <<>> = a
      BY <3>2
    <3> QED BY <3>1, <3>3 DEF a
  <2> HIDE DEF ended, r
  <2> QED BY <1>1, <2>1, <2>2, AppendLineIs
<1>4. /\ IsFiniteSet(Missed) /\ Cardinality(Missed) + Owed <= Damage(Disk) /\ Damage(Disk) \in Nat
      /\ Cardinality(Missed) \in Nat
  <2>1. Cardinality(Missed) + Owed <= Damage(Disk)
    BY DEF IInv, Losses
  <2> QED BY <2>1, MissedFinite, OwedIsPaid, FS_CardinalityType
<1>o. Owed = IF ~ended /\ Last(Disk) \notin FileEntry THEN 1 ELSE 0
  BY DEF Owed
<1>p. Owed' = IF cut /\ Last(r) \notin FileEntry THEN 1 ELSE 0
  BY <1>2 DEF Owed
<1>q. Malformed \notin FileEntry
  BY Lines
<1> SUFFICES Cardinality(Missed') + Owed' <= Damage(r)
  BY <1>2 DEF Losses
<1>m. Missed' \subseteq Missed \union ((ToSet(Disk) \union {x}) \ ToSet(r))
  BY <1>2
<1> DEFINE M == Missed
           N == Missed'
<1> HIDE DEF ended, r, M, N
<1>5. CASE ended
  <2>1. ToSet(r) = ToSet(Disk) \union {x} /\ Last(r) = x
    BY <1>3, <1>5 DEF GoesOn
  <2>2. N \subseteq M
    BY <1>m, <2>1 DEF M, N
  <2>3. Cardinality(N) <= Cardinality(M) /\ Cardinality(N) \in Nat
    BY <1>4, <2>2, Fewer DEF M
  <2>4. Owed = 0
    BY <1>5, <1>o
  <2>5. CASE x = Malformed
    <3>1. Damage(r) = Damage(Disk) + 1 /\ Owed' \in {0, 1}
      BY <1>3, <1>5, <1>p, <2>5 DEF GoesOn
    <3> QED BY <1>4, <2>3, <2>4, <3>1 DEF M, N
  <2>6. CASE x # Malformed
    <3>1. Damage(r) = Damage(Disk) /\ Owed' = 0
      BY <1>3, <1>5, <1>p, <2>1, <2>6 DEF GoesOn
    <3> QED BY <1>4, <2>3, <2>4, <3>1 DEF M, N
  <2> QED BY <2>5, <2>6
<1>6. CASE ~ended /\ Last(Disk) \in FileEntry
  <2>1. ToSet(Disk) \subseteq ToSet(r) \union {Last(Disk)} /\ Damage(r) = Damage(Disk) + 2
    BY <1>3, <1>6 DEF GoesOn
  <2>2. Owed = 0
    BY <1>6, <1>o
  <2> DEFINE l == Last(Disk)
             A == N \ {x}
  <2> HIDE DEF l
  <2>3. A \subseteq M \union {l}
    BY <1>m, <2>1 DEF M, N, l
  <2>4. IsFiniteSet(A) /\ Cardinality(A) <= Cardinality(M) + 1 /\ Cardinality(A) \in Nat
    <3> HIDE DEF A
    <3> QED BY <1>4, <2>3, OneMore DEF M
  <2>5. CASE cut
    <3>1. N = A
      BY <2>5 DEF N
    <3> HIDE DEF A
    <3>2. Owed' \in {0, 1}
      BY <1>p
    <3>3. Cardinality(N) <= Cardinality(M) + 1 /\ Cardinality(N) \in Nat
      BY <2>4, <3>1
    <3>4. Cardinality(N) + Owed' <= Damage(r)
      BY <1>4, <2>1, <2>2, <3>2, <3>3 DEF M
    <3> QED BY <3>4 DEF N
  <2>6. CASE ~cut
    <3>1. N \subseteq A \union {x}
      OBVIOUS
    <3>2. Owed' = 0
      BY <1>p, <2>6
    <3> HIDE DEF A
    <3>3. Cardinality(N) <= Cardinality(A) + 1 /\ Cardinality(N) \in Nat
      BY <2>4, <3>1, OneMore
    <3>4. Cardinality(N) <= Cardinality(M) + 2
      BY <1>4, <2>4, <3>3 DEF M
    <3>5. Cardinality(N) + Owed' <= Damage(r)
      BY <1>4, <2>1, <2>2, <3>2, <3>3, <3>4 DEF M
    <3> QED BY <3>5 DEF N
  <2> QED BY <2>5, <2>6
<1>7. CASE ~ended /\ Last(Disk) \notin FileEntry
  <2>1. r = Disk
    BY <1>3, <1>7 DEF GoesOn
  <2>2. Owed = 1
    BY <1>7, <1>o
  <2>3. N \subseteq M \union {x}
    BY <1>m, <2>1 DEF M, N
  <2>4. CASE cut
    <3>1. N \subseteq M /\ Owed' \in {0, 1}
      BY <1>p, <2>3, <2>4 DEF N
    <3>2. Cardinality(N) <= Cardinality(M) /\ Cardinality(N) \in Nat
      BY <1>4, <3>1, Fewer DEF M
    <3> QED BY <1>4, <2>1, <2>2, <3>1, <3>2 DEF M, N
  <2>5. CASE ~cut
    <3>1. Owed' = 0
      BY <1>p, <2>5
    <3>2. Cardinality(N) <= Cardinality(M) + 1 /\ Cardinality(N) \in Nat
      BY <1>4, <2>3, OneMore DEF M
    <3> QED BY <1>4, <2>1, <2>2, <3>1, <3>2 DEF M, N
  <2> QED BY <2>4, <2>5
<1> QED BY <1>5, <1>6, <1>7

(* The lines a refused write leaves: a beginning of what was to be         *)
(* written, or that and a cut line.                                        *)
LEMMA RefusedWrites ==
  ASSUME IInv, NEW e \in SessionEntry, Refused(e)
  PROVE  \E lines \in Seq(FileEntry \union {Malformed}), cut \in BOOLEAN :
           /\ Write(lines, cut) /\ HasAssistant(fileEntries')
           /\ ToSet(lines) \subseteq ToSet(fileEntries') \union {Malformed}
           /\ flushed => lines = <<>> \/ (cut /\ (lines = <<e>> \/ lines = <<Malformed>>))
           /\ ~flushed /\ lines \in Seq(FileEntry) => \E q \in Seq(FileEntry) : fileEntries' = lines \o q
<1> DEFINE n == fileEntries'
           w == ToWrite(n)
           S == FileEntry \union {Malformed}
<1>1. InMemoryAppend(e) /\ Fresh(e)
  BY DEF Refused, RefusedAppend
<1>2. n \in Seq(FileEntry) /\ Last(n) = e /\ e \in FileEntry /\ ToSet(n) = ToSet(fileEntries) \union {e}
  BY <1>1, MemoryAppended
<1>3. PICK k \in 0 .. Len(w) - 1 :
         Write(SubSeq(w, 1, k), FALSE) \/ WriteCut(SubSeq(w, 1, k), w[k + 1])
  BY DEF Refused, RefusedAppend
<1>4. \/ Write(SubSeq(w, 1, k), FALSE)
      \/ \E x \in {Malformed, w[k + 1]} : Write(Append(SubSeq(w, 1, k), x), TRUE)
  BY <1>3 DEF WriteCut
<1>q. Malformed \notin FileEntry
  BY Lines
<1> HIDE DEF n, w
<1>5. CASE ~HasAssistant(n)
  <2>1. w = <<>>
    BY <1>5, WhatIsWritten DEF w
  <2>2. Len(w) = 0
    BY <2>1
  <2> QED BY <1>3, <2>2
<1>6. CASE HasAssistant(n) /\ flushed
  <2>1. w = <<e>>
    BY <1>2, <1>6, WhatIsWritten DEF w
  <2>2. k = 0 /\ w[k + 1] = e
    BY <1>3, <2>1
  <2>3. SubSeq(w, 1, k) = <<>>
    BY <2>1, <2>2
  <2>4. ToSet(<<>>) = {} /\ <<>> \in Seq(S)
    BY DEF ToSet
  <2>5. CASE Write(<<>>, FALSE)
    BY <1>6, <2>4, <2>5 DEF n
  <2>6. ASSUME NEW x \in {Malformed, e}, Write(Append(<<>>, x), TRUE)
        PROVE  \E lines \in Seq(S), cut \in BOOLEAN :
                 /\ Write(lines, cut) /\ HasAssistant(n)
                 /\ ToSet(lines) \subseteq ToSet(n) \union {Malformed}
                 /\ cut /\ (lines = <<e>> \/ lines = <<Malformed>>)
    <3>1. Append(<<>>, x) = <<x>> /\ <<x>> \in Seq(S) /\ ToSet(<<x>>) = {x}
      BY <1>2, <2>6 DEF ToSet
    <3>2. Write(<<x>>, TRUE)
      BY <2>6, <3>1
    <3>3. (<<x>> = <<e>> \/ <<x>> = <<Malformed>>) /\ ToSet(<<x>>) \subseteq ToSet(n) \union {Malformed}
      BY <1>2, <2>6, <3>1
    <3> DEFINE one == <<x>>
    <3> HIDE DEF one
    <3>4. one \in Seq(S) /\ Write(one, TRUE) /\ (one = <<e>> \/ one = <<Malformed>>)
          /\ ToSet(one) \subseteq ToSet(n) \union {Malformed}
      BY <3>1, <3>2, <3>3 DEF one
    <3> QED BY <1>6, <3>4
  <2>7. Write(<<>>, FALSE) \/ \E x \in {Malformed, e} : Write(Append(<<>>, x), TRUE)
    BY <1>4, <2>2, <2>3
  <2>8. CASE \E x \in {Malformed, e} : Write(Append(<<>>, x), TRUE)
    BY <1>6, <2>6, <2>8 DEF n
  <2> QED BY <2>5, <2>7, <2>8
<1>7. CASE HasAssistant(n) /\ ~flushed
  <2>1. w = n
    BY <1>7, WhatIsWritten DEF w
  <2>2. Len(n) \in Nat /\ k \in 0 .. Len(n) /\ k + 1 \in 0 .. Len(n) /\ k \in Nat
    BY <1>2, <1>3, <2>1
  <2> DEFINE s == SubSeq(n, 1, k)
             u == SubSeq(n, 1, k + 1)
  <2>3. /\ s \in Seq(FileEntry) /\ \E q \in Seq(FileEntry) : n = s \o q
        /\ u \in Seq(FileEntry) /\ \E q \in Seq(FileEntry) : n = u \o q
    <3>1. \A j \in 0 .. Len(n) :
            /\ SubSeq(n, 1, j) \in Seq(FileEntry) /\ SubSeq(n, j + 1, Len(n)) \in Seq(FileEntry)
            /\ n = SubSeq(n, 1, j) \o SubSeq(n, j + 1, Len(n))
      BY <1>2, SplitAt
    <3> DEFINE Starts(a) == a \in Seq(FileEntry) /\ \E q \in Seq(FileEntry) : n = a \o q
    <3>2. \A j \in 0 .. Len(n) : Starts(SubSeq(n, 1, j))
      BY <3>1
    <3> HIDE DEF Starts
    <3>3. Starts(s) /\ Starts(u)
      BY <2>2, <3>2
    <3> QED BY <3>3 DEF Starts
  <2>4. Append(s, n[k + 1]) = u
    BY <1>2, <2>2
  <2> HIDE DEF s, u
  <2>5. ToSet(s) \subseteq ToSet(n) /\ ToSet(u) \subseteq ToSet(n)
    <3>1. PICK p, q \in Seq(FileEntry) : n = s \o p /\ n = u \o q
      BY <2>3
    <3>2. \A a, b \in Seq(FileEntry) : ToSet(a \o b) = ToSet(a) \union ToSet(b)
      BY SetOfConcat
    <3>3. ToSet(s \o p) = ToSet(s) \union ToSet(p) /\ ToSet(u \o q) = ToSet(u) \union ToSet(q)
      BY <2>3, <3>1, <3>2
    <3> QED BY <3>1, <3>3
  <2>6. Append(s, Malformed) \in Seq(S) /\ Append(s, Malformed) \notin Seq(FileEntry)
        /\ ToSet(Append(s, Malformed)) = ToSet(s) \union {Malformed}
    <3>1. s \in Seq(S) /\ Malformed \in S
      BY <2>3
    <3>2. ToSet(Append(s, Malformed)) = ToSet(s) \union {Malformed} /\ Append(s, Malformed) \in Seq(S)
      BY <3>1, SetOfAppend
    <3>3. Append(s, Malformed) \in Seq(FileEntry) => ToSet(Append(s, Malformed)) \subseteq FileEntry
      BY DEF ToSet
    <3> QED BY <1>q, <3>2, <3>3
  <2>7. s \in Seq(S) /\ u \in Seq(S)
    BY <2>3
  <2>8. Write(s, FALSE) \/ Write(Append(s, Malformed), TRUE) \/ Write(u, TRUE)
    BY <1>4, <2>1, <2>4 DEF s
  <2>9. CASE Write(s, FALSE)
    BY <1>7, <2>3, <2>5, <2>7, <2>9 DEF n
  <2>10. CASE Write(u, TRUE)
    BY <1>7, <2>3, <2>5, <2>7, <2>10 DEF n
  <2>11. CASE Write(Append(s, Malformed), TRUE)
    <3> DEFINE v == Append(s, Malformed)
    <3>1. v \in Seq(S) /\ v \notin Seq(FileEntry) /\ ToSet(v) \subseteq ToSet(n) \union {Malformed}
          /\ Write(v, TRUE)
      BY <2>5, <2>6, <2>11
    <3> HIDE DEF v
    <3> QED BY <1>7, <3>1 DEF n
  <2> QED BY <2>8, <2>9, <2>10, <2>11
<1> QED BY <1>5, <1>6, <1>7

(* A refused write keeps the invariant.                                    *)
LEMMA RefusedKeeps ==
  ASSUME IInv, NEW e \in SessionEntry, Refused(e)
  PROVE  IInv' /\ Grows
<1> DEFINE m == fileEntries
           n == fileEntries'
<1>a. Fresh(e) /\ InMemoryAppend(e) /\ unsaved = {} /\ unsaved' = {e.id} /\ pending' = pending
      /\ labels' = labels /\ limits' = limits
  BY DEF Refused, RefusedAppend
<1>b. /\ alive /\ alive' /\ pending = <<>> /\ sessionFile' = sessionFile /\ nextFile' = nextFile
      /\ opens' = opens /\ nextId' = nextId + 1 /\ nextId' \in 1 .. MaxEntries + 1
      /\ n = Append(m, e) /\ n \in Seq(FileEntry)
      /\ n # <<>> /\ n[1] = Header
      /\ ToSet(n) = ToSet(m) \union {e}
      /\ leafId' \in {0} \union IdsOf(n)
      /\ flushed' = (flushed /\ HasAssistant(n)) /\ flushed' \in BOOLEAN
      /\ e \in FileEntry /\ e \notin Known /\ e.id \notin unsaved
      /\ HasAssistant(m) => HasAssistant(n)
      /\ Last(n) = e
  BY <1>a, MemoryAppended
<1>t. m \in Seq(FileEntry) /\ ToSet(m) \subseteq Known /\ nextId \in Nat
      /\ Read \in Seq(FileEntry) /\ ToSet(Read) \subseteq Known /\ sessionFile \in File
      /\ Disk \in Seq(Line) /\ ToSet(Disk) \subseteq Known /\ sessionFile \in Nat /\ nextFile \in Nat
  BY <1>b, Typed DEF Disk
<1>f. (Damage(Disk) = 0 /\ Disk # <<>> => Disk[1] = Header) /\ (Disk = <<>> => ~flushed)
      /\ sessionFile < nextFile
  BY <1>b DEF IInv, Files
<1>d. disk \in [File -> Seq(Line)]
  BY DEF IInv, TypeOK, Line, Unread
<1>n. PICK lines \in Seq(FileEntry \union {Malformed}), cut \in BOOLEAN :
        /\ Write(lines, cut) /\ HasAssistant(n)
        /\ ToSet(lines) \subseteq ToSet(n) \union {Malformed}
        /\ flushed => lines = <<>> \/ (cut /\ (lines = <<e>> \/ lines = <<Malformed>>))
        /\ ~flushed /\ lines \in Seq(FileEntry) => \E q \in Seq(FileEntry) : n = lines \o q
  BY RefusedWrites
<1> DEFINE ls == Result(lines)
<1> HIDE DEF m, n
<1>x. /\ disk' = [disk EXCEPT ![sessionFile] = ls]
      /\ disk' \in [File -> Seq(Line)] /\ disk'[sessionFile] = ls
      /\ ls \in Seq(Line)
      /\ ToSet(ls) \subseteq ToSet(Disk) \union ToSet(lines) \union Unread
      /\ Disk # <<>> \/ lines # <<>> => ls # <<>>
      /\ Damage(ls) = 0 => ls = Disk \o lines /\ Damage(Disk) = 0 /\ lines \in Seq(FileEntry)
      /\ lines = <<>> => ls = Disk /\ unended' = unended
      /\ lines # <<>> => (sessionFile \in unended' <=> cut)
      /\ FilesWritten /\ Grows
  BY <1>b, <1>n, WriteIs
<1> HIDE DEF ls
<1>z. Disk' = ls /\ Read' = Load(ls) /\ flushed' = flushed
  <2>1. flushed \in BOOLEAN
    BY DEF IInv, TypeOK
  <2> QED BY <1>b, <1>n, <1>x, <2>1 DEF Disk, Read
<1>id. e.id = nextId /\ nextId \in Id
  BY <1>a, Lines DEF Fresh
<1>new. e \notin ToSet(m) /\ e \notin ToSet(Read)
  BY <1>b, <1>t
<1>old. \A d \in Known : d.id # e.id
  <2>1. ASSUME NEW d \in Known, d.id = e.id PROVE FALSE
    <3>1. d \in Line
      <4>1. \A f \in File : ToSet(disk[f]) \subseteq Line
        BY <1>d DEF ToSet
      <4>2. ToSet(fileEntries) \subseteq Line /\ ToSet(pending) \subseteq Line
        BY Typed DEF ToSet, Line
      <4> QED BY <2>1, <4>1, <4>2 DEF Known
    <3>2. d \in SessionEntry
      BY <1>id, <2>1, <3>1, Lines DEF Line, Unread
    <3>3. d.id < nextId
      BY <3>2 DEF IInv, Sound, SoundEntry
    <3> QED BY <1>id, <1>t, <2>1, <3>3
  <2> QED BY <2>1
(* What an undamaged file holds after the write. *)
<1>w. ASSUME Damage(ls) = 0
      PROVE  /\ Damage(Disk) = 0 /\ Read = Disk /\ Read' = Disk \o lines
             /\ lines \in Seq(FileEntry) /\ (ls # <<>> => ls[1] = Header)
  <2>1. ls = Disk \o lines /\ Damage(Disk) = 0 /\ lines \in Seq(FileEntry)
    BY <1>x, <1>w
  <2>2. Load(Disk) = Disk /\ Disk \in Seq(FileEntry)
    BY <1>t, <1>f, <2>1, LoadWhole
  <2>3. ASSUME ls # <<>> PROVE ls[1] = Header
    <3>1. CASE Disk # <<>>
      <4>1. Len(Disk) \in Nat \ {0} /\ (Disk \o lines)[1] = Disk[1]
        BY <2>1, <2>2, <3>1
      <4> QED BY <1>f, <2>1, <3>1, <4>1
    <3>2. CASE Disk = <<>>
      <4>1. ls = lines /\ ~flushed
        BY <1>f, <2>1, <3>2
      <4>2. PICK q \in Seq(FileEntry) : n = lines \o q
        BY <1>n, <2>1, <4>1
      <4>3. Len(lines) \in Nat \ {0}
        BY <2>1, <2>3, <4>1
      <4>4. n[1] = lines[1]
        BY <2>1, <4>2, <4>3
      <4> QED BY <1>b, <4>1, <4>4
    <3> QED BY <3>1, <3>2
  <2>4. Load(ls) = ls
    BY <1>x, <1>w, <2>3, LoadWhole
  <2> QED BY <1>z, <2>1, <2>2, <2>3, <2>4 DEF Read, Disk
<1>1. TypeOK'
  <2>1. unsaved' \subseteq Id /\ labels' \subseteq Id
    BY <1>a, <1>t, <1>id DEF IInv, TypeOK
  <2> QED BY <1>a, <1>b, <1>x, <2>1 DEF IInv, TypeOK, FilesWritten, n, Line, Unread
<1>2. Files'
  <2>1. ToSet(pending') \subseteq ToSet(n) /\ pending' = <<>>
    BY <1>a, <1>b DEF ToSet
  <2>2. (Damage(Disk') = 0 /\ Disk' # <<>> => Disk'[1] = Header) /\ (Disk' = <<>> => ~flushed')
    BY <1>f, <1>w, <1>x, <1>z
  <2>3. /\ \A g \in File : g >= nextFile' => disk'[g] = <<>>
        /\ \A g \in created' : g < nextFile'
    BY <1>b, <1>x DEF FilesWritten
  <2>4. /\ sessionFile' < nextFile' /\ alive' /\ sessionFile' \in File
        /\ fileEntries' # <<>> /\ fileEntries'[1] = Header
    BY <1>b, <1>t, <1>f DEF n
  <2> QED BY <2>1, <2>2, <2>3, <2>4 DEF Files, n
<1>3. NothingHeldBack'
  BY <1>a DEF NothingHeldBack
<1>4. Sound'
  <2> DEFINE N == {e}
             A == N \union {Header, Malformed, Glued}
  <2>1. ToSet(ls) \subseteq Known \union A
    BY <1>b, <1>t, <1>n, <1>x DEF Unread
  <2>2. ToSet(n) \subseteq Known \union A /\ ToSet(pending') \subseteq Known \union A
    <3>1. ToSet(pending') = {}
      BY <1>a, <1>b DEF ToSet
    <3> QED BY <1>b, <1>t, <3>1
  <2> HIDE DEF A
  <2>3. Known' \subseteq Known \union A
    BY <1>t, <1>x, <2>1, <2>2, KnownWritten DEF n
  <2>4. SoundEntry(e, nextId') /\ nextId <= e.id
    BY <1>a, <1>b, <1>t DEF SoundEntry, Fresh
  <2>5. nextId' \in Nat /\ nextId <= nextId'
    BY <1>b, <1>t
  <2>6. unsaved' \subseteq Nat /\ (\A i \in unsaved' : i < nextId') /\ (\A i, j \in unsaved' : i = j)
    BY <1>a, <1>b, <1>t, <1>id
  <2>7. N \subseteq SessionEntry /\ Known' \subseteq Known \union N \union {Header, Malformed, Glued}
        /\ (\A d \in N : nextId <= d.id /\ SoundEntry(d, nextId')) /\ (\A c, d \in N : c.id = d.id => d = c)
    BY <2>3, <2>4 DEF A
  <2> HIDE DEF N
  <2> QED BY <2>5, <2>6, <2>7, SoundGrows
<1>5. Ahead'
  <2> SUFFICES ASSUME Damage(ls) = 0
               PROVE  /\ Writing' =>
                           Distinct(Read' \o pending') \in {Distinct(n), Saved(Distinct(fileEntries))'}
                      /\ Writing' /\ (~flushed' \/ ~HasAssistant(n)) =>
                           Distinct(Read' \o pending') = Distinct(n)
                      /\ ~Writing' => Distinct(Read' \o n) = Distinct(n)
    BY <1>z DEF Ahead, n
  <2>1. Ahead /\ alive /\ Damage(Disk) = 0 /\ Read' = Read \o lines /\ lines \in Seq(FileEntry)
    BY <1>b, <1>w DEF IInv
  <2>2. CASE flushed
    <3>0. Read \o <<>> = Read /\ Read' \in Seq(FileEntry) /\ Read' \o <<>> = Read'
      BY <1>t, <2>1
    <3>1. flushed' /\ pending' = <<>> /\ HasAssistant(n)
      BY <1>a, <1>b, <1>n, <1>z, <2>2
    <3>2. Distinct(Read) \in {Distinct(m), Saved(Distinct(m))}
      BY <1>b, <2>1, <2>2, <3>0 DEF Ahead, Writing, m
    <3>3. Distinct(m) \in Seq(FileEntry) /\ ToSet(Distinct(m)) = ToSet(m)
      BY <1>t, DistinctBuilt, DistinctMembers
    <3>4. Saved(Distinct(m)) = Distinct(m)
      BY <1>a, <3>3, SavedAll
    <3>5. Distinct(n) = Append(Distinct(m), e)
      BY <1>b, <1>t, <1>new, DistinctNew
    <3>6. Saved(Distinct(fileEntries))' = Only(Append(Distinct(m), e), {d \in FileEntry : d.id \notin {e.id}})
      BY <1>a, <3>5 DEF Saved, n
    <3> DEFINE K == {d \in FileEntry : d.id \notin {e.id}}
               dm == Distinct(m)
    <3>7. e \notin K /\ \A i \in 1..Len(dm) : dm[i] \in K
      <4>1. \A i \in 1..Len(dm) : dm[i] \in ToSet(dm) /\ dm[i] \in FileEntry
        BY <3>3 DEF ToSet
      <4> QED BY <1>t, <1>old, <3>3, <4>1
    <3>8. dm \in Seq(FileEntry)
      BY <3>3
    <3> HIDE DEF K, dm
    <3>9. Only(Append(dm, e), K) = Only(dm, K)
      BY <1>b, <3>7, <3>8, OnlyAppend
    <3>10. Only(dm, K) = dm
      BY <3>7, <3>8, OnlyAll
    <3>11. Saved(Distinct(fileEntries))' = Distinct(m)
      BY <3>6, <3>9, <3>10 DEF K, dm
    <3>12. Distinct(Read) = Distinct(m)
      BY <3>2, <3>4
    <3>13. CASE lines = <<>>
      <4>1. Read' = Read
        BY <2>1, <3>0, <3>13
      <4> QED BY <3>0, <3>1, <3>11, <3>12, <4>1 DEF Writing
    <3>14. CASE lines = <<e>>
      <4>1. Distinct(Read \o <<e>>) = Append(Distinct(Read), e)
        BY <1>b, <1>t, <1>new, DistinctNew
      <4> QED BY <2>1, <3>0, <3>1, <3>5, <3>12, <3>14, <4>1 DEF Writing
    <3>15. lines # <<Malformed>>
      <4>1. Malformed \notin FileEntry
        BY Lines
      <4>2. ASSUME <<Malformed>> \in Seq(FileEntry) PROVE FALSE
        <5>1. \A q \in Seq(FileEntry) : \A i \in 1 .. Len(q) : q[i] \in FileEntry
          OBVIOUS
        <5>2. Len(<<Malformed>>) = 1 /\ <<Malformed>>[1] = Malformed
          OBVIOUS
        <5> QED BY <4>1, <4>2, <5>1, <5>2
      <4> QED BY <2>1, <4>2
    <3> QED BY <1>n, <2>2, <3>13, <3>14, <3>15
  <2>3. CASE ~flushed
    <3>1. ~Writing'
      BY <1>a, <1>b, <1>z, <2>3 DEF Writing
    <3>2. Distinct(Read \o m) = Distinct(m)
      BY <1>b, <2>1, <2>3 DEF Ahead, Writing, m
    <3>3. Distinct(Read \o n) = Distinct(n)
      BY <1>b, <1>t, <1>new, <3>2, DistinctLater
    <3>4. PICK q \in Seq(FileEntry) : n = lines \o q
      BY <1>n, <2>1, <2>3
    <3>5. Distinct((Read \o lines) \o n) = Distinct(n)
      BY <1>t, <2>1, <3>3, <3>4, DistinctAgain
    <3> QED BY <2>1, <3>1, <3>5
  <2> QED BY <2>2, <2>3
<1>6. Losses'
  <2>1. CASE ~flushed
    BY <1>a, <1>b, <1>z, <2>1 DEF Losses, Writing
  <2>2. CASE flushed
    <3>0. alive /\ Writing /\ ToSet(pending') = {} /\ ToSet(pending) = {} /\ Unwritten = {} /\ e \in Unwritten'
      BY <1>a, <1>b, <2>2 DEF Writing, ToSet, Unwritten, n
    <3>1. Missed = ToSet(m) \ ToSet(Disk) /\ e \notin Missed'
      BY <3>0 DEF Missed, m
    <3>2. Missed' \subseteq ToSet(m) \ ToSet(ls)
      BY <1>b, <1>z, <3>0 DEF Missed, n
    <3>3. CASE lines = <<>>
      <4>1. Missed' \subseteq Missed /\ Owed' = Owed /\ Disk' = Disk
        <5>1. ls = Disk /\ unended' = unended
          BY <1>x, <3>3
        <5> QED BY <1>b, <1>z, <3>1, <3>2, <5>1 DEF Owed
      <4>2. Cardinality(Missed') <= Cardinality(Missed) /\ Cardinality(Missed') \in Nat
            /\ Cardinality(Missed) \in Nat
        BY <4>1, MissedFinite, Fewer
      <4>3. Cardinality(Missed) + Owed <= Damage(Disk)
        BY <3>0 DEF IInv, Losses
      <4>4. Damage(Disk) \in Nat /\ Owed \in {0, 1}
        BY <3>0, OwedIsPaid
      <4>5. Cardinality(Missed') + Owed' <= Damage(Disk')
        BY <4>1, <4>2, <4>3, <4>4
      <4> QED BY <4>5 DEF Losses
    <3>4. CASE cut /\ (lines = <<e>> \/ lines = <<Malformed>>)
      <4>1. PICK x \in {e, Malformed} : lines = <<x>>
        BY <3>4
      <4>2. x \in FileEntry \union {Malformed} /\ Write(<<x>>, cut)
        BY <1>b, <1>n, <4>1
      <4>3. Missed' \subseteq Missed \union ((ToSet(Disk) \union {x}) \ ToSet(Disk'))
        BY <1>z, <3>1, <3>2
      <4>4. x \notin Missed'
        <5>1. ToSet(n) \subseteq FileEntry /\ Malformed \notin FileEntry
          BY <1>b, Lines DEF ToSet
        <5> QED BY <3>1, <4>1, <5>1 DEF Missed, n
      <4> QED BY <1>b, <3>0, <4>2, <4>3, <4>4, LossesCounted
    <3> QED BY <1>n, <2>2, <3>3, <3>4
  <2> QED BY <2>1, <2>2
<1>7. LabelsMatch'
  <2>1. Saved(m) = m
    BY <1>a, <1>t, SavedAll
  <2>2. labels = LabelsOf(m)
    BY <2>1 DEF IInv, LabelsMatch, m
  <2>3. Saved(fileEntries)' = Only(Append(m, e), {d \in FileEntry : d.id \notin {e.id}})
    BY <1>a, <1>b DEF Saved, n
  <2> DEFINE K == {d \in FileEntry : d.id \notin {e.id}}
  <2>4. e \notin K /\ \A i \in 1..Len(m) : m[i] \in K
    <3>1. \A i \in 1..Len(m) : m[i] \in ToSet(m) /\ m[i] \in FileEntry
      BY <1>t DEF ToSet
    <3> QED BY <1>t, <1>old, <3>1
  <2> HIDE DEF K
  <2>5. Only(Append(m, e), K) = Only(m, K)
    BY <1>b, <1>t, <2>4, OnlyAppend
  <2>6. Only(m, K) = m
    BY <1>t, <2>4, OnlyAll
  <2>7. Saved(fileEntries)' = m
    BY <2>3, <2>5, <2>6 DEF K
  <2> QED BY <1>a, <2>2, <2>7 DEF LabelsMatch
<1> QED BY <1>1, <1>2, <1>3, <1>4, <1>5, <1>6, <1>7, <1>x DEF IInv

(* A line written keeps the invariant.                                     *)
LEMMA WriteLineKeeps ==
  ASSUME IInv, WriteLine
  PROVE  IInv' /\ Grows
<1> DEFINE m == fileEntries
           h == Head(pending)
           t == Tail(pending)
<1>a. /\ alive /\ pending # <<>> /\ alive' /\ pending' = t /\ flushed' = (flushed \/ t = <<>>)
      /\ Write(<<h>>, FALSE)
      /\ nextFile' = nextFile /\ nextId' = nextId /\ opens' = opens /\ sessionFile' = sessionFile
      /\ fileEntries' = m /\ leafId' = leafId /\ labels' = labels /\ unsaved' = unsaved
      /\ limits' = limits
  <2>1. alive' = alive
    BY DEF WriteLine
  <2>2. alive /\ pending # <<>> /\ pending' = t /\ Write(<<h>>, FALSE)
    BY DEF WriteLine
  <2>3. flushed' = (flushed \/ t = <<>>)
    BY DEF WriteLine
  <2>4. nextFile' = nextFile /\ nextId' = nextId /\ opens' = opens /\ unsaved' = unsaved
        /\ limits' = limits
    BY DEF WriteLine
  <2>5. sessionFile' = sessionFile /\ fileEntries' = m /\ leafId' = leafId /\ labels' = labels
    BY DEF WriteLine, memory
  <2> QED BY <2>1, <2>2, <2>3, <2>4, <2>5
<1>t. m \in Seq(FileEntry) /\ ToSet(m) \subseteq Known /\ pending \in Seq(FileEntry)
      /\ nextId \in Nat /\ nextFile \in Nat /\ sessionFile \in Nat
      /\ Read \in Seq(FileEntry) /\ ToSet(Read) \subseteq Known /\ sessionFile \in File
      /\ Disk \in Seq(Line) /\ ToSet(Disk) \subseteq Known /\ ToSet(pending) \subseteq Known
  BY <1>a, Typed DEF Disk
<1>f. /\ m # <<>> /\ m[1] = Header /\ (Damage(Disk) = 0 /\ Disk # <<>> => Disk[1] = Header)
      /\ (Disk = <<>> => h = Header)
      /\ sessionFile < nextFile /\ ToSet(pending) \subseteq ToSet(m)
  BY <1>a DEF IInv, Files, m
<1>h. /\ h \in FileEntry /\ t \in Seq(FileEntry) /\ pending = <<h>> \o t
      /\ ToSet(pending) = {h} \union ToSet(t)
  BY <1>a, <1>t, HeadTail
<1> HIDE DEF m, h, t
<1> DEFINE lines == <<h>>
           ls    == Result(lines)
<1>l. lines \in Seq(FileEntry) /\ lines \in Seq(FileEntry \union {Malformed}) /\ lines # <<>>
      /\ ToSet(lines) = {h} /\ Write(lines, FALSE)
  <2>1. <<h>> \in Seq(FileEntry) /\ <<h>> \in Seq(FileEntry \union {Malformed}) /\ <<h>> # <<>>
    BY <1>h
  <2>2. ToSet(<<h>>) = {h}
    BY DEF ToSet
  <2>3. Write(<<h>>, FALSE)
    BY <1>a
  <2> QED BY <2>1, <2>2, <2>3
<1> HIDE DEF lines, ls
<1>x. /\ disk' = [disk EXCEPT ![sessionFile] = ls]
      /\ disk' \in [File -> Seq(Line)] /\ disk'[sessionFile] = ls
      /\ ls \in Seq(Line) /\ ls # <<>>
      /\ ToSet(ls) \subseteq ToSet(Disk) \union ToSet(lines) \union Unread
      /\ Damage(ls) = 0 => ls = Disk \o lines /\ Damage(Disk) = 0
      /\ FilesWritten /\ Grows
  BY <1>a, <1>l, WriteIs DEF ls
<1>z. Disk' = ls /\ Read' = Load(ls)
  BY <1>a, <1>x DEF Disk, Read
<1>g. Writing /\ Writing'
  BY <1>a DEF Writing
(* What an undamaged file holds after the write. *)
<1>w. ASSUME Damage(ls) = 0
      PROVE  /\ Damage(Disk) = 0 /\ Read = Disk /\ Read' = Disk \o lines
             /\ ls[1] = Header
  <2>1. ls = Disk \o lines /\ Damage(Disk) = 0
    BY <1>x, <1>w
  <2>2. Load(Disk) = Disk /\ Disk \in Seq(FileEntry)
    BY <1>t, <1>f, <2>1, LoadWhole
  <2>3. ls[1] = Header
    <3>1. CASE Disk # <<>>
      <4>1. Len(Disk) \in Nat \ {0} /\ (Disk \o lines)[1] = Disk[1]
        BY <1>l, <2>2, <3>1
      <4> QED BY <1>f, <2>1, <3>1, <4>1
    <3>2. CASE Disk = <<>>
      <4>1. ls = lines /\ lines[1] = h
        BY <1>l, <2>1, <3>2 DEF lines
      <4> QED BY <1>f, <3>2, <4>1
    <3> QED BY <3>1, <3>2
  <2>4. Load(ls) = ls
    BY <1>x, <1>w, <2>3, LoadWhole
  <2> QED BY <1>z, <2>1, <2>2, <2>3, <2>4 DEF Read, Disk
<1>1. TypeOK'
  <2>1. flushed' \in BOOLEAN
    BY <1>a DEF IInv, TypeOK
  <2>2. leafId' \in {0} \union IdsOf(fileEntries')
    BY <1>a DEF IInv, TypeOK, m
  <2> QED BY <1>a, <1>t, <1>h, <1>x, <2>1, <2>2 DEF IInv, TypeOK, FilesWritten, Line, Unread
<1>2. Files'
  <2>1. /\ \A g \in File : g >= nextFile' => disk'[g] = <<>>
        /\ \A g \in created' : g < nextFile'
    BY <1>a, <1>x DEF FilesWritten
  <2>2. Disk' # <<>> /\ (Damage(Disk') = 0 => Disk'[1] = Header)
    BY <1>w, <1>x, <1>z
  <2>3. ToSet(pending') \subseteq ToSet(m)
    BY <1>a, <1>h, <1>f
  <2> QED BY <1>a, <1>t, <1>f, <2>1, <2>2, <2>3 DEF Files
<1>3. NothingHeldBack'
  BY <1>a DEF NothingHeldBack
<1>4. Sound'
  <2> DEFINE N == {}
             A == N \union {Header, Malformed, Glued}
  <2>1. ToSet(ls) \subseteq Known \union A
    BY <1>t, <1>x, <1>h, <1>l DEF Unread
  <2>2. ToSet(fileEntries') \subseteq Known \union A /\ ToSet(pending') \subseteq Known \union A
    BY <1>a, <1>h, <1>t
  <2> HIDE DEF A
  <2>3. Known' \subseteq Known \union A
    BY <1>a, <1>t, <1>x, <2>1, <2>2, KnownWritten
  <2>6. unsaved' \subseteq Nat /\ (\A i \in unsaved' : i < nextId') /\ (\A i, j \in unsaved' : i = j)
    BY <1>a, <1>t DEF IInv, TypeOK, Sound, Id
  <2>7. N \subseteq SessionEntry /\ Known' \subseteq Known \union N \union {Header, Malformed, Glued}
        /\ (\A d \in N : nextId <= d.id /\ SoundEntry(d, nextId')) /\ (\A c, d \in N : c.id = d.id => d = c)
    BY <2>3 DEF A
  <2>8. nextId' \in Nat /\ nextId <= nextId'
    BY <1>a, <1>t
  <2> HIDE DEF N
  <2> QED BY <2>6, <2>7, <2>8, SoundGrows
<1>5. Ahead'
  <2>0. Saved(Distinct(fileEntries))' = Saved(Distinct(m))
    BY <1>a DEF Saved
  <2> SUFFICES ASSUME Damage(ls) = 0
               PROVE  /\ Distinct(Read' \o pending') \in {Distinct(m), Saved(Distinct(m))}
                      /\ (~flushed' \/ ~HasAssistant(m)) => Distinct(Read' \o pending') = Distinct(m)
    BY <1>a, <1>g, <1>z, <2>0 DEF Ahead
  <2>1. Read' = Read \o <<h>> /\ Damage(Disk) = 0
    BY <1>w DEF lines
  <2>2. (Read \o <<h>>) \o t = Read \o (<<h>> \o t)
    BY <1>t, <1>h
  <2>3. Read' \o pending' = Read \o pending
    BY <1>a, <1>h, <2>1, <2>2
  <2>4. Ahead
    BY DEF IInv
  <2> QED BY <1>a, <1>g, <2>1, <2>3, <2>4 DEF Ahead, m
<1>6. Losses'
  <2>1. Unwritten' = Unwritten
    BY <1>a DEF Unwritten, m
  <2>2. Missed' = ToSet(m) \ (ToSet(Disk') \union ToSet(t) \union Unwritten)
    BY <1>a, <2>1 DEF Missed
  <2>3. Missed = ToSet(m) \ (ToSet(Disk) \union ({h} \union ToSet(t)) \union Unwritten)
    BY <1>h DEF Missed, m
  <2>4. Missed' \subseteq Missed \union ((ToSet(Disk) \union {h}) \ ToSet(Disk'))
    BY <2>2, <2>3
  <2> QED BY <1>a, <1>g, <1>h, <2>4, LossesCounted
<1>7. LabelsMatch'
  <2>1. Saved(fileEntries)' = Saved(fileEntries)
    BY <1>a DEF Saved, m
  <2> QED BY <1>a, <2>1 DEF IInv, LabelsMatch, m
<1> QED BY <1>1, <1>2, <1>3, <1>4, <1>5, <1>6, <1>7, <1>x DEF IInv

-----------------------------------------------------------------------------
(* Labels of sound entries are of entries.                                 *)
LEMMA LabelsAreIds ==
  ASSUME NEW s \in Seq(FileEntry), \A e \in ToSet(s) : e.kind = "label" => e.target \in Id
  PROVE  LabelsOf(s) \subseteq Id
<1> DEFINE Z == {u \in Seq(FileEntry) :
                   (\A e \in ToSet(u) : e.kind = "label" => e.target \in Id) => LabelsOf(u) \subseteq Id}
<1>1. <<>> \in Z
  BY LabelsEmpty
<1>2. ASSUME NEW u \in Seq(FileEntry), u \in Z, NEW e \in FileEntry PROVE Append(u, e) \in Z
  <2>1. Append(u, e) \in Seq(FileEntry) /\ ToSet(Append(u, e)) = ToSet(u) \union {e}
    BY SetOfAppend
  <2> SUFFICES ASSUME \A d \in ToSet(u) \union {e} : d.kind = "label" => d.target \in Id
               PROVE  LabelsOf(Append(u, e)) \subseteq Id
    BY <2>1
  <2>2. LabelsOf(u) \subseteq Id /\ (e.kind = "label" => e.target \in Id)
    BY <1>2
  <2>3. LabelsOf(Append(u, e)) = Relabel(LabelsOf(u), e)
    BY LabelsAppend
  <2> QED BY <2>2, <2>3 DEF Relabel
<1>3. Seq(FileEntry) \subseteq Z
  <2> HIDE DEF Z
  <2> QED BY <1>1, <1>2, SequenceInduction
<1> QED BY <1>3

(* Another session is put in place, with some new entries: what is common  *)
(* to the operations that do it.                                           *)
Placed(N) ==
  /\ N \subseteq SessionEntry
  /\ \/ disk' = disk /\ unended' = unended
     \/ \E f \in File : /\ disk' = [disk EXCEPT ![f] = <<>>] /\ unended' = unended \ {f}
                        /\ f < nextFile
  /\ created' = created /\ limits' = limits /\ unsaved' = unsaved
  /\ nextFile' \in {nextFile, nextFile + 1} /\ nextFile' <= MaxFiles + 1
  /\ nextId' \in 1 .. MaxEntries + 1 /\ nextId <= nextId'
  /\ opens' \in 0 .. limits.opens
  /\ alive' = TRUE /\ flushed' \in BOOLEAN /\ sessionFile' \in File /\ sessionFile' < nextFile'
  /\ fileEntries' \in Seq(FileEntry) /\ fileEntries' # <<>> /\ fileEntries'[1] = Header
  /\ ToSet(fileEntries') \subseteq Known \union N \union {Header}
  /\ leafId' = LeafOf(fileEntries') /\ labels' = LabelsOf(fileEntries')
  /\ pending' = <<>> \/ pending' = fileEntries'
  /\ \A e \in N : nextId <= e.id /\ SoundEntry(e, nextId')
  /\ \A d, e \in N : d.id = e.id => d = e

(* A session put in place keeps the types, the soundness and the labels.    *)
LEMMA PutInPlace ==
  ASSUME IInv, NEW N, Placed(N)
  PROVE  /\ TypeOK' /\ Sound' /\ LabelsMatch'
         /\ \A f \in File : f >= nextFile' => disk'[f] = <<>>
         /\ \A f \in created' : f < nextFile'
         /\ ToSet(pending') \subseteq ToSet(fileEntries')
         /\ pending' # <<>> => Head(pending') = Header
<1> USE DEF Placed
<1>l. labels' \subseteq Id
  <2>1. ASSUME NEW e \in ToSet(fileEntries'), e.kind = "label" PROVE e.target \in Id
    <3>1. e \in FileEntry /\ Header.kind = "session"
      BY Lines DEF ToSet
    <3>2. e \in SessionEntry /\ (e \in Known \/ e \in N)
      BY <2>1, <3>1 DEF FileEntry
    <3>3. e \in Known => SoundEntry(e, nextId)
      BY DEF IInv, Sound
    <3> QED BY <2>1, <3>2, <3>3 DEF SoundEntry
  <2> QED BY <2>1, LabelsAreIds
<1>d. disk \in [File -> Seq(Line)] /\ nextId \in Nat /\ nextFile \in Nat
  BY Typed DEF IInv, TypeOK, Line, Unread
<1>e. /\ disk' \in [File -> Seq(Line)] /\ unended' \subseteq {f \in File : disk'[f] # <<>>}
      /\ \A f \in File : disk'[f] = disk[f] \/ (disk'[f] = <<>> /\ f < nextFile)
  <2>0. unended \subseteq {f \in File : disk[f] # <<>>}
    BY DEF IInv, TypeOK
  <2>1. CASE disk' = disk /\ unended' = unended
    BY <1>d, <2>0, <2>1
  <2>2. CASE ~(disk' = disk /\ unended' = unended)
    <3>1. PICK f \in File : disk' = [disk EXCEPT ![f] = <<>>] /\ f < nextFile /\ unended' = unended \ {f}
      BY <2>2
    <3>2. <<>> \in Seq(Line)
      OBVIOUS
    <3>3. disk' \in [File -> Seq(Line)] /\ disk'[f] = <<>> /\ \A g \in File : g # f => disk'[g] = disk[g]
      BY <1>d, <3>1, <3>2, OneFile
    <3> QED BY <2>0, <3>1, <3>3
  <2> QED BY <2>1, <2>2
<1>p. ToSet(pending') \subseteq ToSet(fileEntries') /\ pending' \in Seq(FileEntry)
      /\ (pending' # <<>> => Head(pending') = Header)
  <2>1. ToSet(<<>>) = {} /\ <<>> \in Seq(FileEntry)
    BY DEF ToSet
  <2>2. Head(fileEntries') = fileEntries'[1]
    OBVIOUS
  <2> QED BY <2>1, <2>2
<1>1. TypeOK'
  <2>1. nextFile' \in 1 .. MaxFiles + 1
    <3>1. nextFile \in 1 .. MaxFiles + 1 /\ MaxFiles \in Nat
      BY ManagerAssumption DEF IInv, TypeOK
    <3> QED BY <3>1
  <2>2. leafId' \in {0} \union IdsOf(fileEntries')
    BY LeafType
  <2>3. sessionFile' \in 0 .. MaxFiles
    BY ManagerAssumption DEF File
  <2>4. unsaved' \subseteq Id /\ created' \subseteq File /\ limits' \in Limits /\ opens' \in 0 .. limits'.opens
        /\ alive' \in BOOLEAN
    BY DEF IInv, TypeOK
  <2> QED BY <1>l, <1>e, <1>p, <2>1, <2>2, <2>3, <2>4 DEF TypeOK, Line, Unread
<1>2. Sound'
  <2>1. Known' \subseteq Known \union N \union {Header, Malformed, Glued}
    <3>1. ASSUME NEW f \in File PROVE ToSet(disk'[f]) \subseteq Known
      <4>1. ToSet(<<>>) = {}
        BY DEF ToSet
      <4> QED BY <1>e, <4>1, Typed
    <3>2. (UNION {ToSet(disk'[f]) : f \in File}) \subseteq Known
      BY <3>1
    <3> QED BY <1>p, <3>2 DEF Known
  <2>2. unsaved' \subseteq Nat /\ (\A i \in unsaved' : i < nextId') /\ (\A i, j \in unsaved' : i = j)
    <3>1. unsaved \subseteq Nat /\ (\A i \in unsaved : i < nextId) /\ (\A i, j \in unsaved : i = j)
      BY DEF IInv, TypeOK, Sound, Id
    <3>2. nextId' \in Nat
      OBVIOUS
    <3> QED BY <1>d, <3>1, <3>2
  <2>3. nextId' \in Nat
    OBVIOUS
  <2> QED BY <2>1, <2>2, <2>3, SoundGrows
<1>3. LabelsMatch'
  BY DEF LabelsMatch
<1>4. \A f \in File : f >= nextFile' => disk'[f] = <<>>
  <2> SUFFICES ASSUME NEW f \in File, f >= nextFile' PROVE disk'[f] = <<>>
    OBVIOUS
  <2>1. f \in Nat /\ f >= nextFile
    BY <1>d DEF File
  <2> QED BY <1>e, <2>1 DEF IInv, Files
<1>5. \A f \in created' : f < nextFile'
  <2> SUFFICES ASSUME NEW f \in created PROVE f < nextFile'
    OBVIOUS
  <2>1. f \in Nat /\ f < nextFile
    BY DEF IInv, Files, TypeOK, File
  <2> QED BY <1>d, <2>1
<1> QED BY <1>1, <1>2, <1>3, <1>4, <1>5, <1>p

(* In an empty file.                                                       *)
LEMMA InNewFile ==
  ASSUME IInv, NEW N, Placed(N), disk'[sessionFile'] = <<>>, ~flushed',
         pending' = <<>> => ~HasAssistant(fileEntries')
  PROVE  IInv'
<1>1. /\ TypeOK' /\ Sound' /\ LabelsMatch'
      /\ \A f \in File : f >= nextFile' => disk'[f] = <<>>
      /\ \A f \in created' : f < nextFile'
      /\ ToSet(pending') \subseteq ToSet(fileEntries')
      /\ pending' # <<>> => Head(pending') = Header
  BY PutInPlace
<1>2. /\ fileEntries' \in Seq(FileEntry) /\ (pending' = <<>> \/ pending' = fileEntries')
      /\ alive' = TRUE /\ sessionFile' \in File /\ sessionFile' < nextFile'
      /\ fileEntries' # <<>> /\ fileEntries'[1] = Header
  BY DEF Placed
<1>3. Ahead' /\ Losses'
  <2>1. sessionFile' \notin unended'
    BY <1>1 DEF TypeOK
  <2> QED BY <1>2, <2>1, Begun
<1>4. Files'
  <2>1. Disk' = <<>>
    BY DEF Disk
  <2> QED BY <1>1, <1>2, <2>1 DEF Files
<1>5. NothingHeldBack'
  BY DEF NothingHeldBack
<1> QED BY <1>1, <1>3, <1>4, <1>5 DEF IInv

(* A session that is nothing but its header.                                *)
LEMMA HeaderAlone ==
  /\ <<Header>> \in Seq(FileEntry) /\ <<Header>> # <<>> /\ <<Header>>[1] = Header
  /\ ToSet(<<Header>>) = {Header} /\ ~HasAssistant(<<Header>>)
  /\ LeafOf(<<Header>>) = 0 /\ LabelsOf(<<Header>>) = {}
<1>1. Header \in FileEntry /\ Header \notin SessionEntry /\ Header.kind = "session"
  BY Lines
<1>2. <<Header>> \in Seq(FileEntry) /\ <<Header>> # <<>> /\ <<Header>>[1] = Header
      /\ <<>> \in Seq(FileEntry) /\ <<Header>> = Append(<<>>, Header)
  BY <1>1
<1>3. ToSet(<<Header>>) = {Header}
  BY DEF ToSet
<1>4. ~HasAssistant(<<Header>>)
  BY <1>1 DEF HasAssistant
<1>5. Own(<<Header>>) = <<>>
  <2>1. Only(Append(<<>>, Header), SessionEntry) = Only(<<>>, SessionEntry)
    BY <1>1, <1>2, OnlyAppend
  <2> QED BY <1>2, <2>1, OnlyEmpty DEF Own
<1>6. LabelsOf(<<Header>>) = {}
  BY <1>1, <1>2, <1>3, LabelsOfUnlabelled
<1> QED BY <1>2, <1>3, <1>4, <1>5, <1>6 DEF LeafOf

(* What comes after a single element does not move it.                      *)
LEMMA FirstOfConcat ==
  ASSUME NEW S, NEW s \in Seq(S), NEW t \in Seq(S), Len(s) = 1
  PROVE  s \o t # <<>> /\ (s \o t)[1] = s[1]
<1>1. Len(t) \in Nat
  OBVIOUS
<1>2. Len(s \o t) = Len(s) + Len(t)
  BY ConcatProperties
<1>3. Len(<<>>) = 0
  OBVIOUS
<1>4. s \o t # <<>>
  BY <1>1, <1>2, <1>3
<1>5. (s \o t)[1] = s[1]
  BY ConcatProperties
<1> QED BY <1>4, <1>5

(* A header put before entries.                                             *)
LEMMA HeaderFirst ==
  ASSUME NEW s \in Seq(FileEntry)
  PROVE  /\ <<Header>> \o s \in Seq(FileEntry) /\ ToSet(<<Header>> \o s) = {Header} \union ToSet(s)
         /\ <<Header>> \o s # <<>> /\ (<<Header>> \o s)[1] = Header
<1> DEFINE hd == <<Header>>
<1>1. hd \in Seq(FileEntry) /\ ToSet(hd) = {Header} /\ hd[1] = Header /\ Len(hd) = 1
  BY HeaderAlone
<1> HIDE DEF hd
<1>2. ToSet(hd \o s) = {Header} \union ToSet(s) /\ hd \o s \in Seq(FileEntry)
  BY <1>1, SetOfConcat
<1>3. hd \o s # <<>> /\ (hd \o s)[1] = Header
  BY <1>1, FirstOfConcat
<1> QED BY <1>2, <1>3 DEF hd

(* newSession keeps the invariant,                                          *)
LEMMA NewSessionKeeps ==
  ASSUME IInv, NewSession
  PROVE  IInv'
<1>a. /\ pending = <<>> /\ opens < limits.opens /\ opens' = opens + 1 /\ alive' = TRUE
      /\ nextFile <= MaxFiles /\ nextFile' = nextFile + 1 /\ sessionFile' = nextFile
      /\ fileEntries' = <<Header>> /\ leafId' = 0 /\ labels' = {} /\ flushed' = FALSE
      /\ disk' = disk /\ unended' = unended /\ created' = created /\ nextId' = nextId /\ pending' = <<>>
      /\ unsaved' = unsaved /\ limits' = limits
  BY DEF NewSession, OpenSession
<1>t. /\ nextFile \in 1 .. MaxFiles + 1 /\ nextId \in 1 .. MaxEntries + 1 /\ opens \in 0 .. limits.opens
      /\ limits.opens \in Nat /\ MaxFiles \in Nat /\ MaxEntries \in Nat
  BY ManagerAssumption DEF IInv, TypeOK
<1>1. nextFile \in File /\ disk[nextFile] = <<>>
  <2>1. nextFile \in File
    BY <1>a, <1>t DEF File
  <2>2. nextFile >= nextFile
    BY <1>t
  <2> QED BY <2>1, <2>2 DEF IInv, Files
<1>2. Placed({})
  <2>1. nextFile' <= MaxFiles + 1 /\ nextId' \in 1 .. MaxEntries + 1 /\ nextId <= nextId'
        /\ opens' \in 0 .. limits.opens /\ sessionFile' < nextFile'
    BY <1>a, <1>t
  <2> QED BY <1>a, <1>1, <2>1, HeaderAlone DEF Placed
<1>3. disk'[sessionFile'] = <<>> /\ ~flushed' /\ ~HasAssistant(fileEntries')
  BY <1>a, <1>1, HeaderAlone
<1> QED BY <1>2, <1>3, InNewFile

(* setSessionFile does, and truncates only a file that says nothing,        *)
LEMMA OpenKeeps ==
  ASSUME IInv, NEW f \in File, Open(f)
  PROVE  IInv' /\ Grows
<1> DEFINE es == Load(disk[f])
<1>a. /\ pending = <<>> /\ opens < limits.opens /\ opens' = opens + 1 /\ alive' = TRUE
      /\ f \in created /\ sessionFile' = f
      /\ created' = created /\ nextFile' = nextFile /\ nextId' = nextId
      /\ unsaved' = unsaved /\ limits' = limits
  BY DEF Open, OpenSession
<1>b. es # <<>> =>
        /\ fileEntries' = es /\ leafId' = LeafOf(es) /\ labels' = LabelsOf(es) /\ flushed' = TRUE
        /\ disk' = disk /\ unended' = unended /\ pending' = pending
  BY DEF Open, Index
<1>c. es = <<>> =>
        /\ fileEntries' = <<Header>> /\ leafId' = LeafOf(<<Header>>) /\ labels' = LabelsOf(<<Header>>)
        /\ flushed' = FALSE /\ disk' = [disk EXCEPT ![f] = <<>>] /\ unended' = unended \ {f}
        /\ pending' = <<Header>>
  BY DEF Open, Index
<1>t. /\ nextFile \in 1 .. MaxFiles + 1 /\ nextId \in 1 .. MaxEntries + 1 /\ opens \in 0 .. limits.opens
      /\ limits.opens \in Nat /\ MaxFiles \in Nat /\ MaxEntries \in Nat
      /\ disk \in [File -> Seq(Line)]
  BY ManagerAssumption DEF IInv, TypeOK, Line, Unread
<1>f. f < nextFile
  BY <1>a DEF IInv, Files
<1>n. nextFile' <= MaxFiles + 1 /\ nextId' \in 1 .. MaxEntries + 1 /\ nextId <= nextId'
      /\ opens' \in 0 .. limits.opens /\ sessionFile' < nextFile'
  BY <1>a, <1>t, <1>f
<1>l. es \in Seq(FileEntry) /\ ToSet(es) \subseteq Known /\ (es # <<>> => es[1] = Header)
  <2>1. disk[f] \in Seq(Line) /\ ToSet(disk[f]) \subseteq Known
    BY Typed
  <2> QED BY <2>1, LoadType
<1> HIDE DEF es
<1>1. CASE es # <<>>
  <2>1. Placed({})
    BY <1>1, <1>a, <1>b, <1>n, <1>l DEF Placed
  <2>2. /\ TypeOK' /\ Sound' /\ LabelsMatch'
        /\ \A g \in File : g >= nextFile' => disk'[g] = <<>>
        /\ \A g \in created' : g < nextFile'
        /\ ToSet(pending') \subseteq ToSet(fileEntries')
        /\ pending' # <<>> => Head(pending') = Header
    BY <2>1, PutInPlace
  <2>3. Read' = es /\ Disk' = disk[f] /\ pending' = <<>> /\ fileEntries' = es /\ flushed' = TRUE
    BY <1>1, <1>a, <1>b DEF Read, Disk, es
  <2>4. disk[f] # <<>> /\ disk[f] \in Seq(Line)
    BY <1>1, <1>t, LoadNothing DEF es
  <2>e. ASSUME Damage(disk[f]) = 0 PROVE disk[f][1] = Header
    <3> DEFINE ls == disk[f]
    <3>1. ls \in Seq(FileEntry)
      BY <2>4, <2>e, DamageNone
    <3>2. \A n \in 1..Len(ls) : ls[n] \in FileEntry
      BY <3>1
    <3> HIDE DEF ls
    <3>3. Only(ls, FileEntry) = ls
      BY <3>1, <3>2, OnlyAll
    <3> QED BY <1>1, <3>3 DEF es, Load, ls
  <2>5. Files'
    BY <1>1, <1>a, <1>n, <1>l, <2>2, <2>3, <2>4, <2>e DEF Files
  <2>6. Ahead'
    <3>1. es \o <<>> = es
      BY <1>l
    <3> QED BY <2>3, <3>1 DEF Ahead, Writing
  <2>7. Losses'
    <3>1. Missed' = {}
      <4>1. ToSet(es) \subseteq ToSet(disk[f])
        BY <2>4, LoadType DEF es
      <4> QED BY <2>3, <4>1 DEF Missed
    <3>2. Cardinality(Missed') = 0
      BY <3>1, FS_EmptySet
    <3>3. Damage(disk[f]) \in Nat /\ (Last(disk[f]) \notin FileEntry => Damage(disk[f]) >= 1)
      BY <2>4, LastDamaged
    <3>4. Owed' = IF f \in unended' /\ Last(disk[f]) \notin FileEntry THEN 1 ELSE 0
      BY <1>a, <2>3 DEF Owed
    <3>5. Cardinality(Missed') + Owed' <= Damage(disk[f])
      <4>1. CASE Last(disk[f]) \in FileEntry
        BY <3>2, <3>3, <3>4, <4>1
      <4>2. CASE Last(disk[f]) \notin FileEntry
        BY <3>2, <3>3, <3>4, <4>2
      <4> QED BY <4>1, <4>2
    <3> QED BY <2>3, <3>5 DEF Losses
  <2>8. NothingHeldBack'
    BY <2>3 DEF NothingHeldBack
  <2>9. Grows
    BY <1>1, <1>b, SameGrows
  <2> QED BY <2>2, <2>5, <2>6, <2>7, <2>8, <2>9 DEF IInv
<1>2. CASE es = <<>>
  <2>1. Placed({})
    BY <1>2, <1>a, <1>c, <1>n, <1>f, HeaderAlone DEF Placed
  <2>2. disk'[sessionFile'] = <<>> /\ ~flushed' /\ pending' # <<>>
    BY <1>2, <1>a, <1>c, <1>t, HeaderAlone
  <2>3. Grows
    <3>1. IsPrefix(Load(Ended(f)), Load(disk[f]))
      <4>1. disk[f] \in Seq(Line) /\ (f \in unended => disk[f] # <<>>)
        BY <1>t DEF IInv, TypeOK
      <4> QED BY <4>1, EndedFirst
    <3>2. IsPrefix(Load(Ended(f)), Load(<<>>)) /\ <<>> \in Seq(Line)
      BY <1>2, <3>1, LoadNothing DEF es
    <3> QED BY <1>2, <1>c, <3>2, OneFileGrows
  <2> QED BY <2>1, <2>2, <2>3, InNewFile
<1> QED BY <1>1, <1>2

(* and so does forkFrom.                                                    *)
LEMMA ForkFromKeeps ==
  ASSUME IInv, NEW f \in File, ForkFrom(f)
  PROVE  IInv'
<1> DEFINE own == Own(Load(disk[f]))
           copy == <<Header>> \o own
<1>a. /\ opens < limits.opens /\ opens' = opens + 1 /\ alive' = TRUE
      /\ nextFile <= MaxFiles /\ nextFile' = nextFile + 1 /\ sessionFile' = nextFile
      /\ fileEntries' = copy /\ leafId' = LeafOf(copy) /\ labels' = LabelsOf(copy)
      /\ pending' = copy /\ flushed' = FALSE
      /\ disk' = disk /\ unended' = unended /\ created' = created /\ nextId' = nextId
      /\ unsaved' = unsaved /\ limits' = limits
  BY DEF ForkFrom, OpenSession, Index
<1>t. /\ nextFile \in 1 .. MaxFiles + 1 /\ nextId \in 1 .. MaxEntries + 1 /\ opens \in 0 .. limits.opens
      /\ limits.opens \in Nat /\ MaxFiles \in Nat /\ MaxEntries \in Nat
  BY ManagerAssumption DEF IInv, TypeOK
<1>1. nextFile \in File /\ disk[nextFile] = <<>>
  <2>1. nextFile \in File
    BY <1>a, <1>t DEF File
  <2>2. nextFile >= nextFile
    BY <1>t
  <2> QED BY <2>1, <2>2 DEF IInv, Files
<1>2. own \in Seq(FileEntry) /\ ToSet(own) \subseteq Known
  <2>1. Load(disk[f]) \in Seq(FileEntry) /\ ToSet(Load(disk[f])) \subseteq Known
    BY Typed, LoadType
  <2> QED BY <2>1, OnlyType, OnlyMembers DEF Own
<1> HIDE DEF own
<1>3. copy \in Seq(FileEntry) /\ ToSet(copy) = {Header} \union ToSet(own) /\ copy # <<>> /\ copy[1] = Header
  BY <1>2, HeaderFirst
<1> HIDE DEF copy
<1>4. Placed({})
  <2>1. nextFile' <= MaxFiles + 1 /\ nextId' \in 1 .. MaxEntries + 1 /\ nextId <= nextId'
        /\ opens' \in 0 .. limits.opens /\ sessionFile' < nextFile'
    BY <1>a, <1>t
  <2> QED BY <1>a, <1>1, <1>2, <1>3, <2>1 DEF Placed
<1>5. disk'[sessionFile'] = <<>> /\ ~flushed' /\ pending' # <<>>
  BY <1>a, <1>1, <1>3
<1> QED BY <1>4, <1>5, InNewFile

-----------------------------------------------------------------------------
(* A branched session: the entries kept are the session's, none a label,   *)
(* and the labels written after them are those of the entries kept.        *)
KeptOf(id) == Unlabelled(Path(fileEntries, id))
BranchOf(id) == <<Header>> \o KeptOf(id) \o Relabelled(KeptOf(id))

(* What is kept of a path: entries that are no labels.                      *)
LEMMA KeptType ==
  ASSUME IInv, NEW id \in Id
  PROVE  /\ KeptOf(id) \in Seq(FileEntry) /\ ToSet(KeptOf(id)) \subseteq Known
         /\ \A e \in ToSet(KeptOf(id)) : e \in SessionEntry /\ e.kind # "label"
<1> DEFINE path == Path(fileEntries, id)
           E == ToSet(fileEntries) \intersect SessionEntry
           U == {e \in SessionEntry : e.kind # "label"}
<1>1. fileEntries \in Seq(FileEntry) /\ ToSet(fileEntries) \subseteq Known
  BY Typed
<1>2. Upwards(fileEntries)
  BY <1>1 DEF Upwards, IInv, Sound, SoundEntry
<1>3. path \in Seq(E)
  BY <1>1, <1>2, PathType DEF Id
<1> HIDE DEF path
<1>4. E \subseteq FileEntry /\ E \subseteq Known
  BY <1>1, Lines
<1> HIDE DEF E
<1>5. path \in Seq(FileEntry)
  BY <1>3, <1>4
<1>6. ToSet(path) \subseteq E
  BY <1>3 DEF ToSet
<1>7. Only(path, U) \in Seq(FileEntry) /\ ToSet(Only(path, U)) = ToSet(path) \intersect U
  <2> HIDE DEF U
  <2> QED BY <1>5, OnlyType, OnlyMembers
<1>8. KeptOf(id) = Only(path, U)
  BY DEF KeptOf, Unlabelled, path
<1> QED BY <1>4, <1>6, <1>7, <1>8

(* The labels written again: new entries, one for each label of what is     *)
(* kept.                                                                    *)
LEMMA RelabelledType ==
  ASSUME IInv, NEW kept \in Seq(FileEntry), ToSet(kept) \subseteq Known,
         \A e \in ToSet(kept) : e \in SessionEntry,
         nextId + Len(Relabelled(kept)) <= limits.entries + 1
  PROVE  /\ Relabelled(kept) \in Seq(FileEntry) /\ ToSet(Relabelled(kept)) \subseteq SessionEntry
         /\ nextId + Len(Relabelled(kept)) \in 1 .. MaxEntries + 1
         /\ nextId <= nextId + Len(Relabelled(kept))
         /\ \A e \in ToSet(Relabelled(kept)) :
              /\ nextId <= e.id /\ SoundEntry(e, nextId + Len(Relabelled(kept)))
              /\ e.kind = "label" /\ e.set
         /\ \A d, e \in ToSet(Relabelled(kept)) : d.id = e.id => d = e
         /\ {e.target : e \in ToSet(Relabelled(kept))} = labels \intersect IdsOf(kept)
<1> DEFINE S == labels \intersect IdsOf(kept)
           targets == Ascending(S)
           last == IF kept = <<>> THEN 0 ELSE Last(kept).id
           rel == Relabelled(kept)
           par(p) == IF p = 1 THEN last ELSE nextId + p - 2
           of(p) == Entry("label", nextId + p - 1, par(p), targets[p], TRUE)
<1>1. rel = [p \in DOMAIN targets |-> of(p)]
  BY DEF Relabelled
<1>2. S \subseteq Id
  BY DEF IInv, TypeOK
<1> HIDE DEF S, rel
<1>3. targets \in Seq(S) /\ DOMAIN targets = 1..Len(targets) /\ ToSet(targets) = S
  BY <1>2, AscendingLists
<1> HIDE DEF targets
<1> DEFINE n == Len(targets)
<1>4. n \in Nat /\ \A p \in 1..n : targets[p] \in S
  BY <1>3
<1>5. nextId \in Nat /\ nextId >= 1 /\ limits.entries \in 0 .. MaxEntries /\ MaxEntries \in Nat
  BY Typed, ManagerAssumption
<1>6. last \in 0 .. MaxEntries /\ last < nextId
  <2>1. CASE kept = <<>>
    BY <1>5, <2>1
  <2>2. CASE kept # <<>>
    <3>1. Last(kept) \in ToSet(kept)
      BY <2>2, FrontLast
    <3>2. Last(kept) \in SessionEntry /\ Last(kept) \in Known
      BY <3>1
    <3>3. Last(kept).id < nextId /\ Last(kept).id \in Id
      BY <3>2, Lines DEF IInv, Sound, SoundEntry
    <3> QED BY <2>2, <3>3 DEF Id
  <2> QED BY <2>1, <2>2
<1> HIDE DEF last
<1>7. DOMAIN rel = 1..n /\ Len(rel) = n /\ \A p \in 1..n : rel[p] = of(p)
  BY <1>1, <1>3, <1>4
<1>8. nextId + n <= limits.entries + 1
  BY <1>7 DEF rel
<1>9. ASSUME NEW p \in 1..n
      PROVE  /\ of(p) \in SessionEntry /\ of(p).id = nextId + p - 1 /\ of(p).kind = "label"
             /\ of(p).target = targets[p] /\ of(p).set = TRUE
             /\ of(p).parentId = par(p) /\ par(p) < nextId + p - 1
  <2>1. nextId + p - 1 \in Id
    BY <1>4, <1>5, <1>8 DEF Id
  <2>2. par(p) \in 0 .. MaxEntries /\ par(p) < nextId + p - 1
    <3>1. CASE p = 1
      BY <1>5, <1>6, <3>1
    <3>2. CASE p # 1
      BY <1>4, <1>5, <1>8, <3>2
    <3> QED BY <3>1, <3>2
  <2>3. targets[p] \in 0 .. MaxEntries
    <3>1. targets[p] \in Id
      BY <1>2, <1>4
    <3> QED BY <1>5, <3>1 DEF Id
  <2> DEFINE q == par(p)
             i == nextId + p - 1
             t == targets[p]
  <2>4. q \in 0 .. MaxEntries /\ i \in Id /\ t \in 0 .. MaxEntries /\ "label" \in EntryKind /\ TRUE \in BOOLEAN
        /\ of(p) = Entry("label", i, q, t, TRUE)
    BY <2>1, <2>2, <2>3 DEF EntryKind
  <2> HIDE DEF q, i, t, of
  <2>5. /\ Entry("label", i, q, t, TRUE) \in SessionEntry
        /\ Entry("label", i, q, t, TRUE).id = i /\ Entry("label", i, q, t, TRUE).kind = "label"
        /\ Entry("label", i, q, t, TRUE).parentId = q /\ Entry("label", i, q, t, TRUE).target = t
        /\ Entry("label", i, q, t, TRUE).set = TRUE
    BY <2>4, NewEntryType
  <2> QED BY <2>2, <2>4, <2>5 DEF q, i, t
<1> HIDE DEF of
<1>10. rel \in Seq(FileEntry)
  <2>1. \A p \in 1..n : rel[p] \in FileEntry
    BY <1>7, <1>9, Lines
  <2>2. rel = [p \in 1..n |-> rel[p]]
    BY <1>1, <1>3
  <2> QED BY <1>4, <2>1, <2>2
<1>11. ToSet(rel) = {of(p) : p \in 1..n}
  BY <1>7 DEF ToSet
<1>12. ToSet(rel) \subseteq SessionEntry
  BY <1>9, <1>11
<1>13. nextId + n \in 1 .. MaxEntries + 1 /\ nextId <= nextId + n
  BY <1>4, <1>5, <1>8
<1>14. ASSUME NEW e \in ToSet(rel)
       PROVE  nextId <= e.id /\ SoundEntry(e, nextId + n) /\ e.kind = "label" /\ e.set
  <2>1. PICK p \in 1..n : e = of(p)
    BY <1>11
  <2>2. e.id = nextId + p - 1 /\ e.parentId < e.id /\ e.target \in Id /\ e.kind = "label" /\ e.set = TRUE
    BY <1>2, <1>4, <1>9, <2>1
  <2>3. nextId <= nextId + p - 1 /\ nextId + p - 1 < nextId + n
    BY <1>4, <1>5
  <2> QED BY <2>2, <2>3 DEF SoundEntry
<1>15. ASSUME NEW d \in ToSet(rel), NEW e \in ToSet(rel), d.id = e.id PROVE d = e
  <2>1. PICK p \in 1..n : d = of(p)
    BY <1>11
  <2>2. PICK q \in 1..n : e = of(q)
    BY <1>11
  <2>3. nextId + p - 1 = nextId + q - 1
    <3>1. of(p).id = nextId + p - 1
      BY <1>9
    <3>2. of(q).id = nextId + q - 1
      BY <1>9
    <3> QED BY <1>15, <2>1, <2>2, <3>1, <3>2
  <2>4. p = q
    BY <1>4, <1>5, <2>3
  <2> QED BY <2>1, <2>2, <2>4
<1>16. {e.target : e \in ToSet(rel)} = S
  <2>1. {e.target : e \in ToSet(rel)} = {of(p).target : p \in 1..n}
    BY <1>11
  <2>2. {of(p).target : p \in 1..n} = {targets[p] : p \in 1..n}
    <3>1. \A p \in 1..n : of(p).target = targets[p]
      BY <1>9
    <3> QED BY <3>1
  <2>3. ToSet(targets) = {targets[p] : p \in 1..n}
    BY <1>3 DEF ToSet
  <2> QED BY <1>3, <2>1, <2>2, <2>3
<1> QED BY <1>7, <1>10, <1>12, <1>13, <1>14, <1>15, <1>16 DEF rel, S

(* The branch as a whole.                                                  *)
LEMMA BranchType ==
  ASSUME IInv, NEW id \in Id, nextId + Len(Relabelled(KeptOf(id))) <= limits.entries + 1
  PROVE  /\ BranchOf(id) \in Seq(FileEntry) /\ BranchOf(id) # <<>> /\ BranchOf(id)[1] = Header
         /\ ToSet(BranchOf(id)) \subseteq Known \union ToSet(Relabelled(KeptOf(id))) \union {Header}
         /\ LabelsOf(BranchOf(id)) = labels \intersect IdsOf(KeptOf(id))
<1> DEFINE kept == KeptOf(id)
           rel == Relabelled(KeptOf(id))
           front == <<Header>> \o kept
<1>1. kept \in Seq(FileEntry) /\ ToSet(kept) \subseteq Known
      /\ \A e \in ToSet(kept) : e \in SessionEntry /\ e.kind # "label"
  BY KeptType
<1>2. /\ rel \in Seq(FileEntry)
      /\ \A e \in ToSet(rel) : e.kind = "label" /\ e.set
      /\ {e.target : e \in ToSet(rel)} = labels \intersect IdsOf(kept)
  <2> DEFINE k == KeptOf(id)
  <2>1. k \in Seq(FileEntry) /\ ToSet(k) \subseteq Known /\ (\A e \in ToSet(k) : e \in SessionEntry)
        /\ nextId + Len(Relabelled(k)) <= limits.entries + 1
    BY <1>1
  <2> HIDE DEF k
  <2>2. /\ Relabelled(k) \in Seq(FileEntry)
        /\ \A e \in ToSet(Relabelled(k)) : e.kind = "label" /\ e.set
        /\ {e.target : e \in ToSet(Relabelled(k))} = labels \intersect IdsOf(k)
    BY <2>1, RelabelledType
  <2> QED BY <2>2 DEF k
<1>3. BranchOf(id) = front \o rel
  BY DEF BranchOf
<1> HIDE DEF rel, kept
<1>4. front \in Seq(FileEntry) /\ ToSet(front) = {Header} \union ToSet(kept)
      /\ front # <<>> /\ front[1] = Header
  BY <1>1, HeaderFirst
<1> HIDE DEF front
<1>5. LabelsOf(front) = {}
  <2>1. Header.kind # "label"
    BY Lines
  <2>2. \A e \in ToSet(front) : e.kind # "label"
    BY <1>1, <1>4, <2>1
  <2> QED BY <1>4, <2>2, LabelsOfUnlabelled
<1>6. LabelsOf(front \o rel) = LabelsOf(front) \union {e.target : e \in ToSet(rel)}
  BY <1>2, <1>4, LabelsOfConcat
<1>7. front \o rel \in Seq(FileEntry) /\ ToSet(front \o rel) = ToSet(front) \union ToSet(rel)
  BY <1>2, <1>4, SetOfConcat
<1>8. front \o rel # <<>> /\ (front \o rel)[1] = front[1]
  <2>1. Len(front) \in Nat /\ Len(front) # 0 /\ Len(rel) \in Nat
    BY <1>2, <1>4
  <2>2. Len(front \o rel) = Len(front) + Len(rel)
    BY <1>2, <1>4, ConcatProperties
  <2>3. (front \o rel)[1] = front[1]
    BY <1>2, <1>4, <2>1, ConcatProperties
  <2>4. Len(<<>>) = 0
    OBVIOUS
  <2>5. front \o rel # <<>>
    BY <2>1, <2>2, <2>4
  <2> QED BY <2>3, <2>5
<1> QED BY <1>1, <1>2, <1>3, <1>4, <1>5, <1>6, <1>7, <1>8 DEF rel, kept

(* createBranchedSession, in these terms.                                   *)
LEMMA CreateBranchedSessionIs ==
  ASSUME IInv, NEW id \in Id, CreateBranchedSession(id)
  PROVE  /\ pending = <<>> /\ alive /\ alive' = alive
         /\ nextFile <= MaxFiles /\ nextFile' = nextFile + 1 /\ sessionFile' = nextFile
         /\ flushed' = FALSE /\ id \in IdsOf(fileEntries)
         /\ nextId + Len(Relabelled(KeptOf(id))) <= limits.entries + 1
         /\ nextId' = nextId + Len(Relabelled(KeptOf(id)))
         /\ fileEntries' = BranchOf(id) /\ leafId' = LeafOf(BranchOf(id)) /\ labels' = LabelsOf(BranchOf(id))
         /\ pending' = IF HasAssistant(BranchOf(id)) THEN BranchOf(id) ELSE <<>>
         /\ disk' = disk /\ unended' = unended /\ created' = created /\ opens' = opens
         /\ unsaved' = unsaved /\ limits' = limits
BY DEF CreateBranchedSession, Ready, Index, KeptOf, BranchOf

(* It keeps the invariant,                                                  *)
LEMMA CreateBranchedSessionKeeps ==
  ASSUME IInv, NEW id \in Id, CreateBranchedSession(id)
  PROVE  IInv'
<1> DEFINE N == ToSet(Relabelled(KeptOf(id)))
           b == BranchOf(id)
<1>a. /\ pending = <<>> /\ alive' = TRUE
      /\ nextFile <= MaxFiles /\ nextFile' = nextFile + 1 /\ sessionFile' = nextFile
      /\ flushed' = FALSE
      /\ nextId + Len(Relabelled(KeptOf(id))) <= limits.entries + 1
      /\ nextId' = nextId + Len(Relabelled(KeptOf(id)))
      /\ fileEntries' = b /\ leafId' = LeafOf(b) /\ labels' = LabelsOf(b)
      /\ pending' = IF HasAssistant(b) THEN b ELSE <<>>
      /\ disk' = disk /\ unended' = unended /\ created' = created /\ opens' = opens
      /\ unsaved' = unsaved /\ limits' = limits
  <2>1. alive \in BOOLEAN
    BY DEF IInv, TypeOK
  <2> QED BY <2>1, CreateBranchedSessionIs
<1>t. /\ nextFile \in 1 .. MaxFiles + 1 /\ MaxFiles \in Nat /\ opens \in 0 .. limits.opens
  BY ManagerAssumption DEF IInv, TypeOK
<1>1. nextFile \in File /\ disk[nextFile] = <<>> /\ nextFile' <= MaxFiles + 1 /\ nextFile < nextFile'
  <2>1. nextFile \in File
    BY <1>a, <1>t DEF File
  <2>2. nextFile >= nextFile
    BY <1>t
  <2> QED BY <1>a, <1>t, <2>1, <2>2 DEF IInv, Files
<1>2. /\ b \in Seq(FileEntry) /\ b # <<>> /\ b[1] = Header
      /\ ToSet(b) \subseteq Known \union N \union {Header}
  BY <1>a, BranchType
<1>3. /\ N \subseteq SessionEntry
      /\ nextId' \in 1 .. MaxEntries + 1 /\ nextId <= nextId'
      /\ \A e \in N : nextId <= e.id /\ SoundEntry(e, nextId')
      /\ \A d, e \in N : d.id = e.id => d = e
  <2> DEFINE k == KeptOf(id)
  <2>1. k \in Seq(FileEntry) /\ ToSet(k) \subseteq Known /\ (\A e \in ToSet(k) : e \in SessionEntry)
        /\ nextId + Len(Relabelled(k)) <= limits.entries + 1
    BY <1>a, KeptType
  <2> HIDE DEF k
  <2>2. /\ ToSet(Relabelled(k)) \subseteq SessionEntry
        /\ nextId + Len(Relabelled(k)) \in 1 .. MaxEntries + 1
        /\ nextId <= nextId + Len(Relabelled(k))
        /\ \A e \in ToSet(Relabelled(k)) : nextId <= e.id /\ SoundEntry(e, nextId + Len(Relabelled(k)))
        /\ \A d, e \in ToSet(Relabelled(k)) : d.id = e.id => d = e
    BY <2>1, RelabelledType
  <2> QED BY <1>a, <2>2 DEF k
<1> HIDE DEF N, b
<1>4. Placed(N)
  BY <1>a, <1>t, <1>1, <1>2, <1>3 DEF Placed
<1>5. disk'[sessionFile'] = <<>> /\ ~flushed' /\ (pending' = <<>> => ~HasAssistant(fileEntries'))
  BY <1>a, <1>1, <1>2
<1> QED BY <1>4, <1>5, InNewFile

-----------------------------------------------------------------------------
(* as branch does, which moves the leaf,                                    *)
LEMMA BranchKeeps ==
  ASSUME IInv, NEW id, Branch(id)
  PROVE  IInv'
<1>1. /\ id \in {0} \union IdsOf(fileEntries) /\ leafId' = id
      /\ disk' = disk /\ unended' = unended /\ created' = created /\ nextFile' = nextFile
      /\ nextId' = nextId /\ opens' = opens
      /\ alive' = alive /\ sessionFile' = sessionFile /\ fileEntries' = fileEntries /\ labels' = labels
      /\ flushed' = flushed /\ pending' = pending /\ unsaved' = unsaved /\ limits' = limits
  BY DEF Branch
<1>2. TypeOK'
  BY <1>1 DEF IInv, TypeOK
<1>3. Known' = Known /\ Disk' = Disk /\ Read' = Read /\ Missed' = Missed /\ Writing' = Writing /\ Owed' = Owed
      /\ Saved(fileEntries)' = Saved(fileEntries) /\ Saved(Distinct(fileEntries))' = Saved(Distinct(fileEntries))
  BY <1>1 DEF Known, Disk, Read, Missed, Owed, Unwritten, Writing, Saved
<1>4. Files' /\ NothingHeldBack' /\ Sound'
  BY <1>1, <1>3 DEF IInv, Files, NothingHeldBack, Sound
<1>5. Ahead' /\ Losses' /\ LabelsMatch'
  BY <1>1, <1>3 DEF IInv, Ahead, Losses, LabelsMatch
<1> QED BY <1>2, <1>4, <1>5 DEF IInv

(* and the end of the process, which may cut a line short.                  *)
LEMMA DieKeeps ==
  ASSUME IInv, Die
  PROVE  IInv' /\ Grows
<1>a. /\ alive /\ alive' = FALSE /\ sessionFile' = 0 /\ fileEntries' = <<>> /\ leafId' = 0 /\ labels' = {}
      /\ flushed' = FALSE /\ pending' = <<>>
      /\ nextFile' = nextFile /\ nextId' = nextId /\ opens' = opens /\ unsaved' = unsaved /\ limits' = limits
      /\ \/ disk' = disk /\ unended' = unended /\ created' = created
         \/ pending # <<>> /\ \E x \in {Malformed, Head(pending)} : Write(Append(<<>>, x), TRUE)
  BY DEF Die, WriteCut
<1>t. /\ nextId \in Nat /\ nextFile \in Nat /\ pending \in Seq(FileEntry) /\ ToSet(pending) \subseteq Known
      /\ Disk \in Seq(Line) /\ ToSet(Disk) \subseteq Known
      /\ \A f \in File : disk[f] \in Seq(Line) /\ ToSet(disk[f]) \subseteq Known
  BY <1>a, Typed DEF Disk
<1>z. /\ disk' \in [File -> Seq(Line)] /\ FilesWritten /\ Grows
      /\ \A g \in File : ToSet(disk'[g]) \subseteq Known \union Unread
  <2>1. CASE disk' = disk /\ unended' = unended /\ created' = created
    <3>1. disk \in [File -> Seq(Line)]
      BY DEF IInv, TypeOK, Line, Unread
    <3>2. FilesWritten
      BY <2>1 DEF FilesWritten, IInv, TypeOK, Files
    <3> QED BY <1>t, <2>1, <3>1, <3>2, SameGrows
  <2>2. ASSUME pending # <<>>, NEW x \in {Malformed, Head(pending)}, Write(Append(<<>>, x), TRUE)
        PROVE  /\ disk' \in [File -> Seq(Line)] /\ FilesWritten /\ Grows
               /\ \A g \in File : ToSet(disk'[g]) \subseteq Known \union Unread
    <3> DEFINE lines == <<x>>
    <3>1. /\ lines \in Seq(FileEntry \union {Malformed}) /\ Write(lines, TRUE)
          /\ ToSet(lines) \subseteq Known \union Unread
      <4>1. Head(pending) \in FileEntry /\ Head(pending) \in ToSet(pending)
        BY <1>t, <2>2, HeadTail
      <4>2. Append(<<>>, x) = <<x>> /\ ToSet(<<x>>) = {x}
        BY DEF ToSet
      <4>3. x \in FileEntry \union {Malformed} /\ x \in Known \union Unread
        BY <1>t, <2>2, <4>1 DEF Unread
      <4>4. <<x>> \in Seq(FileEntry \union {Malformed})
        BY <4>3
      <4>5. Write(<<x>>, TRUE)
        BY <2>2, <4>2
      <4>6. ToSet(<<x>>) \subseteq Known \union Unread
        BY <4>2, <4>3
      <4> QED BY <4>4, <4>5, <4>6
    <3> HIDE DEF lines
    <3>2. /\ disk' \in [File -> Seq(Line)] /\ disk'[sessionFile] = Result(lines) /\ FilesWritten /\ Grows
          /\ disk' = [disk EXCEPT ![sessionFile] = Result(lines)]
          /\ ToSet(Result(lines)) \subseteq ToSet(Disk) \union ToSet(lines) \union Unread
      BY <1>a, <3>1, WriteIs
    <3>3. ASSUME NEW g \in File PROVE ToSet(disk'[g]) \subseteq Known \union Unread
      <4>1. CASE g = sessionFile
        BY <1>t, <3>1, <3>2, <4>1
      <4>2. CASE g # sessionFile
        <5>1. disk'[g] = disk[g]
          <6>1. disk \in [File -> Seq(Line)]
            BY DEF IInv, TypeOK, Line, Unread
          <6> QED BY <3>2, <4>2, <6>1
        <5> QED BY <1>t, <5>1
      <4> QED BY <4>1, <4>2
    <3> QED BY <3>2, <3>3
  <2> QED BY <1>a, <2>1, <2>2
<1>e. ToSet(<<>>) = {} /\ <<>> \in Seq(FileEntry)
  BY DEF ToSet
<1>1. TypeOK'
  <2>1. 0 \in 0 .. MaxFiles
    BY ManagerAssumption
  <2> QED BY <1>a, <1>e, <1>z, <2>1 DEF IInv, TypeOK, FilesWritten, Line, Unread
<1>2. Files'
  <2>1. 0 < nextFile
    BY DEF IInv, TypeOK
  <2> QED BY <1>a, <1>z, <2>1 DEF Files, FilesWritten
<1>3. NothingHeldBack' /\ Ahead' /\ Losses'
  BY <1>a DEF NothingHeldBack, Ahead, Losses
<1>4. Sound'
  <2> DEFINE N == {}
  <2>1. Known' \subseteq Known \union N \union {Header, Malformed, Glued}
    <3>1. (UNION {ToSet(disk'[g]) : g \in File}) \subseteq Known \union Unread
      BY <1>z
    <3> QED BY <1>a, <1>e, <3>1 DEF Known, Unread
  <2>2. unsaved' \subseteq Nat /\ (\A i \in unsaved' : i < nextId') /\ (\A i, j \in unsaved' : i = j)
    BY <1>a, <1>t DEF IInv, TypeOK, Sound, Id
  <2>3. N \subseteq SessionEntry /\ nextId' \in Nat /\ nextId <= nextId'
        /\ (\A d \in N : nextId <= d.id /\ SoundEntry(d, nextId')) /\ (\A c, d \in N : c.id = d.id => d = c)
    BY <1>a, <1>t
  <2> HIDE DEF N
  <2> QED BY <2>1, <2>2, <2>3, SoundGrows
<1>5. LabelsMatch'
  BY <1>a, LabelsEmpty DEF LabelsMatch
<1> QED BY <1>1, <1>2, <1>3, <1>4, <1>5, <1>z DEF IInv

-----------------------------------------------------------------------------
(* The invariant holds, and no file ever says less.                        *)
LEMMA InitIInv == Init => IInv
<1> SUFFICES ASSUME Init PROVE IInv
  OBVIOUS
<1>1. /\ disk = [f \in File |-> <<>>] /\ unended = {} /\ created = {} /\ nextFile = 1 /\ nextId = 1 /\ opens = 0
      /\ alive = FALSE /\ sessionFile = 0 /\ fileEntries = <<>> /\ leafId = 0 /\ labels = {}
      /\ flushed = FALSE /\ pending = <<>> /\ unsaved = {} /\ limits \in Limits
  BY DEF Init
<1>2. TypeOK
  <2>1. MaxEntries \in Nat /\ MaxFiles \in Nat /\ limits.opens \in Nat
    BY <1>1, ManagerAssumption
  <2>2. 1 \in 1 .. MaxFiles + 1 /\ 1 \in 1 .. MaxEntries + 1 /\ 0 \in 0 .. limits.opens /\ 0 \in 0 .. MaxFiles
    BY <2>1
  <2>3. disk \in [File -> Seq(FileEntry \union {Malformed, Glued})] /\ <<>> \in Seq(FileEntry)
    BY <1>1
  <2> QED BY <1>1, <2>2, <2>3 DEF TypeOK
<1>3. Known = {}
  <2>1. ToSet(<<>>) = {}
    BY DEF ToSet
  <2>2. \A f \in File : ToSet(disk[f]) = {}
    BY <1>1, <2>1
  <2>3. (UNION {ToSet(disk[f]) : f \in File}) = {}
    BY <2>2
  <2> QED BY <1>1, <2>1, <2>3 DEF Known
<1>4. Files
  BY <1>1 DEF Files
<1>5. Sound
  BY <1>1, <1>3 DEF Sound
<1>6. NothingHeldBack /\ Ahead /\ Losses
  BY <1>1 DEF NothingHeldBack, Ahead, Losses
<1>7. LabelsMatch
  BY <1>1, LabelsEmpty DEF LabelsMatch
<1> QED BY <1>2, <1>4, <1>5, <1>6, <1>7 DEF IInv

(* Every append is the append of a fresh entry, written or refused.        *)
LEMMA AppendKeeps ==
  ASSUME IInv, NEW e \in SessionEntry, Appended(e) \/ Refused(e)
  PROVE  IInv' /\ Grows
<1>1. CASE Appended(e)
  <2>1. disk' = disk
    BY <1>1 DEF Appended, AppendEntry
  <2> QED BY <1>1, <2>1, AppendedKeeps, SameGrows
<1>2. CASE Refused(e)
  BY <1>2, RefusedKeeps
<1> QED BY <1>1, <1>2

(* One case for each operation.                                             *)
LEMMA NextIInv == IInv /\ [Next]_vars => IInv' /\ Grows
<1> SUFFICES ASSUME IInv, [Next]_vars PROVE IInv' /\ Grows
  OBVIOUS
<1>1. CASE NewSession
  <2>1. disk' = disk
    BY <1>1 DEF NewSession
  <2> QED BY <1>1, <2>1, NewSessionKeeps, SameGrows
<1>2. CASE WriteLine
  BY <1>2, WriteLineKeeps
<1>3. CASE Die
  BY <1>3, DieKeeps
<1>4. CASE \E f \in File : Open(f)
  BY <1>4, OpenKeeps
<1>5. CASE \E f \in File : ForkFrom(f)
  <2>1. disk' = disk
    BY <1>5 DEF ForkFrom
  <2> QED BY <1>5, <2>1, ForkFromKeeps, SameGrows
<1>6. CASE \E k \in EntryKind : AppendPlain(k)
  BY <1>6, AppendPlainIs, AppendKeeps
<1>7. CASE \E id \in Id : AppendCompaction(id)
  BY <1>7, AppendCompactionIs, AppendKeeps
<1>8. CASE \E id \in Id : CreateBranchedSession(id)
  <2>1. disk' = disk
    BY <1>8 DEF CreateBranchedSession
  <2> QED BY <1>8, <2>1, CreateBranchedSessionKeeps, SameGrows
<1>9. CASE \E id \in Id, set \in BOOLEAN : AppendLabel(id, set)
  BY <1>9, AppendLabelIs, AppendKeeps
<1>10. CASE \E id \in Id \union {0} : Branch(id)
  <2>1. disk' = disk
    BY <1>10 DEF Branch
  <2> QED BY <1>10, <2>1, BranchKeeps, SameGrows
<1>11. CASE \E id \in Id \union {0} : BranchWithSummary(id)
  BY <1>11, BranchWithSummaryIs, AppendKeeps
<1>12. CASE UNCHANGED vars
  <2>1. /\ leafId' = leafId
        /\ disk' = disk /\ unended' = unended /\ created' = created /\ nextFile' = nextFile
        /\ nextId' = nextId /\ opens' = opens
        /\ alive' = alive /\ sessionFile' = sessionFile /\ fileEntries' = fileEntries /\ labels' = labels
        /\ flushed' = flushed /\ pending' = pending /\ unsaved' = unsaved /\ limits' = limits
    BY <1>12 DEF vars, memory
  <2>2. TypeOK'
    BY <2>1 DEF IInv, TypeOK
  <2>3. Known' = Known /\ Disk' = Disk /\ Read' = Read /\ Missed' = Missed /\ Writing' = Writing /\ Owed' = Owed
        /\ Saved(fileEntries)' = Saved(fileEntries)
        /\ Saved(Distinct(fileEntries))' = Saved(Distinct(fileEntries))
    BY <2>1 DEF Known, Disk, Read, Missed, Owed, Unwritten, Writing, Saved
  <2>4. Files' /\ NothingHeldBack' /\ Sound'
    BY <2>1, <2>3 DEF IInv, Files, NothingHeldBack, Sound
  <2>5. Ahead' /\ Losses' /\ LabelsMatch'
    BY <2>1, <2>3 DEF IInv, Ahead, Losses, LabelsMatch
  <2>6. Grows
    BY <2>1, SameGrows
  <2> QED BY <2>2, <2>4, <2>5, <2>6 DEF IInv
<1> QED
  BY <1>1, <1>2, <1>3, <1>4, <1>5, <1>6, <1>7, <1>8, <1>9, <1>10, <1>11, <1>12 DEF Next

(* The inductive invariant of session-manager.ts: what its files say, what *)
(* its memory holds and what is on the way from one to the other.          *)
THEOREM ManagerIInv == Spec => []IInv
BY InitIInv, NextIInv, PTL DEF Spec

-----------------------------------------------------------------------------
(* What the invariant says of the files.                                   *)

\* _persist writes all that was held back at the first assistant message, and every entry
\* after it: whatever operations, crashes and refused writes come, the file of a session
\* is a beginning of what memory holds, and no less than all of it between operations.
THEOREM SavedSinceFirstAnswerAlways == Spec => []SavedSinceFirstAnswer
<1>1. IInv => SavedSinceFirstAnswer
  <2> SUFFICES ASSUME IInv, alive, Damage(Disk) = 0
               PROVE  /\ IsPrefix(OnDisk, InMemory) \/ IsPrefix(OnDisk, Saved(InMemory))
                      /\ Written => OnDisk \in {InMemory, Saved(InMemory)}
    BY DEF SavedSinceFirstAnswer, Disk
  <2>1. /\ fileEntries \in Seq(FileEntry) /\ pending \in Seq(FileEntry) /\ Read \in Seq(FileEntry)
        /\ OnDisk = Distinct(Read) /\ InMemory = Distinct(fileEntries)
    BY Typed DEF OnDisk, InMemory, Read
  <2>2. CASE Writing
    <3>1. Distinct(Read \o pending) \in {InMemory, Saved(InMemory)}
      BY <2>1, <2>2 DEF IInv, Ahead
    <3>2. IsPrefix(Distinct(Read), Distinct(Read \o pending))
      BY <2>1, DistinctPrefix
    <3>3. pending = <<>> => Read \o pending = Read
      BY <2>1
    <3> QED BY <2>1, <3>1, <3>2, <3>3 DEF Written
  <2>3. CASE ~Writing
    <3>1. Distinct(Read \o fileEntries) = InMemory
      BY <2>1, <2>3 DEF IInv, Ahead
    <3>2. IsPrefix(Distinct(Read), Distinct(Read \o fileEntries))
      BY <2>1, DistinctPrefix
    <3>3. ~Written
      BY <2>3 DEF Written, Writing, IInv, NothingHeldBack
    <3> QED BY <2>1, <3>1, <3>2, <3>3
  <2> QED BY <2>2, <2>3
<1> QED BY <1>1, ManagerIInv, PTL

(* The size of a set with at most one element.                              *)
LEMMA AtMostOne ==
  ASSUME NEW S, \A d, e \in S : d = e
  PROVE  IsFiniteSet(S) /\ Cardinality(S) = IF S = {} THEN 0 ELSE 1
<1>1. CASE S = {}
  BY <1>1, FS_EmptySet
<1>2. CASE S # {}
  <2>1. PICK e \in S : TRUE
    BY <1>2
  <2>2. S = {e}
    BY <2>1
  <2> QED BY <2>2, FS_Singleton
<1> QED BY <1>1, <1>2

\* appendFileSync goes on where a line was cut: the lines after it are read again, and in a
\* session that is resumed and written however often, each cut costs the entry that was cut
\* and the one put on its line, and no other.
THEOREM CutLineCostsTwoEntriesAlways == Spec => []CutLineCostsTwoEntries
<1>1. IInv => CutLineCostsTwoEntries
  <2> SUFFICES ASSUME IInv, Ready, Written, OnDisk # <<>>
               PROVE  Len(InMemory) <= Len(OnDisk) + Damage(Disk) + Cardinality(unsaved)
    BY DEF CutLineCostsTwoEntries, Disk
  <2>1. /\ alive /\ pending = <<>> /\ Writing
        /\ fileEntries \in Seq(FileEntry) /\ Read \in Seq(FileEntry) /\ Disk \in Seq(Line)
        /\ ToSet(fileEntries) \subseteq Known /\ ToSet(fileEntries) \subseteq FileEntry
    <3>1. alive /\ pending = <<>> /\ Writing
      BY DEF Ready, Written, IInv, NothingHeldBack, Writing
    <3> QED BY <3>1, Typed DEF ToSet
  <2> DEFINE A == ToSet(fileEntries)
             B == ToSet(Read)
  <2>2. /\ IsFiniteSet(A) /\ Cardinality(A) = Len(InMemory)
        /\ IsFiniteSet(B) /\ Cardinality(B) = Len(OnDisk)
    <3>1. InMemory = Distinct(fileEntries) /\ OnDisk = Distinct(Read)
      BY DEF InMemory, OnDisk, Read
    <3> QED BY <2>1, <3>1, DistinctMembers
  <2>r. B = ToSet(Disk) \intersect FileEntry
    <3>1. Read # <<>>
      <4>1. Distinct(<<>>) = <<>>
        BY DistinctEmpty
      <4> QED BY <4>1 DEF OnDisk, Read
    <3>2. Read = Only(Disk, FileEntry)
      BY <3>1 DEF Read, Disk, Load
    <3> QED BY <2>1, <3>2, OnlyMembers
  <2>3. IsFiniteSet(Missed) /\ Cardinality(Missed) <= Damage(Disk) /\ Cardinality(Missed) \in Nat
        /\ Damage(Disk) \in Nat
    <3>1. Cardinality(Missed) + Owed <= Damage(Disk)
      BY <2>1 DEF IInv, Losses
    <3>2. Damage(Disk) \in Nat /\ Owed \in {0, 1} /\ IsFiniteSet(Missed) /\ Cardinality(Missed) \in Nat
      BY <2>1, OwedIsPaid, MissedFinite, FS_CardinalityType
    <3> QED BY <3>1, <3>2
  <2>4. IsFiniteSet(Unwritten) /\ Cardinality(Unwritten) <= Cardinality(unsaved)
        /\ Cardinality(Unwritten) \in Nat /\ Cardinality(unsaved) \in Nat
    <3>1. \A i, j \in unsaved : i = j
      BY DEF IInv, Sound
    <3>2. unsaved \subseteq Id
      BY DEF IInv, TypeOK
    <3>3. ASSUME NEW d \in Unwritten, NEW e \in Unwritten PROVE d = e
      <4>1. d \in Known /\ e \in Known /\ d.id \in unsaved /\ e.id \in unsaved
            /\ d \in FileEntry /\ e \in FileEntry
        BY <2>1 DEF Unwritten
      <4>2. d.id = e.id /\ d.id # 0 /\ e.id # 0
        <5>1. d.id \in Id /\ e.id \in Id
          BY <3>2, <4>1
        <5>2. 0 \notin Id
          BY DEF Id
        <5> QED BY <3>1, <4>1, <5>1, <5>2
      <4>3. d \in SessionEntry /\ e \in SessionEntry
        BY <4>1, <4>2, Lines
      <4> QED BY <4>1, <4>2, <4>3 DEF IInv, Sound
    <3>4. Unwritten # {} => unsaved # {}
      BY DEF Unwritten
    <3> HIDE DEF Unwritten
    <3>5. IsFiniteSet(Unwritten) /\ Cardinality(Unwritten) = IF Unwritten = {} THEN 0 ELSE 1
      BY <3>3, AtMostOne
    <3>6. Cardinality(unsaved) = IF unsaved = {} THEN 0 ELSE 1
      BY <3>1, AtMostOne
    <3> QED BY <3>4, <3>5, <3>6
  <2>5. A \subseteq (B \union Missed) \union Unwritten
    <3>1. ToSet(<<>>) = {}
      BY DEF ToSet
    <3> QED BY <2>1, <2>r, <3>1 DEF Missed
  <2> HIDE DEF A, B, Missed, Unwritten
  <2>6. /\ IsFiniteSet(B \union Missed) /\ Cardinality(B \union Missed) \in Nat
        /\ Cardinality(B \union Missed) <= Cardinality(B) + Cardinality(Missed)
    <3>1. /\ IsFiniteSet(B \union Missed)
          /\ Cardinality(B \union Missed)
               = Cardinality(B) + Cardinality(Missed) - Cardinality(B \cap Missed)
      BY <2>2, <2>3, FS_Union
    <3>2. IsFiniteSet(B \cap Missed)
      BY <2>2, FS_Intersection
    <3>3. Cardinality(B \cap Missed) \in Nat /\ Cardinality(B) \in Nat
      BY <2>2, <3>2, FS_CardinalityType
    <3>4. Cardinality(B \union Missed) \in Nat
      BY <3>1, FS_CardinalityType
    <3> QED BY <2>3, <3>1, <3>3, <3>4
  <2>7. /\ IsFiniteSet((B \union Missed) \union Unwritten)
        /\ Cardinality((B \union Missed) \union Unwritten) \in Nat
        /\ Cardinality((B \union Missed) \union Unwritten)
             <= Cardinality(B \union Missed) + Cardinality(Unwritten)
    <3> DEFINE C == B \union Missed
    <3>1. IsFiniteSet(C) /\ Cardinality(C) \in Nat
      BY <2>6
    <3> HIDE DEF C
    <3>2. /\ IsFiniteSet(C \union Unwritten)
          /\ Cardinality(C \union Unwritten)
               = Cardinality(C) + Cardinality(Unwritten) - Cardinality(C \cap Unwritten)
      BY <2>4, <3>1, FS_Union
    <3>3. IsFiniteSet(C \cap Unwritten)
      BY <3>1, FS_Intersection
    <3>4. Cardinality(C \cap Unwritten) \in Nat /\ Cardinality(C \union Unwritten) \in Nat
      BY <3>2, <3>3, FS_CardinalityType
    <3>5. Cardinality(C \union Unwritten) <= Cardinality(C) + Cardinality(Unwritten)
      BY <2>4, <3>1, <3>2, <3>4
    <3> QED BY <3>2, <3>4, <3>5 DEF C
  <2>8. Cardinality(A) <= Cardinality((B \union Missed) \union Unwritten)
    BY <2>5, <2>7, FS_Subset
  <2>9. Cardinality(A) \in Nat /\ Cardinality(B) \in Nat
    BY <2>2, FS_CardinalityType
  <2> QED BY <2>2, <2>3, <2>4, <2>6, <2>7, <2>8, <2>9
<1> QED BY <1>1, ManagerIInv, PTL

\* The type invariant, and _buildIndex against appendLabelChange: the labels kept up to
\* date in memory are those that the entries, read again in their order, give.
THEOREM LabelsAreReplayedAlways == Spec => []LabelsAreReplayed
<1>1. IInv => LabelsAreReplayed
  BY DEF IInv, LabelsMatch, LabelsAreReplayed
<1> QED BY <1>1, ManagerIInv, PTL

\* "Entries cannot be modified or deleted" (session-manager.ts:1105): no operation, no
\* crash and no refused write changes what the lines of a file say that have their newlines.
THEOREM HistoryKeptAlways == Spec => HistoryKept
<1>1. IInv /\ [Next]_vars => [\A f \in created : IsPrefix(Load(Ended(f)), Load(disk[f])')]_vars
  <2>1. IInv => created \subseteq File
    BY DEF IInv, TypeOK
  <2> QED BY <2>1, NextIInv DEF Grows
<1> QED BY <1>1, ManagerIInv, PTL DEF Spec, HistoryKept

\* createBranchedSession collects the labels of the path before it takes the label entries
\* out, and appends a label entry for each of them: none is lost, none is added.
THEOREM BranchedKeepsLabelsAlways == Spec => BranchedKeepsLabels
<1>1. IInv /\ [Next]_vars =>
        [\A id \in Id : CreateBranchedSession(id) =>
           labels' = labels \intersect IdsOf(Unlabelled(Path(fileEntries, id)))]_vars
  <2> SUFFICES ASSUME IInv, NEW id \in Id, CreateBranchedSession(id)
               PROVE  labels' = labels \intersect IdsOf(KeptOf(id))
    BY DEF KeptOf
  <2> QED BY CreateBranchedSessionIs, BranchType
<1> QED BY <1>1, ManagerIInv, PTL DEF Spec, BranchedKeepsLabels
=============================================================================
