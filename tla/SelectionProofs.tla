--------------------------- MODULE SelectionProofs ---------------------------
(***************************************************************************)
(* Induction over numbers as facts about sets, and what Only keeps of a    *)
(* sequence.                                                               *)
(***************************************************************************)
EXTENDS Selection, FiniteSetTheorems, SequenceTheorems, WellFoundedInduction, TLAPS

(* A non-empty set of naturals has a least element.                        *)
LEMMA LeastNat ==
  ASSUME NEW T, T \subseteq Nat, T # {}
  PROVE  \E x \in T : \A y \in T : x <= y
<1> DEFINE R == OpToRel(<, Nat)
<1>1. PICK x \in T : \A y \in T : <<y, x>> \notin R
  BY NatLessThanWellFounded, WFMin
<1>2. \A a, b \in Nat : <<a, b>> \in R <=> a < b
  BY DEF OpToRel
<1> HIDE DEF R
<1>3. \A y \in T : ~(y < x)
  BY <1>1, <1>2
<1>4. \A y \in T : x <= y
  BY <1>3
<1> QED BY <1>4

(* Induction, as a fact about sets.                                        *)
LEMMA SetInduction ==
  ASSUME NEW S, S \subseteq Nat, 0 \in S, \A n \in S : n + 1 \in S
  PROVE  S = Nat
<1> SUFFICES ASSUME Nat \ S # {} PROVE FALSE
  OBVIOUS
<1>1. PICK m \in Nat \ S : \A y \in Nat \ S : m <= y
  BY LeastNat
<1>2. m # 0 /\ m - 1 \in Nat /\ m - 1 \in S
  BY <1>1
<1> QED BY <1>1, <1>2

(* The same with all smaller numbers.                                      *)
LEMMA StrongInduction ==
  ASSUME NEW S, S \subseteq Nat,
         \A n \in Nat : (\A m \in Nat : m < n => m \in S) => n \in S
  PROVE  S = Nat
<1> SUFFICES ASSUME Nat \ S # {} PROVE FALSE
  OBVIOUS
<1>1. PICK m \in Nat \ S : \A y \in Nat \ S : m <= y
  BY LeastNat
<1> QED BY <1>1

(* A bounded non-empty set of naturals has a greatest element, which Max   *)
(* gives.                                                                  *)
LEMMA MaxOfBounded ==
  ASSUME NEW S, S \subseteq Nat, S # {}, NEW b \in Nat, \A x \in S : x <= b
  PROVE  Max(S) \in S /\ \A x \in S : x <= Max(S)
<1> DEFINE T == {n \in Nat : \A x \in S : x <= n}
<1>1. PICK m \in T : \A y \in T : m <= y
  BY LeastNat
<1>2. m \in S
  <2> SUFFICES ASSUME m \notin S PROVE FALSE
    OBVIOUS
  <2>0. PICK x \in S : TRUE
    OBVIOUS
  <2>1. m # 0
    <3>1. x <= m /\ x \in Nat /\ x # m
      BY <1>1
    <3> QED BY <3>1
  <2>2. m - 1 \in T
    BY <2>1
  <2> QED BY <2>2, <1>1
<1>3. \E x \in S : \A y \in S : x >= y
  BY <1>1, <1>2
<1> DEFINE g == CHOOSE x \in S : \A y \in S : x >= y
<1>4. g \in S /\ \A y \in S : g >= y
  BY <1>3
<1>5. Max(S) = g
  BY DEF Max
<1> HIDE DEF g
<1> QED BY <1>4, <1>5

(* Finitely many naturals have a bound.                                    *)
LEMMA BoundedImage ==
  ASSUME NEW n \in Nat, NEW f \in [1..n -> Nat]
  PROVE  \E b \in Nat : \A i \in 1..n : f[i] <= b
<1> DEFINE S == {k \in Nat : k <= n => \E b \in Nat : \A i \in 1..k : f[i] <= b}
<1>1. 0 \in S
  OBVIOUS
<1>2. ASSUME NEW k \in S PROVE k + 1 \in S
  <2> SUFFICES ASSUME k + 1 <= n PROVE \E b \in Nat : \A i \in 1..(k + 1) : f[i] <= b
    OBVIOUS
  <2>1. PICK b \in Nat : \A i \in 1..k : f[i] <= b
    OBVIOUS
  <2>0. \A i \in 1..(k + 1) : i = k + 1 \/ i \in 1..k
    OBVIOUS
  <2>2. CASE f[k + 1] <= b
    <3>1. \A i \in 1..(k + 1) : f[i] <= b
      BY <2>0, <2>1, <2>2
    <3> QED BY <3>1
  <2>3. CASE ~(f[k + 1] <= b)
    <3>1. f[k + 1] \in Nat /\ \A i \in 1..k : f[i] \in Nat
      OBVIOUS
    <3>2. \A i \in 1..(k + 1) : f[i] <= f[k + 1]
      BY <2>0, <2>1, <2>3, <3>1
    <3> QED BY <3>1, <3>2
  <2> QED BY <2>2, <2>3
<1>3. S = Nat
  <2> HIDE DEF S
  <2>1. S \subseteq Nat BY DEF S
  <2> QED BY <1>1, <1>2, <2>1, SetInduction
<1>4. n \in S
  BY <1>3
<1> QED BY <1>4

(* Min gives the least element.                                            *)
LEMMA MinOf ==
  ASSUME NEW S, S \subseteq Nat, S # {}
  PROVE  Min(S) \in S /\ \A x \in S : Min(S) <= x
<1>1. \E x \in S : \A y \in S : x <= y
  BY LeastNat
<1> DEFINE g == CHOOSE x \in S : \A y \in S : x <= y
<1>4. g \in S /\ \A y \in S : g <= y
  BY <1>1
<1>5. Min(S) = g
  BY DEF Min
<1> HIDE DEF g
<1> QED BY <1>4, <1>5

-----------------------------------------------------------------------------
(* The function that Only builds, up to position m.                        *)
OnlyUpto(m, s, T, of) ==
  \A n \in 0..m :
    of[n] = IF n = 0 THEN <<>>
            ELSE IF s[n] \in T THEN Append(of[n - 1], s[n]) ELSE of[n - 1]

OnlyStep(s, T, of) == OnlyUpto(Len(s), s, T, of)

(* There is one.                                                           *)
LEMMA OnlyExists ==
  ASSUME NEW S, NEW s \in Seq(S), NEW T
  PROVE  \E of \in [0..Len(s) -> Seq(S)] : OnlyStep(s, T, of)
<1> DEFINE Upto(k, f) == \A n \in 0..k :
             f[n] = IF n = 0 THEN <<>>
                    ELSE IF s[n] \in T THEN Append(f[n - 1], s[n]) ELSE f[n - 1]
           Z == {k \in Nat : k <= Len(s) => \E f \in [0..k -> Seq(S)] : Upto(k, f)}
<1>1. 0 \in Z
  <2> DEFINE f == [n \in 0..0 |-> <<>>]
  <2>1. f \in [0..0 -> Seq(S)] /\ Upto(0, f)
    OBVIOUS
  <2> HIDE DEF f, Upto
  <2> QED BY <2>1
<1>2. ASSUME NEW k \in Z PROVE k + 1 \in Z
  <2>0. k \in Nat /\ k + 1 \in Nat /\ Len(s) \in Nat
    OBVIOUS
  <2> SUFFICES ASSUME k + 1 <= Len(s) PROVE \E f \in [0..(k + 1) -> Seq(S)] : Upto(k + 1, f)
    <3> HIDE DEF Upto
    <3> QED BY <2>0
  <2>1. PICK f \in [0..k -> Seq(S)] : Upto(k, f)
    <3> HIDE DEF Upto
    <3> QED BY <2>0
  <2> DEFINE e == IF s[k + 1] \in T THEN Append(f[k], s[k + 1]) ELSE f[k]
             g == [n \in 0..(k + 1) |-> IF n = k + 1 THEN e ELSE f[n]]
  <2>2. s[k + 1] \in S /\ f[k] \in Seq(S)
    OBVIOUS
  <2>3. e \in Seq(S)
    BY <2>2
  <2>4. g \in [0..(k + 1) -> Seq(S)]
    BY <2>3
  <2>5. \A n \in 0..k : g[n] = f[n]
    OBVIOUS
  <2>6. g[k + 1] = IF s[k + 1] \in T THEN Append(g[k], s[k + 1]) ELSE g[k]
    BY <2>5
  <2> HIDE DEF g, e
  <2>7. ASSUME NEW n \in 0..(k + 1)
        PROVE  g[n] = IF n = 0 THEN <<>>
                      ELSE IF s[n] \in T THEN Append(g[n - 1], s[n]) ELSE g[n - 1]
    <3>1. CASE n = k + 1
      <4>1. n # 0 /\ n - 1 = k
        BY <2>0, <3>1
      <4> QED BY <2>6, <3>1, <4>1
    <3>2. CASE n = 0
      <4>1. 0 \in 0..k
        OBVIOUS
      <4>2. g[0] = f[0] /\ f[0] = <<>>
        BY <2>1, <2>5, <4>1
      <4> QED BY <3>2, <4>2
    <3>3. CASE n \in 1..k
      <4>1. n \in 0..k /\ n - 1 \in 0..k
        BY <3>3
      <4>2. g[n] = f[n] /\ g[n - 1] = f[n - 1]
        BY <4>1, <2>5
      <4> QED BY <2>1, <4>1, <4>2
    <3> QED BY <3>1, <3>2, <3>3
  <2> QED BY <2>4, <2>7
<1>3. Z = Nat
  <2> HIDE DEF Z
  <2>1. Z \subseteq Nat BY DEF Z
  <2> QED BY <1>1, <1>2, <2>1, SetInduction
<1>4. Len(s) \in Z
  BY <1>3
<1> QED BY <1>4 DEF OnlyStep, OnlyUpto

(* And only one.                                                           *)
LEMMA OnlyUnique ==
  ASSUME NEW s, NEW m \in Nat, NEW T, NEW f, NEW g, OnlyUpto(m, s, T, f), OnlyUpto(m, s, T, g)
  PROVE  f[m] = g[m]
<1> DEFINE Z == {k \in Nat : k <= m => f[k] = g[k]}
<1>1. 0 \in Z
  BY DEF OnlyUpto
<1>2. ASSUME NEW k \in Z PROVE k + 1 \in Z
  <2> SUFFICES ASSUME k + 1 <= m PROVE f[k + 1] = g[k + 1]
    OBVIOUS
  <2>1. k + 1 \in 0..m /\ f[k] = g[k] /\ (k + 1) - 1 = k /\ k + 1 # 0
    OBVIOUS
  <2> QED BY <2>1 DEF OnlyUpto
<1>3. Z = Nat
  <2> HIDE DEF Z
  <2>1. Z \subseteq Nat BY DEF Z
  <2> QED BY <1>1, <1>2, <2>1, SetInduction
<1> QED BY <1>3

(* Only as a function of positions.                                        *)
LEMMA OnlyIs ==
  ASSUME NEW S, NEW s \in Seq(S), NEW T, NEW f, OnlyStep(s, T, f)
  PROVE  Only(s, T) = f[Len(s)]
<1> DEFINE Def(g) == g = [n \in 0..Len(s) |->
             IF n = 0 THEN <<>> ELSE IF s[n] \in T THEN Append(g[n - 1], s[n]) ELSE g[n - 1]]
           of == CHOOSE g : Def(g)
<1>0. Len(s) \in Nat
  OBVIOUS
<1>1. PICK h \in [0..Len(s) -> Seq(S)] : OnlyStep(s, T, h)
  BY OnlyExists
<1>2. Def(h)
  BY <1>1 DEF OnlyStep, OnlyUpto
<1>3. Def(of)
  <2> HIDE DEF Def
  <2> QED BY <1>2
<1>4. OnlyStep(s, T, of)
  <2> HIDE DEF of
  <2>1. \A n \in 0..Len(s) : of[n] = [k \in 0..Len(s) |->
             IF k = 0 THEN <<>> ELSE IF s[k] \in T THEN Append(of[k - 1], s[k]) ELSE of[k - 1]][n]
    BY <1>3
  <2> QED BY <2>1 DEF OnlyStep, OnlyUpto
<1>5. Only(s, T) = of[Len(s)]
  BY DEF Only
<1> HIDE DEF of
<1>6. of[Len(s)] = f[Len(s)]
  BY <1>0, <1>4, OnlyUnique DEF OnlyStep
<1> QED BY <1>5, <1>6

(* What Only keeps are elements of the sequence.                           *)
LEMMA OnlyType ==
  ASSUME NEW S, NEW s \in Seq(S), NEW T
  PROVE  Only(s, T) \in Seq(S)
<1>1. PICK f \in [0..Len(s) -> Seq(S)] : OnlyStep(s, T, f)
  BY OnlyExists
<1> QED BY <1>1, OnlyIs

(* Of nothing, nothing.                                                    *)
LEMMA OnlyEmpty ==
  ASSUME NEW T
  PROVE  Only(<<>>, T) = <<>>
<1>1. <<>> \in Seq({}) /\ Len(<<>>) = 0
  OBVIOUS
<1>2. PICK f \in [0..Len(<<>>) -> Seq({})] : OnlyStep(<<>>, T, f)
  BY <1>1, OnlyExists
<1>3. Only(<<>>, T) = f[0]
  BY <1>1, <1>2, OnlyIs
<1> QED BY <1>1, <1>2, <1>3 DEF OnlyStep, OnlyUpto

(* One element more is kept or not.                                        *)
LEMMA OnlyAppend ==
  ASSUME NEW S, NEW s \in Seq(S), NEW e \in S, NEW T
  PROVE  Only(Append(s, e), T) = IF e \in T THEN Append(Only(s, T), e) ELSE Only(s, T)
<1> DEFINE t == Append(s, e)
<1>1. t \in Seq(S) /\ Len(t) = Len(s) + 1 /\ t[Len(t)] = e /\ Len(s) \in Nat
      /\ \A n \in 1..Len(s) : t[n] = s[n]
  OBVIOUS
<1>2. PICK f \in [0..Len(s) -> Seq(S)] : OnlyStep(s, T, f)
  BY OnlyExists
<1>3. PICK g \in [0..Len(t) -> Seq(S)] : OnlyStep(t, T, g)
  BY <1>1, OnlyExists
<1> HIDE DEF t
<1>4. f[Len(s)] = g[Len(s)]
  <2>1. ASSUME NEW n \in 0..Len(s)
        PROVE  g[n] = IF n = 0 THEN <<>>
                      ELSE IF s[n] \in T THEN Append(g[n - 1], s[n]) ELSE g[n - 1]
    <3>1. n \in 0..Len(t) /\ (n # 0 => t[n] = s[n])
      BY <1>1
    <3> QED BY <1>3, <3>1 DEF OnlyStep, OnlyUpto
  <2>2. OnlyUpto(Len(s), s, T, f) /\ OnlyUpto(Len(s), s, T, g)
    BY <1>2, <2>1 DEF OnlyStep, OnlyUpto
  <2> QED BY <1>1, <2>2, OnlyUnique
<1>5. g[Len(t)] = IF e \in T THEN Append(g[Len(s)], e) ELSE g[Len(s)]
  <2>1. Len(t) \in 0..Len(t) /\ Len(t) # 0 /\ Len(t) - 1 = Len(s) /\ t[Len(t)] = e
    BY <1>1
  <2> QED BY <1>3, <2>1 DEF OnlyStep, OnlyUpto
<1>6. Only(s, T) = f[Len(s)] /\ Only(t, T) = g[Len(t)]
  BY <1>1, <1>2, <1>3, OnlyIs
<1> QED BY <1>4, <1>5, <1>6 DEF t

(* Sets that agree on the elements keep the same.                          *)
LEMMA OnlySame ==
  ASSUME NEW S, NEW s \in Seq(S), NEW T, NEW U,
         \A n \in 1..Len(s) : s[n] \in T <=> s[n] \in U
  PROVE  Only(s, T) = Only(s, U)
<1>1. PICK f \in [0..Len(s) -> Seq(S)] : OnlyStep(s, T, f)
  BY OnlyExists
<1>2. OnlyStep(s, U, f)
  BY <1>1 DEF OnlyStep, OnlyUpto
<1> QED BY <1>1, <1>2, OnlyIs

(* All elements, if all are members.                                       *)
LEMMA OnlyAll ==
  ASSUME NEW S, NEW s \in Seq(S), NEW T, \A n \in 1..Len(s) : s[n] \in T
  PROVE  Only(s, T) = s
<1> DEFINE Z == {k \in Nat : k <= Len(s) => Only(SubSeq(s, 1, k), T) = SubSeq(s, 1, k)}
<1>0. Len(s) \in Nat /\ s = SubSeq(s, 1, Len(s))
  OBVIOUS
<1>1. 0 \in Z
  <2>1. SubSeq(s, 1, 0) = <<>>
    OBVIOUS
  <2> QED BY <2>1, OnlyEmpty
<1>2. ASSUME NEW k \in Z PROVE k + 1 \in Z
  <2> SUFFICES ASSUME k + 1 <= Len(s)
               PROVE  Only(SubSeq(s, 1, k + 1), T) = SubSeq(s, 1, k + 1)
    OBVIOUS
  <2>1. k + 1 \in 1..Len(s) /\ SubSeq(s, 1, k) \in Seq(S) /\ s[k + 1] \in S
    OBVIOUS
  <2>2. SubSeq(s, 1, k + 1) = Append(SubSeq(s, 1, k), s[k + 1])
    BY <2>1
  <2>3. Only(SubSeq(s, 1, k), T) = SubSeq(s, 1, k) /\ s[k + 1] \in T
    BY <2>1
  <2> DEFINE v == SubSeq(s, 1, k)
             e == s[k + 1]
  <2>4. v \in Seq(S) /\ e \in S /\ Only(v, T) = v /\ e \in T
    BY <2>1, <2>3
  <2> HIDE DEF v, e, Z
  <2>5. Only(Append(v, e), T) = Append(v, e)
    BY <2>4, OnlyAppend
  <2> QED BY <2>2, <2>5 DEF v, e
<1>3. Z = Nat
  <2> HIDE DEF Z
  <2>1. Z \subseteq Nat BY DEF Z
  <2> QED BY <1>1, <1>2, <2>1, SetInduction
<1>4. Len(s) \in Z
  BY <1>0, <1>3
<1>5. Only(SubSeq(s, 1, Len(s)), T) = SubSeq(s, 1, Len(s))
  BY <1>0, <1>4
<1> HIDE DEF Z
<1> QED BY <1>0, <1>5

(* Of two sequences joined, what it keeps of each.                         *)
LEMMA OnlyConcat ==
  ASSUME NEW S, NEW s \in Seq(S), NEW t \in Seq(S), NEW T
  PROVE  Only(s \o t, T) = Only(s, T) \o Only(t, T)
<1> DEFINE u(k) == SubSeq(t, 1, k)
           Z == {k \in Nat : k <= Len(t) => Only(s \o u(k), T) = Only(s, T) \o Only(u(k), T)}
<1>0. Len(t) \in Nat /\ t = u(Len(t)) /\ Only(s, T) \in Seq(S)
  BY OnlyType
<1>1. 0 \in Z
  <2>1. u(0) = <<>> /\ s \o <<>> = s /\ Only(s, T) \o <<>> = Only(s, T)
    BY <1>0
  <2> QED BY <2>1, OnlyEmpty
<1>2. ASSUME NEW k \in Z PROVE k + 1 \in Z
  <2> SUFFICES ASSUME k + 1 <= Len(t)
               PROVE  Only(s \o u(k + 1), T) = Only(s, T) \o Only(u(k + 1), T)
    OBVIOUS
  <2>1. k + 1 \in 1..Len(t) /\ u(k) \in Seq(S) /\ t[k + 1] \in S
    OBVIOUS
  <2>2. u(k + 1) = Append(u(k), t[k + 1])
    BY <2>1
  <2>3. Only(s \o u(k), T) = Only(s, T) \o Only(u(k), T)
    OBVIOUS
  <2>4. Only(u(k), T) \in Seq(S)
    BY <2>1, OnlyType
  <2> DEFINE v == u(k)
             w == Only(v, T)
             e == t[k + 1]
             x == Only(s, T)
             sv == s \o v
  <2>a. v \in Seq(S) /\ e \in S /\ w \in Seq(S) /\ x \in Seq(S) /\ sv \in Seq(S)
    BY <1>0, <2>1, <2>4
  <2>b. u(k + 1) = Append(v, e) /\ Only(sv, T) = x \o w
    BY <2>2, <2>3
  <2> HIDE DEF u, v, e, Z
  <2>5. s \o Append(v, e) = Append(sv, e)
    BY <2>a
  <2> HIDE DEF sv
  <2>7. Only(Append(v, e), T) = IF e \in T THEN Append(Only(v, T), e) ELSE Only(v, T)
    BY <2>a, OnlyAppend
  <2>8. Only(Append(sv, e), T) = IF e \in T THEN Append(Only(sv, T), e) ELSE Only(sv, T)
    BY <2>a, OnlyAppend
  <2> HIDE DEF w, x
  <2>6. x \o Append(w, e) = Append(x \o w, e)
    BY <2>a
  <2>9. Only(s \o Append(v, e), T) = x \o Only(Append(v, e), T)
    BY <2>b, <2>5, <2>6, <2>7, <2>8 DEF w
  <2> QED BY <2>b, <2>9 DEF x
<1>3. Z = Nat
  <2> HIDE DEF Z
  <2>1. Z \subseteq Nat BY DEF Z
  <2> QED BY <1>1, <1>2, <2>1, SetInduction
<1>4. Len(t) \in Z
  BY <1>0, <1>3
<1>5. Only(s \o u(Len(t)), T) = Only(s, T) \o Only(u(Len(t)), T)
  BY <1>0, <1>4
<1> HIDE DEF Z, u
<1> QED BY <1>0, <1>5

(* A sequence whose elements are members of a set.                         *)
LEMMA OfMembers ==
  ASSUME NEW S, NEW s \in Seq(S), NEW T, ToSet(s) \subseteq T
  PROVE  s \in Seq(T)
<1>1. \A n \in 1..Len(s) : s[n] \in T
  BY DEF ToSet
<1>2. s = [n \in 1..Len(s) |-> s[n]] /\ Len(s) \in Nat
  OBVIOUS
<1> QED BY <1>1, <1>2, IsASeq

(* The elements of two sequences joined, and of one prolonged.             *)
LEMMA SetOfConcat ==
  ASSUME NEW S, NEW s \in Seq(S), NEW t \in Seq(S)
  PROVE  ToSet(s \o t) = ToSet(s) \union ToSet(t)
<1>1. /\ s \o t \in Seq(S) /\ Len(s \o t) = Len(s) + Len(t) /\ Len(s) \in Nat /\ Len(t) \in Nat
      /\ \A n \in 1..Len(s) : (s \o t)[n] = s[n]
      /\ \A n \in 1..Len(t) : (s \o t)[Len(s) + n] = t[n]
  BY ConcatProperties
<1>2. DOMAIN (s \o t) = 1..(Len(s) + Len(t)) /\ DOMAIN s = 1..Len(s) /\ DOMAIN t = 1..Len(t)
  BY <1>1
<1>3. ASSUME NEW n \in DOMAIN (s \o t) PROVE (s \o t)[n] \in ToSet(s) \union ToSet(t)
  <2>1. CASE n <= Len(s)
    <3>1. n \in 1..Len(s)
      BY <1>1, <1>2, <2>1
    <3> QED BY <1>1, <1>2, <3>1 DEF ToSet
  <2>2. CASE n > Len(s)
    <3>1. n - Len(s) \in 1..Len(t) /\ n = Len(s) + (n - Len(s))
      BY <1>1, <1>2, <2>2
    <3> QED BY <1>1, <1>2, <3>1 DEF ToSet
  <2> QED BY <1>1, <1>2, <2>1, <2>2
<1>4. ASSUME NEW n \in 1..Len(s) PROVE s[n] \in ToSet(s \o t)
  <2>1. n \in 1..(Len(s) + Len(t))
    BY <1>1
  <2> QED BY <1>1, <1>2, <2>1 DEF ToSet
<1>5. ASSUME NEW n \in 1..Len(t) PROVE t[n] \in ToSet(s \o t)
  <2>1. Len(s) + n \in 1..(Len(s) + Len(t))
    BY <1>1
  <2> QED BY <1>1, <1>2, <2>1 DEF ToSet
<1>6. ToSet(s \o t) \subseteq ToSet(s) \union ToSet(t)
  BY <1>3 DEF ToSet
<1>7. ToSet(s) \union ToSet(t) \subseteq ToSet(s \o t)
  BY <1>2, <1>4, <1>5 DEF ToSet
<1> QED BY <1>6, <1>7

LEMMA SetOfAppend ==
  ASSUME NEW S, NEW s \in Seq(S), NEW e \in S
  PROVE  ToSet(Append(s, e)) = ToSet(s) \union {e}
<1>1. Append(s, e) = s \o <<e>> /\ <<e>> \in Seq(S)
  OBVIOUS
<1>2. ToSet(<<e>>) = {e}
  BY DEF ToSet
<1> DEFINE t == <<e>>
<1> HIDE DEF t
<1>3. ToSet(s \o t) = ToSet(s) \union ToSet(t)
  BY <1>1, SetOfConcat DEF t
<1> QED BY <1>1, <1>2, <1>3 DEF t

(* The elements it keeps are those that are members.                       *)
LEMMA OnlyMembers ==
  ASSUME NEW S, NEW s \in Seq(S), NEW T
  PROVE  ToSet(Only(s, T)) = ToSet(s) \cap T
<1> DEFINE Z == {k \in Nat : k <= Len(s) =>
                   ToSet(Only(SubSeq(s, 1, k), T)) = ToSet(SubSeq(s, 1, k)) \cap T}
<1>0. Len(s) \in Nat /\ s = SubSeq(s, 1, Len(s))
  OBVIOUS
<1>1. 0 \in Z
  <2>1. SubSeq(s, 1, 0) = <<>> /\ ToSet(<<>>) = {}
    BY DEF ToSet
  <2> QED BY <2>1, OnlyEmpty
<1>2. ASSUME NEW k \in Z PROVE k + 1 \in Z
  <2> SUFFICES ASSUME k + 1 <= Len(s)
               PROVE  ToSet(Only(SubSeq(s, 1, k + 1), T)) = ToSet(SubSeq(s, 1, k + 1)) \cap T
    OBVIOUS
  <2>1. k + 1 \in 1..Len(s) /\ SubSeq(s, 1, k) \in Seq(S) /\ s[k + 1] \in S
    OBVIOUS
  <2>2. SubSeq(s, 1, k + 1) = Append(SubSeq(s, 1, k), s[k + 1])
    BY <2>1
  <2>3. ToSet(Only(SubSeq(s, 1, k), T)) = ToSet(SubSeq(s, 1, k)) \cap T
    OBVIOUS
  <2>4. Only(SubSeq(s, 1, k), T) \in Seq(S)
    BY <2>1, OnlyType
  <2> DEFINE v == SubSeq(s, 1, k)
             w == Only(v, T)
             e == s[k + 1]
  <2> HIDE DEF v, w, e, Z
  <2>a. v \in Seq(S) /\ e \in S
    BY <2>1 DEF v, e
  <2>b. w \in Seq(S)
    BY <2>4 DEF v, w
  <2>5. ToSet(Append(v, e)) = ToSet(v) \union {e}
    BY <2>a, SetOfAppend
  <2>6. ToSet(Append(w, e)) = ToSet(w) \union {e}
    BY <2>a, <2>b, SetOfAppend
  <2>7. Only(Append(v, e), T) = IF e \in T THEN Append(w, e) ELSE w
    BY <2>a, OnlyAppend DEF w
  <2>8. ToSet(w) = ToSet(v) \cap T
    BY <2>3 DEF v, w
  <2>9. ToSet(Only(Append(v, e), T)) = ToSet(Append(v, e)) \cap T
    BY <2>5, <2>6, <2>7, <2>8
  <2> QED BY <2>2, <2>9 DEF v, e
<1>3. Z = Nat
  <2> HIDE DEF Z
  <2>1. Z \subseteq Nat BY DEF Z
  <2> QED BY <1>1, <1>2, <2>1, SetInduction
<1>4. Len(s) \in Z
  BY <1>0, <1>3
<1>5. ToSet(Only(SubSeq(s, 1, Len(s)), T)) = ToSet(SubSeq(s, 1, Len(s))) \cap T
  BY <1>0, <1>4
<1> HIDE DEF Z
<1> QED BY <1>0, <1>5

-----------------------------------------------------------------------------
(* Functions of positions defined by recursion.                            *)

(* step[k, v] is the value at position k if v is the one before.  There is *)
(* such a function,                                                        *)
Recursion(n, base, step, f) == f[0] = base /\ \A k \in 1..n : f[k] = step[<<k, f[k - 1]>>]

LEMMA RecursionExists ==
  ASSUME NEW n \in Nat, NEW V, NEW base \in V, NEW step \in [(1..n) \X V -> V]
  PROVE  \E f \in [0..n -> V] : Recursion(n, base, step, f)
<1> DEFINE Z == {k \in Nat : k <= n => \E f \in [0..k -> V] : Recursion(k, base, step, f)}
<1>1. 0 \in Z
  <2> DEFINE f == [i \in 0..0 |-> base]
  <2>1. f \in [0..0 -> V] /\ Recursion(0, base, step, f)
    BY DEF Recursion
  <2> HIDE DEF f
  <2> QED BY <2>1
<1>2. ASSUME NEW k \in Z PROVE k + 1 \in Z
  <2> SUFFICES ASSUME k + 1 <= n
               PROVE  \E f \in [0..(k + 1) -> V] : Recursion(k + 1, base, step, f)
    OBVIOUS
  <2>1. PICK f \in [0..k -> V] : Recursion(k, base, step, f)
    OBVIOUS
  <2> DEFINE e == step[<<k + 1, f[k]>>]
             g == [i \in 0..(k + 1) |-> IF i = k + 1 THEN e ELSE f[i]]
  <2>0. k \in Nat
    OBVIOUS
  <2>2. k \in 0..k /\ k + 1 \in 1..n /\ f[k] \in V /\ e \in V
    OBVIOUS
  <2>3. g \in [0..(k + 1) -> V]
    BY <2>2
  <2>4. \A i \in 0..k : g[i] = f[i]
    OBVIOUS
  <2>5. g[k + 1] = step[<<k + 1, g[k]>>]
    <3>1. g[k] = f[k]
      BY <2>2, <2>4
    <3>2. g[k + 1] = e
      BY <2>2
    <3> HIDE DEF g
    <3> QED BY <3>1, <3>2
  <2> HIDE DEF g, e, Z
  <2>6. ASSUME NEW i \in 1..(k + 1) PROVE g[i] = step[<<i, g[i - 1]>>]
    <3>1. CASE i = k + 1
      <4>1. i - 1 = k
        BY <2>0, <3>1
      <4> QED BY <2>5, <3>1, <4>1
    <3>2. CASE i \in 1..k
      <4>1. i \in 0..k /\ i - 1 \in 0..k
        BY <2>0, <3>2
      <4> QED BY <2>1, <2>4, <3>2, <4>1 DEF Recursion
    <3> QED BY <2>0, <3>1, <3>2
  <2>7. g[0] = base
    <3>1. 0 \in 0..k
      BY <2>0
    <3> QED BY <2>1, <2>4, <3>1 DEF Recursion
  <2> QED BY <2>3, <2>6, <2>7 DEF Recursion
<1>3. Z = Nat
  <2> HIDE DEF Z
  <2>1. Z \subseteq Nat BY DEF Z
  <2> QED BY <1>1, <1>2, <2>1, SetInduction
<1> QED BY <1>3

(* and one only.                                                           *)
LEMMA RecursionUnique ==
  ASSUME NEW n \in Nat, NEW base, NEW step, NEW f, NEW g,
         Recursion(n, base, step, f), Recursion(n, base, step, g), NEW m \in 0..n
  PROVE  f[m] = g[m]
<1> DEFINE Z == {k \in Nat : k <= n => f[k] = g[k]}
<1>1. 0 \in Z
  BY DEF Recursion
<1>2. ASSUME NEW k \in Z PROVE k + 1 \in Z
  <2> SUFFICES ASSUME k + 1 <= n PROVE f[k + 1] = g[k + 1]
    OBVIOUS
  <2>1. k + 1 \in 1..n /\ f[k] = g[k] /\ (k + 1) - 1 = k
    OBVIOUS
  <2> QED BY <2>1 DEF Recursion
<1>3. Z = Nat
  <2> HIDE DEF Z
  <2>1. Z \subseteq Nat BY DEF Z
  <2> QED BY <1>1, <1>2, <2>1, SetInduction
<1> QED BY <1>3

-----------------------------------------------------------------------------
(* Paths to a root: each number in I has a smaller one above it and an     *)
(* entry of its own.                                                       *)
Above(I, par, ent, f, i) == IF i \in I THEN Append(f[par[i]], ent[i]) ELSE <<>>
Climb(I, par, ent, n, f) == \A i \in 0..n : f[i] = Above(I, par, ent, f, i)

Climbs(I, par, ent, f) == \A i \in Nat : f[i] = Above(I, par, ent, f, i)
Upward(I, par) == I \subseteq Nat /\ par \in [I -> Nat] /\ \A i \in I : par[i] < i

(* Two functions that compute the paths agree where both do.               *)
LEMMA ClimbUnique ==
  ASSUME NEW I, NEW par, NEW ent, NEW n \in Nat, NEW k \in Nat, NEW f, NEW g,
         Climb(I, par, ent, n, f), Climb(I, par, ent, k, g),
         Upward(I, par), k <= n
  PROVE  f[k] = g[k]
<1>0. I \subseteq Nat /\ par \in [I -> Nat] /\ \A i \in I : par[i] < i
  BY DEF Upward
<1> DEFINE Z == {i \in Nat : i <= k => f[i] = g[i]}
<1>1. ASSUME NEW i \in Nat, \A j \in Nat : j < i => j \in Z PROVE i \in Z
  <2> SUFFICES ASSUME i <= k PROVE f[i] = g[i]
    OBVIOUS
  <2>1. f[i] = Above(I, par, ent, f, i) /\ g[i] = Above(I, par, ent, g, i)
    BY DEF Climb
  <2>2. CASE i \in I
    <3>1. par[i] \in Nat /\ par[i] < i
      BY <1>0, <2>2
    <3>2. f[par[i]] = g[par[i]]
      BY <1>1, <3>1
    <3> QED BY <2>1, <3>2 DEF Above
  <2>3. CASE i \notin I
    BY <2>1, <2>3 DEF Above
  <2> QED BY <2>2, <2>3
<1>2. Z = Nat
  <2> HIDE DEF Z
  <2>1. Z \subseteq Nat BY DEF Z
  <2> QED BY <1>1, <2>1, StrongInduction
<1> QED BY <1>2

(* There is one up to every number,                                        *)
LEMMA ClimbUpto ==
  ASSUME NEW I, I \subseteq Nat, NEW par \in [I -> Nat], \A i \in I : par[i] < i,
         NEW E, NEW ent \in [I -> E], NEW n \in Nat
  PROVE  \E f \in [0..n -> Seq(E)] : Climb(I, par, ent, n, f)
<1> DEFINE Z == {k \in Nat : \E f \in [0..k -> Seq(E)] : Climb(I, par, ent, k, f)}
<1>1. 0 \in Z
  <2> DEFINE f == [i \in 0..0 |-> <<>>]
  <2>1. f \in [0..0 -> Seq(E)]
    OBVIOUS
  <2>2. 0 \notin I
    <3> SUFFICES ASSUME 0 \in I PROVE FALSE
      OBVIOUS
    <3>1. par[0] \in Nat /\ par[0] < 0
      OBVIOUS
    <3> QED BY <3>1
  <2>3. f[0] = Above(I, par, ent, f, 0)
    BY <2>2 DEF Above
  <2> HIDE DEF f
  <2>4. Climb(I, par, ent, 0, f)
    BY <2>3 DEF Climb
  <2> QED BY <2>1, <2>4
<1>2. ASSUME NEW k \in Z PROVE k + 1 \in Z
  <2>1. PICK f \in [0..k -> Seq(E)] : Climb(I, par, ent, k, f)
    OBVIOUS
  <2> DEFINE g == [i \in 0..(k + 1) |-> IF i = k + 1 THEN Above(I, par, ent, f, k + 1) ELSE f[i]]
  <2>2. k \in Nat /\ k + 1 \in Nat
    OBVIOUS
  <2>3. Above(I, par, ent, f, k + 1) \in Seq(E)
    <3>1. CASE k + 1 \in I
      <4>1. par[k + 1] \in 0..k /\ ent[k + 1] \in E
        BY <2>2, <3>1
      <4>2. f[par[k + 1]] \in Seq(E)
        BY <4>1
      <4> QED BY <3>1, <4>1, <4>2 DEF Above
    <3>2. CASE k + 1 \notin I
      BY <3>2 DEF Above
    <3> QED BY <3>1, <3>2
  <2>4. g \in [0..(k + 1) -> Seq(E)]
    BY <2>3
  <2>5. g[k + 1] = Above(I, par, ent, f, k + 1) /\ \A i \in 0..k : g[i] = f[i]
    BY <2>2
  <2> HIDE DEF g
  <2>6. ASSUME NEW i \in 0..(k + 1) PROVE g[i] = Above(I, par, ent, g, i)
    <3>1. Above(I, par, ent, f, i) = Above(I, par, ent, g, i)
      <4>1. CASE i \in I
        <5>1. par[i] \in 0..k
          BY <2>2, <4>1
        <5> QED BY <2>5, <5>1 DEF Above
      <4>2. CASE i \notin I
        BY <4>2 DEF Above
      <4> QED BY <4>1, <4>2
    <3>2. CASE i = k + 1
      BY <2>5, <3>1, <3>2
    <3>3. CASE i \in 0..k
      BY <2>1, <2>5, <3>1, <3>3 DEF Climb
    <3> QED BY <2>2, <3>1, <3>2, <3>3
  <2>7. Climb(I, par, ent, k + 1, g)
    BY <2>6 DEF Climb
  <2> QED BY <2>2, <2>4, <2>7
<1>3. Z = Nat
  <2> HIDE DEF Z
  <2>1. Z \subseteq Nat BY DEF Z
  <2> QED BY <1>1, <1>2, <2>1, SetInduction
<1> QED BY <1>3

(* so there is one for all.                                                *)
LEMMA ClimbExists ==
  ASSUME NEW I, NEW par, NEW E, NEW ent, Upward(I, par), ent \in [I -> E]
  PROVE  \E f : f \in [Nat -> Seq(E)] /\ Climbs(I, par, ent, f)
<1>a. I \subseteq Nat /\ par \in [I -> Nat] /\ \A i \in I : par[i] < i
  BY DEF Upward
<1>0. ASSUME NEW n \in Nat, NEW k \in Nat, k <= n, NEW f, NEW g,
             Climb(I, par, ent, n, f), Climb(I, par, ent, k, g)
      PROVE  f[k] = g[k]
  <2> QED BY <1>0, ClimbUnique
<1> DEFINE F(i) == CHOOSE f \in [0..i -> Seq(E)] : Climb(I, par, ent, i, f)
           up == [i \in Nat |-> F(i)[i]]
<1>1. \A i \in Nat : F(i) \in [0..i -> Seq(E)] /\ Climb(I, par, ent, i, F(i))
  BY <1>a, ClimbUpto
<1> HIDE DEF F
<1>2. \A i \in Nat : up[i] \in Seq(E)
  BY <1>1
<1>3. ASSUME NEW i \in Nat PROVE up[i] = Above(I, par, ent, up, i)
  <2>1. F(i)[i] = Above(I, par, ent, F(i), i)
    BY <1>1 DEF Climb
  <2>2. CASE i \in I
    <3> DEFINE q == par[i]
    <3>1. q < i /\ q \in Nat
      BY <1>a, <2>2
    <3> HIDE DEF q
    <3>2. F(i)[q] = F(q)[q]
      BY <1>0, <1>1, <3>1
    <3>3. up[q] = F(i)[q]
      BY <3>1, <3>2
    <3> QED BY <2>1, <2>2, <3>3 DEF Above, q
  <2>3. CASE i \notin I
    BY <2>1, <2>3 DEF Above
  <2> QED BY <2>2, <2>3
<1>4. up \in [Nat -> Seq(E)]
  BY <1>2
<1> HIDE DEF up
<1> QED BY <1>3, <1>4 DEF Climbs

LEMMA ClimbType ==
  ASSUME NEW I, NEW par, NEW E, NEW ent, Upward(I, par), ent \in [I -> E],
         NEW up, Climbs(I, par, ent, up), NEW i \in Nat
  PROVE  up[i] \in Seq(E)
<1>1. PICK f : f \in [Nat -> Seq(E)] /\ Climbs(I, par, ent, f)
  BY ClimbExists
<1>2. Climb(I, par, ent, i, up) /\ Climb(I, par, ent, i, f)
  BY <1>1 DEF Climb, Climbs
<1>3. up[i] = f[i]
  <2>1. i <= i
    OBVIOUS
  <2> QED BY <1>2, <2>1, ClimbUnique
<1> QED BY <1>1, <1>3
=============================================================================
