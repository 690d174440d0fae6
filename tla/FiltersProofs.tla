---------------------------- MODULE FiltersProofs ----------------------------
(***************************************************************************)
(* What the ends of a list and what filtering it do to its members, for    *)
(* lists of any length.  The proofs about the components' lists cite these.*)
(***************************************************************************)
EXTENDS Filters, FiniteSetTheorems, TLAPS

(* Induction, and the ends of a list. *)

\* Induction over the naturals, with a set in place of a predicate.
LEMMA SetInduction ==
    ASSUME NEW S, 0 \in S, \A n \in Nat : n \in S => n + 1 \in S
    PROVE  Nat \subseteq S
  <1> DEFINE T == Nat \ S
  <1> DEFINE R == {ss \in Nat \X Nat : ss[1] < ss[2]}
  <1>1. IsWellFoundedOn(R, Nat)
    BY NatLessThanWellFounded DEF OpToRel
  <1> SUFFICES ASSUME T # {} PROVE FALSE
    OBVIOUS
  <1>2. PICK x \in T : \A y \in T : ~(<<y, x>> \in R)
    <2> T \subseteq Nat
      OBVIOUS
    <2> HIDE DEF T, R
    <2> QED BY <1>1, WFMin
  <1>3. x \in Nat /\ x # 0 /\ x - 1 \in Nat /\ x - 1 \notin T
    <2>1. x \in Nat /\ x # 0 /\ x - 1 \in Nat
      OBVIOUS
    <2>2. <<x - 1, x>> \in R
      BY <2>1
    <2> QED BY <2>1, <2>2, <1>2
  <1> QED BY <1>3

\* What the ends of a list do to its members, and that none comes to be in it twice.
LEMMA AppendFacts ==
    ASSUME NEW S, NEW s \in Seq(S), NEW e \in S
    PROVE  /\ Append(s, e) \in Seq(S)
           /\ Range(Append(s, e)) = Range(s) \cup {e}
           /\ IsInjective(s) /\ e \notin Range(s) => IsInjective(Append(s, e))
           /\ Append(s, e) # <<>>
  <1> DEFINE t == Append(s, e)
  <1>1. /\ t \in Seq(S) /\ Len(t) = Len(s) + 1 /\ Len(s) \in Nat
        /\ DOMAIN t = 1..(Len(s) + 1) /\ DOMAIN s = 1..Len(s)
        /\ \A i \in 1..Len(s) : t[i] = s[i]
        /\ t[Len(s) + 1] = e
    OBVIOUS
  <1> HIDE DEF t
  <1>2. Range(t) = Range(s) \cup {e}
    <2>1. \A i \in 1..(Len(s) + 1) : i \in 1..Len(s) \/ i = Len(s) + 1
      BY <1>1
    <2>2. \A i \in 1..Len(s) : i \in 1..(Len(s) + 1)
      BY <1>1
    <2>3. Len(s) + 1 \in 1..(Len(s) + 1)
      BY <1>1
    <2> QED BY <1>1, <2>1, <2>2, <2>3 DEF Range
  <1>3. IsInjective(s) /\ e \notin Range(s) => IsInjective(t)
    <2>1. \A i \in 1..(Len(s) + 1) : i \in 1..Len(s) \/ i = Len(s) + 1
      BY <1>1
    <2> QED BY <1>1, <2>1 DEF Range, IsInjective
  <1> QED BY <1>1, <1>2, <1>3 DEF t

LEMMA TailFacts ==
    ASSUME NEW S, NEW s \in Seq(S), s # <<>>
    PROVE  /\ Head(s) \in S /\ Head(s) \in Range(s) /\ Tail(s) \in Seq(S)
           /\ Range(Tail(s)) \subseteq Range(s)
           /\ Range(s) = Range(Tail(s)) \cup {Head(s)}
           /\ IsInjective(s) => IsInjective(Tail(s)) /\ Head(s) \notin Range(Tail(s))
  <1> DEFINE t == Tail(s)
  <1>1. /\ t \in Seq(S) /\ Len(s) \in Nat /\ Len(s) # 0 /\ Len(t) = Len(s) - 1
        /\ DOMAIN s = 1..Len(s) /\ DOMAIN t = 1..(Len(s) - 1)
        /\ \A i \in 1..(Len(s) - 1) : t[i] = s[i + 1]
        /\ Head(s) = s[1] /\ s[1] \in S
    OBVIOUS
  <1> HIDE DEF t
  <1>2. \A i \in 1..(Len(s) - 1) : i + 1 \in 1..Len(s) /\ i + 1 # 1
    BY <1>1
  <1>3. \A i \in 1..Len(s) : i = 1 \/ (i - 1 \in 1..(Len(s) - 1) /\ (i - 1) + 1 = i)
    BY <1>1
  <1>4. 1 \in 1..Len(s)
    BY <1>1
  <1>5. Range(t) \subseteq Range(s) /\ Head(s) \in Range(s)
    BY <1>1, <1>2, <1>4 DEF Range
  <1>6. Range(s) \subseteq Range(t) \cup {Head(s)}
    <2>1. \A i \in 1..(Len(s) - 1) : t[i] \in Range(t)
      BY <1>1 DEF Range
    <2>2. \A i \in 1..Len(s) : i # 1 => s[i] = t[i - 1]
      BY <1>1, <1>3
    <2>3. \A i \in 1..Len(s) : s[i] \in Range(t) \cup {Head(s)}
      BY <1>1, <1>3, <2>1, <2>2
    <2> QED BY <1>1, <2>3 DEF Range
  <1>7. ASSUME IsInjective(s)
        PROVE  IsInjective(t) /\ Head(s) \notin Range(t)
    <2>1. \A i, j \in 1..(Len(s) - 1) : i + 1 = j + 1 => i = j
      BY <1>1
    <2>2. IsInjective(t)
      <3> SUFFICES ASSUME NEW i \in 1..(Len(s) - 1), NEW j \in 1..(Len(s) - 1), t[i] = t[j]
                   PROVE  i = j
        BY <1>1 DEF IsInjective
      <3>1. s[i + 1] = s[j + 1] /\ i + 1 \in DOMAIN s /\ j + 1 \in DOMAIN s
        BY <1>1, <1>2
      <3>2. i + 1 = j + 1
        BY <3>1, <1>7 DEF IsInjective
      <3> QED BY <2>1, <3>2
    <2>3. Head(s) \notin Range(t)
      BY <1>1, <1>2, <1>4, <1>7 DEF IsInjective, Range
    <2> QED BY <2>2, <2>3
  <1> QED BY <1>1, <1>5, <1>6, <1>7 DEF t

LEMMA PrependFacts ==
    ASSUME NEW S, NEW s \in Seq(S), NEW e \in S
    PROVE  /\ <<e>> \o s \in Seq(S)
           /\ Range(<<e>> \o s) = Range(s) \cup {e}
           /\ IsInjective(s) /\ e \notin Range(s) => IsInjective(<<e>> \o s)
  <1> DEFINE t == <<e>> \o s
  <1>1. /\ t \in Seq(S) /\ Len(s) \in Nat /\ Len(t) = Len(s) + 1
        /\ DOMAIN s = 1..Len(s) /\ DOMAIN t = 1..(Len(s) + 1)
        /\ t[1] = e
        /\ \A i \in 2..(Len(s) + 1) : t[i] = s[i - 1]
    OBVIOUS
  <1> HIDE DEF t
  <1>2. \A i \in 1..(Len(s) + 1) : i = 1 \/ (i \in 2..(Len(s) + 1) /\ i - 1 \in 1..Len(s))
    BY <1>1
  <1>3. \A i \in 1..Len(s) : i + 1 \in 2..(Len(s) + 1) /\ i + 1 \in 1..(Len(s) + 1) /\ (i + 1) - 1 = i
    BY <1>1
  <1>4. 1 \in 1..(Len(s) + 1)
    BY <1>1
  <1>5. Range(t) \subseteq Range(s) \cup {e}
    BY <1>1, <1>2 DEF Range
  <1>6. Range(s) \cup {e} \subseteq Range(t)
    <2>1. \A i \in 1..Len(s) : s[i] = t[i + 1]
      BY <1>1, <1>3
    <2>2. \A i \in 1..Len(s) : s[i] \in Range(t)
      BY <1>1, <1>3, <2>1 DEF Range
    <2> QED BY <1>1, <1>4, <2>2 DEF Range
  <1>7. ASSUME IsInjective(s), e \notin Range(s)
        PROVE  IsInjective(t)
    <2>1. \A i, j \in 2..(Len(s) + 1) : i - 1 = j - 1 => i = j
      BY <1>1
    <2>2. \A i \in 2..(Len(s) + 1) : t[i] # e
      BY <1>1, <1>2, <1>7 DEF Range
    <2>3. \A i, j \in 2..(Len(s) + 1) : t[i] = t[j] => i = j
      BY <1>1, <1>2, <1>7, <2>1 DEF IsInjective
    <2> QED BY <1>1, <1>2, <2>2, <2>3 DEF IsInjective
  <1> QED BY <1>1, <1>5, <1>6, <1>7 DEF t

LEMMA ConcatFacts ==
    ASSUME NEW S, NEW s \in Seq(S), NEW t \in Seq(S)
    PROVE  /\ s \o t \in Seq(S)
           /\ Len(s \o t) = Len(s) + Len(t) /\ DOMAIN (s \o t) = 1..(Len(s) + Len(t))
           /\ \A i \in 1..(Len(s) + Len(t)) : (s \o t)[i] = IF i <= Len(s) THEN s[i] ELSE t[i - Len(s)]
           /\ Range(s \o t) = Range(s) \cup Range(t)
           /\ IsInjective(s) /\ IsInjective(t) /\ Range(s) \cap Range(t) = {} => IsInjective(s \o t)
  <1> DEFINE u == s \o t
  <1> DEFINE m == Len(s)
  <1> DEFINE n == Len(t)
  <1>1. /\ m \in Nat /\ n \in Nat /\ u \in Seq(S) /\ Len(u) = m + n /\ DOMAIN u = 1..(m + n)
        /\ DOMAIN s = 1..m /\ DOMAIN t = 1..n
    OBVIOUS
  <1>2. \A i \in 1..(m + n) : u[i] = IF i <= m THEN s[i] ELSE t[i - m]
    OBVIOUS
  <1>3. \A i \in 1..(m + n) : i \notin 1..m => i - m \in 1..n /\ ~(i <= m)
    BY <1>1
  <1>4. \A i \in 1..m : i \in 1..(m + n) /\ i <= m
    BY <1>1
  <1>5. \A i \in 1..n : m + i \in 1..(m + n) /\ ~(m + i <= m) /\ (m + i) - m = i
    BY <1>1
  <1> HIDE DEF u, m, n
  <1>6. Range(u) = Range(s) \cup Range(t)
    <2>1. Range(u) \subseteq Range(s) \cup Range(t)
      <3> SUFFICES ASSUME NEW i \in 1..(m + n) PROVE u[i] \in Range(s) \cup Range(t)
        BY <1>1 DEF Range
      <3>1. CASE i \in 1..m
        BY <1>1, <1>2, <1>4, <3>1 DEF Range
      <3>2. CASE i \notin 1..m
        BY <1>1, <1>2, <1>3, <3>2 DEF Range
      <3> QED BY <3>1, <3>2
    <2>2. \A i \in 1..m : u[i] = s[i]
      BY <1>2, <1>4
    <2>3. \A i \in 1..n : u[m + i] = t[i]
      BY <1>2, <1>5
    <2>4. Range(s) \subseteq Range(u)
      BY <1>1, <1>4, <2>2 DEF Range
    <2>5. Range(t) \subseteq Range(u)
      <3> SUFFICES ASSUME NEW i \in 1..n PROVE t[i] \in Range(u)
        BY <1>1 DEF Range
      <3>1. m + i \in DOMAIN u /\ u[m + i] = t[i]
        BY <1>1, <1>5, <2>3
      <3> QED BY <3>1 DEF Range
    <2> QED BY <2>1, <2>4, <2>5
  <1>7. ASSUME IsInjective(s), IsInjective(t), Range(s) \cap Range(t) = {}
        PROVE  IsInjective(u)
    <2> SUFFICES ASSUME NEW i \in 1..(m + n), NEW j \in 1..(m + n), u[i] = u[j] PROVE i = j
      BY <1>1 DEF IsInjective
    <2>1. CASE i \in 1..m /\ j \in 1..m
      BY <1>1, <1>2, <1>4, <1>7, <2>1 DEF IsInjective
    <2>2. CASE i \notin 1..m /\ j \notin 1..m
      <3>1. i - m = j - m
        BY <1>1, <1>2, <1>3, <1>7, <2>2 DEF IsInjective
      <3> QED BY <1>1, <3>1
    <2>3. CASE i \in 1..m /\ j \notin 1..m
      BY <1>1, <1>2, <1>3, <1>4, <1>7, <2>3 DEF Range
    <2>4. CASE i \notin 1..m /\ j \in 1..m
      BY <1>1, <1>2, <1>3, <1>4, <1>7, <2>4 DEF Range
    <2> QED BY <2>1, <2>2, <2>3, <2>4
  <1> QED BY <1>1, <1>2, <1>6, <1>7 DEF u, m, n

\* Induction along a list, which is empty or ends in a member; with a set in place of a predicate.
LEMMA ListInduction ==
    ASSUME NEW S, NEW T, <<>> \in T,
           \A q \in Seq(S) : q \in T => \A e \in S : Append(q, e) \in T
    PROVE  Seq(S) \subseteq T
  <1> DEFINE N == {n \in Nat : \A q \in Seq(S) : Len(q) = n => q \in T}
  <1>1. 0 \in N
    <2>1. \A q \in Seq(S) : Len(q) = 0 => q = <<>>
      OBVIOUS
    <2> QED BY <2>1
  <1>2. ASSUME NEW n \in Nat, n \in N PROVE n + 1 \in N
    <2> SUFFICES ASSUME NEW q \in Seq(S), Len(q) = n + 1 PROVE q \in T
      OBVIOUS
    <2> DEFINE r == [i \in 1..n |-> q[i]]
    <2>1. /\ DOMAIN q = 1..(n + 1) /\ \A i \in 1..(n + 1) : q[i] \in S
          /\ n + 1 \in 1..(n + 1) /\ \A i \in 1..n : i \in 1..(n + 1)
      OBVIOUS
    <2>2. r \in Seq(S) /\ Len(r) = n
      BY <2>1
    <2>3. q = Append(r, q[n + 1])
      BY <2>1, <2>2
    <2>4. r \in T
      BY <1>2, <2>2
    <2> HIDE DEF r
    <2> QED BY <2>1, <2>2, <2>3, <2>4
  <1> HIDE DEF N
  <1>3. Nat \subseteq N
    BY <1>1, <1>2, SetInduction
  <1>4. \A q \in Seq(S) : Len(q) \in Nat
    OBVIOUS
  <1> QED BY <1>3, <1>4 DEF N

-----------------------------------------------------------------------------
(* Filtering, one member after another. *)

\* A step of Picked, given what was kept before.
KeptAt(f, q, places, i) ==
    IF i = 0 THEN <<>>
    ELSE IF i \in places THEN Append(f[i - 1], q[i]) ELSE f[i - 1]

\* The recursion in Picked defines a function.
LEMMA KeptExists ==
    ASSUME NEW q, NEW places, Len(q) \in Nat
    PROVE  \E f : f = [i \in 0..Len(q) |-> KeptAt(f, q, places, i)]
  <1> DEFINE T == {n \in Nat : \E f : f = [i \in 0..n |-> KeptAt(f, q, places, i)]}
  <1>1. 0 \in T
    <2> DEFINE f == [i \in 0..0 |-> <<>>]
    <2>1. f = [i \in 0..0 |-> KeptAt(f, q, places, i)]
      BY DEF KeptAt
    <2> QED BY <2>1
  <1>2. ASSUME NEW n \in Nat, n \in T PROVE n + 1 \in T
    <2>1. PICK f : f = [i \in 0..n |-> KeptAt(f, q, places, i)]
      BY <1>2
    <2> DEFINE g == [i \in 0..(n + 1) |-> IF i = n + 1 THEN KeptAt(f, q, places, i) ELSE f[i]]
    <2>2. ASSUME NEW i \in 0..(n + 1) PROVE g[i] = KeptAt(g, q, places, i)
      <3>1. i # 0 => i - 1 \in 0..n /\ i - 1 # n + 1 /\ i - 1 \in 0..(n + 1)
        OBVIOUS
      <3>2. i # 0 => g[i - 1] = f[i - 1]
        BY <3>1
      <3>3. KeptAt(g, q, places, i) = KeptAt(f, q, places, i)
        BY <3>2 DEF KeptAt
      <3>4. i # n + 1 => i \in 0..n
        OBVIOUS
      <3>5. i # n + 1 => f[i] = KeptAt(f, q, places, i)
        BY <3>4, <2>1
      <3>6. g[i] = IF i = n + 1 THEN KeptAt(f, q, places, i) ELSE f[i]
        OBVIOUS
      <3> QED BY <3>3, <3>5, <3>6
    <2> HIDE DEF g
    <2>3. g = [i \in 0..(n + 1) |-> KeptAt(g, q, places, i)]
      <3>1. g = [i \in 0..(n + 1) |-> g[i]]
        BY DEF g
      <3> QED BY <3>1, <2>2
    <2>4. n + 1 \in Nat
      OBVIOUS
    <2> QED BY <2>3, <2>4
  <1> HIDE DEF T
  <1>3. Len(q) \in T
    BY <1>1, <1>2, SetInduction
  <1> QED BY <1>3 DEF T

\* What Picked has kept after each member.
Keeps(f, q, places) ==
    /\ f[0] = <<>>
    /\ \A n \in Nat : n + 1 <= Len(q) =>
          f[n + 1] = IF n + 1 \in places THEN Append(f[n], q[n + 1]) ELSE f[n]

LEMMA KeptFacts ==
    ASSUME NEW q, NEW places, Len(q) \in Nat
    PROVE  \E kept : Picked(q, places) = kept[Len(q)] /\ Keeps(kept, q, places)
  <1> DEFINE kept == CHOOSE f : f = [i \in 0..Len(q) |-> KeptAt(f, q, places, i)]
  <1>1. kept = [i \in 0..Len(q) |-> KeptAt(kept, q, places, i)]
    BY KeptExists
  <1>2. Picked(q, places) = kept[Len(q)]
    BY DEF Picked, KeptAt
  <1> HIDE DEF kept
  <1>3. \A i \in 0..Len(q) : kept[i] = KeptAt(kept, q, places, i)
    BY <1>1
  <1>4. kept[0] = <<>>
    BY <1>3 DEF KeptAt
  <1>5. ASSUME NEW n \in Nat, n + 1 <= Len(q)
        PROVE  kept[n + 1] = IF n + 1 \in places THEN Append(kept[n], q[n + 1]) ELSE kept[n]
    <2>1. n + 1 \in 0..Len(q) /\ n + 1 # 0 /\ (n + 1) - 1 = n
      BY <1>5
    <2> QED BY <1>3, <2>1 DEF KeptAt
  <1>6. Keeps(kept, q, places)
    BY <1>4, <1>5 DEF Keeps
  <1> QED BY <1>2, <1>6

\* Lists that begin the same keep the same of where they do.
Alike(q, r, places, others, m) ==
    /\ m <= Len(q) /\ m <= Len(r)
    /\ \A i \in 1..m : q[i] = r[i] /\ (i \in places <=> i \in others)

LEMMA PickedPrefix ==
    ASSUME NEW q, NEW r, NEW places, NEW others, NEW f, NEW g, NEW m \in Nat, Len(q) \in Nat, Len(r) \in Nat,
           Alike(q, r, places, others, m), Keeps(f, q, places), Keeps(g, r, others)
    PROVE  f[m] = g[m]
  <1> DEFINE T == {n \in Nat : n <= m => f[n] = g[n]}
  <1>1. 0 \in T
    BY DEF Keeps
  <1>2. ASSUME NEW n \in Nat, n \in T PROVE n + 1 \in T
    <2> SUFFICES ASSUME n + 1 <= m PROVE f[n + 1] = g[n + 1]
      OBVIOUS
    <2>1. n + 1 \in 1..m /\ n + 1 <= Len(q) /\ n + 1 <= Len(r) /\ f[n] = g[n]
      BY <1>2 DEF Alike
    <2> QED BY <2>1 DEF Alike, Keeps
  <1> HIDE DEF T
  <1>3. m \in T
    BY <1>1, <1>2, SetInduction
  <1> QED BY <1>3 DEF T

\* Only which of its own places are picked matters to a list.
LEMMA PickedSame ==
    ASSUME NEW S, NEW q \in Seq(S), NEW places, NEW others,
           \A i \in DOMAIN q : i \in places <=> i \in others
    PROVE  Picked(q, places) = Picked(q, others)
  <1>1. Len(q) \in Nat /\ DOMAIN q = 1..Len(q)
    OBVIOUS
  <1>2. PICK f : Picked(q, places) = f[Len(q)] /\ Keeps(f, q, places)
    BY <1>1, KeptFacts
  <1>3. PICK g : Picked(q, others) = g[Len(q)] /\ Keeps(g, q, others)
    BY <1>1, KeptFacts
  <1>4. Alike(q, q, places, others, Len(q))
    BY <1>1 DEF Alike
  <1>5. f[Len(q)] = g[Len(q)]
    BY <1>1, <1>2, <1>3, <1>4, PickedPrefix
  <1> QED BY <1>2, <1>3, <1>5

LEMMA PickedEmpty ==
    ASSUME NEW places PROVE Picked(<<>>, places) = <<>>
  <1>1. Len(<<>>) = 0
    OBVIOUS
  <1> QED BY <1>1, KeptFacts DEF Keeps

\* A member that comes last is picked last, or not at all.
LEMMA PickedAppend ==
    ASSUME NEW S, NEW q \in Seq(S), NEW e \in S, NEW places
    PROVE  Picked(Append(q, e), places) =
              IF Len(q) + 1 \in places THEN Append(Picked(q, places), e) ELSE Picked(q, places)
  <1> DEFINE r == Append(q, e)
  <1>1. /\ Len(q) \in Nat /\ Len(r) = Len(q) + 1 /\ r[Len(q) + 1] = e
        /\ \A i \in 1..Len(q) : r[i] = q[i]
    OBVIOUS
  <1> HIDE DEF r
  <1>2. PICK f : Picked(q, places) = f[Len(q)] /\ Keeps(f, q, places)
    BY <1>1, KeptFacts
  <1>3. PICK g : Picked(r, places) = g[Len(r)] /\ Keeps(g, r, places)
    BY <1>1, KeptFacts
  <1>4. Alike(q, r, places, places, Len(q))
    BY <1>1 DEF Alike
  <1>5. f[Len(q)] = g[Len(q)]
    BY <1>1, <1>2, <1>3, <1>4, PickedPrefix
  <1>6. g[Len(q) + 1] = IF Len(q) + 1 \in places THEN Append(g[Len(q)], e) ELSE g[Len(q)]
    BY <1>1, <1>3 DEF Keeps
  <1> QED BY <1>1, <1>2, <1>3, <1>5, <1>6 DEF r

\* Picking takes nothing but members, each from its place.
LEMMA PickedFacts ==
    ASSUME NEW S, NEW q \in Seq(S), NEW places
    PROVE  /\ Picked(q, places) \in Seq(S)
           /\ Range(Picked(q, places)) = {q[i] : i \in DOMAIN q \cap places}
           /\ IsInjective(q) => IsInjective(Picked(q, places))
  <1> DEFINE Of(r) == {r[i] : i \in DOMAIN r \cap places}
  <1> DEFINE Good(r) == /\ Picked(r, places) \in Seq(S)
                        /\ Range(Picked(r, places)) = Of(r)
                        /\ IsInjective(r) => IsInjective(Picked(r, places))
  <1> DEFINE T == {r \in Seq(S) : Good(r)}
  <1>1. <<>> \in T
    <2>1. <<>> \in Seq(S) /\ Range(<<>>) = {} /\ IsInjective(<<>>) /\ Of(<<>>) = {}
      BY DEF Range, IsInjective
    <2> QED BY <2>1, PickedEmpty
  <1>2. ASSUME NEW r \in Seq(S), r \in T, NEW e \in S PROVE Append(r, e) \in T
    <2> DEFINE x == Append(r, e)
    <2> DEFINE n == Len(r) + 1
    <2> DEFINE t == Picked(r, places)
    <2>1. /\ x \in Seq(S) /\ DOMAIN x = 1..n /\ DOMAIN r = 1..Len(r) /\ Len(r) \in Nat
          /\ x[n] = e /\ \A i \in 1..Len(r) : x[i] = r[i]
          /\ 1..n = 1..Len(r) \cup {n} /\ n \notin 1..Len(r)
      OBVIOUS
    <2>2. Picked(x, places) = IF n \in places THEN Append(t, e) ELSE t
      BY PickedAppend
    <2>3. t \in Seq(S) /\ Range(t) = Of(r) /\ (IsInjective(r) => IsInjective(t))
      BY <1>2
    <2> HIDE DEF t, x, n
    <2>4. Of(x) = IF n \in places THEN Of(r) \cup {e} ELSE Of(r)
      BY <2>1
    <2>5. IsInjective(x) => IsInjective(r) /\ e \notin Of(r)
      BY <2>1 DEF IsInjective
    <2> HIDE DEF Of
    <2>6. CASE n \in places
      <3>1. /\ Append(t, e) \in Seq(S) /\ Range(Append(t, e)) = Range(t) \cup {e}
            /\ IsInjective(t) /\ e \notin Range(t) => IsInjective(Append(t, e))
        BY <2>3, AppendFacts
      <3> QED BY <2>1, <2>2, <2>3, <2>4, <2>5, <2>6, <3>1 DEF x
    <2>7. CASE n \notin places
      BY <2>1, <2>2, <2>3, <2>4, <2>5, <2>7 DEF x
    <2> QED BY <2>6, <2>7
  <1> HIDE DEF T
  <1>3. Seq(S) \subseteq T
    BY <1>1, <1>2, ListInduction
  <1> QED BY <1>3 DEF T

-----------------------------------------------------------------------------
(* Filtering by what the members are. *)

LEMMA ExcludingEmpty ==
    ASSUME NEW gone PROVE Excluding(<<>>, gone) = <<>>
  BY PickedEmpty DEF Excluding

LEMMA ExcludingAppend ==
    ASSUME NEW S, NEW q \in Seq(S), NEW e \in S, NEW gone
    PROVE  Excluding(Append(q, e), gone) =
              IF e \in gone THEN Excluding(q, gone) ELSE Append(Excluding(q, gone), e)
  <1> DEFINE r == Append(q, e)
  <1> DEFINE places == {i \in DOMAIN r : r[i] \notin gone}
  <1>1. /\ Len(q) \in Nat /\ DOMAIN q = 1..Len(q) /\ DOMAIN r = 1..(Len(q) + 1)
        /\ Len(q) + 1 \in DOMAIN r /\ r[Len(q) + 1] = e
        /\ \A i \in 1..Len(q) : r[i] = q[i] /\ i \in DOMAIN r
    OBVIOUS
  <1>2. Excluding(r, gone) = IF Len(q) + 1 \in places THEN Append(Picked(q, places), e) ELSE Picked(q, places)
    <2>1. Excluding(r, gone) = Picked(r, places)
      BY DEF Excluding
    <2> HIDE DEF places
    <2> QED BY <2>1, PickedAppend
  <1> HIDE DEF r
  <1>3. \A i \in DOMAIN q : i \in places <=> i \in {j \in DOMAIN q : q[j] \notin gone}
    BY <1>1
  <1>4. Len(q) + 1 \in places <=> e \notin gone
    BY <1>1
  <1> HIDE DEF places
  <1>5. Picked(q, places) = Excluding(q, gone)
    BY <1>3, PickedSame DEF Excluding
  <1> QED BY <1>2, <1>4, <1>5 DEF r

\* Who isn't excluded stays.
LEMMA ExcludingFacts ==
    ASSUME NEW S, NEW q \in Seq(S), NEW gone
    PROVE  /\ Excluding(q, gone) \in Seq(S)
           /\ Range(Excluding(q, gone)) = Range(q) \ gone
           /\ IsInjective(q) => IsInjective(Excluding(q, gone))
  <1> DEFINE places == {i \in DOMAIN q : q[i] \notin gone}
  <1>1. /\ Picked(q, places) \in Seq(S)
        /\ Range(Picked(q, places)) = {q[i] : i \in DOMAIN q \cap places}
        /\ IsInjective(q) => IsInjective(Picked(q, places))
    BY PickedFacts
  <1>2. {q[i] : i \in DOMAIN q \cap places} = Range(q) \ gone
    BY DEF Range
  <1> HIDE DEF places
  <1> QED BY <1>1, <1>2 DEF Excluding, places

\* Whoever is excluded makes the list shorter.
LEMMA ExcludingLength ==
    ASSUME NEW S, NEW q \in Seq(S), NEW gone
    PROVE  /\ Len(Excluding(q, gone)) <= Len(q)
           /\ Range(q) \cap gone # {} => Len(Excluding(q, gone)) < Len(q)
           /\ Range(q) \cap gone = {} => Excluding(q, gone) = q
  <1> DEFINE Good(r) == /\ Len(Excluding(r, gone)) <= Len(r)
                        /\ Range(r) \cap gone # {} => Len(Excluding(r, gone)) < Len(r)
                        /\ Range(r) \cap gone = {} => Excluding(r, gone) = r
  <1> DEFINE T == {r \in Seq(S) : Good(r)}
  <1>1. <<>> \in T
    <2>1. <<>> \in Seq(S) /\ Range(<<>>) = {} /\ Len(<<>>) = 0
      BY DEF Range
    <2> QED BY <2>1, ExcludingEmpty
  <1>2. ASSUME NEW r \in Seq(S), r \in T, NEW e \in S PROVE Append(r, e) \in T
    <2> DEFINE x == Append(r, e)
    <2> DEFINE t == Excluding(r, gone)
    <2>1. Len(x) = Len(r) + 1 /\ Len(r) \in Nat
      OBVIOUS
    <2>2. x \in Seq(S) /\ Range(x) = Range(r) \cup {e}
      BY AppendFacts
    <2>3. Excluding(x, gone) = IF e \in gone THEN t ELSE Append(t, e)
      BY ExcludingAppend
    <2>4. t \in Seq(S) /\ Len(t) <= Len(r) /\ (Range(r) \cap gone # {} => Len(t) < Len(r))
          /\ (Range(r) \cap gone = {} => t = r)
      BY <1>2, ExcludingFacts
    <2>5. Len(Append(t, e)) = Len(t) + 1 /\ Len(t) \in Nat
      BY <2>4
    <2>6. Range(r) \cap gone = {} /\ e \notin gone => Excluding(x, gone) = x
      BY <2>3, <2>4
    <2> HIDE DEF x, t
    <2>7. Good(x)
      <3>1. CASE e \in gone
        BY <2>1, <2>2, <2>3, <2>4, <2>5, <3>1
      <3>2. CASE e \notin gone
        <4>1. Range(x) \cap gone = Range(r) \cap gone
          BY <2>2, <3>2
        <4>2. Excluding(x, gone) = Append(t, e)
          BY <2>3, <3>2
        <4> QED BY <2>1, <2>4, <2>5, <2>6, <3>2, <4>1, <4>2
      <3> QED BY <3>1, <3>2
    <2> HIDE DEF Good
    <2> QED BY <2>2, <2>7 DEF x
  <1> HIDE DEF T, Good
  <1>3. Seq(S) \subseteq T
    BY <1>1, <1>2, ListInduction
  <1> QED BY <1>3 DEF T, Good

\* Once those that aren't picked are excluded anyhow, picking first makes no difference.
LEMMA ExcludingPicked ==
    ASSUME NEW S, NEW q \in Seq(S), NEW places, NEW gone,
           \A i \in DOMAIN q : i \notin places => q[i] \in gone
    PROVE  Excluding(Picked(q, places), gone) = Excluding(q, gone)
  <1> DEFINE Covered(r) == \A i \in DOMAIN r : i \notin places => r[i] \in gone
  <1> DEFINE T == {r \in Seq(S) : Covered(r) => Excluding(Picked(r, places), gone) = Excluding(r, gone)}
  <1>1. <<>> \in T
    BY PickedEmpty, ExcludingEmpty
  <1>2. ASSUME NEW r \in Seq(S), r \in T, NEW e \in S PROVE Append(r, e) \in T
    <2> DEFINE x == Append(r, e)
    <2> DEFINE n == Len(r) + 1
    <2> DEFINE t == Picked(r, places)
    <2>a. x \in Seq(S)
      OBVIOUS
    <2> HIDE DEF x
    <2> SUFFICES ASSUME Covered(x) PROVE Excluding(Picked(x, places), gone) = Excluding(x, gone)
      BY <2>a DEF x
    <2> USE DEF x
    <2>1. /\ DOMAIN x = 1..n /\ DOMAIN r = 1..Len(r) /\ Len(r) \in Nat
          /\ x[n] = e /\ \A i \in 1..Len(r) : x[i] = r[i] /\ i \in 1..n
          /\ n \in 1..n
      OBVIOUS
    <2>2. Covered(r) /\ (n \notin places => e \in gone)
      BY <2>1
    <2>3. t \in Seq(S) /\ Excluding(t, gone) = Excluding(r, gone)
      BY <1>2, <2>2, PickedFacts
    <2>4. Picked(x, places) = IF n \in places THEN Append(t, e) ELSE t
      BY PickedAppend
    <2>5. Excluding(x, gone) = IF e \in gone THEN Excluding(r, gone) ELSE Append(Excluding(r, gone), e)
      BY ExcludingAppend
    <2>6. Excluding(Append(t, e), gone) = IF e \in gone THEN Excluding(t, gone) ELSE Append(Excluding(t, gone), e)
      BY <2>3, ExcludingAppend
    <2> HIDE DEF t, x, n, Covered
    <2>7. CASE n \in places
      <3>1. Picked(x, places) = Append(t, e)
        BY <2>4, <2>7
      <3> QED BY <2>3, <2>5, <2>6, <3>1
    <2>8. CASE n \notin places
      <3>1. Picked(x, places) = t /\ e \in gone
        BY <2>2, <2>4, <2>8
      <3> QED BY <2>3, <2>5, <3>1
    <2> QED BY <2>7, <2>8
  <1> HIDE DEF T
  <1>3. Seq(S) \subseteq T
    BY <1>1, <1>2, ListInduction
  <1> QED BY <1>3 DEF T

-----------------------------------------------------------------------------
(* Where a member comes to be. *)

\* How many of some places are not after one.
Rank(places, p) == Cardinality(places \cap (1..p))

LEMMA RankFacts ==
    ASSUME NEW places, NEW n \in Nat
    PROVE  /\ Rank(places, 0) = 0
           /\ Rank(places, n) \in Nat /\ IsFiniteSet(places \cap (1..n))
           /\ Rank(places, n + 1) = IF n + 1 \in places THEN Rank(places, n) + 1 ELSE Rank(places, n)
  <1>1. IsFiniteSet(1..n)
    BY FS_Interval
  <1>2. IsFiniteSet(places \cap (1..n)) /\ Rank(places, n) \in Nat
    BY <1>1, FS_Subset, FS_CardinalityType DEF Rank
  <1>3. Rank(places, 0) = 0
    BY FS_EmptySet DEF Rank
  <1>4. CASE n + 1 \in places
    <2>1. places \cap (1..(n + 1)) = (places \cap (1..n)) \cup {n + 1} /\ n + 1 \notin places \cap (1..n)
      BY <1>4
    <2> QED BY <1>2, <1>3, <1>4, <2>1, FS_AddElement DEF Rank
  <1>5. CASE n + 1 \notin places
    <2>1. places \cap (1..(n + 1)) = places \cap (1..n)
      BY <1>5
    <2> QED BY <1>2, <1>3, <1>5, <2>1 DEF Rank
  <1> QED BY <1>2, <1>3, <1>4, <1>5

\* A member comes to be at the rank of its place, and every member comes from one.
LEMMA PickedRank ==
    ASSUME NEW S, NEW q \in Seq(S), NEW places
    PROVE  /\ Len(Picked(q, places)) = Rank(places, Len(q))
           /\ \A p \in DOMAIN q \cap places :
                 /\ Rank(places, p) \in DOMAIN Picked(q, places)
                 /\ Picked(q, places)[Rank(places, p)] = q[p]
           /\ \A k \in DOMAIN Picked(q, places) : \E p \in DOMAIN q \cap places : Rank(places, p) = k
  <1> DEFINE At(r, t) == \A p \in DOMAIN r \cap places : Rank(places, p) \in DOMAIN t /\ t[Rank(places, p)] = r[p]
  <1> DEFINE From(r, t) == \A k \in DOMAIN t : \E p \in DOMAIN r \cap places : Rank(places, p) = k
  <1> DEFINE Good(r) == /\ Len(Picked(r, places)) = Rank(places, Len(r))
                        /\ At(r, Picked(r, places)) /\ From(r, Picked(r, places))
  <1> DEFINE T == {r \in Seq(S) : Good(r)}
  <1>1. <<>> \in T
    <2>1. <<>> \in Seq(S) /\ DOMAIN <<>> = {} /\ Len(<<>>) = 0
      OBVIOUS
    <2>2. 0 \in Nat
      OBVIOUS
    <2>3. Rank(places, 0) = 0
      BY <2>2, RankFacts
    <2> QED BY <2>1, <2>3, PickedEmpty
  <1>2. ASSUME NEW r \in Seq(S), r \in T, NEW e \in S PROVE Append(r, e) \in T
    <2> DEFINE x == Append(r, e)
    <2> DEFINE n == Len(r) + 1
    <2> DEFINE t == Picked(r, places)
    <2>1. /\ x \in Seq(S) /\ Len(x) = n /\ DOMAIN x = 1..n /\ DOMAIN r = 1..Len(r) /\ Len(r) \in Nat
          /\ x[n] = e /\ \A i \in 1..Len(r) : x[i] = r[i] /\ i \in 1..n
          /\ n \in 1..n /\ \A i \in 1..n : i \in 1..Len(r) \/ i = n
      OBVIOUS
    <2>2. t \in Seq(S) /\ Len(t) = Rank(places, Len(r)) /\ At(r, t) /\ From(r, t)
      BY <1>2, PickedFacts
    <2>3. Picked(x, places) = IF n \in places THEN Append(t, e) ELSE t
      BY PickedAppend
    <2>4. Rank(places, n) = IF n \in places THEN Len(t) + 1 ELSE Len(t)
      BY <2>1, <2>2, RankFacts
    <2> DEFINE u == Append(t, e)
    <2>5. /\ Len(t) \in Nat /\ Len(u) = Len(t) + 1 /\ DOMAIN t = 1..Len(t) /\ DOMAIN u = 1..(Len(t) + 1)
          /\ u[Len(t) + 1] = e /\ \A k \in 1..Len(t) : u[k] = t[k] /\ k \in DOMAIN u
          /\ \A k \in DOMAIN u : k \in DOMAIN t \/ k = Len(t) + 1
      BY <2>2
    <2> HIDE DEF t, u, x, n
    <2>6. CASE n \in places
      <3>1. Picked(x, places) = u /\ Rank(places, n) = Len(t) + 1
        BY <2>3, <2>4, <2>6 DEF u
      <3>2. At(x, u)
        <4> SUFFICES ASSUME NEW p \in DOMAIN x \cap places
                     PROVE  Rank(places, p) \in DOMAIN u /\ u[Rank(places, p)] = x[p]
          OBVIOUS
        <4>1. CASE p \in 1..Len(r)
          <5>1. Rank(places, p) \in 1..Len(t) /\ t[Rank(places, p)] = r[p]
            BY <2>1, <2>2, <2>5, <4>1
          <5> QED BY <2>1, <2>5, <4>1, <5>1
        <4>2. CASE p = n
          BY <2>1, <2>5, <3>1, <4>2
        <4> QED BY <2>1, <4>1, <4>2
      <3>3. From(x, u)
        <4> SUFFICES ASSUME NEW k \in DOMAIN u PROVE \E p \in DOMAIN x \cap places : Rank(places, p) = k
          OBVIOUS
        <4>1. CASE k \in DOMAIN t
          BY <2>1, <2>2, <4>1
        <4>2. CASE k = Len(t) + 1
          BY <2>1, <2>6, <3>1, <4>2
        <4> QED BY <2>5, <4>1, <4>2
      <3> QED BY <2>1, <2>5, <3>1, <3>2, <3>3 DEF x
    <2>7. CASE n \notin places
      <3>1. Picked(x, places) = t /\ Rank(places, n) = Len(t)
        BY <2>3, <2>4, <2>7
      <3>2. DOMAIN x \cap places = DOMAIN r \cap places
        BY <2>1, <2>7
      <3>3. At(x, t) /\ From(x, t)
        BY <2>1, <2>2, <3>2
      <3> QED BY <2>1, <3>1, <3>3 DEF x
    <2> QED BY <2>6, <2>7
  <1> HIDE DEF T
  <1>3. Seq(S) \subseteq T
    BY <1>1, <1>2, ListInduction
  <1> QED BY <1>3 DEF T

=============================================================================
