----------------------- MODULE WorkspaceStore_proofs ------------------------
(***************************************************************************)
(* For every set of views, projects, folders, panels and sessions: every   *)
(* project is listed once, what a project copies of its folders is         *)
(* current, every layout shows its folder's panels, and the validation of  *)
(* a draft refuses no well-formed command but the five OnlyKnownDrops      *)
(* names.                                                                  *)
(*                                                                         *)
(* The reducer keeps no such invariant by itself: it rewrites the places   *)
(* of folders and panels, then the copies of the projects it knows it has  *)
(* disturbed.  The inductive invariant Sound says both halves: Placed, the *)
(* places, references and sessions, which is what a draft satisfies before *)
(* syncProject(); and Derived, for every project.  A command is proved     *)
(* Sound by describing its draft before the copies, showing that Placed    *)
(* holds of it and that the projects it does not sync lose nothing they    *)
(* copy (OthersStay), and citing SyncDerives for the one it does.          *)
(*                                                                         *)
(* A draft that is Sound is Valid (SoundValid), so its command cannot be   *)
(* dropped but for a field of its own.  For the five commands that can be, *)
(* the reducer's own checks are not enough: there it is the validity of    *)
(* the draft that gives the missing hypothesis, that no two folders of a   *)
(* project share a worktree, that a panel's session is of its project, or  *)
(* that no other panel shows the session that goes with a panel.           *)
(***************************************************************************)
EXTENDS WorkspaceStore, SequenceTheorems, FiniteSetTheorems, TLAPS

-----------------------------------------------------------------------------
(* Lists.                                                                  *)

\* A set of numbers that is not empty has a least one.
LEMMA LeastExists ==
    ASSUME NEW S \in SUBSET Nat, S # {}
    PROVE  \E i \in S : \A j \in S : i <= j
<1> DEFINE Below == {0..i : i \in S}
<1>1. Below \subseteq FiniteSubsetsOf(Nat)
  <2>1. \A i \in S : 0..i \in SUBSET Nat
    OBVIOUS
  <2>2. \A i \in S : IsFiniteSet(0..i)
    BY FS_Interval
  <2> QED  BY <2>1, <2>2 DEF FiniteSubsetsOf
<1>2. PICK x \in Below : \A y \in Below : <<y, x>> \notin StrictSubsetOrdering(Nat)
  <2>1. Below # {}
    OBVIOUS
  <2>2. IsWellFoundedOn(StrictSubsetOrdering(Nat), FiniteSubsetsOf(Nat))
    BY FS_StrictSubsetOrderingWellFounded
  <2> HIDE DEF Below
  <2> QED  BY <1>1, <2>1, <2>2, WFMin
<1>3. PICK i \in S : x = 0..i
  OBVIOUS
<1>4. ASSUME NEW j \in S, j < i  PROVE FALSE
  <2>1. 0..j \in Below
    OBVIOUS
  <2>2. 0..j \subseteq 0..i /\ 0..j # 0..i
    <3>1. i \in 0..i /\ i \notin 0..j
      BY <1>4
    <3> QED  BY <1>4, <3>1
  <2>3. <<0..j, x>> \in StrictSubsetOrdering(Nat)
    BY <1>3, <2>2 DEF StrictSubsetOrdering
  <2> QED  BY <1>2, <2>1, <2>3
<1> QED  BY <1>4

\* f keeps the elements of S among the first of s, up to the n-th.
Keeps(f, s, S, T, n) ==
    /\ f \in [0..n -> Seq(T)]
    /\ f[0] = <<>>
    /\ \A i \in 1..n : f[i] = IF s[i] \in S THEN Append(f[i - 1], s[i]) ELSE f[i - 1]

\* The steps of a filter are determined by the list and the set.
LEMMA KeepsAgree ==
    ASSUME NEW T, NEW s \in Seq(T), NEW S, NEW n \in 0..Len(s),
           NEW f, NEW g, Keeps(f, s, S, T, n), Keeps(g, s, S, T, n)
    PROVE  f = g
<1> DEFINE Differ == {i \in 0..n : f[i] # g[i]}
<1>1. ASSUME Differ # {}  PROVE FALSE
  <2>1. PICK i \in Differ : \A j \in Differ : i <= j
    <3>1. Differ \in SUBSET Nat OBVIOUS
    <3> HIDE DEF Differ
    <3> QED BY <1>1, <3>1, LeastExists
  <2>2. i # 0 BY <2>1 DEF Keeps
  <2>3. i \in 1..n /\ i - 1 \in 0..n /\ ~(i <= i - 1) BY <2>1, <2>2
  <2>4. i - 1 \notin Differ BY <2>1, <2>3
  <2>5. f[i - 1] = g[i - 1] BY <2>3, <2>4
  <2> QED BY <2>1, <2>3, <2>5 DEF Keeps
<1>2. /\ f = [i \in 0..n |-> f[i]] /\ g = [i \in 0..n |-> g[i]]
      /\ \A i \in 0..n : f[i] = g[i]
  BY <1>1 DEF Keeps
<1> QED BY <1>2

\* A filter has steps for every prefix of its list.
LEMMA KeepsExists ==
    ASSUME NEW T, NEW s \in Seq(T), NEW S, NEW n \in 0..Len(s)
    PROVE  \E f : Keeps(f, s, S, T, n)
<1> DEFINE Bad == {i \in 0..Len(s) : \A f : ~Keeps(f, s, S, T, i)}
<1>1. ASSUME Bad # {}  PROVE FALSE
  <2>1. PICK i \in Bad : \A j \in Bad : i <= j
    <3>1. Bad \in SUBSET Nat OBVIOUS
    <3> HIDE DEF Bad
    <3> QED BY <1>1, <3>1, LeastExists
  <2>2. Keeps([j \in 0..0 |-> <<>>], s, S, T, 0)
    BY DEF Keeps
  <2>3. i # 0
    BY <2>1, <2>2
  <2>4. i \in 1..Len(s) /\ i - 1 \in 0..Len(s) /\ i - 1 \notin Bad
    BY <2>1, <2>3
  <2>5. PICK f : Keeps(f, s, S, T, i - 1)
    BY <2>4
  <2> DEFINE last == IF s[i] \in S THEN Append(f[i - 1], s[i]) ELSE f[i - 1]
             g == [j \in 0..i |-> IF j = i THEN last ELSE f[j]]
  <2>6. s[i] \in T BY <2>4
  <2>7. last \in Seq(T)
    <3>1. f[i - 1] \in Seq(T) BY <2>4, <2>5 DEF Keeps
    <3> QED BY <2>6, <3>1
  <2>8. Keeps(g, s, S, T, i)
    <3> HIDE DEF last
    <3>1. g \in [0..i -> Seq(T)] /\ g[0] = <<>>
      BY <2>3, <2>4, <2>5, <2>7 DEF Keeps
    <3>2. ASSUME NEW j \in 1..i
          PROVE  g[j] = IF s[j] \in S THEN Append(g[j - 1], s[j]) ELSE g[j - 1]
      <4>1. CASE j = i
        <5>1. g[j] = last /\ g[j - 1] = f[i - 1] BY <2>4, <4>1
        <5> QED BY <4>1, <5>1 DEF last
      <4>2. CASE j # i
        <5>1. j \in 1..(i - 1) /\ g[j] = f[j] /\ g[j - 1] = f[j - 1] BY <2>4, <4>2
        <5> QED BY <2>5, <5>1 DEF Keeps
      <4> QED BY <4>1, <4>2
    <3> QED BY <3>1, <3>2 DEF Keeps
  <2> QED BY <2>1, <2>8
<1> QED BY <1>1

\* filter() returns what its last step has kept.
LEMMA FilteredIs ==
    ASSUME NEW T, NEW s \in Seq(T), NEW S, NEW f, Keeps(f, s, S, T, Len(s))
    PROVE  Filtered(s, S) = f[Len(s)]
<1> DEFINE n == Len(s)
           Eq(g) == g = [i \in 0..n |->
                           IF i = 0 THEN <<>>
                           ELSE IF s[i] \in S THEN Append(g[i - 1], s[i]) ELSE g[i - 1]]
<1>1. ASSUME NEW g, Keeps(g, s, S, T, n) PROVE Eq(g)
  <2>1. /\ g = [i \in 0..n |-> g[i]] /\ g[0] = <<>>
        /\ \A i \in 1..n : g[i] = IF s[i] \in S THEN Append(g[i - 1], s[i]) ELSE g[i - 1]
    BY <1>1 DEF Keeps
  <2>2. \A i \in 0..n : i = 0 \/ i \in 1..n OBVIOUS
  <2>3. \A i \in 0..n : g[i] = IF i = 0 THEN <<>>
                              ELSE IF s[i] \in S THEN Append(g[i - 1], s[i]) ELSE g[i - 1]
    BY <2>1, <2>2
  <2> QED BY <2>1, <2>3
<1>2. n \in Nat OBVIOUS
<1>3. Eq(CHOOSE g : Eq(g))
  BY <1>1
<1>4. ASSUME NEW g, Eq(g) PROVE Keeps(g, s, S, T, n)
  <2> DEFINE Bad == {i \in 0..n : g[i] \notin Seq(T)}
  <2>1. /\ g = [i \in 0..n |-> g[i]]
        /\ g[0] = <<>>
        /\ \A i \in 1..n : g[i] = IF s[i] \in S THEN Append(g[i - 1], s[i]) ELSE g[i - 1]
    <3>1. /\ DOMAIN g = 0..n
          /\ \A i \in 0..n : g[i] = IF i = 0 THEN <<>>
                                  ELSE IF s[i] \in S THEN Append(g[i - 1], s[i])
                                  ELSE g[i - 1]
      BY <1>4
    <3>2. \A i \in 1..n : i \in 0..n /\ i # 0 BY <1>2
    <3>3. g = [i \in 0..n |-> g[i]] BY <1>4
    <3> QED BY <1>2, <3>1, <3>2, <3>3
  <2>2. ASSUME Bad # {} PROVE FALSE
    <3>1. PICK i \in Bad : \A j \in Bad : i <= j
      <4>1. Bad \in SUBSET Nat OBVIOUS
      <4> HIDE DEF Bad
      <4> QED BY <2>2, <4>1, LeastExists
    <3>2. i \in 1..n /\ i - 1 \in 0..n /\ i - 1 \notin Bad
      <4>1. <<>> \in Seq(T) OBVIOUS
      <4>2. i # 0 BY <2>1, <3>1, <4>1
      <4>3. i \in 1..n /\ i - 1 \in 0..n BY <1>2, <3>1, <4>2
      <4>4. ~(i <= i - 1) BY <4>3
      <4> HIDE DEF Bad
      <4> QED BY <3>1, <4>3, <4>4
    <3>3. g[i - 1] \in Seq(T) /\ s[i] \in T BY <3>2
    <3>4. Append(g[i - 1], s[i]) \in Seq(T) BY <3>3
    <3> QED BY <2>1, <3>1, <3>2, <3>3, <3>4
  <2> QED BY <2>1, <2>2 DEF Keeps
<1>5. Filtered(s, S) = (CHOOSE g : Eq(g))[n]
  BY DEF Filtered
<1> QED
  <2> HIDE DEF Eq
  <2> QED BY <1>3, <1>4, <1>5, KeepsAgree, n \in 0..Len(s)

\* Nothing is kept of an empty list.
LEMMA FilteredEmpty ==
    ASSUME NEW S
    PROVE  Filtered(<<>>, S) = <<>>
<1> DEFINE s == <<>>  f == [i \in 0..0 |-> <<>>]
<1>1. s \in Seq({}) /\ Len(s) = 0 OBVIOUS
<1>2. Keeps(f, s, S, {}, 0) BY DEF Keeps
<1>3. f[0] = <<>> OBVIOUS
<1> HIDE DEF s, f
<1>4. Filtered(s, S) = f[Len(s)] BY <1>1, <1>2, FilteredIs
<1> QED BY <1>1, <1>3, <1>4 DEF s

\* filter() goes on where it was before the last element.
LEMMA FilteredAppend ==
    ASSUME NEW T, NEW s \in Seq(T), NEW x \in T, NEW S
    PROVE  /\ Filtered(s, S) \in Seq(T)
           /\ Filtered(Append(s, x), S) =
                 IF x \in S THEN Append(Filtered(s, S), x) ELSE Filtered(s, S)
<1> DEFINE n == Len(s)  t == Append(s, x)
<1>1. n \in Nat /\ n \in 0..n /\ t \in Seq(T) /\ Len(t) = n + 1 /\ t[n + 1] = x
      /\ \A i \in 1..n : t[i] = s[i]
  OBVIOUS
<1>2. PICK f : Keeps(f, s, S, T, n) BY <1>1, KeepsExists
<1>3. Filtered(s, S) = f[n] /\ f[n] \in Seq(T) BY <1>1, <1>2, FilteredIs DEF Keeps
<1> DEFINE last == IF x \in S THEN Append(f[n], x) ELSE f[n]
           g == [i \in 0..(n + 1) |-> IF i = n + 1 THEN last ELSE f[i]]
<1>4. last \in Seq(T) BY <1>3
<1> HIDE DEF n, t, last
<1>5. Keeps(g, t, S, T, n + 1) /\ g[n + 1] = last
  <2>1. g \in [0..(n + 1) -> Seq(T)] /\ g[0] = <<>> /\ g[n + 1] = last
    BY <1>1, <1>2, <1>4 DEF Keeps
  <2>2. ASSUME NEW j \in 1..(n + 1)
        PROVE  g[j] = IF t[j] \in S THEN Append(g[j - 1], t[j]) ELSE g[j - 1]
    <3>1. CASE j = n + 1
      <4>1. g[j] = last /\ g[j - 1] = f[n] /\ t[j] = x BY <1>1, <3>1
      <4> QED BY <4>1 DEF last
    <3>2. CASE j # n + 1
      <4>1. j \in 1..n /\ g[j] = f[j] /\ g[j - 1] = f[j - 1] /\ t[j] = s[j]
        BY <1>1, <3>2
      <4> QED BY <1>2, <4>1 DEF Keeps
    <3> QED BY <3>1, <3>2
  <2> QED BY <2>1, <2>2 DEF Keeps
<1> HIDE DEF g
<1>6. Filtered(t, S) = g[n + 1] BY <1>1, <1>5, FilteredIs
<1> QED BY <1>3, <1>5, <1>6 DEF t, last

\* The last element is kept after the others.
LEMMA FilteredIn ==
    ASSUME NEW T, NEW s \in Seq(T), NEW x \in T, NEW S, x \in S
    PROVE  Filtered(Append(s, x), S) = Append(Filtered(s, S), x)
BY FilteredAppend

\* The last element is left out.
LEMMA FilteredOut ==
    ASSUME NEW T, NEW s \in Seq(T), NEW x \in T, NEW S, x \notin S
    PROVE  Filtered(Append(s, x), S) = Filtered(s, S)
BY FilteredAppend

\* What holds of the empty list and of every list with one more element
\* holds of every list.
LEMMA ListInduction ==
    ASSUME NEW T, NEW S, <<>> \in S,
           \A s \in Seq(T), x \in T : s \in S => Append(s, x) \in S
    PROVE  Seq(T) \subseteq S
<1> SUFFICES ASSUME NEW s \in Seq(T) PROVE s \in S OBVIOUS
<1> DEFINE P(n) == SubSeq(s, 1, n)
           Bad == {n \in 0..Len(s) : P(n) \notin S}
<1>1. Len(s) \in Nat /\ P(0) = <<>> /\ P(Len(s)) = s OBVIOUS
<1>2. \A n \in 0..Len(s) : P(n) \in Seq(T) OBVIOUS
<1>3. ASSUME NEW n \in 1..Len(s)
      PROVE  P(n) = Append(P(n - 1), s[n]) /\ s[n] \in T
  <2> DEFINE a == P(n)  b == P(n - 1)
  <2>1. n \in Nat /\ n - 1 \in 0..Len(s) /\ n \in 0..Len(s) /\ s[n] \in T OBVIOUS
  <2>2. a \in Seq(T) /\ Len(a) = n /\ \A i \in 1..n : a[i] = s[i] BY <2>1
  <2>3. b \in Seq(T) /\ Len(b) = n - 1 /\ \A i \in 1..(n - 1) : b[i] = s[i] BY <2>1
  <2> HIDE DEF a, b
  <2>4. Append(b, s[n]) \in Seq(T) /\ Len(Append(b, s[n])) = n
        /\ \A i \in 1..n : Append(b, s[n])[i] = s[i]
    BY <2>1, <2>3
  <2>5. a = Append(b, s[n]) BY <2>1, <2>2, <2>4, SeqEqual
  <2> QED BY <2>1, <2>5 DEF a, b
<1> HIDE DEF P
<1>4. ASSUME Bad # {} PROVE FALSE
  <2>1. PICK n \in Bad : \A j \in Bad : n <= j
    <3>1. Bad \in SUBSET Nat OBVIOUS
    <3> HIDE DEF Bad
    <3> QED BY <1>4, <3>1, LeastExists
  <2>2. n # 0 BY <1>1, <2>1
  <2>3. n \in 1..Len(s) /\ n - 1 \in 0..Len(s) /\ ~(n <= n - 1) BY <1>1, <2>1, <2>2
  <2>4. P(n - 1) \in S BY <2>1, <2>3
  <2> QED BY <1>2, <1>3, <2>1, <2>3, <2>4
<1> QED BY <1>1, <1>4

\* The empty list, and the first element of any other.
LEMMA EmptyIs ==
    ASSUME NEW T
    PROVE  /\ <<>> \in Seq(T) /\ Len(<<>>) = 0 /\ ToSet(<<>>) = {} /\ IsInjective(<<>>)
           /\ \A s \in Seq(T) : s # <<>> => 1 \in DOMAIN s /\ s[1] \in ToSet(s)
           /\ \A s \in Seq(T) : /\ ToSet(s) = {} <=> s = <<>>
                                /\ Len(s) = 0 <=> s = <<>>
                                /\ ToSet(s) \subseteq T
BY DEF ToSet, IsInjective

\* push() adds one element, and no duplicate of another.
LEMMA AppendKeeps ==
    ASSUME NEW T, NEW s \in Seq(T), NEW x \in T
    PROVE  /\ Append(s, x) \in Seq(T)
           /\ ToSet(Append(s, x)) = ToSet(s) \cup {x}
           /\ IsInjective(Append(s, x)) <=> IsInjective(s) /\ x \notin ToSet(s)
           /\ Append(s, x) # <<>>
<1> DEFINE t == Append(s, x)
<1>1. t \in Seq(T) /\ Len(t) = Len(s) + 1 /\ t[Len(s) + 1] = x /\ Len(s) \in Nat
      /\ \A i \in 1..Len(s) : t[i] = s[i]
  OBVIOUS
<1>2. DOMAIN s = 1..Len(s) /\ DOMAIN t = 1..(Len(s) + 1) BY <1>1
<1> HIDE DEF t
<1>3. \A i \in DOMAIN t : i \in DOMAIN s \/ i = Len(s) + 1 BY <1>1, <1>2
<1>4. \A i \in DOMAIN s : i \in DOMAIN t /\ t[i] = s[i] /\ i # Len(s) + 1 BY <1>1, <1>2
<1>5. Len(s) + 1 \in DOMAIN t BY <1>1, <1>2
<1>6. ToSet(t) = ToSet(s) \cup {x} BY <1>1, <1>3, <1>4, <1>5 DEF ToSet
<1>7. IsInjective(s) /\ x \notin ToSet(s) => IsInjective(t)
  BY <1>1, <1>3, <1>4, <1>5 DEF IsInjective, ToSet
<1>8. IsInjective(t) => IsInjective(s) /\ x \notin ToSet(s)
  BY <1>1, <1>3, <1>4, <1>5 DEF IsInjective, ToSet
<1>9. t # <<>> BY <1>5
<1> QED BY <1>1, <1>6, <1>7, <1>8, <1>9 DEF t

\* What filter() returns: what it keeps, and nothing twice of a list without repetition.
LEMMA FilteredKeeps ==
    ASSUME NEW T, NEW s \in Seq(T), NEW S
    PROVE  /\ Filtered(s, S) \in Seq(T)
           /\ ToSet(Filtered(s, S)) = ToSet(s) \cap S
           /\ IsInjective(s) => IsInjective(Filtered(s, S))
<1> DEFINE Good == {u \in Seq(T) : /\ Filtered(u, S) \in Seq(T)
                                   /\ ToSet(Filtered(u, S)) = ToSet(u) \cap S
                                   /\ IsInjective(u) => IsInjective(Filtered(u, S))}
<1>1. <<>> \in Good
  <2>1. Filtered(<<>>, S) = <<>> BY FilteredEmpty
  <2>2. <<>> \in Seq(T) /\ ToSet(<<>>) = {} /\ IsInjective(<<>>) BY EmptyIs
  <2> QED BY <2>1, <2>2, Zenon
<1>2. ASSUME NEW u \in Seq(T), NEW x \in T, u \in Good PROVE Append(u, x) \in Good
  <2>1. Filtered(Append(u, x), S) = IF x \in S THEN Append(Filtered(u, S), x)
                                    ELSE Filtered(u, S)
    BY FilteredAppend
  <2>2. /\ Append(u, x) \in Seq(T) /\ ToSet(Append(u, x)) = ToSet(u) \cup {x}
        /\ IsInjective(Append(u, x)) <=> IsInjective(u) /\ x \notin ToSet(u)
    BY AppendKeeps
  <2> DEFINE b == Filtered(u, S)
  <2>3. b \in Seq(T) /\ ToSet(b) = ToSet(u) \cap S /\ (IsInjective(u) => IsInjective(b))
    BY <1>2
  <2> HIDE DEF b
  <2>4. /\ Append(b, x) \in Seq(T) /\ ToSet(Append(b, x)) = ToSet(b) \cup {x}
        /\ IsInjective(Append(b, x)) <=> IsInjective(b) /\ x \notin ToSet(b)
    BY <2>3, AppendKeeps
  <2>5. Filtered(Append(u, x), S) = IF x \in S THEN Append(b, x) ELSE b BY <2>1 DEF b
  <2> QED BY <2>2, <2>3, <2>4, <2>5
<1> HIDE DEF Good
<1>3. s \in Good BY <1>1, <1>2, ListInduction
<1> QED BY <1>3 DEF Good

\* Only what the list holds of S counts; a filter that keeps everything keeps the list.
LEMMA FilteredSame ==
    ASSUME NEW T, NEW s \in Seq(T), NEW S, NEW R, ToSet(s) \cap S = ToSet(s) \cap R
    PROVE  Filtered(s, S) = Filtered(s, R)
<1> DEFINE Good == {u \in Seq(T) : ToSet(u) \cap S = ToSet(u) \cap R
                                     => Filtered(u, S) = Filtered(u, R)}
<1>1. <<>> \in Good BY FilteredEmpty, EmptyIs
<1>2. ASSUME NEW u \in Seq(T), NEW x \in T, u \in Good PROVE Append(u, x) \in Good
  <2>1. Filtered(Append(u, x), S) = IF x \in S THEN Append(Filtered(u, S), x)
                                    ELSE Filtered(u, S)
    BY FilteredAppend
  <2>1a. Filtered(Append(u, x), R) = IF x \in R THEN Append(Filtered(u, R), x)
                                     ELSE Filtered(u, R)
    BY FilteredAppend
  <2>2. Append(u, x) \in Seq(T) /\ ToSet(Append(u, x)) = ToSet(u) \cup {x}
    BY AppendKeeps
  <2>3. ASSUME ToSet(Append(u, x)) \cap S = ToSet(Append(u, x)) \cap R
        PROVE  Filtered(Append(u, x), S) = Filtered(Append(u, x), R)
    <3>1. ToSet(u) \cap S = ToSet(u) \cap R /\ (x \in S <=> x \in R) BY <2>2, <2>3
    <3>2. Filtered(u, S) = Filtered(u, R) BY <1>2, <3>1
    <3> QED BY <2>1, <2>1a, <3>1, <3>2
  <2> QED BY <2>2, <2>3
<1> HIDE DEF Good
<1>3. s \in Good BY <1>1, <1>2, ListInduction
<1> QED BY <1>3 DEF Good

\* A filter that keeps every element returns the list.
LEMMA FilteredAll ==
    ASSUME NEW T, NEW s \in Seq(T), NEW S, ToSet(s) \subseteq S
    PROVE  Filtered(s, S) = s
<1> DEFINE Good == {u \in Seq(T) : ToSet(u) \subseteq S => Filtered(u, S) = u}
<1>1. <<>> \in Good BY FilteredEmpty, EmptyIs
<1>2. ASSUME NEW u \in Seq(T), NEW x \in T, u \in Good PROVE Append(u, x) \in Good
  <2>1. Filtered(Append(u, x), S) = IF x \in S THEN Append(Filtered(u, S), x)
                                    ELSE Filtered(u, S)
    BY FilteredAppend
  <2>2. Append(u, x) \in Seq(T) /\ ToSet(Append(u, x)) = ToSet(u) \cup {x}
    BY AppendKeeps
  <2>3. ASSUME ToSet(Append(u, x)) \subseteq S
        PROVE  Filtered(Append(u, x), S) = Append(u, x)
    <3>1. ToSet(u) \subseteq S /\ x \in S BY <2>2, <2>3
    <3>2. Filtered(u, S) = u BY <1>2, <3>1
    <3> QED BY <2>1, <3>1, <3>2
  <2> QED BY <2>2, <2>3
<1> HIDE DEF Good
<1>3. s \in Good BY <1>1, <1>2, ListInduction
<1> QED BY <1>3 DEF Good

\* Two filters in a row are the filter of both.
LEMMA FilteredTwice ==
    ASSUME NEW T, NEW s \in Seq(T), NEW S, NEW R, NEW Q, Q = S \cap R
    PROVE  Filtered(Filtered(s, S), R) = Filtered(s, Q)
<1> DEFINE Good == {u \in Seq(T) : Filtered(Filtered(u, S), R) = Filtered(u, Q)}
<1>1. <<>> \in Good
  <2>1. <<>> \in Seq(T) BY EmptyIs
  <2> QED BY FilteredEmpty, <2>1
<1>2. ASSUME NEW u \in Seq(T), NEW x \in T, u \in Good PROVE Append(u, x) \in Good
  <2> DEFINE b == Filtered(u, S)  c == Filtered(u, Q)
  <2>1. b \in Seq(T)
    BY FilteredAppend
  <2>2. Filtered(b, R) = c BY <1>2
  <2>3. /\ x \in S => Filtered(Append(u, x), S) = Append(b, x)
        /\ x \notin S => Filtered(Append(u, x), S) = b
    BY FilteredIn, FilteredOut
  <2>4. /\ x \in Q => Filtered(Append(u, x), Q) = Append(c, x)
        /\ x \notin Q => Filtered(Append(u, x), Q) = c
    <3>1. CASE x \in Q BY <3>1, FilteredIn
    <3>2. CASE x \notin Q BY <3>2, FilteredOut
    <3> QED BY <3>1, <3>2
  <2> HIDE DEF b, c
  <2>5. /\ x \in R => Filtered(Append(b, x), R) = Append(Filtered(b, R), x)
        /\ x \notin R => Filtered(Append(b, x), R) = Filtered(b, R)
    <3>1. CASE x \in R BY <2>1, <3>1, FilteredIn
    <3>2. CASE x \notin R BY <2>1, <3>2, FilteredOut
    <3> QED BY <3>1, <3>2
  <2>6. Filtered(Filtered(Append(u, x), S), R) = Filtered(Append(u, x), Q)
    <3>1. x \in Q <=> x \in S /\ x \in R OBVIOUS
    <3>2. CASE x \in S /\ x \in R BY <2>2, <2>3, <2>4, <2>5, <3>1, <3>2, Zenon
    <3>3. CASE x \in S /\ x \notin R BY <2>2, <2>3, <2>4, <2>5, <3>1, <3>3, Zenon
    <3>4. CASE x \notin S BY <2>2, <2>3, <2>4, <3>1, <3>4, Zenon
    <3> QED BY <3>2, <3>3, <3>4
  <2>7. Append(u, x) \in Seq(T) BY AppendKeeps
  <2> QED BY <2>6, <2>7
<1> HIDE DEF Good
<1>3. s \in Good BY <1>1, <1>2, ListInduction
<1> QED BY <1>3 DEF Good

\* Removing an id keeps every other one, once.
LEMMA RemovingKeeps ==
    ASSUME NEW T, NEW s \in Seq(T), NEW x
    PROVE  /\ Removing(s, x) \in Seq(T)
           /\ ToSet(Removing(s, x)) = ToSet(s) \ {x}
           /\ IsInjective(s) => IsInjective(Removing(s, x))
           /\ x \notin ToSet(s) => Removing(s, x) = s
BY FilteredKeeps, FilteredAll DEF Removing

\* splice() adds one element wherever it puts it.
LEMMA SplicedKeeps ==
    ASSUME NEW T, NEW s \in Seq(T), NEW x \in T, NEW i \in 0..Len(s)
    PROVE  /\ Spliced(s, i, x) \in Seq(T)
           /\ ToSet(Spliced(s, i, x)) = ToSet(s) \cup {x}
           /\ IsInjective(s) /\ x \notin ToSet(s) => IsInjective(Spliced(s, i, x))
<1> DEFINE n == Len(s)  a == SubSeq(s, 1, i)  b == SubSeq(s, i + 1, n)
           c == a \o <<x>>  t == c \o b
<1>1. n \in Nat /\ i \in Nat /\ i <= n /\ (i + 1) - 1 = i OBVIOUS
<1>2. Spliced(s, i, x) = t BY <1>1 DEF Spliced, InsertAt
<1>3. a \in Seq(T) /\ Len(a) = i /\ \A j \in 1..i : a[j] = s[j] OBVIOUS
<1>4. b \in Seq(T) /\ Len(b) = n - i /\ \A j \in 1..(n - i) : b[j] = s[j + i] OBVIOUS
<1> HIDE DEF a, b, n
<1>5. c \in Seq(T) /\ Len(c) = i + 1 /\ c[i + 1] = x /\ \A j \in 1..i : c[j] = s[j]
  BY <1>1, <1>3
<1> HIDE DEF c
<1>6. t \in Seq(T) /\ Len(t) = n + 1
  <2>1. t \in Seq(T) BY <1>4, <1>5, ConcatProperties
  <2>2. Len(t) = Len(c) + Len(b) BY <1>4, <1>5, ConcatProperties
  <2> QED BY <1>1, <1>4, <1>5, <2>1, <2>2
<1>7. \A j \in 1..(i + 1) : t[j] = c[j]
  BY <1>1, <1>4, <1>5
<1>7a. \A j \in (i + 2)..(n + 1) : t[j] = b[j - (i + 1)]
  BY <1>1, <1>4, <1>5
<1> HIDE DEF t
<1>7b. \A j \in (i + 2)..(n + 1) : t[j] = s[j - 1]
  <2> TAKE j \in (i + 2)..(n + 1)
  <2>1. j - (i + 1) \in 1..(n - i) /\ (j - (i + 1)) + i = j - 1 BY <1>1
  <2> QED BY <1>4, <1>7a, <2>1
<1>8. /\ t[i + 1] = x /\ \A j \in 1..i : t[j] = s[j]
  <2>1. i + 1 \in 1..(i + 1) /\ \A j \in 1..i : j \in 1..(i + 1) BY <1>1
  <2> QED BY <1>5, <1>7, <2>1
<1>9. DOMAIN s = 1..n /\ DOMAIN t = 1..(n + 1) BY <1>6 DEF n
<1> DEFINE from(j) == IF j <= i THEN j ELSE j - 1
           to(j) == IF j <= i THEN j ELSE j + 1
<1>10. \A j \in DOMAIN t : j # i + 1 => from(j) \in DOMAIN s /\ t[j] = s[from(j)]
  <2> TAKE j \in DOMAIN t
  <2>1. CASE j <= i BY <1>1, <1>8, <1>9, <2>1
  <2>2. CASE j > i + 1
    <3>1. j \in (i + 2)..(n + 1) /\ ~(j <= i) /\ j - 1 \in 1..n BY <1>1, <1>9, <2>2
    <3> QED BY <1>7b, <1>9, <3>1
  <2> QED BY <1>1, <1>9, <2>1, <2>2
<1>11. \A j \in DOMAIN s : to(j) \in DOMAIN t /\ t[to(j)] = s[j]
  <2> TAKE j \in DOMAIN s
  <2>1. CASE j <= i
    <3>1. j \in 1..i /\ j \in 1..(n + 1) BY <1>1, <1>9, <2>1
    <3> QED BY <1>8, <1>9, <2>1, <3>1
  <2>2. CASE ~(j <= i)
    <3>1. j + 1 \in (i + 2)..(n + 1) /\ (j + 1) - 1 = j /\ j + 1 \in 1..(n + 1)
      BY <1>1, <1>9, <2>2
    <3>2. t[j + 1] = s[j] BY <1>7b, <3>1
    <3> QED BY <1>9, <2>2, <3>1, <3>2
  <2> QED BY <2>1, <2>2
<1>12. \A j, k \in DOMAIN t : j # i + 1 /\ k # i + 1 /\ from(j) = from(k) => j = k
  BY <1>1, <1>9
<1>13. i + 1 \in DOMAIN t BY <1>1, <1>9
<1> HIDE DEF from, to
<1>14. ToSet(t) = ToSet(s) \cup {x} BY <1>8, <1>10, <1>11, <1>13 DEF ToSet
<1>15. ASSUME IsInjective(s), x \notin ToSet(s) PROVE IsInjective(t)
  <2>1. \A j \in DOMAIN t : j # i + 1 => t[j] \in ToSet(s) BY <1>10 DEF ToSet
  <2> QED BY <1>8, <1>10, <1>12, <1>15, <2>1 DEF IsInjective
<1> QED BY <1>2, <1>6, <1>14, <1>15

-----------------------------------------------------------------------------
(* Flattening a list of lists. *)

\* f[i] is the concatenation of the first i lists of ss, up to the n-th.
Joins(f, ss, T, n) ==
    /\ f \in [1..n -> Seq(T)]
    /\ 1 \in 1..n => f[1] = ss[1]
    /\ \A i \in 2..n : f[i] = f[i - 1] \o ss[i]

\* The steps of flatMap() are determined by its lists.
LEMMA JoinsAgree ==
    ASSUME NEW T, NEW ss \in Seq(Seq(T)), NEW n \in 0..Len(ss),
           NEW f, NEW g, Joins(f, ss, T, n), Joins(g, ss, T, n)
    PROVE  f = g
<1> DEFINE Differ == {i \in 1..n : f[i] # g[i]}
<1>1. ASSUME Differ # {}  PROVE FALSE
  <2>1. PICK i \in Differ : \A j \in Differ : i <= j
    <3>1. Differ \in SUBSET Nat OBVIOUS
    <3> HIDE DEF Differ
    <3> QED BY <1>1, <3>1, LeastExists
  <2>2. i # 1 BY <2>1 DEF Joins
  <2>3. i \in 2..n /\ i - 1 \in 1..n /\ ~(i <= i - 1) BY <2>1, <2>2
  <2>4. i - 1 \notin Differ BY <2>1, <2>3
  <2>5. f[i - 1] = g[i - 1] BY <2>3, <2>4
  <2>6. f[i] = f[i - 1] \o ss[i] /\ g[i] = g[i - 1] \o ss[i] BY <2>3 DEF Joins
  <2> QED BY <2>1, <2>5, <2>6
<1>2. /\ f = [i \in 1..n |-> f[i]] /\ g = [i \in 1..n |-> g[i]]
      /\ \A i \in 1..n : f[i] = g[i]
  BY <1>1 DEF Joins
<1> QED BY <1>2

\* The steps for one list more.
LEMMA JoinsNext ==
    ASSUME NEW T, NEW ss \in Seq(Seq(T)), NEW s \in Seq(T),
           NEW f, Joins(f, ss, T, Len(ss))
    PROVE  LET n == Len(ss) + 1
               last == IF n = 1 THEN s ELSE f[n - 1] \o s
           IN Joins([i \in 1..n |-> IF i = n THEN last ELSE f[i]], Append(ss, s), T, n)
<1> DEFINE n == Len(ss) + 1
           last == IF n = 1 THEN s ELSE f[n - 1] \o s
           g == [i \in 1..n |-> IF i = n THEN last ELSE f[i]]
           tt == Append(ss, s)
<1>1. n \in Nat /\ n \in 1..n /\ n - 1 = Len(ss) /\ n - 1 \in Nat
      /\ tt[n] = s /\ \A i \in 1..(n - 1) : tt[i] = ss[i]
  OBVIOUS
<1>2. last \in Seq(T)
  <2>1. CASE n = 1 BY <2>1
  <2>2. CASE n # 1
    <3>1. f[n - 1] \in Seq(T) BY <1>1, <2>2 DEF Joins
    <3>2. f[n - 1] \o s \in Seq(T) BY <3>1, ConcatProperties
    <3> QED BY <2>2, <3>2
  <2> QED BY <2>1, <2>2
<1>3. /\ f \in [1..(n - 1) -> Seq(T)]
      /\ 1 \in 1..(n - 1) => f[1] = ss[1]
      /\ \A i \in 2..(n - 1) : f[i] = f[i - 1] \o ss[i]
  BY <1>1 DEF Joins
<1>4. last = IF n = 1 THEN s ELSE f[n - 1] \o s OBVIOUS
<1> HIDE DEF last, n, tt
<1>5. g \in [1..n -> Seq(T)] BY <1>1, <1>2, <1>3
<1>6. g[1] = tt[1]
  <2>1. CASE n = 1 BY <1>1, <1>4, <2>1
  <2>2. CASE n # 1
    <3>1. 1 \in 1..n /\ 1 \in 1..(n - 1) BY <1>1, <2>2
    <3> QED BY <1>1, <1>3, <2>2, <3>1
  <2> QED BY <2>1, <2>2
<1>7. ASSUME NEW i \in 2..n PROVE g[i] = g[i - 1] \o tt[i]
  <2>1. CASE i = n
    <3>1. i \in 1..n /\ i - 1 \in 1..n /\ i - 1 # n /\ n # 1 BY <1>1, <2>1
    <3>2. g[i] = last /\ g[i - 1] = f[n - 1] BY <2>1, <3>1
    <3> QED BY <1>1, <1>4, <2>1, <3>1, <3>2
  <2>2. CASE i # n
    <3>1. i \in 1..n /\ i - 1 \in 1..n /\ i - 1 # n /\ i \in 2..(n - 1) /\ i \in 1..(n - 1)
      BY <1>1, <2>2
    <3>2. g[i] = f[i] /\ g[i - 1] = f[i - 1] BY <2>2, <3>1
    <3> QED BY <1>1, <1>3, <3>1, <3>2
  <2> QED BY <2>1, <2>2
<1> HIDE DEF g
<1>8. Joins(g, tt, T, n) BY <1>5, <1>6, <1>7 DEF Joins
<1> QED BY <1>8 DEF g, n, last, tt

\* flatMap() has steps for every list of lists.
LEMMA JoinsExists ==
    ASSUME NEW T, NEW ss \in Seq(Seq(T))
    PROVE  \E f : Joins(f, ss, T, Len(ss))
<1> DEFINE Good == {u \in Seq(Seq(T)) : \E f : Joins(f, u, T, Len(u))}
<1>1. <<>> \in Good
  <2>1. Joins(<<>>, <<>>, T, 0) BY DEF Joins
  <2>2. <<>> \in Seq(Seq(T)) /\ Len(<<>>) = 0 OBVIOUS
  <2> QED BY <2>1, <2>2
<1>2. ASSUME NEW u \in Seq(Seq(T)), NEW x \in Seq(T), u \in Good PROVE Append(u, x) \in Good
  <2>1. PICK f : Joins(f, u, T, Len(u)) BY <1>2
  <2>2. \E g : Joins(g, Append(u, x), T, Len(u) + 1) BY <2>1, JoinsNext
  <2>3. Append(u, x) \in Seq(Seq(T)) /\ Len(Append(u, x)) = Len(u) + 1 OBVIOUS
  <2> QED BY <2>2, <2>3
<1> HIDE DEF Good
<1>3. ss \in Good BY <1>1, <1>2, ListInduction
<1> QED BY <1>3 DEF Good

\* flatMap() returns what its last step has joined.
LEMMA FlattenIs ==
    ASSUME NEW T, NEW ss \in Seq(Seq(T)), ss # <<>>, NEW f, Joins(f, ss, T, Len(ss))
    PROVE  FlattenSeq(ss) = f[Len(ss)]
<1> DEFINE n == Len(ss)
           Eq(g) == g = [i \in 1..n |-> IF i = 1 THEN ss[i] ELSE g[i - 1] \o ss[i]]
<1>0. n \in Nat /\ n # 0 /\ n \in 0..n /\ 1 \in 1..n
  <2>1. n \in Nat /\ n # 0 BY EmptySeq
  <2> QED BY <2>1
<1>1. ASSUME NEW g, Joins(g, ss, T, n) PROVE Eq(g)
  <2>1. /\ g = [i \in 1..n |-> g[i]] /\ g[1] = ss[1]
        /\ \A i \in 2..n : g[i] = g[i - 1] \o ss[i]
    BY <1>0, <1>1 DEF Joins
  <2>2. \A i \in 1..n : i = 1 \/ (i \in 2..n /\ i # 1) OBVIOUS
  <2> HIDE DEF n
  <2>3. \A i \in 1..n : g[i] = IF i = 1 THEN ss[i] ELSE g[i - 1] \o ss[i]
    BY <2>1, <2>2
  <2> QED BY <2>1, <2>3
<1>2. Eq(CHOOSE g : Eq(g)) BY <1>1
<1>3. ASSUME NEW g, Eq(g) PROVE Joins(g, ss, T, n)
  <2>1. /\ g = [i \in 1..n |-> g[i]]
        /\ \A i \in 1..n : g[i] = IF i = 1 THEN ss[i] ELSE g[i - 1] \o ss[i]
    BY <1>3
  <2>2. g[1] = ss[1] BY <1>0, <2>1
  <2>3. ASSUME NEW i \in 2..n PROVE g[i] = g[i - 1] \o ss[i]
    <3>1. i \in 1..n /\ i # 1 BY <1>0
    <3> QED BY <2>1, <3>1
  <2>4. \A i \in 1..n : ss[i] \in Seq(T) OBVIOUS
  <2> HIDE DEF Eq, n
  <2> DEFINE Bad == {i \in 1..n : g[i] \notin Seq(T)}
  <2>5. ASSUME Bad # {} PROVE FALSE
    <3>1. PICK i \in Bad : \A j \in Bad : i <= j
      <4>1. Bad \in SUBSET Nat OBVIOUS
      <4> HIDE DEF Bad
      <4> QED BY <2>5, <4>1, LeastExists
    <3>2. i # 1 BY <2>2, <2>4, <3>1
    <3>3. i \in 2..n /\ i \in 1..n /\ i - 1 \in 1..n /\ ~(i <= i - 1) BY <1>0, <3>1, <3>2
    <3>4. g[i - 1] \in Seq(T) BY <3>1, <3>3
    <3>5. g[i - 1] \o ss[i] \in Seq(T) BY <2>4, <3>3, <3>4, ConcatProperties
    <3> QED BY <2>3, <3>1, <3>3, <3>5
  <2> QED BY <2>1, <2>2, <2>3, <2>5 DEF Joins
<1>4. FlattenSeq(ss) = (CHOOSE g : Eq(g))[n] BY <1>0 DEF FlattenSeq
<1> HIDE DEF Eq
<1> QED BY <1>0, <1>2, <1>3, <1>4, JoinsAgree

\* Nothing is joined of no list.
LEMMA FlattenEmpty == FlattenSeq(<<>>) = <<>>
BY DEF FlattenSeq

\* flatMap() goes on where it was before the last list.
LEMMA FlattenAppend ==
    ASSUME NEW T, NEW ss \in Seq(Seq(T)), NEW s \in Seq(T)
    PROVE  /\ FlattenSeq(ss) \in Seq(T)
           /\ FlattenSeq(Append(ss, s)) = FlattenSeq(ss) \o s
<1> DEFINE n == Len(ss) + 1  tt == Append(ss, s)
<1>1. PICK f : Joins(f, ss, T, Len(ss)) BY JoinsExists
<1> DEFINE last == IF n = 1 THEN s ELSE f[n - 1] \o s
           g == [i \in 1..n |-> IF i = n THEN last ELSE f[i]]
<1>2. Joins(g, tt, T, n) BY <1>1, JoinsNext
<1>3. tt \in Seq(Seq(T)) /\ Len(tt) = n /\ n \in Nat /\ n \in 1..n /\ tt # <<>> /\ n - 1 = Len(ss)
  BY AppendKeeps
<1>4. g[n] = last BY <1>3
<1>5. last = IF n = 1 THEN s ELSE f[n - 1] \o s OBVIOUS
<1> HIDE DEF g, last, tt, n
<1>6. FlattenSeq(tt) = last BY <1>2, <1>3, <1>4, FlattenIs
<1>7. CASE ss = <<>>
  <2>1. n = 1 BY <1>3, <1>7
  <2>2. FlattenSeq(ss) = <<>> BY <1>7, FlattenEmpty
  <2>3. <<>> \o s = s /\ <<>> \in Seq(T) OBVIOUS
  <2> QED BY <1>5, <1>6, <2>1, <2>2, <2>3 DEF tt
<1>8. CASE ss # <<>>
  <2>1. FlattenSeq(ss) = f[Len(ss)] BY <1>1, <1>8, FlattenIs
  <2>2. Len(ss) # 0 /\ Len(ss) \in Nat BY <1>8, EmptySeq
  <2>3. Len(ss) \in 1..Len(ss) /\ n # 1 BY <1>3, <2>2
  <2>4. f[Len(ss)] \in Seq(T) BY <1>1, <2>3 DEF Joins
  <2> QED BY <1>3, <1>5, <1>6, <2>1, <2>3, <2>4 DEF tt
<1> QED BY <1>7, <1>8

-----------------------------------------------------------------------------
(* The panels of a list of folders. *)

\* Two lists joined have the elements of both, once if they share none.
LEMMA ConcatKeeps ==
    ASSUME NEW T, NEW a \in Seq(T), NEW b \in Seq(T)
    PROVE  /\ a \o b \in Seq(T)
           /\ ToSet(a \o b) = ToSet(a) \cup ToSet(b)
           /\ IsInjective(a) /\ IsInjective(b) /\ ToSet(a) \cap ToSet(b) = {}
                => IsInjective(a \o b)
<1> DEFINE c == a \o b  m == Len(a)  n == Len(b)
<1>1. m \in Nat /\ n \in Nat /\ DOMAIN a = 1..m /\ DOMAIN b = 1..n OBVIOUS
<1>2. c \in Seq(T) /\ Len(c) = m + n
      /\ \A i \in 1..(m + n) : c[i] = IF i <= m THEN a[i] ELSE b[i - m]
  BY ConcatProperties
<1>3. DOMAIN c = 1..(m + n) BY <1>2
<1> HIDE DEF c, m, n
<1>4. \A i \in DOMAIN c : \/ i \in DOMAIN a /\ i <= m /\ c[i] = a[i]
                          \/ i - m \in DOMAIN b /\ ~(i <= m) /\ c[i] = b[i - m]
  <2> TAKE i \in DOMAIN c
  <2>1. CASE i <= m BY <1>1, <1>2, <1>3, <2>1
  <2>2. CASE ~(i <= m)
    <3>1. i - m \in 1..n BY <1>1, <1>3, <2>2
    <3> QED BY <1>1, <1>2, <1>3, <2>2, <3>1
  <2> QED BY <2>1, <2>2
<1>5. \A i \in DOMAIN a : i \in DOMAIN c /\ c[i] = a[i] BY <1>1, <1>2, <1>3
<1>6. \A i \in DOMAIN b : i + m \in DOMAIN c /\ c[i + m] = b[i]
  <2> TAKE i \in DOMAIN b
  <2>1. i + m \in 1..(m + n) /\ ~(i + m <= m) /\ (i + m) - m = i BY <1>1
  <2> QED BY <1>2, <1>3, <2>1
<1>7. ToSet(c) = ToSet(a) \cup ToSet(b) BY <1>4, <1>5, <1>6 DEF ToSet
<1>8. ASSUME IsInjective(a), IsInjective(b), ToSet(a) \cap ToSet(b) = {}
      PROVE  IsInjective(c)
  <2> SUFFICES ASSUME NEW i \in DOMAIN c, NEW j \in DOMAIN c, c[i] = c[j] PROVE i = j
    BY DEF IsInjective
  <2>0. i \in Int /\ j \in Int BY <1>1, <1>3
  <2>1. \A k \in DOMAIN a : a[k] \in ToSet(a) BY DEF ToSet
  <2>2. \A k \in DOMAIN b : b[k] \in ToSet(b) BY DEF ToSet
  <2>3. CASE i <= m /\ j <= m BY <1>4, <1>8, <2>3 DEF IsInjective
  <2>4. CASE ~(i <= m) /\ ~(j <= m)
    <3>1. i - m = j - m BY <1>4, <1>8, <2>4 DEF IsInjective
    <3> QED BY <1>1, <2>0, <3>1
  <2>5. CASE i <= m /\ ~(j <= m) BY <1>4, <1>8, <2>1, <2>2, <2>5
  <2>6. CASE ~(i <= m) /\ j <= m BY <1>4, <1>8, <2>1, <2>2, <2>6
  <2> QED BY <2>3, <2>4, <2>5, <2>6
<1> QED BY <1>2, <1>7, <1>8 DEF c

AnyProject == Project \cup {AutomationSpace}
Layout == [kind : {"stack", "split"}, first : Seq(Panel), rest : Seq(Panel),
           active : Panel \cup {None}]
FolderRecord ==
    [project : AnyProject, kind : {"general", "plain", "linked"},
     worktree : Link \cup {None}, panelIds : Seq(Panel), active : Panel \cup {None},
     layout : Layout, creator : Panel \cup {None}, offer : Panel \cup {None}]
ProjectRecord ==
    [view : View, awaiting : BOOLEAN, folderIds : Seq(Folder), panelIds : Seq(Panel),
     active : Panel \cup {None}, layout : Layout]
ViewRecord == [projectIds : Seq(Project), activeProject : Project \cup {None}]
PanelRecord == [project : AnyProject, folder : Folder, session : Session \cup {None}]
SessionRecord == [project : AnyProject, status : {"running"} \cup Endings]

\* Records R by some of the ids S.
Table(F, S, R) == DOMAIN F \subseteq S /\ F \in [DOMAIN F -> R]

\* The panels of the folders ids, in their order.
PanelsOf(F, ids) == FlattenSeq([i \in DOMAIN ids |-> F[ids[i]].panelIds])
Occupied(F, ids) == Filtered(ids, {f \in DOMAIN F : F[f].panelIds # <<>>})

\* No folder, no panel.
LEMMA PanelsOfEmpty ==
    ASSUME NEW F
    PROVE  PanelsOf(F, <<>>) = <<>>
<1>1. [i \in DOMAIN <<>> |-> F[<<>>[i]].panelIds] = <<>> OBVIOUS
<1> QED BY <1>1, FlattenEmpty DEF PanelsOf

\* One folder more adds its panels at the end.
LEMMA PanelsOfAppend ==
    ASSUME NEW F, Table(F, Folder, FolderRecord), NEW ids \in Seq(DOMAIN F), NEW f \in DOMAIN F
    PROVE  /\ PanelsOf(F, ids) \in Seq(Panel)
           /\ PanelsOf(F, Append(ids, f)) = PanelsOf(F, ids) \o F[f].panelIds
<1> DEFINE n == Len(ids)  a == [i \in DOMAIN ids |-> F[ids[i]].panelIds]
           jds == Append(ids, f)
           b == [i \in DOMAIN jds |-> F[jds[i]].panelIds]
<1>1. \A g \in DOMAIN F : F[g].panelIds \in Seq(Panel) BY DEF Table, FolderRecord
<1>2. n \in Nat /\ DOMAIN ids = 1..n /\ \A i \in 1..n : ids[i] \in DOMAIN F OBVIOUS
<1>3. /\ DOMAIN jds = 1..(n + 1) /\ jds[n + 1] = f /\ n + 1 \in 1..(n + 1)
      /\ \A i \in 1..n : jds[i] = ids[i] /\ i \in 1..(n + 1)
      /\ \A i \in 1..(n + 1) : i \in 1..n \/ i = n + 1
  OBVIOUS
<1>4. a \in [1..n -> Seq(Panel)] BY <1>1, <1>2
<1>5. a \in Seq(Seq(Panel)) /\ Len(a) = n BY <1>2, <1>4
<1> HIDE DEF jds, n
<1>6. b \in [1..(n + 1) -> Seq(Panel)] BY <1>1, <1>2, <1>3
<1>7. /\ b[n + 1] = F[f].panelIds
      /\ \A i \in 1..n : b[i] = a[i]
  BY <1>2, <1>3
<1> HIDE DEF a, b
<1>8. b \in Seq(Seq(Panel)) /\ Len(b) = n + 1 BY <1>2, <1>6
<1> DEFINE c == Append(a, F[f].panelIds)
<1>9. /\ c \in Seq(Seq(Panel)) /\ Len(c) = n + 1 /\ c[n + 1] = F[f].panelIds
      /\ \A i \in 1..n : c[i] = a[i]
  BY <1>1, <1>2, <1>5
<1> HIDE DEF c
<1>10. \A i \in 1..(n + 1) : b[i] = c[i] BY <1>3, <1>7, <1>9
<1>11. b = c BY <1>8, <1>9, <1>10, SeqEqual
<1> QED BY <1>1, <1>5, <1>11, FlattenAppend DEF PanelsOf, a, b, c, jds

\* The panels of a list of folders are those of its folders.
LEMMA PanelsOfMembers ==
    ASSUME NEW F, Table(F, Folder, FolderRecord), NEW ids \in Seq(DOMAIN F)
    PROVE  /\ PanelsOf(F, ids) \in Seq(Panel)
           /\ \A p : p \in ToSet(PanelsOf(F, ids))
                       <=> \E f \in ToSet(ids) : p \in ToSet(F[f].panelIds)
<1> DEFINE Good == {u \in Seq(DOMAIN F) :
                      /\ PanelsOf(F, u) \in Seq(Panel)
                      /\ \A p : p \in ToSet(PanelsOf(F, u))
                                <=> \E f \in ToSet(u) : p \in ToSet(F[f].panelIds)}
<1>1. <<>> \in Good
  <2>1. /\ <<>> \in Seq(DOMAIN F) /\ <<>> \in Seq(Panel) /\ ToSet(<<>>) = {}
        /\ PanelsOf(F, <<>>) = <<>>
    BY EmptyIs, PanelsOfEmpty
  <2> QED BY <2>1, Zenon
<1>2. ASSUME NEW u \in Seq(DOMAIN F), NEW x \in DOMAIN F, u \in Good
      PROVE  Append(u, x) \in Good
  <2> DEFINE a == PanelsOf(F, u)  b == F[x].panelIds
  <2>1. a \in Seq(Panel) /\ \A p : p \in ToSet(a) <=> \E f \in ToSet(u) : p \in ToSet(F[f].panelIds)
    BY <1>2
  <2>2. b \in Seq(Panel) BY DEF Table, FolderRecord
  <2>3. PanelsOf(F, Append(u, x)) = a \o b BY PanelsOfAppend
  <2>4. ToSet(Append(u, x)) = ToSet(u) \cup {x} /\ Append(u, x) \in Seq(DOMAIN F)
    BY AppendKeeps
  <2> HIDE DEF a
  <2>5. a \o b \in Seq(Panel) /\ ToSet(a \o b) = ToSet(a) \cup ToSet(b)
    BY <2>1, <2>2, ConcatKeeps
  <2> QED BY <2>1, <2>3, <2>4, <2>5
<1> HIDE DEF Good
<1>3. ids \in Good BY <1>1, <1>2, ListInduction
<1> QED BY <1>3 DEF Good

\* A panel that one folder lists is listed once by all of them.
LEMMA PanelsOfOnce ==
    ASSUME NEW F, Table(F, Folder, FolderRecord), NEW ids \in Seq(DOMAIN F), IsInjective(ids),
           \A f \in DOMAIN F : IsInjective(F[f].panelIds),
           \A f, g \in DOMAIN F : f # g => ToSet(F[f].panelIds) \cap ToSet(F[g].panelIds) = {}
    PROVE  IsInjective(PanelsOf(F, ids))
<1> DEFINE Good == {u \in Seq(DOMAIN F) : IsInjective(u) => IsInjective(PanelsOf(F, u))}
<1>1. <<>> \in Good
  <2>1. /\ <<>> \in Seq(DOMAIN F) /\ IsInjective(<<>>) /\ PanelsOf(F, <<>>) = <<>>
    BY EmptyIs, PanelsOfEmpty
  <2> QED BY <2>1, Zenon
<1>2. ASSUME NEW u \in Seq(DOMAIN F), NEW x \in DOMAIN F, u \in Good
      PROVE  Append(u, x) \in Good
  <2> DEFINE a == PanelsOf(F, u)  b == F[x].panelIds
  <2>1. /\ Append(u, x) \in Seq(DOMAIN F)
        /\ IsInjective(Append(u, x)) <=> IsInjective(u) /\ x \notin ToSet(u)
        /\ ToSet(u) \subseteq DOMAIN F
    BY AppendKeeps, EmptyIs
  <2>2. a \in Seq(Panel) /\ \A p : p \in ToSet(a) <=> \E f \in ToSet(u) : p \in ToSet(F[f].panelIds)
    BY PanelsOfMembers
  <2>3. b \in Seq(Panel) BY DEF Table, FolderRecord
  <2>4. PanelsOf(F, Append(u, x)) = a \o b BY PanelsOfAppend
  <2>5. IsInjective(u) => IsInjective(a) BY <1>2
  <2>6. ASSUME x \notin ToSet(u) PROVE ToSet(a) \cap ToSet(b) = {}
    BY <2>1, <2>2, <2>6
  <2> HIDE DEF a
  <2>7. IsInjective(a) /\ IsInjective(b) /\ ToSet(a) \cap ToSet(b) = {} => IsInjective(a \o b)
    BY <2>2, <2>3, ConcatKeeps
  <2> QED BY <2>1, <2>4, <2>5, <2>6, <2>7
<1> HIDE DEF Good
<1>3. ids \in Good BY <1>1, <1>2, ListInduction
<1> QED BY <1>3 DEF Good

\* The panels of folders that keep their lists are the same.
LEMMA PanelsOfSame ==
    ASSUME NEW F, NEW G, NEW T, NEW ids \in Seq(T),
           \A f \in ToSet(ids) : F[f].panelIds = G[f].panelIds
    PROVE  PanelsOf(F, ids) = PanelsOf(G, ids)
<1>1. \A i \in DOMAIN ids : ids[i] \in ToSet(ids) BY DEF ToSet
<1>2. [i \in DOMAIN ids |-> F[ids[i]].panelIds] = [i \in DOMAIN ids |-> G[ids[i]].panelIds]
  BY <1>1
<1> QED BY <1>2 DEF PanelsOf

\* Folders without panels do not count.
LEMMA PanelsOfFiltered ==
    ASSUME NEW F, Table(F, Folder, FolderRecord), NEW ids \in Seq(DOMAIN F), NEW S,
           \A f \in DOMAIN F \ S : F[f].panelIds = <<>>
    PROVE  PanelsOf(F, Filtered(ids, S)) = PanelsOf(F, ids)
<1> DEFINE Good == {u \in Seq(DOMAIN F) : PanelsOf(F, Filtered(u, S)) = PanelsOf(F, u)}
<1>1. <<>> \in Good
  <2>1. <<>> \in Seq(DOMAIN F) BY EmptyIs
  <2> QED BY <2>1, FilteredEmpty, Zenon
<1>2. ASSUME NEW u \in Seq(DOMAIN F), NEW x \in DOMAIN F, u \in Good
      PROVE  Append(u, x) \in Good
  <2> DEFINE v == Filtered(u, S)
  <2>1. v \in Seq(DOMAIN F) BY FilteredKeeps
  <2>2. PanelsOf(F, v) = PanelsOf(F, u) BY <1>2
  <2>3. PanelsOf(F, Append(u, x)) = PanelsOf(F, u) \o F[x].panelIds
        /\ PanelsOf(F, u) \in Seq(Panel)
    BY PanelsOfAppend
  <2>4. Append(u, x) \in Seq(DOMAIN F) BY AppendKeeps
  <2>5. CASE x \in S
    <3>1. Filtered(Append(u, x), S) = Append(v, x) BY <2>5, FilteredIn
    <3> HIDE DEF v
    <3>2. PanelsOf(F, Append(v, x)) = PanelsOf(F, v) \o F[x].panelIds
      BY <2>1, PanelsOfAppend
    <3> QED BY <2>2, <2>3, <2>4, <3>1, <3>2
  <2>6. CASE x \notin S
    <3>1. Filtered(Append(u, x), S) = v BY <2>6, FilteredOut
    <3>2. F[x].panelIds = <<>> BY <2>6
    <3>3. PanelsOf(F, u) \o <<>> = PanelsOf(F, u) BY <2>3, ConcatEmptySeq
    <3> QED BY <2>2, <2>3, <2>4, <3>1, <3>2, <3>3
  <2> QED BY <2>5, <2>6
<1> HIDE DEF Good
<1>3. ids \in Good BY <1>1, <1>2, ListInduction
<1> QED BY <1>3 DEF Good

\* The derived panels and occupied folders of a project, said with PanelsOf.
LEMMA DerivedIs ==
    ASSUME NEW d, NEW pr, NEW T, d.projects[pr].folderIds \in Seq(T)
    PROVE  DerivedPanels(d, pr) = PanelsOf(d.folders, d.projects[pr].folderIds)
<1> DEFINE ids == d.projects[pr].folderIds
           F == [i \in DOMAIN ids |-> d.folders[ids[i]]]
<1>1. FoldersOf(d, pr) = F BY DEF FoldersOf
<1>2. DOMAIN F = DOMAIN ids OBVIOUS
<1>3. [i \in DOMAIN F |-> F[i].panelIds] = [i \in DOMAIN ids |-> d.folders[ids[i]].panelIds]
  OBVIOUS
<1> HIDE DEF F
<1> QED BY <1>1, <1>3 DEF DerivedPanels, PanelsOf

-----------------------------------------------------------------------------
(* The invariant. *)

Sections == {"viewOrder", "views", "projects", "folders", "panels", "sessions"}
Fields(d) == d = [x \in Sections |-> d[x]]

Typed(d) ==
    /\ Fields(d)
    /\ d.viewOrder \in Seq(View)
    /\ Table(d.views, View, ViewRecord)
    /\ Table(d.projects, AnyProject, ProjectRecord)
    /\ Table(d.folders, Folder, FolderRecord)
    /\ Table(d.panels, Panel, PanelRecord)
    /\ Table(d.sessions, Session, SessionRecord)

ViewsSound(d) ==
    /\ d.viewOrder # <<>> /\ IsInjective(d.viewOrder)
    /\ ToSet(d.viewOrder) \subseteq DOMAIN d.views
    /\ \A v \in DOMAIN d.views :
         /\ IsInjective(d.views[v].projectIds)
         /\ d.views[v].activeProject \in ToSet(d.views[v].projectIds) \cup {None}
         /\ \A pr \in ToSet(d.views[v].projectIds) :
              pr \in DOMAIN d.projects /\ d.projects[pr].view = v
    /\ \A pr \in DOMAIN d.projects :
         /\ d.projects[pr].view \in DOMAIN d.views
         /\ pr # AutomationSpace
              => pr \in ToSet(d.views[d.projects[pr].view].projectIds)

FoldersSound(d) ==
    /\ \A pr \in DOMAIN d.projects :
         /\ IsInjective(d.projects[pr].folderIds)
         /\ \A f \in ToSet(d.projects[pr].folderIds) :
              f \in DOMAIN d.folders /\ d.folders[f].project = pr
         /\ \E g \in ToSet(d.projects[pr].folderIds) :
              \A f \in ToSet(d.projects[pr].folderIds) :
                 d.folders[f].kind = "general" <=> f = g
    /\ \A f \in DOMAIN d.folders :
         /\ d.folders[f].project \in DOMAIN d.projects
         /\ f \in ToSet(d.projects[d.folders[f].project].folderIds)
         /\ d.folders[f].kind = "linked" <=> d.folders[f].worktree # None
    /\ \A f, g \in DOMAIN d.folders :
         /\ d.folders[f].worktree # None /\ d.folders[f].worktree = d.folders[g].worktree
         /\ d.folders[f].project = d.folders[g].project
         => f = g

\* A folder shows its panels in one stack, or one of them beside the others.
FolderShows(folder) ==
    /\ IsInjective(folder.panelIds)
    /\ folder.active \in ToSet(folder.panelIds) \cup {None}
    /\ folder.active = None <=> folder.panelIds = <<>>
    /\ \/ folder.layout = Stack(folder.panelIds, folder.active)
       \/ \E p \in ToSet(folder.panelIds) :
            folder.layout = Split(p, Removing(folder.panelIds, p))

PlacesSound(d) ==
    /\ \A f \in DOMAIN d.folders :
         /\ FolderShows(d.folders[f])
         /\ \A p \in ToSet(d.folders[f].panelIds) :
              p \in DOMAIN d.panels /\ d.panels[p].folder = f
    /\ \A p \in DOMAIN d.panels :
         /\ d.panels[p].folder \in DOMAIN d.folders
         /\ d.folders[d.panels[p].folder].project = d.panels[p].project
         /\ p \in ToSet(d.folders[d.panels[p].folder].panelIds)

ReferencesSound(d) ==
    \A f \in DOMAIN d.folders :
      /\ d.folders[f].creator # None =>
           /\ d.folders[f].creator \in DOMAIN d.panels
           /\ d.panels[d.folders[f].creator].project = d.folders[f].project
      /\ d.folders[f].offer # None =>
           /\ d.folders[f].offer \in DOMAIN d.panels
           /\ d.panels[d.folders[f].offer].project = d.folders[f].project
           /\ d.panels[d.folders[f].offer].folder # f

SessionsSound(d) ==
    /\ \A p \in DOMAIN d.panels : d.panels[p].session # None =>
         /\ d.panels[p].session \in DOMAIN d.sessions
         /\ d.sessions[d.panels[p].session].project = d.panels[p].project
    /\ \A s \in DOMAIN d.sessions :
         /\ d.sessions[s].project \in DOMAIN d.projects
         /\ ~d.projects[d.sessions[s].project].awaiting
    /\ \A pr \in DOMAIN d.projects : d.projects[pr].awaiting => pr # AutomationSpace

\* What a project copies of its folders F, whose panels are P.
Derived(project, F, P) ==
    LET panels == PanelsOf(F, project.folderIds)
        occupied == Occupied(F, project.folderIds)
    IN /\ project.panelIds = panels
       /\ project.layout = IF Len(occupied) = 1 THEN F[occupied[1]].layout
                           ELSE Stack(panels, project.active)
       /\ project.active \in ToSet(panels) \cup {None}
       /\ project.active = None <=> panels = <<>>
       /\ project.active # None => F[P[project.active].folder].active = project.active

Placed(d) ==
    /\ Typed(d)
    /\ ViewsSound(d)
    /\ FoldersSound(d)
    /\ PlacesSound(d)
    /\ ReferencesSound(d)
    /\ SessionsSound(d)

Sound(d) ==
    /\ Placed(d)
    /\ \A pr \in DOMAIN d.projects : Derived(d.projects[pr], d.folders, d.panels)

-----------------------------------------------------------------------------
(* What the invariant implies. *)

\* None is no id.
LEMMA NoneIsNone ==
    /\ None \notin View /\ None \notin Project /\ None \notin Folder
    /\ None \notin Panel /\ None \notin Session /\ None \notin Link
    /\ AutomationSpace \notin Project
BY DocumentAssumption

\* A list of one element.
LEMMA SingleIs ==
    ASSUME NEW T, NEW x \in T
    PROVE  <<x>> \in Seq(T) /\ ToSet(<<x>>) = {x} /\ IsInjective(<<x>>)
<1>1. <<x>> \in Seq(T) /\ DOMAIN <<x>> = {1} /\ <<x>>[1] = x OBVIOUS
<1> QED BY <1>1 DEF ToSet, IsInjective

\* A layout that shows a folder shows each of its panels once.
LEMMA ShownLayout ==
    ASSUME NEW folder \in FolderRecord, FolderShows(folder)
    PROVE  /\ IsInjective(folder.layout.first) /\ IsInjective(folder.layout.rest)
           /\ ToSet(folder.layout.first) \subseteq ToSet(folder.panelIds)
           /\ ToSet(folder.layout.rest) \subseteq ToSet(folder.panelIds)
           /\ folder.layout.active \in ToSet(folder.layout.first) \cup {None}
           /\ IsInjective(folder.layout.first \o folder.layout.rest)
           /\ ToSet(folder.layout.first \o folder.layout.rest) = ToSet(folder.panelIds)
<1> DEFINE ids == folder.panelIds
<1>1. ids \in Seq(Panel) /\ IsInjective(ids) BY DEF FolderRecord, FolderShows
<1>2. CASE folder.layout = Stack(ids, folder.active)
  <2>1. folder.layout.first = ids /\ folder.layout.rest = <<>>
        /\ folder.layout.active = folder.active
    BY <1>2 DEF Stack
  <2>2. ids \o <<>> = ids BY <1>1, ConcatEmptySeq
  <2>3. folder.active \in ToSet(ids) \cup {None} BY DEF FolderShows
  <2> QED BY <1>1, <2>1, <2>2, <2>3, EmptyIs
<1>3. ASSUME NEW p \in ToSet(ids), folder.layout = Split(p, Removing(ids, p))
      PROVE  /\ IsInjective(folder.layout.first) /\ IsInjective(folder.layout.rest)
             /\ ToSet(folder.layout.first) \subseteq ToSet(ids)
             /\ ToSet(folder.layout.rest) \subseteq ToSet(ids)
             /\ folder.layout.active \in ToSet(folder.layout.first) \cup {None}
             /\ IsInjective(folder.layout.first \o folder.layout.rest)
             /\ ToSet(folder.layout.first \o folder.layout.rest) = ToSet(ids)
  <2>1. folder.layout.first = <<p>> /\ folder.layout.rest = Removing(ids, p)
        /\ folder.layout.active = p
    BY <1>3 DEF Split
  <2>2. p \in Panel BY <1>1, EmptyIs
  <2>3. /\ <<p>> \in Seq(Panel) /\ ToSet(<<p>>) = {p} /\ IsInjective(<<p>>)
    BY <2>2, SingleIs
  <2>4. /\ Removing(ids, p) \in Seq(Panel) /\ ToSet(Removing(ids, p)) = ToSet(ids) \ {p}
        /\ IsInjective(Removing(ids, p))
    BY <1>1, RemovingKeeps
  <2> DEFINE a == <<p>>  b == Removing(ids, p)
  <2>5. /\ a \in Seq(Panel) /\ b \in Seq(Panel) /\ IsInjective(a) /\ IsInjective(b)
        /\ ToSet(a) \cap ToSet(b) = {}
    BY <2>3, <2>4
  <2> HIDE DEF a, b
  <2>6. ToSet(a \o b) = ToSet(a) \cup ToSet(b) /\ IsInjective(a \o b)
    BY <2>5, ConcatKeeps
  <2> QED BY ZenonT(40), <2>1, <2>3, <2>4, <2>6 DEF a, b
<1> QED BY <1>2, <1>3 DEF FolderShows

\* The ids and records of a typed document.
LEMMA TypedFields ==
    ASSUME NEW d, Typed(d)
    PROVE  /\ \A v \in DOMAIN d.views : v \in View /\ d.views[v] \in ViewRecord
           /\ \A pr \in DOMAIN d.projects : pr \in AnyProject /\ d.projects[pr] \in ProjectRecord
           /\ \A f \in DOMAIN d.folders : f \in Folder /\ d.folders[f] \in FolderRecord
           /\ \A p \in DOMAIN d.panels : p \in Panel /\ d.panels[p] \in PanelRecord
           /\ \A s \in DOMAIN d.sessions : s \in Session /\ d.sessions[s] \in SessionRecord
BY DEF Typed, Table

\* A list of elements of a set is a list of that set.
LEMMA ListedIn ==
    ASSUME NEW T, NEW ids \in Seq(T), NEW S, ToSet(ids) \subseteq S
    PROVE  ids \in Seq(S)
<1>1. \A i \in DOMAIN ids : ids[i] \in S BY DEF ToSet
<1> QED BY <1>1

\* The panels a project lists: those of it, each once.
LEMMA ProjectPanels ==
    ASSUME NEW d, Typed(d), FoldersSound(d), PlacesSound(d), NEW pr \in DOMAIN d.projects
    PROVE  LET ids == d.projects[pr].folderIds
               panels == PanelsOf(d.folders, ids)
           IN /\ ids \in Seq(DOMAIN d.folders)
              /\ panels \in Seq(Panel)
              /\ IsInjective(panels)
              /\ \A p : p \in ToSet(panels)
                          <=> p \in DOMAIN d.panels /\ d.panels[p].project = pr
              /\ \A p : p \in ToSet(panels)
                          <=> \E f \in ToSet(ids) : p \in ToSet(d.folders[f].panelIds)
              /\ \A f : f \in ToSet(ids) <=> f \in DOMAIN d.folders /\ d.folders[f].project = pr
<1> DEFINE ids == d.projects[pr].folderIds
           panels == PanelsOf(d.folders, ids)
<1>1. ids \in Seq(Folder) BY TypedFields DEF ProjectRecord
<1>2. ids \in Seq(DOMAIN d.folders)
  <2>1. ToSet(ids) \subseteq DOMAIN d.folders BY DEF FoldersSound
  <2> QED BY <1>1, <2>1, ListedIn
<1>3. Table(d.folders, Folder, FolderRecord) BY DEF Typed
<1>4. IsInjective(ids) BY DEF FoldersSound
<1>5. \A f \in DOMAIN d.folders : IsInjective(d.folders[f].panelIds)
  BY DEF PlacesSound, FolderShows
<1>6. \A f, g \in DOMAIN d.folders :
         f # g => ToSet(d.folders[f].panelIds) \cap ToSet(d.folders[g].panelIds) = {}
  BY DEF PlacesSound
<1> HIDE DEF ids
<1>7. /\ panels \in Seq(Panel)
      /\ \A p : p \in ToSet(panels) <=> \E f \in ToSet(ids) : p \in ToSet(d.folders[f].panelIds)
  BY <1>2, <1>3, PanelsOfMembers
<1>8. IsInjective(panels) BY <1>2, <1>3, <1>4, <1>5, <1>6, PanelsOfOnce
<1> HIDE DEF panels
<1>9. \A f : f \in ToSet(ids) <=> f \in DOMAIN d.folders /\ d.folders[f].project = pr
  BY DEF FoldersSound, ids
<1>10. \A p : p \in ToSet(panels) <=> p \in DOMAIN d.panels /\ d.panels[p].project = pr
  BY <1>7, <1>9 DEF PlacesSound
<1> QED BY <1>2, <1>7, <1>8, <1>9, <1>10 DEF ids, panels

\* Occupied folders are those of the list that have a panel.
LEMMA OccupiedIs ==
    ASSUME NEW F, NEW T, NEW ids \in Seq(T), ToSet(ids) \subseteq DOMAIN F
    PROVE  /\ Occupied(F, ids) \in Seq(T)
           /\ \A f : f \in ToSet(Occupied(F, ids)) <=> f \in ToSet(ids) /\ F[f].panelIds # <<>>
           /\ Len(Occupied(F, ids)) = 1 => Occupied(F, ids)[1] \in ToSet(Occupied(F, ids))
<1> DEFINE S == {f \in DOMAIN F : F[f].panelIds # <<>>}  occ == Filtered(ids, S)
<1>1. occ \in Seq(T) /\ ToSet(occ) = ToSet(ids) \cap S BY FilteredKeeps
<1>2. Occupied(F, ids) = occ BY DEF Occupied
<1> HIDE DEF occ
<1>3. Len(occ) = 1 => occ[1] \in ToSet(occ) BY <1>1 DEF ToSet
<1> QED BY <1>1, <1>2, <1>3

\* A sound document passes validateWorkspace: what the invariant says is at
\* least as much as the second line of defence asks.
THEOREM SoundValid ==
    ASSUME NEW d, Sound(d)
    PROVE  Valid(d)
<1>1. Typed(d) /\ ViewsSound(d) /\ FoldersSound(d) /\ PlacesSound(d) /\ ReferencesSound(d)
      /\ SessionsSound(d)
  BY DEF Sound, Placed
<1>2. ViewsValid(d) BY <1>1 DEF ViewsSound, ViewsValid
<1>3. AutomationSpace \in DOMAIN d.projects =>
         \A v \in DOMAIN d.views : AutomationSpace \notin ToSet(d.views[v].projectIds)
  <2>1. \A v \in DOMAIN d.views : d.views[v].projectIds \in Seq(Project)
    BY <1>1, TypedFields DEF ViewRecord
  <2>2. \A v \in DOMAIN d.views : ToSet(d.views[v].projectIds) \subseteq Project
    BY <2>1, EmptyIs
  <2> QED BY <2>2, NoneIsNone
<1>4. ASSUME NEW pr \in DOMAIN d.projects PROVE ProjectValid(d, pr)
  <2> DEFINE ids == d.projects[pr].folderIds
             panels == PanelsOf(d.folders, ids)
             x == d.projects[pr]
             occ == Occupied(d.folders, ids)
  <2>1. /\ ids \in Seq(DOMAIN d.folders)
        /\ panels \in Seq(Panel)
        /\ IsInjective(panels)
        /\ \A p : p \in ToSet(panels) <=> p \in DOMAIN d.panels /\ d.panels[p].project = pr
        /\ \A p : p \in ToSet(panels)
                    <=> \E f \in ToSet(ids) : p \in ToSet(d.folders[f].panelIds)
        /\ \A f : f \in ToSet(ids) <=> f \in DOMAIN d.folders /\ d.folders[f].project = pr
    BY <1>1, ProjectPanels
  <2>2. /\ x.panelIds = panels
        /\ x.layout = IF Len(occ) = 1 THEN d.folders[occ[1]].layout ELSE Stack(panels, x.active)
        /\ x.active \in ToSet(panels) \cup {None}
    BY DEF Sound, Derived
  <2>3. x.view \in DOMAIN d.views /\ (x.awaiting => pr # AutomationSpace)
    BY <1>1 DEF ViewsSound, SessionsSound
  <2>4. DerivedPanels(d, pr) = panels BY <2>1, DerivedIs
  <2> HIDE DEF panels
  <2>5. ValidLayout(x.layout, ToSet(panels))
    <3>1. CASE Len(occ) # 1
      <4>1. x.layout.first = panels /\ x.layout.rest = <<>> /\ x.layout.active = x.active
        BY <2>2, <3>1 DEF Stack
      <4> QED BY <2>1, <2>2, <4>1, EmptyIs DEF ValidLayout
    <3>2. CASE Len(occ) = 1
      <4>1. ToSet(ids) \subseteq DOMAIN d.folders BY <2>1
      <4>2. occ[1] \in ToSet(ids) BY <2>1, <3>2, <4>1, OccupiedIs
      <4> DEFINE f == occ[1]
      <4>3. f \in DOMAIN d.folders /\ f \in ToSet(ids) BY <4>1, <4>2
      <4> HIDE DEF f
      <4>4. d.folders[f] \in FolderRecord /\ FolderShows(d.folders[f])
        BY <1>1, <4>3, TypedFields DEF PlacesSound
      <4>5. ToSet(d.folders[f].panelIds) \subseteq ToSet(panels) BY <2>1, <4>3
      <4>6. x.layout = d.folders[f].layout BY <2>2, <3>2 DEF f
      <4> QED BY <4>4, <4>5, <4>6, ShownLayout DEF ValidLayout
    <3> QED BY <3>1, <3>2
  <2>6. ProjectFoldersValid(d, pr)
    <3>1. IsInjective(ids) /\ \E g \in ToSet(ids) : \A f \in ToSet(ids) :
                                 d.folders[f].kind = "general" <=> f = g
      BY <1>1 DEF FoldersSound
    <3>2. \E g \in ToSet(ids) : {g} = {f \in ToSet(ids) : d.folders[f].kind = "general"}
      BY <3>1
    <3>3. \A f, g \in ToSet(ids) : d.folders[f].worktree # None /\ d.folders[g].worktree # None
            /\ d.folders[f].worktree = d.folders[g].worktree => f = g
      BY <1>1, <2>1 DEF FoldersSound
    <3> QED BY <2>1, <2>2, <2>4, <3>1, <3>2, <3>3 DEF ProjectFoldersValid
  <2> QED BY <2>1, <2>2, <2>3, <2>5, <2>6 DEF ProjectValid
<1>5. ASSUME NEW f \in DOMAIN d.folders PROVE FolderValid(d, f)
  <2>1. d.folders[f] \in FolderRecord /\ FolderShows(d.folders[f])
    BY <1>1, TypedFields DEF PlacesSound
  <2>2. ValidLayout(d.folders[f].layout, ToSet(d.folders[f].panelIds))
    BY <2>1, ShownLayout DEF ValidLayout
  <2>3. /\ d.folders[f].project \in DOMAIN d.projects
        /\ f \in ToSet(d.projects[d.folders[f].project].folderIds)
        /\ d.folders[f].kind = "linked" <=> d.folders[f].worktree # None
    BY <1>1 DEF FoldersSound
  <2>4. /\ \A p \in ToSet(d.folders[f].panelIds) : p \in DOMAIN d.panels /\ d.panels[p].folder = f
    BY <1>1 DEF PlacesSound
  <2>5. /\ d.folders[f].creator # None =>
             /\ d.folders[f].creator \in DOMAIN d.panels
             /\ d.panels[d.folders[f].creator].project = d.folders[f].project
        /\ d.folders[f].offer # None =>
             /\ d.folders[f].offer \in DOMAIN d.panels
             /\ d.panels[d.folders[f].offer].project = d.folders[f].project
             /\ d.panels[d.folders[f].offer].folder # f
    BY <1>1 DEF ReferencesSound
  <2> QED BY <2>1, <2>2, <2>3, <2>4, <2>5 DEF FolderValid, FolderShows
<1>6. ASSUME NEW p \in DOMAIN d.panels PROVE PanelValid(d, p)
  BY <1>1 DEF PanelValid, PlacesSound, SessionsSound, FoldersSound
<1>7. ASSUME NEW s \in DOMAIN d.sessions PROVE SessionValid(d, s)
  BY <1>1 DEF SessionValid, SessionsSound
<1> QED BY <1>2, <1>3, <1>4, <1>5, <1>6, <1>7 DEF Valid

\* What the runs check of a document follows from the invariant.
LEMMA SoundProperties ==
    ASSUME Sound(doc)
    PROVE  ProjectsListedOnce /\ DerivedCurrent /\ LayoutsShowAll
<1>1. Typed(doc) /\ ViewsSound(doc) /\ FoldersSound(doc) /\ PlacesSound(doc)
  BY DEF Sound, Placed
<1>2. ProjectsListedOnce
  <2> SUFFICES ASSUME NEW pr \in Projects, NEW v \in DOMAIN doc.views
               PROVE  Cardinality({i \in DOMAIN doc.views[v].projectIds :
                                     doc.views[v].projectIds[i] = pr})
                        = IF v = doc.projects[pr].view THEN 1 ELSE 0
    BY DEF ProjectsListedOnce
  <2> DEFINE ids == doc.views[v].projectIds  S == {i \in DOMAIN ids : ids[i] = pr}
  <2>1. pr \in DOMAIN doc.projects /\ pr # AutomationSpace BY DEF Projects
  <2>2. IsInjective(ids) /\ (pr \in ToSet(ids) <=> v = doc.projects[pr].view)
    BY <1>1, <2>1 DEF ViewsSound
  <2>3. CASE v = doc.projects[pr].view
    <3>1. PICK i \in DOMAIN ids : ids[i] = pr BY <2>2, <2>3 DEF ToSet
    <3>2. S = {i} BY <2>2, <3>1 DEF IsInjective
    <3> QED BY <2>3, <3>2, FS_Singleton
  <2>4. CASE v # doc.projects[pr].view
    <3>1. S = {} BY <2>2, <2>4 DEF ToSet
    <3> QED BY <2>4, <3>1, FS_EmptySet
  <2> QED BY <2>3, <2>4
<1>3. DerivedCurrent
  <2> SUFFICES ASSUME NEW pr \in DOMAIN doc.projects
               PROVE  LET project == doc.projects[pr]
                      IN /\ project.panelIds = DerivedPanels(doc, pr)
                         /\ project.layout = DerivedLayout(doc, pr, project.active)
                         /\ project.active = None <=> project.panelIds = <<>>
                         /\ project.active # None =>
                              doc.folders[doc.panels[project.active].folder].active
                                = project.active
    BY DEF DerivedCurrent
  <2>1. Derived(doc.projects[pr], doc.folders, doc.panels) BY DEF Sound
  <2>2. doc.projects[pr].folderIds \in Seq(DOMAIN doc.folders) BY <1>1, ProjectPanels
  <2>3. DerivedPanels(doc, pr) = PanelsOf(doc.folders, doc.projects[pr].folderIds)
    BY <2>2, DerivedIs
  <2> QED BY <2>1, <2>3 DEF Derived, DerivedLayout, Occupied
<1>4. LayoutsShowAll
  <2> SUFFICES ASSUME NEW f \in DOMAIN doc.folders
               PROVE  LET shown == doc.folders[f].layout.first \o doc.folders[f].layout.rest
                      IN IsInjective(shown) /\ ToSet(shown) = ToSet(doc.folders[f].panelIds)
    BY DEF LayoutsShowAll
  <2>1. doc.folders[f] \in FolderRecord /\ FolderShows(doc.folders[f])
    BY <1>1, TypedFields DEF PlacesSound
  <2> QED BY <2>1, ShownLayout
<1> QED BY <1>2, <1>3, <1>4

-----------------------------------------------------------------------------
(* syncProject. *)

\* The panel it leaves active: the wanted one if the project has it, else the
\* active panel of a folder that has one.
LEMMA ActiveIs ==
    ASSUME NEW d, Typed(d), FoldersSound(d), PlacesSound(d), NEW pr \in DOMAIN d.projects,
           NEW asked
    PROVE  LET ids == d.projects[pr].folderIds
               panels == PanelsOf(d.folders, ids)
               wanted == IF asked = None THEN d.projects[pr].active ELSE asked
               active == DerivedActive(d, pr, asked)
           IN /\ active \in ToSet(panels) \cup {None}
              /\ active = None <=> panels = <<>>
              /\ wanted \in ToSet(panels) => active = wanted
              /\ wanted \notin ToSet(panels) /\ active # None =>
                   d.folders[d.panels[active].folder].active = active
<1> DEFINE ids == d.projects[pr].folderIds
           panels == PanelsOf(d.folders, ids)
           wanted == IF asked = None THEN d.projects[pr].active ELSE asked
           active == DerivedActive(d, pr, asked)
           S == {f \in DOMAIN d.folders : d.folders[f].active # None}
           candidates == Filtered(ids, S)
<1>1. /\ ids \in Seq(DOMAIN d.folders)
      /\ panels \in Seq(Panel)
      /\ \A p : p \in ToSet(panels)
                  <=> \E f \in ToSet(ids) : p \in ToSet(d.folders[f].panelIds)
  BY ProjectPanels
<1>2. DerivedPanels(d, pr) = panels BY <1>1, DerivedIs
<1>3. active = IF wanted \in ToSet(panels) THEN wanted
               ELSE IF candidates = <<>> THEN None ELSE d.folders[candidates[1]].active
  BY <1>2 DEF DerivedActive
<1> HIDE DEF panels, wanted, active
<1>4. ToSet(panels) = {} <=> panels = <<>> BY <1>1, EmptyIs
<1>5. None \notin ToSet(panels) BY <1>1, EmptyIs, NoneIsNone
<1>6. candidates \in Seq(DOMAIN d.folders) /\ ToSet(candidates) = ToSet(ids) \cap S
  BY <1>1, FilteredKeeps
<1> HIDE DEF candidates
<1>7. \A f \in DOMAIN d.folders :
        /\ d.folders[f].active \in ToSet(d.folders[f].panelIds) \cup {None}
        /\ d.folders[f].active = None <=> d.folders[f].panelIds = <<>>
        /\ d.folders[f].panelIds \in Seq(Panel)
        /\ \A p \in ToSet(d.folders[f].panelIds) : d.panels[p].folder = f
  BY TypedFields DEF PlacesSound, FolderShows, FolderRecord
<1>8. ToSet(ids) \subseteq DOMAIN d.folders BY <1>1, EmptyIs
<1>9. CASE wanted \in ToSet(panels) BY <1>3, <1>4, <1>5, <1>9 DEF panels, wanted, active
<1>10. CASE wanted \notin ToSet(panels) /\ candidates # <<>>
  <2> DEFINE f == candidates[1]
  <2>1. f \in ToSet(candidates) BY <1>6, <1>10, EmptyIs
  <2> HIDE DEF f
  <2>2. f \in ToSet(ids) /\ f \in DOMAIN d.folders /\ d.folders[f].active # None
    BY <1>6, <2>1
  <2>3. active = d.folders[f].active BY <1>3, <1>10 DEF f
  <2>4. active \in ToSet(d.folders[f].panelIds) /\ d.panels[active].folder = f
    BY <1>7, <2>2, <2>3
  <2>5. active \in ToSet(panels) BY <1>1, <2>2, <2>4
  <2> QED BY <1>4, <1>10, <2>2, <2>3, <2>4, <2>5 DEF panels, wanted, active
<1>11. CASE wanted \notin ToSet(panels) /\ candidates = <<>>
  <2>1. \A f \in ToSet(ids) : d.folders[f].active = None
    BY <1>6, <1>8, <1>11, EmptyIs
  <2>2. \A f \in ToSet(ids) : ToSet(d.folders[f].panelIds) = {}
    BY <1>7, <1>8, <2>1, EmptyIs
  <2>3. ToSet(panels) = {} BY <1>1, <2>2
  <2>4. active = None BY <1>3, <1>11
  <2> QED BY <1>4, <1>11, <2>3, <2>4 DEF panels, wanted, active
<1> QED BY <1>9, <1>10, <1>11

\* A stack of panels is a layout.
LEMMA StackTyped ==
    ASSUME NEW ids \in Seq(Panel), NEW active \in Panel \cup {None}
    PROVE  Stack(ids, active) \in Layout
BY EmptySeq DEF Stack, Layout

\* What a step says of a document that rewrites one project's copies.
SameButCopies(d, e, pr) ==
    /\ e.viewOrder = d.viewOrder /\ e.views = d.views /\ e.folders = d.folders
    /\ e.panels = d.panels /\ e.sessions = d.sessions
    /\ DOMAIN e.projects = DOMAIN d.projects
    /\ \A x \in DOMAIN d.projects :
         /\ x # pr => e.projects[x] = d.projects[x]
         /\ e.projects[x].view = d.projects[x].view
         /\ e.projects[x].awaiting = d.projects[x].awaiting
         /\ e.projects[x].folderIds = d.projects[x].folderIds

\* Rewriting what a project copies disturbs no place, reference or session.
LEMMA CopiesKeep ==
    ASSUME NEW d, NEW e, NEW pr, SameButCopies(d, e, pr), Placed(d), Typed(e)
    PROVE  Placed(e)
<1> USE DEF SameButCopies
<1>1. ViewsSound(e) BY DEF Placed, ViewsSound
<1>2. FoldersSound(e) BY DEF Placed, FoldersSound
<1>3. PlacesSound(e) BY DEF Placed, PlacesSound
<1>4. ReferencesSound(e) BY DEF Placed, ReferencesSound
<1>5. SessionsSound(e) BY DEF Placed, SessionsSound
<1> QED BY <1>1, <1>2, <1>3, <1>4, <1>5 DEF Placed

\* syncProject() rewrites the three copies of one project and nothing else.
LEMMA SyncIs ==
    ASSUME NEW d, Typed(d), FoldersSound(d), PlacesSound(d), NEW pr \in DOMAIN d.projects,
           NEW asked
    PROVE  LET e == SyncProject(d, pr, asked)
               ids == d.projects[pr].folderIds
               active == DerivedActive(d, pr, asked)
               panels == PanelsOf(d.folders, ids)
               occ == Occupied(d.folders, ids)
           IN /\ Typed(e)
              /\ SameButCopies(d, e, pr)
              /\ e.projects[pr].panelIds = panels
              /\ e.projects[pr].active = active
              /\ e.projects[pr].layout = IF Len(occ) = 1 THEN d.folders[occ[1]].layout
                                         ELSE Stack(panels, active)
<1> DEFINE e == SyncProject(d, pr, asked)
           ids == d.projects[pr].folderIds
           active == DerivedActive(d, pr, asked)
           panels == PanelsOf(d.folders, ids)
           occ == Occupied(d.folders, ids)
           lay == IF Len(occ) = 1 THEN d.folders[occ[1]].layout ELSE Stack(panels, active)
<1>1. ids \in Seq(DOMAIN d.folders) /\ panels \in Seq(Panel) BY ProjectPanels
<1>2. DerivedPanels(d, pr) = panels BY <1>1, DerivedIs
<1>3. DerivedLayout(d, pr, active) = lay BY <1>2 DEF DerivedLayout, Occupied
<1>4. active \in Panel \cup {None}
  <2>1. active \in ToSet(panels) \cup {None} BY ActiveIs
  <2> QED BY <1>1, <2>1, EmptyIs
<1>5. lay \in Layout
  <2>1. CASE Len(occ) = 1
    <3>1. ToSet(ids) \subseteq DOMAIN d.folders BY <1>1, EmptyIs
    <3>2. occ[1] \in DOMAIN d.folders BY <1>1, <2>1, <3>1, OccupiedIs
    <3> QED BY <2>1, <3>2, TypedFields DEF FolderRecord
  <2>2. CASE Len(occ) # 1
    <3>1. Stack(panels, active) \in Layout BY <1>1, <1>4, StackTyped
    <3> QED BY <2>2, <3>1
  <2> QED BY <2>1, <2>2
<1>6. e = [d EXCEPT !.projects[pr].panelIds = panels, !.projects[pr].active = active,
                    !.projects[pr].layout = lay]
  BY SMTT(30), <1>2, <1>3 DEF SyncProject
<1>7. panels \in Seq(Panel) BY <1>1
<1>8. d.projects[pr] \in ProjectRecord BY TypedFields
<1> HIDE DEF panels, active, lay, e
<1> DEFINE x == [view |-> d.projects[pr].view, awaiting |-> d.projects[pr].awaiting,
                 folderIds |-> d.projects[pr].folderIds,
                 panelIds |-> panels, active |-> active, layout |-> lay]
<1>9. x \in ProjectRecord BY <1>4, <1>5, <1>7, <1>8 DEF ProjectRecord
<1>10. e = [viewOrder |-> d.viewOrder, views |-> d.views,
            projects |-> [d.projects EXCEPT ![pr] = x],
            folders |-> d.folders, panels |-> d.panels, sessions |-> d.sessions]
  <2>1. d = [viewOrder |-> d.viewOrder, views |-> d.views, projects |-> d.projects,
            folders |-> d.folders, panels |-> d.panels, sessions |-> d.sessions]
        /\ d.projects \in [DOMAIN d.projects -> ProjectRecord]
    BY DEF Typed, Fields, Sections, Table
  <2>2. [[[d.projects[pr] EXCEPT !.panelIds = panels] EXCEPT !.active = active]
           EXCEPT !.layout = lay] = x
    <3> DEFINE r == d.projects[pr]
    <3>1. r = [view |-> r.view, awaiting |-> r.awaiting, folderIds |-> r.folderIds,
               panelIds |-> r.panelIds, active |-> r.active, layout |-> r.layout]
      BY <1>8 DEF ProjectRecord
    <3> HIDE DEF r
    <3> DEFINE r1 == [r EXCEPT !.panelIds = panels]
    <3>2. r1 = [view |-> r.view, awaiting |-> r.awaiting, folderIds |-> r.folderIds,
                panelIds |-> panels, active |-> r.active, layout |-> r.layout]
      BY <3>1
    <3> HIDE DEF r1
    <3> DEFINE r2 == [r1 EXCEPT !.active = active]
    <3>3. r2 = [view |-> r.view, awaiting |-> r.awaiting, folderIds |-> r.folderIds,
                panelIds |-> panels, active |-> active, layout |-> r.layout]
      BY <3>2
    <3> HIDE DEF r2
    <3> DEFINE r3 == [r2 EXCEPT !.layout = lay]
    <3>4. r3 = [view |-> r.view, awaiting |-> r.awaiting, folderIds |-> r.folderIds,
                panelIds |-> panels, active |-> active, layout |-> lay]
      BY <3>3
    <3> HIDE DEF r3
    <3>5. r3 = x BY <3>4 DEF r
    <3> QED BY <3>5 DEF r, r1, r2, r3
  <2> HIDE DEF x
  <2>3. e.viewOrder = d.viewOrder /\ e.views = d.views /\ e.folders = d.folders
        /\ e.panels = d.panels /\ e.sessions = d.sessions
    BY <1>6, <2>1
  <2>4. e.projects = [[[d.projects EXCEPT ![pr].panelIds = panels] EXCEPT ![pr].active = active]
                       EXCEPT ![pr].layout = lay]
    BY <1>6, <2>1
  <2>5. e.projects = [d.projects EXCEPT ![pr] = x]
    BY <2>1, <2>2, <2>4
  <2>6. e = [viewOrder |-> e.viewOrder, views |-> e.views, projects |-> e.projects,
            folders |-> e.folders, panels |-> e.panels, sessions |-> e.sessions]
    BY <1>6, <2>1
  <2> QED BY <2>3, <2>5, <2>6
<1> DEFINE q == [d.projects EXCEPT ![pr] = x]
<1>11. q \in [DOMAIN d.projects -> ProjectRecord] /\ DOMAIN q = DOMAIN d.projects
       /\ q[pr] = x /\ \A y \in DOMAIN d.projects : y # pr => q[y] = d.projects[y]
  BY <1>9 DEF Typed, Table
<1>12. x.view = d.projects[pr].view /\ x.awaiting = d.projects[pr].awaiting
       /\ x.folderIds = d.projects[pr].folderIds /\ x.panelIds = panels /\ x.active = active
       /\ x.layout = lay
  OBVIOUS
<1> HIDE DEF x, q
<1>13. /\ e.viewOrder = d.viewOrder /\ e.views = d.views /\ e.projects = q
       /\ e.folders = d.folders /\ e.panels = d.panels /\ e.sessions = d.sessions
  BY <1>10 DEF q
<1>14. Typed(e)
  BY <1>10, <1>11, <1>13 DEF Typed, Fields, Sections, Table, q
<1>15. SameButCopies(d, e, pr) BY <1>11, <1>12, <1>13 DEF SameButCopies
<1> QED BY <1>11, <1>12, <1>13, <1>14, <1>15 DEF e, panels, active, lay

\* After syncProject() the project copies what its folders say, if the panel
\* it asks for is the active one of its folder.
LEMMA SyncDerives ==
    ASSUME NEW d, Placed(d), NEW pr \in DOMAIN d.projects, NEW asked,
           LET wanted == IF asked = None THEN d.projects[pr].active ELSE asked
           IN  wanted \in DOMAIN d.panels /\ d.panels[wanted].project = pr
                 => d.folders[d.panels[wanted].folder].active = wanted
    PROVE  LET e == SyncProject(d, pr, asked)
           IN /\ Placed(e)
              /\ SameButCopies(d, e, pr)
              /\ Derived(e.projects[pr], e.folders, e.panels)
<1> DEFINE e == SyncProject(d, pr, asked)
           ids == d.projects[pr].folderIds
           active == DerivedActive(d, pr, asked)
           panels == PanelsOf(d.folders, ids)
           occ == Occupied(d.folders, ids)
           wanted == IF asked = None THEN d.projects[pr].active ELSE asked
<1>0. Typed(d) /\ FoldersSound(d) /\ PlacesSound(d) BY DEF Placed
<1>1. /\ Typed(e)
      /\ SameButCopies(d, e, pr)
      /\ e.projects[pr].panelIds = panels
      /\ e.projects[pr].active = active
      /\ e.projects[pr].layout = IF Len(occ) = 1 THEN d.folders[occ[1]].layout
                                 ELSE Stack(panels, active)
  BY <1>0, SyncIs
<1>2. /\ active \in ToSet(panels) \cup {None}
      /\ active = None <=> panels = <<>>
      /\ wanted \in ToSet(panels) => active = wanted
      /\ wanted \notin ToSet(panels) /\ active # None =>
           d.folders[d.panels[active].folder].active = active
  BY <1>0, ActiveIs
<1>3. \A p : p \in ToSet(panels) <=> p \in DOMAIN d.panels /\ d.panels[p].project = pr
  BY <1>0, ProjectPanels
<1>4. wanted \in DOMAIN d.panels /\ d.panels[wanted].project = pr
                 => d.folders[d.panels[wanted].folder].active = wanted
  OBVIOUS
<1> HIDE DEF e, active, panels, occ, wanted
<1>5. active # None => d.folders[d.panels[active].folder].active = active
  BY <1>2, <1>3, <1>4
<1>6. Placed(e) BY <1>1, CopiesKeep
<1>7. e.projects[pr].folderIds = ids /\ e.folders = d.folders /\ e.panels = d.panels
  BY <1>1 DEF SameButCopies
<1>8. Derived(e.projects[pr], e.folders, e.panels)
  BY <1>1, <1>2, <1>5, <1>7 DEF Derived, panels, occ
<1> QED BY <1>1, <1>6, <1>8 DEF e

\* What a project copies stays right while its folders show the same panels.
LEMMA DerivedKeeps ==
    ASSUME NEW x, NEW y, NEW F, NEW G, NEW P, NEW Q, NEW T,
           x.folderIds \in Seq(T), ToSet(x.folderIds) \subseteq DOMAIN F \cap DOMAIN G,
           y.folderIds = x.folderIds, y.panelIds = x.panelIds, y.active = x.active,
           y.layout = x.layout,
           \A f \in ToSet(x.folderIds) :
              /\ G[f].panelIds = F[f].panelIds
              /\ G[f].active = F[f].active
              /\ G[f].layout = F[f].layout,
           \A p : x.active = p /\ p # None
                    => Q[p].folder = P[p].folder /\ P[p].folder \in ToSet(x.folderIds),
           Derived(x, F, P)
    PROVE  Derived(y, G, Q)
<1> DEFINE ids == x.folderIds
<1>1. PanelsOf(G, ids) = PanelsOf(F, ids) BY PanelsOfSame
<1>2. Occupied(G, ids) = Occupied(F, ids)
  <2> DEFINE S == {f \in DOMAIN F : F[f].panelIds # <<>>}
             R == {f \in DOMAIN G : G[f].panelIds # <<>>}
  <2>1. ToSet(ids) \cap S = ToSet(ids) \cap R OBVIOUS
  <2> HIDE DEF S, R
  <2>2. Filtered(ids, S) = Filtered(ids, R) BY <2>1, FilteredSame
  <2> QED BY <2>2 DEF Occupied, S, R
<1> DEFINE occ == Occupied(F, ids)
<1>3. Len(occ) = 1 => occ[1] \in ToSet(ids) BY OccupiedIs
<1> HIDE DEF ids, occ
<1>4. Len(occ) = 1 => G[occ[1]].layout = F[occ[1]].layout BY <1>3 DEF ids
<1>5. x.active # None => G[Q[x.active].folder].active = F[P[x.active].folder].active
  OBVIOUS
<1> QED BY <1>1, <1>2, <1>4, <1>5 DEF Derived, ids, occ

-----------------------------------------------------------------------------
(* Records by id. *)

\* A record set under an id.
LEMMA WithKeeps ==
    ASSUME NEW F, NEW S, NEW R, Table(F, S, R), NEW x \in S, NEW v \in R
    PROVE  /\ Table(With(F, x, v), S, R)
           /\ DOMAIN With(F, x, v) = DOMAIN F \cup {x}
           /\ With(F, x, v)[x] = v
           /\ \A y \in DOMAIN F : y # x => With(F, x, v)[y] = F[y]
BY DEF Table, With

\* Ids deleted.
LEMMA WithoutKeeps ==
    ASSUME NEW F, NEW S, NEW R, Table(F, S, R), NEW X
    PROVE  /\ Table(Without(F, X), S, R)
           /\ DOMAIN Without(F, X) = DOMAIN F \ X
           /\ \A y \in DOMAIN F \ X : Without(F, X)[y] = F[y]
BY DEF Table, Without

\* A record replaced under its id.
LEMMA UpdateKeeps ==
    ASSUME NEW F, NEW S, NEW R, Table(F, S, R), NEW x \in DOMAIN F, NEW v \in R
    PROVE  /\ Table([F EXCEPT ![x] = v], S, R)
           /\ DOMAIN [F EXCEPT ![x] = v] = DOMAIN F
           /\ [F EXCEPT ![x] = v][x] = v
           /\ \A y \in DOMAIN F : y # x => [F EXCEPT ![x] = v][y] = F[y]
BY DEF Table

-----------------------------------------------------------------------------
(* What a command leaves alone. *)

\* A project whose folders and panels stay copies them still.
LEMMA CopiesStay ==
    ASSUME NEW d, Sound(d), NEW pr \in DOMAIN d.projects, NEW y, NEW G, NEW Q,
           y.folderIds = d.projects[pr].folderIds,
           y.panelIds = d.projects[pr].panelIds,
           y.active = d.projects[pr].active,
           y.layout = d.projects[pr].layout,
           \A f \in DOMAIN d.folders : d.folders[f].project = pr =>
              /\ f \in DOMAIN G
              /\ G[f].panelIds = d.folders[f].panelIds
              /\ G[f].active = d.folders[f].active
              /\ G[f].layout = d.folders[f].layout,
           \A p \in DOMAIN d.panels : d.panels[p].project = pr =>
              Q[p].folder = d.panels[p].folder
    PROVE  Derived(y, G, Q)
<1> DEFINE x == d.projects[pr]  F == d.folders  P == d.panels
<1>1. Typed(d) /\ FoldersSound(d) /\ PlacesSound(d) BY DEF Sound, Placed
<1>2. /\ x.folderIds \in Seq(DOMAIN F)
      /\ \A f : f \in ToSet(x.folderIds) <=> f \in DOMAIN F /\ F[f].project = pr
      /\ \A p : p \in ToSet(PanelsOf(F, x.folderIds)) <=> p \in DOMAIN P /\ P[p].project = pr
  BY <1>1, ProjectPanels
<1>3. Derived(x, F, P) BY DEF Sound
<1>4. x.active # None => x.active \in DOMAIN P /\ P[x.active].project = pr
  BY <1>2, <1>3 DEF Derived
<1>5. ASSUME x.active # None
      PROVE  P[x.active].folder \in ToSet(x.folderIds)
  BY <1>1, <1>2, <1>4, <1>5 DEF PlacesSound
<1>6. \A p : x.active = p /\ p # None
                    => Q[p].folder = P[p].folder /\ P[p].folder \in ToSet(x.folderIds)
  BY <1>4, <1>5
<1>7. \A f \in ToSet(x.folderIds) :
              /\ f \in DOMAIN F \cap DOMAIN G
              /\ G[f].panelIds = F[f].panelIds
              /\ G[f].active = F[f].active
              /\ G[f].layout = F[f].layout
  BY <1>2
<1>8. ToSet(x.folderIds) \subseteq DOMAIN F \cap DOMAIN G BY <1>7
<1>9. /\ y.folderIds = x.folderIds /\ y.panelIds = x.panelIds /\ y.active = x.active
      /\ y.layout = x.layout
  OBVIOUS
<1> HIDE DEF x, F, P
<1> QED BY <1>2, <1>3, <1>6, <1>7, <1>8, <1>9, DerivedKeeps

\* A command on views and on what places a project in them.
OnlyViews(d, e) ==
    /\ e.folders = d.folders /\ e.panels = d.panels /\ e.sessions = d.sessions
    /\ DOMAIN e.projects = DOMAIN d.projects
    /\ \A x \in DOMAIN d.projects :
         /\ e.projects[x].folderIds = d.projects[x].folderIds
         /\ e.projects[x].panelIds = d.projects[x].panelIds
         /\ e.projects[x].active = d.projects[x].active
         /\ e.projects[x].layout = d.projects[x].layout
         /\ e.projects[x].awaiting => d.projects[x].awaiting

\* A command that rewrites views only needs to keep them sound.
LEMMA OnlyViewsKeeps ==
    ASSUME NEW d, Sound(d), NEW e, Typed(e), ViewsSound(e), OnlyViews(d, e)
    PROVE  Sound(e)
<1> USE DEF OnlyViews
<1>1. Placed(d) BY DEF Sound
<1>2. FoldersSound(e) BY <1>1 DEF Placed, FoldersSound
<1>3. PlacesSound(e) BY <1>1 DEF Placed, PlacesSound
<1>4. ReferencesSound(e) BY <1>1 DEF Placed, ReferencesSound
<1>5. SessionsSound(e) BY <1>1 DEF Placed, FoldersSound, SessionsSound
<1>6. ASSUME NEW pr \in DOMAIN e.projects
      PROVE  Derived(e.projects[pr], e.folders, e.panels)
  BY CopiesStay
<1> QED BY <1>2, <1>3, <1>4, <1>5, <1>6 DEF Sound, Placed

-----------------------------------------------------------------------------
(* Views. *)

\* view.create.
LEMMA ViewCreateSound ==
    ASSUME NEW d, Sound(d), NEW v \in View \ DOMAIN d.views
    PROVE  Sound(ViewCreate(d, v))
<1> DEFINE e == ViewCreate(d, v)
           r == [projectIds |-> <<>>, activeProject |-> None]
<1>1. Typed(d) /\ ViewsSound(d) BY DEF Sound, Placed
<1>2. /\ Fields(e)
      /\ e.viewOrder = Append(d.viewOrder, v) /\ e.views = With(d.views, v, r)
      /\ e.projects = d.projects /\ e.folders = d.folders /\ e.panels = d.panels
      /\ e.sessions = d.sessions
  <2>1. Fields(d) BY <1>1 DEF Typed
  <2> QED BY <2>1 DEF Fields, Sections, ViewCreate
<1>3. <<>> \in Seq(Project) /\ IsInjective(<<>>) /\ ToSet(<<>>) = {} BY EmptyIs
<1>4. r \in ViewRecord BY <1>3 DEF ViewRecord
<1>5. /\ Table(With(d.views, v, r), View, ViewRecord)
      /\ DOMAIN With(d.views, v, r) = DOMAIN d.views \cup {v}
      /\ With(d.views, v, r)[v] = r
      /\ \A y \in DOMAIN d.views : y # v => With(d.views, v, r)[y] = d.views[y]
  <2>1. Table(d.views, View, ViewRecord) BY <1>1 DEF Typed
  <2> HIDE DEF r
  <2> QED BY <1>4, <2>1, WithKeeps
<1>6. /\ Append(d.viewOrder, v) \in Seq(View)
      /\ ToSet(Append(d.viewOrder, v)) = ToSet(d.viewOrder) \cup {v}
      /\ IsInjective(Append(d.viewOrder, v))
      /\ Append(d.viewOrder, v) # <<>>
  <2>1. d.viewOrder \in Seq(View) BY <1>1 DEF Typed
  <2>2. v \notin ToSet(d.viewOrder) /\ IsInjective(d.viewOrder) BY <1>1 DEF ViewsSound
  <2> QED BY <2>1, <2>2, AppendKeeps
<1>7. r.projectIds = <<>> /\ r.activeProject = None OBVIOUS
<1> HIDE DEF e, r
<1>8. Typed(e) BY <1>1, <1>2, <1>5, <1>6 DEF Typed
<1>10. ViewsSound(e)
  <2>1. /\ e.viewOrder # <<>> /\ IsInjective(e.viewOrder)
        /\ ToSet(e.viewOrder) \subseteq DOMAIN e.views
    BY <1>1, <1>5, <1>6, <1>2 DEF ViewsSound
  <2>2. ASSUME NEW w \in DOMAIN e.views
        PROVE  /\ IsInjective(e.views[w].projectIds)
               /\ e.views[w].activeProject \in ToSet(e.views[w].projectIds) \cup {None}
               /\ \A pr \in ToSet(e.views[w].projectIds) :
                    pr \in DOMAIN e.projects /\ e.projects[pr].view = w
    <3>1. CASE w = v BY <1>3, <1>5, <1>7, <1>2, <3>1
    <3>2. CASE w # v BY <1>1, <1>5, <1>2, <3>2 DEF ViewsSound
    <3> QED BY <3>1, <3>2
  <2>3. ASSUME NEW pr \in DOMAIN e.projects
        PROVE  /\ e.projects[pr].view \in DOMAIN e.views
               /\ pr # AutomationSpace => pr \in ToSet(e.views[e.projects[pr].view].projectIds)
    BY <1>1, <1>5, <1>2 DEF ViewsSound
  <2> QED BY <2>1, <2>2, <2>3 DEF ViewsSound
<1>11. OnlyViews(d, e) BY <1>2 DEF OnlyViews
<1> QED BY <1>8, <1>10, <1>11, OnlyViewsKeeps DEF e

\* view.close moves the projects of an empty view, listed nowhere, to the
\* first one left.
LEMMA ViewCloseSound ==
    ASSUME NEW d, Sound(d), NEW v \in DOMAIN d.views, ViewCloseAllowed(d, v)
    PROVE  Sound(ViewClose(d, v))
<1> DEFINE e == ViewClose(d, v)
           order == Removing(d.viewOrder, v)
           home(x) == IF x.view = v THEN [x EXCEPT !.view = order[1]] ELSE x
           q == [pr \in DOMAIN d.projects |-> home(d.projects[pr])]
<1>1. Typed(d) /\ ViewsSound(d) BY DEF Sound, Placed
<1>2. /\ Fields(e)
      /\ e.viewOrder = order /\ e.views = Without(d.views, {v})
      /\ e.projects = q /\ e.folders = d.folders /\ e.panels = d.panels
      /\ e.sessions = d.sessions
  <2>1. Fields(d) BY <1>1 DEF Typed
  <2> QED BY <2>1 DEF Fields, Sections, ViewClose
<1>3. d.views[v].projectIds = <<>> /\ Len(d.viewOrder) > 1 BY DEF ViewCloseAllowed
<1>4. d.viewOrder \in Seq(View) /\ IsInjective(d.viewOrder)
  BY <1>1 DEF Typed, ViewsSound
<1>5. order \in Seq(View) /\ ToSet(order) = ToSet(d.viewOrder) \ {v} /\ IsInjective(order)
  BY <1>4, RemovingKeeps
<1>6. order # <<>> /\ order[1] \in ToSet(order)
  <2>1. 1 \in DOMAIN d.viewOrder /\ 2 \in DOMAIN d.viewOrder BY <1>3, <1>4
  <2>2. d.viewOrder[1] # d.viewOrder[2] BY <1>4, <2>1 DEF IsInjective
  <2>2a. d.viewOrder[1] \in ToSet(d.viewOrder) /\ d.viewOrder[2] \in ToSet(d.viewOrder)
    BY <2>1 DEF ToSet
  <2>3. ToSet(order) # {} BY <1>5, <2>2, <2>2a
  <2> HIDE DEF order
  <2> QED BY <1>5, <2>3, EmptyIs
<1>7. order[1] \in DOMAIN d.views \ {v} BY <1>1, <1>5, <1>6 DEF ViewsSound
<1>8. /\ Table(Without(d.views, {v}), View, ViewRecord)
      /\ DOMAIN Without(d.views, {v}) = DOMAIN d.views \ {v}
      /\ \A y \in DOMAIN d.views \ {v} : Without(d.views, {v})[y] = d.views[y]
  <2>1. Table(d.views, View, ViewRecord) BY <1>1 DEF Typed
  <2> QED BY <2>1, WithoutKeeps
<1> HIDE DEF order
<1>9. ASSUME NEW pr \in DOMAIN d.projects
      PROVE  /\ q[pr] \in ProjectRecord
             /\ q[pr].view = IF d.projects[pr].view = v THEN order[1] ELSE d.projects[pr].view
             /\ q[pr].folderIds = d.projects[pr].folderIds
             /\ q[pr].panelIds = d.projects[pr].panelIds
             /\ q[pr].active = d.projects[pr].active
             /\ q[pr].layout = d.projects[pr].layout
             /\ q[pr].awaiting = d.projects[pr].awaiting
  <2>1. d.projects[pr] \in ProjectRecord /\ order[1] \in View
    BY <1>1, <1>7, TypedFields
  <2> QED BY <2>1 DEF ProjectRecord
<1>10. Table(q, AnyProject, ProjectRecord) /\ DOMAIN q = DOMAIN d.projects
  BY <1>1, <1>9 DEF Table, Typed
<1> HIDE DEF e, q
<1>11. Typed(e) BY <1>1, <1>2, <1>5, <1>8, <1>10 DEF Typed
<1>13. ViewsSound(e)
  <2>1. /\ e.viewOrder # <<>> /\ IsInjective(e.viewOrder)
        /\ ToSet(e.viewOrder) \subseteq DOMAIN e.views
    BY <1>1, <1>5, <1>6, <1>8, <1>2 DEF ViewsSound
  <2>2. ASSUME NEW w \in DOMAIN e.views
        PROVE  /\ IsInjective(e.views[w].projectIds)
               /\ e.views[w].activeProject \in ToSet(e.views[w].projectIds) \cup {None}
               /\ \A pr \in ToSet(e.views[w].projectIds) :
                    pr \in DOMAIN e.projects /\ e.projects[pr].view = w
    <3>1. w \in DOMAIN d.views /\ w # v /\ e.views[w] = d.views[w] BY <1>8, <1>2
    <3>2. /\ IsInjective(d.views[w].projectIds)
          /\ d.views[w].activeProject \in ToSet(d.views[w].projectIds) \cup {None}
          /\ \A pr \in ToSet(d.views[w].projectIds) :
                    pr \in DOMAIN d.projects /\ d.projects[pr].view = w
      BY <1>1, <3>1 DEF ViewsSound
    <3>3. \A pr \in ToSet(d.views[w].projectIds) :
                    pr \in DOMAIN e.projects /\ e.projects[pr].view = w
      BY <1>9, <1>10, <1>2, <3>1, <3>2
    <3> QED BY <3>1, <3>2, <3>3
  <2>3. ASSUME NEW pr \in DOMAIN e.projects
        PROVE  /\ e.projects[pr].view \in DOMAIN e.views
               /\ pr # AutomationSpace => pr \in ToSet(e.views[e.projects[pr].view].projectIds)
    <3>1. pr \in DOMAIN d.projects BY <1>10, <1>2
    <3>2. CASE d.projects[pr].view = v
      <4>1. pr = AutomationSpace BY <1>1, <1>3, <3>1, <3>2, EmptyIs DEF ViewsSound
      <4> QED BY <1>7, <1>8, <1>9, <1>2, <3>1, <3>2, <4>1
    <3>3. CASE d.projects[pr].view # v
      <4>1. e.projects[pr].view = d.projects[pr].view BY <1>9, <1>2, <3>1, <3>3
      <4>2. /\ d.projects[pr].view \in DOMAIN d.views \ {v}
            /\ pr # AutomationSpace => pr \in ToSet(d.views[d.projects[pr].view].projectIds)
        BY <1>1, <3>1, <3>3 DEF ViewsSound
      <4>3. e.views[d.projects[pr].view] = d.views[d.projects[pr].view] BY <1>8, <1>2, <4>2
      <4> QED BY <1>8, <1>2, <4>1, <4>2, <4>3
    <3> QED BY <3>2, <3>3
  <2> QED BY <2>1, <2>2, <2>3 DEF ViewsSound
<1>14. OnlyViews(d, e) BY <1>9, <1>10, <1>2 DEF OnlyViews
<1> QED BY <1>11, <1>13, <1>14, OnlyViewsKeeps DEF e

-----------------------------------------------------------------------------
(* Projects. *)

\* A view whose list and active project are replaced.
LEMMA WithActiveProjectIs ==
    ASSUME NEW view \in ViewRecord, NEW ids \in Seq(Project), NEW active \in Project \cup {None}
    PROVE  /\ WithActiveProject(view, ids, active) \in ViewRecord
           /\ WithActiveProject(view, ids, active).projectIds = ids
           /\ WithActiveProject(view, ids, active).activeProject = active
BY DEF WithActiveProject, ViewRecord

\* The view a project leaves.
LEMMA LeftView ==
    ASSUME NEW view \in ViewRecord, IsInjective(view.projectIds),
           view.activeProject \in ToSet(view.projectIds) \cup {None}, NEW pr
    PROVE  LET left == Removing(view.projectIds, pr)
               next == IF view.activeProject # pr THEN view.activeProject
                       ELSE IF left = <<>> THEN None ELSE left[1]
               e == WithActiveProject(view, left, next)
           IN /\ e \in ViewRecord
              /\ IsInjective(e.projectIds)
              /\ ToSet(e.projectIds) = ToSet(view.projectIds) \ {pr}
              /\ e.activeProject \in ToSet(e.projectIds) \cup {None}
<1> DEFINE left == Removing(view.projectIds, pr)
           next == IF view.activeProject # pr THEN view.activeProject
                   ELSE IF left = <<>> THEN None ELSE left[1]
           e == WithActiveProject(view, left, next)
<1>1. view.projectIds \in Seq(Project) BY DEF ViewRecord
<1>2. left \in Seq(Project) /\ IsInjective(left) /\ ToSet(left) = ToSet(view.projectIds) \ {pr}
  BY <1>1, RemovingKeeps
<1> HIDE DEF left
<1>3. next \in ToSet(left) \cup {None} BY <1>2, EmptyIs
<1>4. next \in Project \cup {None} BY <1>2, <1>3, EmptyIs
<1> HIDE DEF next
<1> QED BY <1>2, <1>3, <1>4, WithActiveProjectIs DEF left, next

\* project.root.update and project.start.
LEMMA ProjectRootUpdateSound ==
    ASSUME NEW d, Sound(d), NEW pr \in DOMAIN d.projects
    PROVE  Sound(ProjectRootUpdate(d, pr))
<1> DEFINE e == ProjectRootUpdate(d, pr)
           x == [d.projects[pr] EXCEPT !.awaiting = FALSE]
<1>1. Typed(d) /\ ViewsSound(d) BY DEF Sound, Placed
<1>2. /\ Fields(e)
      /\ e.viewOrder = d.viewOrder /\ e.views = d.views
      /\ e.projects = [d.projects EXCEPT ![pr] = x]
      /\ e.folders = d.folders /\ e.panels = d.panels /\ e.sessions = d.sessions
  <2>1. Fields(d) BY <1>1 DEF Typed
  <2> QED BY <2>1 DEF Fields, Sections, ProjectRootUpdate
<1>3. /\ x \in ProjectRecord /\ x.awaiting = FALSE
      /\ x.view = d.projects[pr].view /\ x.folderIds = d.projects[pr].folderIds
      /\ x.panelIds = d.projects[pr].panelIds /\ x.active = d.projects[pr].active
      /\ x.layout = d.projects[pr].layout
  BY <1>1, TypedFields DEF ProjectRecord
<1> HIDE DEF e, x
<1>4. /\ Table(e.projects, AnyProject, ProjectRecord)
      /\ DOMAIN e.projects = DOMAIN d.projects
      /\ e.projects[pr] = x
      /\ \A y \in DOMAIN d.projects : y # pr => e.projects[y] = d.projects[y]
  BY <1>1, <1>2, <1>3, UpdateKeeps DEF Typed
<1>5. Typed(e) BY <1>1, <1>2, <1>4 DEF Typed
<1>6. ViewsSound(e)
  <2>1. \A y \in DOMAIN d.projects : e.projects[y].view = d.projects[y].view BY <1>3, <1>4
  <2> QED BY <1>1, <1>2, <1>4, <2>1 DEF ViewsSound
<1>7. OnlyViews(d, e) BY <1>2, <1>3, <1>4 DEF OnlyViews
<1> QED BY <1>5, <1>6, <1>7, OnlyViewsKeeps DEF e

\* project.activate.
LEMMA ProjectActivateSound ==
    ASSUME NEW d, Sound(d), NEW pr \in DOMAIN d.projects, pr # AutomationSpace
    PROVE  Sound(ProjectActivate(d, pr))
<1> DEFINE e == ProjectActivate(d, pr)
           v == d.projects[pr].view
           x == [d.views[v] EXCEPT !.activeProject = pr]
<1>1. Typed(d) /\ ViewsSound(d) BY DEF Sound, Placed
<1>2. /\ Fields(e)
      /\ e.viewOrder = d.viewOrder /\ e.views = [d.views EXCEPT ![v] = x]
      /\ e.projects = d.projects
      /\ e.folders = d.folders /\ e.panels = d.panels /\ e.sessions = d.sessions
  <2>1. Fields(d) BY <1>1 DEF Typed
  <2> QED BY <2>1 DEF Fields, Sections, ProjectActivate
<1>3. v \in DOMAIN d.views /\ pr \in ToSet(d.views[v].projectIds)
  BY <1>1 DEF ViewsSound
<1>4. pr \in Project BY <1>1, TypedFields DEF AnyProject
<1>5. x \in ViewRecord /\ x.activeProject = pr /\ x.projectIds = d.views[v].projectIds
  BY <1>1, <1>3, <1>4, TypedFields DEF ViewRecord
<1> HIDE DEF e, x, v
<1>6. /\ Table(e.views, View, ViewRecord)
      /\ DOMAIN e.views = DOMAIN d.views
      /\ e.views[v] = x
      /\ \A y \in DOMAIN d.views : y # v => e.views[y] = d.views[y]
  BY <1>1, <1>2, <1>3, <1>5, UpdateKeeps DEF Typed
<1>7. Typed(e) BY <1>1, <1>2, <1>6 DEF Typed
<1>8. ViewsSound(e)
  <2>1. \A y \in DOMAIN d.views : /\ e.views[y].projectIds = d.views[y].projectIds
                                  /\ \/ e.views[y].activeProject = d.views[y].activeProject
                                     \/ e.views[y].activeProject \in ToSet(d.views[y].projectIds)
    BY <1>3, <1>5, <1>6
  <2> QED BY <1>1, <1>2, <1>6, <2>1 DEF ViewsSound
<1>9. OnlyViews(d, e) BY <1>2 DEF OnlyViews
<1> QED BY <1>7, <1>8, <1>9, OnlyViewsKeeps DEF e

\* project.move: the project leaves its view's list for one place of the
\* target's, also when both are one view.
LEMMA ProjectMoveSound ==
    ASSUME NEW d, Sound(d), NEW pr \in DOMAIN d.projects, pr # AutomationSpace,
           NEW v \in DOMAIN d.views,
           NEW i \in Positions(Removing(d.views[v].projectIds, pr))
    PROVE  Sound(ProjectMove(d, pr, v, i))
<1> DEFINE e == ProjectMove(d, pr, v, i)
           u == d.projects[pr].view
           from == d.views[u]
           to == d.views[v]
           left == Removing(from.projectIds, pr)
           next == IF from.activeProject # pr THEN from.activeProject
                   ELSE IF left = <<>> THEN None ELSE left[1]
           a == WithActiveProject(from, left, next)
           b == WithActiveProject(to, Spliced(Removing(to.projectIds, pr), i, pr), pr)
           x == [d.projects[pr] EXCEPT !.view = v]
<1>1. Typed(d) /\ ViewsSound(d) BY DEF Sound, Placed
<1>2. /\ Fields(e)
      /\ e.viewOrder = d.viewOrder
      /\ e.views = [[d.views EXCEPT ![u] = a] EXCEPT ![v] = b]
      /\ e.projects = [d.projects EXCEPT ![pr] = x]
      /\ e.folders = d.folders /\ e.panels = d.panels /\ e.sessions = d.sessions
  <2>1. Fields(d) BY <1>1 DEF Typed
  <2>2. d.views \in [DOMAIN d.views -> ViewRecord] BY <1>1 DEF Typed, Table
  <2>3. e = [d EXCEPT !.views[u] = WithActiveProject(@, left, next),
                      !.views[v] = b, !.projects[pr].view = v]
    BY DEF ProjectMove
  <2> HIDE DEF b, left, next
  <2> QED BY <2>1, <2>2, <2>3 DEF Fields, Sections
<1>3. u \in DOMAIN d.views /\ pr \in ToSet(from.projectIds)
  BY <1>1 DEF ViewsSound
<1>4. pr \in Project BY <1>1, TypedFields DEF AnyProject
<1>5. /\ a \in ViewRecord /\ IsInjective(a.projectIds)
      /\ ToSet(a.projectIds) = ToSet(from.projectIds) \ {pr}
      /\ a.activeProject \in ToSet(a.projectIds) \cup {None}
  <2>1. /\ from \in ViewRecord /\ IsInjective(from.projectIds)
        /\ from.activeProject \in ToSet(from.projectIds) \cup {None}
    BY <1>1, <1>3, TypedFields DEF ViewsSound
  <2> HIDE DEF from
  <2> QED BY <2>1, LeftView
<1>6. /\ b \in ViewRecord /\ IsInjective(b.projectIds)
      /\ ToSet(b.projectIds) = ToSet(to.projectIds) \cup {pr}
      /\ b.activeProject \in ToSet(b.projectIds) \cup {None}
  <2> DEFINE others == Removing(to.projectIds, pr)  ids == Spliced(others, i, pr)
  <2>1. to \in ViewRecord /\ IsInjective(to.projectIds) /\ to.projectIds \in Seq(Project)
    BY <1>1, TypedFields DEF ViewsSound, ViewRecord
  <2> HIDE DEF to
  <2>2. /\ others \in Seq(Project) /\ ToSet(others) = ToSet(to.projectIds) \ {pr}
        /\ IsInjective(others)
    BY <2>1, RemovingKeeps
  <2>3. i \in 0..Len(others) BY DEF Positions, to
  <2> HIDE DEF others
  <2>4. ids \in Seq(Project) /\ ToSet(ids) = ToSet(others) \cup {pr} /\ IsInjective(ids)
    BY <1>4, <2>2, <2>3, SplicedKeeps
  <2> HIDE DEF ids
  <2>5. b = WithActiveProject(to, ids, pr) BY DEF ids, others
  <2>6. b \in ViewRecord /\ b.projectIds = ids /\ b.activeProject = pr
    BY <1>4, <2>1, <2>4, <2>5, WithActiveProjectIs
  <2> HIDE DEF b
  <2> QED BY <2>2, <2>4, <2>6
<1>7. /\ x \in ProjectRecord /\ x.view = v
      /\ x.awaiting = d.projects[pr].awaiting /\ x.folderIds = d.projects[pr].folderIds
      /\ x.panelIds = d.projects[pr].panelIds /\ x.active = d.projects[pr].active
      /\ x.layout = d.projects[pr].layout
  <2>1. v \in View BY <1>1, TypedFields
  <2> QED BY <1>1, <2>1, TypedFields DEF ProjectRecord
<1> HIDE DEF e, x, a, b
<1>8. /\ Table(e.projects, AnyProject, ProjectRecord)
      /\ DOMAIN e.projects = DOMAIN d.projects
      /\ e.projects[pr] = x
      /\ \A y \in DOMAIN d.projects : y # pr => e.projects[y] = d.projects[y]
  BY <1>1, <1>2, <1>7, UpdateKeeps DEF Typed
<1>9. /\ Table(e.views, View, ViewRecord)
      /\ DOMAIN e.views = DOMAIN d.views
      /\ e.views[v] = b
      /\ u # v => e.views[u] = a
      /\ \A y \in DOMAIN d.views : y # v /\ y # u => e.views[y] = d.views[y]
  <2> DEFINE F == [d.views EXCEPT ![u] = a]
  <2>1. /\ Table(F, View, ViewRecord) /\ DOMAIN F = DOMAIN d.views /\ F[u] = a
        /\ \A y \in DOMAIN d.views : y # u => F[y] = d.views[y]
    BY <1>1, <1>3, <1>5, UpdateKeeps DEF Typed
  <2> HIDE DEF F
  <2>2. e.views = [F EXCEPT ![v] = b] BY <1>2 DEF F
  <2>3. /\ Table(e.views, View, ViewRecord) /\ DOMAIN e.views = DOMAIN F /\ e.views[v] = b
        /\ \A y \in DOMAIN F : y # v => e.views[y] = F[y]
    <3>1. v \in DOMAIN F /\ b \in ViewRecord BY <1>6, <2>1
    <3>2. Table(F, View, ViewRecord) BY <2>1
    <3> QED BY <2>2, <3>1, <3>2, UpdateKeeps
  <2> QED BY <1>3, <2>1, <2>3
<1>10. Typed(e) BY <1>1, <1>2, <1>8, <1>9 DEF Typed
<1>11. ViewsSound(e)
  <2>1. /\ e.viewOrder # <<>> /\ IsInjective(e.viewOrder)
        /\ ToSet(e.viewOrder) \subseteq DOMAIN e.views
    BY <1>1, <1>2, <1>9 DEF ViewsSound
  <2>2. ASSUME NEW w \in DOMAIN e.views
        PROVE  /\ IsInjective(e.views[w].projectIds)
               /\ e.views[w].activeProject \in ToSet(e.views[w].projectIds) \cup {None}
               /\ \A y \in ToSet(e.views[w].projectIds) :
                    y \in DOMAIN e.projects /\ e.projects[y].view = w
    <3>1. /\ IsInjective(d.views[w].projectIds)
          /\ d.views[w].activeProject \in ToSet(d.views[w].projectIds) \cup {None}
          /\ \A y \in ToSet(d.views[w].projectIds) :
               y \in DOMAIN d.projects /\ d.projects[y].view = w
      BY <1>1, <1>9 DEF ViewsSound
    <3>2. CASE w = v
      <4>1. \A y \in ToSet(b.projectIds) : y \in DOMAIN e.projects /\ e.projects[y].view = w
        BY <1>6, <1>7, <1>8, <3>1, <3>2
      <4> QED BY <1>6, <1>9, <3>2, <4>1
    <3>3. CASE w # v /\ w = u
      <4>1. \A y \in ToSet(a.projectIds) : y \in DOMAIN e.projects /\ e.projects[y].view = w
        BY <1>5, <1>8, <3>1, <3>3
      <4> QED BY <1>5, <1>9, <3>3, <4>1
    <3>4. CASE w # v /\ w # u
      <4>1. e.views[w] = d.views[w] BY <1>9, <3>4
      <4>2. \A y \in ToSet(d.views[w].projectIds) : y \in DOMAIN e.projects /\ e.projects[y].view = w
        BY <1>8, <3>1, <3>4
      <4> QED BY <3>1, <4>1, <4>2
    <3> QED BY <3>2, <3>3, <3>4
  <2>3. ASSUME NEW y \in DOMAIN e.projects
        PROVE  /\ e.projects[y].view \in DOMAIN e.views
               /\ y # AutomationSpace => y \in ToSet(e.views[e.projects[y].view].projectIds)
    <3>1. CASE y = pr BY <1>6, <1>7, <1>8, <1>9, <3>1
    <3>2. CASE y # pr
      <4> DEFINE w == d.projects[y].view
      <4>1. e.projects[y].view = w /\ w \in DOMAIN d.views
            /\ (y # AutomationSpace => y \in ToSet(d.views[w].projectIds))
        BY <1>1, <1>8, <3>2 DEF ViewsSound
      <4> HIDE DEF w
      <4>2. y \in ToSet(d.views[w].projectIds) => y \in ToSet(e.views[w].projectIds)
        BY <1>5, <1>6, <1>9, <3>2, <4>1
      <4> QED BY <1>9, <4>1, <4>2
    <3> QED BY <3>1, <3>2
  <2> QED BY <2>1, <2>2, <2>3 DEF ViewsSound
<1>12. OnlyViews(d, e) BY <1>2, <1>7, <1>8 DEF OnlyViews
<1> QED BY <1>10, <1>11, <1>12, OnlyViewsKeeps DEF e

\* A new folder is typed, and shows nothing.
LEMMA NewFolderIs ==
    ASSUME NEW pr \in AnyProject, NEW kind \in {"general", "plain", "linked"},
           NEW link \in Link \cup {None}, NEW creator \in Panel \cup {None}
    PROVE  LET folder == NewFolder(pr, kind, link, creator)
           IN /\ folder \in FolderRecord /\ FolderShows(folder)
              /\ folder.project = pr /\ folder.kind = kind /\ folder.worktree = link
              /\ folder.panelIds = <<>> /\ folder.active = None
              /\ folder.creator = creator /\ folder.offer = None
<1> DEFINE folder == NewFolder(pr, kind, link, creator)
<1>1. folder = [project |-> pr, kind |-> kind, worktree |-> link, panelIds |-> <<>>,
                active |-> None, layout |-> Stack(<<>>, None), creator |-> creator,
                offer |-> None]
  BY DEF NewFolder
<1>2. Stack(<<>>, None) \in Layout BY StackTyped, EmptySeq
<1>3. <<>> \in Seq(Panel) /\ IsInjective(<<>>) BY EmptyIs
<1>4. folder \in FolderRecord BY <1>1, <1>2, <1>3 DEF FolderRecord
<1>5. FolderShows(folder) BY <1>1, <1>3 DEF FolderShows
<1> QED BY <1>1, <1>4, <1>5

\* A new project is typed, with one folder.
LEMMA NewProjectIs ==
    ASSUME NEW v \in View, NEW f \in Folder, NEW awaiting \in BOOLEAN
    PROVE  LET x == NewProject(v, f, awaiting)
           IN /\ x \in ProjectRecord
              /\ x.view = v /\ x.awaiting = awaiting /\ x.folderIds = <<f>>
              /\ x.panelIds = <<>> /\ x.active = None /\ x.layout = Stack(<<>>, None)
<1> DEFINE x == NewProject(v, f, awaiting)
<1>1. x = [view |-> v, awaiting |-> awaiting, folderIds |-> <<f>>, panelIds |-> <<>>,
           active |-> None, layout |-> Stack(<<>>, None)]
  BY DEF NewProject
<1>2. Stack(<<>>, None) \in Layout BY StackTyped, EmptySeq
<1>3. <<>> \in Seq(Panel) /\ <<f>> \in Seq(Folder) BY EmptyIs, SingleIs
<1>4. x \in ProjectRecord BY <1>1, <1>2, <1>3 DEF ProjectRecord
<1> QED BY <1>1, <1>4

\* A project with its General folder is added to the workspace.
AddsProject(d, e, pr, v, f, awaiting) ==
    /\ e.projects = With(d.projects, pr, NewProject(v, f, awaiting))
    /\ e.folders = With(d.folders, f, NewFolder(pr, "general", None, None))
    /\ e.panels = d.panels /\ e.sessions = d.sessions

ProjectAdded(d, e, pr, v, f, awaiting) ==
    /\ Table(e.projects, AnyProject, ProjectRecord)
    /\ DOMAIN e.projects = DOMAIN d.projects \cup {pr}
    /\ e.projects[pr].view = v /\ e.projects[pr].awaiting = awaiting
    /\ e.projects[pr].folderIds = <<f>> /\ e.projects[pr].panelIds = <<>>
    /\ e.projects[pr].active = None /\ e.projects[pr].layout = Stack(<<>>, None)
    /\ \A y \in DOMAIN d.projects : y # pr /\ e.projects[y] = d.projects[y]
    /\ Table(e.folders, Folder, FolderRecord)
    /\ DOMAIN e.folders = DOMAIN d.folders \cup {f}
    /\ FolderShows(e.folders[f])
    /\ e.folders[f].project = pr /\ e.folders[f].kind = "general"
    /\ e.folders[f].worktree = None
    /\ e.folders[f].panelIds = <<>> /\ e.folders[f].active = None
    /\ e.folders[f].creator = None /\ e.folders[f].offer = None
    /\ \A g \in DOMAIN d.folders : g # f /\ e.folders[g] = d.folders[g]

\* What a document with a project and its General folder more keeps.
LEMMA AddsProjectIs ==
    ASSUME NEW d, Typed(d), NEW e, NEW pr \in AnyProject \ DOMAIN d.projects, NEW v \in View,
           NEW f \in Folder \ DOMAIN d.folders, NEW awaiting \in BOOLEAN,
           AddsProject(d, e, pr, v, f, awaiting)
    PROVE  ProjectAdded(d, e, pr, v, f, awaiting)
<1> DEFINE x == NewProject(v, f, awaiting)  r == NewFolder(pr, "general", None, None)
<1>1. /\ x \in ProjectRecord
      /\ x.view = v /\ x.awaiting = awaiting /\ x.folderIds = <<f>>
      /\ x.panelIds = <<>> /\ x.active = None /\ x.layout = Stack(<<>>, None)
  BY NewProjectIs
<1>2. /\ r \in FolderRecord /\ FolderShows(r)
      /\ r.project = pr /\ r.kind = "general" /\ r.worktree = None
      /\ r.panelIds = <<>> /\ r.active = None /\ r.creator = None /\ r.offer = None
  BY NewFolderIs
<1>3. e.projects = With(d.projects, pr, x) /\ e.folders = With(d.folders, f, r)
  BY DEF AddsProject
<1> HIDE DEF x, r
<1>4. Table(d.projects, AnyProject, ProjectRecord) /\ Table(d.folders, Folder, FolderRecord)
  BY DEF Typed
<1>5. /\ Table(e.projects, AnyProject, ProjectRecord)
      /\ DOMAIN e.projects = DOMAIN d.projects \cup {pr}
      /\ e.projects[pr] = x
      /\ \A y \in DOMAIN d.projects : y # pr /\ e.projects[y] = d.projects[y]
  <2>1. pr \in AnyProject /\ pr \notin DOMAIN d.projects OBVIOUS
  <2>a. x \in ProjectRecord BY <1>1
  <2>c. pr \in AnyProject OBVIOUS
  <2> DEFINE F == d.projects
  <2>d. Table(F, AnyProject, ProjectRecord) BY <1>4
  <2> HIDE DEF F
  <2>2. /\ Table(With(F, pr, x), AnyProject, ProjectRecord)
        /\ DOMAIN With(F, pr, x) = DOMAIN F \cup {pr}
        /\ With(F, pr, x)[pr] = x
        /\ \A y \in DOMAIN F : y # pr => With(F, pr, x)[y] = F[y]
    BY <2>a, <2>c, <2>d, WithKeeps
  <2> QED BY <1>3, <2>1, <2>2 DEF F
<1>6. /\ Table(e.folders, Folder, FolderRecord)
      /\ DOMAIN e.folders = DOMAIN d.folders \cup {f}
      /\ e.folders[f] = r
      /\ \A g \in DOMAIN d.folders : g # f /\ e.folders[g] = d.folders[g]
  <2>1. f \in Folder /\ f \notin DOMAIN d.folders OBVIOUS
  <2>a. r \in FolderRecord BY <1>2
  <2>b. Table(d.folders, Folder, FolderRecord) BY <1>4
  <2>c. f \in Folder OBVIOUS
  <2>2. /\ Table(With(d.folders, f, r), Folder, FolderRecord)
        /\ DOMAIN With(d.folders, f, r) = DOMAIN d.folders \cup {f}
        /\ With(d.folders, f, r)[f] = r
        /\ \A y \in DOMAIN d.folders : y # f => With(d.folders, f, r)[y] = d.folders[y]
    BY <2>a, <2>b, <2>c, WithKeeps
  <2> QED BY <1>3, <2>1, <2>2
<1> QED BY <1>1, <1>2, <1>5, <1>6 DEF ProjectAdded

\* A project with an empty General folder copies nothing, and disturbs no
\* other.
LEMMA AddsProjectSound ==
    ASSUME NEW d, Sound(d), NEW e, NEW pr \in AnyProject \ DOMAIN d.projects, NEW v \in View,
           NEW f \in Folder \ DOMAIN d.folders, NEW awaiting \in BOOLEAN,
           awaiting => pr # AutomationSpace,
           AddsProject(d, e, pr, v, f, awaiting), Typed(e), ViewsSound(e)
    PROVE  Sound(e)
<1>1. /\ Typed(d) /\ FoldersSound(d) /\ PlacesSound(d) /\ ReferencesSound(d) /\ SessionsSound(d)
  BY DEF Sound, Placed
<1>2. /\ DOMAIN e.projects = DOMAIN d.projects \cup {pr}
      /\ e.projects[pr].view = v /\ e.projects[pr].awaiting = awaiting
      /\ e.projects[pr].folderIds = <<f>> /\ e.projects[pr].panelIds = <<>>
      /\ e.projects[pr].active = None /\ e.projects[pr].layout = Stack(<<>>, None)
      /\ \A y \in DOMAIN d.projects : y # pr /\ e.projects[y] = d.projects[y]
      /\ Table(e.folders, Folder, FolderRecord)
      /\ DOMAIN e.folders = DOMAIN d.folders \cup {f}
      /\ FolderShows(e.folders[f])
      /\ e.folders[f].project = pr /\ e.folders[f].kind = "general"
      /\ e.folders[f].worktree = None
      /\ e.folders[f].panelIds = <<>> /\ e.folders[f].active = None
      /\ e.folders[f].creator = None /\ e.folders[f].offer = None
      /\ \A g \in DOMAIN d.folders : g # f /\ e.folders[g] = d.folders[g]
  <2>1. ProjectAdded(d, e, pr, v, f, awaiting) BY <1>1, AddsProjectIs
  <2> QED BY <2>1 DEF ProjectAdded
<1>3. e.panels = d.panels /\ e.sessions = d.sessions BY DEF AddsProject
<1>4. <<f>> \in Seq(Folder) /\ ToSet(<<f>>) = {f} /\ IsInjective(<<f>>) BY SingleIs
<1>5. ToSet(<<>>) = {} BY EmptyIs
<1>6. FoldersSound(e)
  <2>1. ASSUME NEW y \in DOMAIN e.projects
        PROVE  /\ IsInjective(e.projects[y].folderIds)
               /\ \A g \in ToSet(e.projects[y].folderIds) :
                    g \in DOMAIN e.folders /\ e.folders[g].project = y
               /\ \E h \in ToSet(e.projects[y].folderIds) :
                    \A g \in ToSet(e.projects[y].folderIds) :
                       e.folders[g].kind = "general" <=> g = h
    <3>1. CASE y = pr BY SMTT(30), <1>2, <1>4, <3>1
    <3>2. CASE y # pr
      <4>1. y \in DOMAIN d.projects /\ e.projects[y] = d.projects[y] BY <1>2, <3>2
      <4>2. /\ IsInjective(d.projects[y].folderIds)
            /\ \A g \in ToSet(d.projects[y].folderIds) :
                 g \in DOMAIN d.folders /\ d.folders[g].project = y
            /\ \E h \in ToSet(d.projects[y].folderIds) :
                 \A g \in ToSet(d.projects[y].folderIds) :
                    d.folders[g].kind = "general" <=> g = h
        BY <1>1, <4>1 DEF FoldersSound
      <4> QED BY <1>2, <4>1, <4>2
    <3> QED BY <3>1, <3>2
  <2>2. ASSUME NEW g \in DOMAIN e.folders
        PROVE  /\ e.folders[g].project \in DOMAIN e.projects
               /\ g \in ToSet(e.projects[e.folders[g].project].folderIds)
               /\ e.folders[g].kind = "linked" <=> e.folders[g].worktree # None
    <3>1. CASE g = f BY <1>2, <1>4, <3>1
    <3>2. CASE g # f BY <1>1, <1>2, <3>2 DEF FoldersSound
    <3> QED BY <3>1, <3>2
  <2>3. ASSUME NEW g \in DOMAIN e.folders, NEW h \in DOMAIN e.folders,
               e.folders[g].worktree # None, e.folders[g].worktree = e.folders[h].worktree,
               e.folders[g].project = e.folders[h].project
        PROVE  g = h
    BY <1>1, <1>2, <2>3 DEF FoldersSound
  <2> QED BY <2>1, <2>2, <2>3 DEF FoldersSound
<1>7. PlacesSound(e)
  <2>1. ASSUME NEW g \in DOMAIN e.folders
        PROVE  /\ FolderShows(e.folders[g])
               /\ \A p \in ToSet(e.folders[g].panelIds) :
                    p \in DOMAIN e.panels /\ e.panels[p].folder = g
    <3>1. CASE g = f BY <1>2, <1>5, <3>1
    <3>2. CASE g # f BY <1>1, <1>2, <1>3, <3>2 DEF PlacesSound
    <3> QED BY <3>1, <3>2
  <2>2. ASSUME NEW p \in DOMAIN e.panels
        PROVE  /\ e.panels[p].folder \in DOMAIN e.folders
               /\ e.folders[e.panels[p].folder].project = e.panels[p].project
               /\ p \in ToSet(e.folders[e.panels[p].folder].panelIds)
    BY <1>1, <1>2, <1>3 DEF PlacesSound
  <2> QED BY <2>1, <2>2 DEF PlacesSound
<1>8. ReferencesSound(e) BY <1>1, <1>2, <1>3 DEF ReferencesSound
<1>9. SessionsSound(e) BY <1>1, <1>2, <1>3 DEF SessionsSound
<1>10. ASSUME NEW y \in DOMAIN e.projects
       PROVE  Derived(e.projects[y], e.folders, e.panels)
  <2>1. CASE y # pr
    <3>1. y \in DOMAIN d.projects /\ e.projects[y] = d.projects[y] BY <1>2, <2>1
    <3> QED BY <1>2, <1>3, <3>1, CopiesStay
  <2>2. CASE y = pr
    <3> DEFINE F == e.folders
    <3>1. <<f>> \in Seq(DOMAIN F) BY <1>2
    <3>2. PanelsOf(F, <<f>>) \in Seq(Panel) /\ ToSet(PanelsOf(F, <<f>>)) = {}
      <4> DEFINE jds == <<f>>
      <4>1. jds \in Seq(DOMAIN F) /\ ToSet(jds) = {f} BY <1>4, <3>1
      <4>2. Table(F, Folder, FolderRecord) BY <1>2
      <4> HIDE DEF jds, F
      <4>3. /\ PanelsOf(F, jds) \in Seq(Panel)
            /\ \A p : p \in ToSet(PanelsOf(F, jds)) <=> \E g \in ToSet(jds) : p \in ToSet(F[g].panelIds)
        BY <4>1, <4>2, PanelsOfMembers
      <4>4. F[f].panelIds = <<>> BY <1>2 DEF F
      <4> QED BY <1>5, <4>1, <4>3, <4>4 DEF jds
    <3>3. PanelsOf(F, <<f>>) = <<>> BY <3>2, EmptyIs
    <3>4. ToSet(<<f>>) \subseteq DOMAIN F BY <1>2, <1>4
    <3>5. Occupied(F, <<f>>) \in Seq(Folder) /\ ToSet(Occupied(F, <<f>>)) = {}
      <4> DEFINE jds == <<f>>
      <4>1. jds \in Seq(Folder) /\ ToSet(jds) = {f} /\ ToSet(jds) \subseteq DOMAIN F
        BY <1>4, <3>4
      <4> HIDE DEF jds
      <4>2. /\ Occupied(F, jds) \in Seq(Folder)
            /\ \A g : g \in ToSet(Occupied(F, jds)) <=> g \in ToSet(jds) /\ F[g].panelIds # <<>>
        BY <4>1, OccupiedIs
      <4> QED BY <1>2, <4>1, <4>2 DEF jds
    <3>6. Len(Occupied(F, <<f>>)) # 1 BY <3>5, EmptyIs
    <3> QED BY <1>2, <1>5, <2>2, <3>3, <3>6 DEF Derived
  <2> QED BY <2>1, <2>2
<1> QED BY <1>6, <1>7, <1>8, <1>9, <1>10 DEF Sound, Placed

\* project.create.
LEMMA ProjectCreateSound ==
    ASSUME NEW d, Sound(d), NEW pr \in Project \ DOMAIN d.projects, NEW v \in DOMAIN d.views,
           NEW f \in Folder \ DOMAIN d.folders, NEW awaiting \in BOOLEAN
    PROVE  Sound(ProjectCreate(d, pr, v, f, awaiting))
<1> DEFINE e == ProjectCreate(d, pr, v, f, awaiting)
           b == WithActiveProject(d.views[v], Append(d.views[v].projectIds, pr), pr)
<1>1. Typed(d) /\ ViewsSound(d) BY DEF Sound, Placed
<1>2. /\ Fields(e)
      /\ e.viewOrder = d.viewOrder
      /\ e.views = [d.views EXCEPT ![v] = b]
      /\ AddsProject(d, e, pr, v, f, awaiting)
  <2>1. Fields(d) BY <1>1 DEF Typed
  <2> QED BY <2>1 DEF Fields, Sections, ProjectCreate, AddsProject
<1>3. pr \in AnyProject /\ v \in View /\ pr # AutomationSpace
  BY <1>1, TypedFields, NoneIsNone DEF AnyProject
<1>4. /\ b \in ViewRecord /\ IsInjective(b.projectIds)
      /\ ToSet(b.projectIds) = ToSet(d.views[v].projectIds) \cup {pr}
      /\ b.activeProject = pr
  <2> DEFINE s == d.views[v].projectIds
  <2>1. d.views[v] \in ViewRecord /\ s \in Seq(Project) /\ IsInjective(s)
    BY <1>1, TypedFields DEF ViewRecord, ViewsSound
  <2>2. pr \notin ToSet(s) BY <1>1 DEF ViewsSound
  <2> HIDE DEF s
  <2>3. Append(s, pr) \in Seq(Project) /\ IsInjective(Append(s, pr))
        /\ ToSet(Append(s, pr)) = ToSet(s) \cup {pr}
    BY <2>1, <2>2, AppendKeeps
  <2> DEFINE t == Append(s, pr)
  <2>4. t \in Seq(Project) BY <2>3
  <2> HIDE DEF t
  <2>5. WithActiveProject(d.views[v], t, pr) \in ViewRecord
        /\ WithActiveProject(d.views[v], t, pr).projectIds = t
        /\ WithActiveProject(d.views[v], t, pr).activeProject = pr
    BY <2>1, <2>4, WithActiveProjectIs
  <2> QED BY <2>3, <2>5 DEF s, t
<1> HIDE DEF e, b
<1>5. /\ Table(e.projects, AnyProject, ProjectRecord)
      /\ DOMAIN e.projects = DOMAIN d.projects \cup {pr}
      /\ e.projects[pr].view = v
      /\ \A y \in DOMAIN d.projects : y # pr /\ e.projects[y] = d.projects[y]
      /\ Table(e.folders, Folder, FolderRecord)
  <2>1. /\ pr \in AnyProject \ DOMAIN d.projects /\ v \in View
        /\ f \in Folder \ DOMAIN d.folders /\ awaiting \in BOOLEAN
    BY <1>3
  <2>2. ProjectAdded(d, e, pr, v, f, awaiting) BY <1>1, <1>2, <2>1, AddsProjectIs
  <2> QED BY <2>2 DEF ProjectAdded
<1>6. /\ Table(e.views, View, ViewRecord)
      /\ DOMAIN e.views = DOMAIN d.views
      /\ e.views[v] = b
      /\ \A y \in DOMAIN d.views : y # v => e.views[y] = d.views[y]
  BY <1>1, <1>2, <1>4, UpdateKeeps DEF Typed
<1>7. Typed(e) BY <1>1, <1>2, <1>5, <1>6 DEF Typed, AddsProject
<1>8. ViewsSound(e)
  <2>1. /\ e.viewOrder # <<>> /\ IsInjective(e.viewOrder)
        /\ ToSet(e.viewOrder) \subseteq DOMAIN e.views
    BY <1>1, <1>2, <1>6 DEF ViewsSound
  <2>2. ASSUME NEW w \in DOMAIN e.views
        PROVE  /\ IsInjective(e.views[w].projectIds)
               /\ e.views[w].activeProject \in ToSet(e.views[w].projectIds) \cup {None}
               /\ \A y \in ToSet(e.views[w].projectIds) :
                    y \in DOMAIN e.projects /\ e.projects[y].view = w
    <3>1. /\ IsInjective(d.views[w].projectIds)
          /\ d.views[w].activeProject \in ToSet(d.views[w].projectIds) \cup {None}
          /\ \A y \in ToSet(d.views[w].projectIds) :
               y \in DOMAIN d.projects /\ d.projects[y].view = w
      BY <1>1, <1>6 DEF ViewsSound
    <3>2. CASE w = v
      <4>1. \A y \in ToSet(b.projectIds) : y \in DOMAIN e.projects /\ e.projects[y].view = w
        BY <1>4, <1>5, <3>1, <3>2
      <4> QED BY <1>4, <1>6, <3>2, <4>1
    <3>3. CASE w # v
      <4>1. e.views[w] = d.views[w] BY <1>6, <3>3
      <4> QED BY <1>5, <3>1, <4>1
    <3> QED BY <3>2, <3>3
  <2>3. ASSUME NEW y \in DOMAIN e.projects
        PROVE  /\ e.projects[y].view \in DOMAIN e.views
               /\ y # AutomationSpace => y \in ToSet(e.views[e.projects[y].view].projectIds)
    <3>1. CASE y = pr BY <1>4, <1>5, <1>6, <3>1
    <3>2. CASE y # pr
      <4> DEFINE w == d.projects[y].view
      <4>1. e.projects[y].view = w /\ w \in DOMAIN d.views
            /\ (y # AutomationSpace => y \in ToSet(d.views[w].projectIds))
        BY <1>1, <1>5, <3>2 DEF ViewsSound
      <4> HIDE DEF w
      <4>2. y \in ToSet(d.views[w].projectIds) => y \in ToSet(e.views[w].projectIds)
        BY <1>4, <1>6, <4>1
      <4> QED BY <1>6, <4>1, <4>2
    <3> QED BY <3>1, <3>2
  <2> QED BY <2>1, <2>2, <2>3 DEF ViewsSound
<1> QED BY <1>2, <1>3, <1>7, <1>8, AddsProjectSound DEF e

\* The automation space, a project that no view lists.
LEMMA EnsureAutomationSpaceSound ==
    ASSUME NEW d, Sound(d), AutomationSpace \notin DOMAIN d.projects,
           NEW f \in Folder \ DOMAIN d.folders
    PROVE  Sound(EnsureAutomationSpace(d, f))
<1> DEFINE e == EnsureAutomationSpace(d, f)  v == d.viewOrder[1]
<1>1. Typed(d) /\ ViewsSound(d) BY DEF Sound, Placed
<1>2. /\ Fields(e)
      /\ e.viewOrder = d.viewOrder /\ e.views = d.views
      /\ AddsProject(d, e, AutomationSpace, v, f, FALSE)
  <2>1. Fields(d) BY <1>1 DEF Typed
  <2> QED BY <2>1 DEF Fields, Sections, EnsureAutomationSpace, AddsProject
<1>3. v \in DOMAIN d.views
  <2>1. d.viewOrder \in Seq(View) /\ d.viewOrder # <<>>
        /\ ToSet(d.viewOrder) \subseteq DOMAIN d.views
    BY <1>1 DEF Typed, ViewsSound
  <2> QED BY <2>1, EmptyIs
<1>4. v \in View /\ AutomationSpace \in AnyProject BY <1>1, <1>3, TypedFields DEF AnyProject
<1> HIDE DEF e, v
<1>5. /\ Table(e.projects, AnyProject, ProjectRecord)
      /\ DOMAIN e.projects = DOMAIN d.projects \cup {AutomationSpace}
      /\ e.projects[AutomationSpace].view = v
      /\ \A y \in DOMAIN d.projects : y # AutomationSpace /\ e.projects[y] = d.projects[y]
      /\ Table(e.folders, Folder, FolderRecord)
  <2>1. AutomationSpace \in AnyProject \ DOMAIN d.projects BY <1>4
  <2>2. ProjectAdded(d, e, AutomationSpace, v, f, FALSE)
    BY <1>1, <1>2, <1>4, <2>1, AddsProjectIs
  <2> QED BY <2>2 DEF ProjectAdded
<1>6. Typed(e) BY <1>1, <1>2, <1>5 DEF Typed, AddsProject
<1>7. ViewsSound(e)
  BY <1>1, <1>2, <1>3, <1>5 DEF ViewsSound
<1> QED BY <1>2, <1>4, <1>6, <1>7, AddsProjectSound DEF e

\* project.close deletes everything the project has, and nothing refers to
\* it from another project.
LEMMA ProjectCloseSound ==
    ASSUME NEW d, Sound(d), NEW pr \in DOMAIN d.projects, pr # AutomationSpace
    PROVE  Sound(ProjectClose(d, pr))
<1> DEFINE e == ProjectClose(d, pr)
           u == d.projects[pr].view
           from == d.views[u]
           left == Removing(from.projectIds, pr)
           next == IF from.activeProject # pr THEN from.activeProject
                   ELSE IF left = <<>> THEN None ELSE left[1]
           a == WithActiveProject(from, left, next)
           gonePanels == ToSet(d.projects[pr].panelIds)
           goneFolders == ToSet(d.projects[pr].folderIds)
           goneSessions == {s \in DOMAIN d.sessions : d.sessions[s].project = pr}
<1>1. /\ Typed(d) /\ ViewsSound(d) /\ FoldersSound(d) /\ PlacesSound(d)
      /\ ReferencesSound(d) /\ SessionsSound(d)
  BY DEF Sound, Placed
<1>2. /\ Fields(e)
      /\ e.viewOrder = d.viewOrder
      /\ e.views = [d.views EXCEPT ![u] = a]
      /\ e.projects = Without(d.projects, {pr})
      /\ e.folders = Without(d.folders, goneFolders)
      /\ e.panels = Without(d.panels, gonePanels)
      /\ e.sessions = Without(d.sessions, goneSessions)
  <2>1. Fields(d) BY <1>1 DEF Typed
  <2> QED BY <2>1 DEF Fields, Sections, ProjectClose
<1>3. u \in DOMAIN d.views /\ pr \in ToSet(from.projectIds)
  BY <1>1 DEF ViewsSound
<1>4. /\ a \in ViewRecord /\ IsInjective(a.projectIds)
      /\ ToSet(a.projectIds) = ToSet(from.projectIds) \ {pr}
      /\ a.activeProject \in ToSet(a.projectIds) \cup {None}
  <2>1. /\ from \in ViewRecord /\ IsInjective(from.projectIds)
        /\ from.activeProject \in ToSet(from.projectIds) \cup {None}
    BY <1>1, <1>3, TypedFields DEF ViewsSound
  <2> HIDE DEF from
  <2> QED BY <2>1, LeftView
<1>5. /\ \A p : p \in gonePanels <=> p \in DOMAIN d.panels /\ d.panels[p].project = pr
      /\ \A f : f \in goneFolders <=> f \in DOMAIN d.folders /\ d.folders[f].project = pr
  <2>1. d.projects[pr].panelIds = PanelsOf(d.folders, d.projects[pr].folderIds)
    BY DEF Sound, Derived
  <2> QED BY <1>1, <2>1, ProjectPanels
<1>6. \A s : s \in goneSessions <=> s \in DOMAIN d.sessions /\ d.sessions[s].project = pr
  OBVIOUS
<1> HIDE DEF e, a, gonePanels, goneFolders, goneSessions
<1>7. /\ Table(e.projects, AnyProject, ProjectRecord)
      /\ DOMAIN e.projects = DOMAIN d.projects \ {pr}
      /\ \A y \in DOMAIN d.projects \ {pr} : e.projects[y] = d.projects[y]
  <2>1. Table(d.projects, AnyProject, ProjectRecord) BY <1>1 DEF Typed
  <2>2. /\ Table(Without(d.projects, {pr}), AnyProject, ProjectRecord)
        /\ DOMAIN Without(d.projects, {pr}) = DOMAIN d.projects \ {pr}
        /\ \A y \in DOMAIN d.projects \ {pr} : Without(d.projects, {pr})[y] = d.projects[y]
    BY <2>1, WithoutKeeps
  <2> QED BY <1>2, <2>2
<1>8. /\ Table(e.folders, Folder, FolderRecord)
      /\ DOMAIN e.folders = DOMAIN d.folders \ goneFolders
      /\ \A y \in DOMAIN d.folders \ goneFolders : e.folders[y] = d.folders[y]
  <2>1. Table(d.folders, Folder, FolderRecord) BY <1>1 DEF Typed
  <2>2. /\ Table(Without(d.folders, goneFolders), Folder, FolderRecord)
        /\ DOMAIN Without(d.folders, goneFolders) = DOMAIN d.folders \ goneFolders
        /\ \A y \in DOMAIN d.folders \ goneFolders : Without(d.folders, goneFolders)[y] = d.folders[y]
    BY <2>1, WithoutKeeps
  <2> QED BY <1>2, <2>2
<1>9. /\ Table(e.panels, Panel, PanelRecord)
      /\ DOMAIN e.panels = DOMAIN d.panels \ gonePanels
      /\ \A y \in DOMAIN d.panels \ gonePanels : e.panels[y] = d.panels[y]
  <2>1. Table(d.panels, Panel, PanelRecord) BY <1>1 DEF Typed
  <2>2. /\ Table(Without(d.panels, gonePanels), Panel, PanelRecord)
        /\ DOMAIN Without(d.panels, gonePanels) = DOMAIN d.panels \ gonePanels
        /\ \A y \in DOMAIN d.panels \ gonePanels : Without(d.panels, gonePanels)[y] = d.panels[y]
    BY <2>1, WithoutKeeps
  <2> QED BY <1>2, <2>2
<1>10. /\ Table(e.sessions, Session, SessionRecord)
       /\ DOMAIN e.sessions = DOMAIN d.sessions \ goneSessions
       /\ \A y \in DOMAIN d.sessions \ goneSessions : e.sessions[y] = d.sessions[y]
  <2>1. Table(d.sessions, Session, SessionRecord) BY <1>1 DEF Typed
  <2>2. /\ Table(Without(d.sessions, goneSessions), Session, SessionRecord)
        /\ DOMAIN Without(d.sessions, goneSessions) = DOMAIN d.sessions \ goneSessions
        /\ \A y \in DOMAIN d.sessions \ goneSessions : Without(d.sessions, goneSessions)[y] = d.sessions[y]
    BY <2>1, WithoutKeeps
  <2> QED BY <1>2, <2>2
<1>11. /\ Table(e.views, View, ViewRecord)
       /\ DOMAIN e.views = DOMAIN d.views
       /\ e.views[u] = a
       /\ \A y \in DOMAIN d.views : y # u => e.views[y] = d.views[y]
  BY <1>1, <1>2, <1>3, <1>4, UpdateKeeps DEF Typed
<1>12. Typed(e) BY <1>1, <1>2, <1>7, <1>8, <1>9, <1>10, <1>11 DEF Typed
<1>13. ViewsSound(e)
  <2>1. /\ e.viewOrder # <<>> /\ IsInjective(e.viewOrder)
        /\ ToSet(e.viewOrder) \subseteq DOMAIN e.views
    BY <1>1, <1>2, <1>11 DEF ViewsSound
  <2>2. ASSUME NEW w \in DOMAIN e.views
        PROVE  /\ IsInjective(e.views[w].projectIds)
               /\ e.views[w].activeProject \in ToSet(e.views[w].projectIds) \cup {None}
               /\ \A y \in ToSet(e.views[w].projectIds) :
                    y \in DOMAIN e.projects /\ e.projects[y].view = w
    <3>1. /\ IsInjective(d.views[w].projectIds)
          /\ d.views[w].activeProject \in ToSet(d.views[w].projectIds) \cup {None}
          /\ \A y \in ToSet(d.views[w].projectIds) :
               y \in DOMAIN d.projects /\ d.projects[y].view = w
      BY <1>1, <1>11 DEF ViewsSound
    <3>2. CASE w = u
      <4>1. \A y \in ToSet(a.projectIds) : y \in DOMAIN e.projects /\ e.projects[y].view = w
        BY <1>4, <1>7, <3>1, <3>2
      <4> QED BY <1>4, <1>11, <3>2, <4>1
    <3>3. CASE w # u
      <4>1. e.views[w] = d.views[w] BY <1>11, <3>3
      <4>2. \A y \in ToSet(d.views[w].projectIds) : y \in DOMAIN e.projects /\ e.projects[y].view = w
        BY <1>7, <3>1, <3>3
      <4> QED BY <3>1, <4>1, <4>2
    <3> QED BY <3>2, <3>3
  <2>3. ASSUME NEW y \in DOMAIN e.projects
        PROVE  /\ e.projects[y].view \in DOMAIN e.views
               /\ y # AutomationSpace => y \in ToSet(e.views[e.projects[y].view].projectIds)
    <3> DEFINE w == d.projects[y].view
    <3>1. e.projects[y].view = w /\ w \in DOMAIN d.views /\ y # pr
          /\ (y # AutomationSpace => y \in ToSet(d.views[w].projectIds))
      BY <1>1, <1>7 DEF ViewsSound
    <3> HIDE DEF w
    <3>2. y \in ToSet(d.views[w].projectIds) => y \in ToSet(e.views[w].projectIds)
      BY <1>4, <1>11, <3>1
    <3> QED BY <1>11, <3>1, <3>2
  <2> QED BY <2>1, <2>2, <2>3 DEF ViewsSound
<1>14. FoldersSound(e)
  <2>1. ASSUME NEW y \in DOMAIN e.projects
        PROVE  /\ IsInjective(e.projects[y].folderIds)
               /\ \A g \in ToSet(e.projects[y].folderIds) :
                    g \in DOMAIN e.folders /\ e.folders[g].project = y
               /\ \E h \in ToSet(e.projects[y].folderIds) :
                    \A g \in ToSet(e.projects[y].folderIds) :
                       e.folders[g].kind = "general" <=> g = h
    <3>1. y \in DOMAIN d.projects /\ y # pr /\ e.projects[y] = d.projects[y] BY <1>7
    <3>2. /\ IsInjective(d.projects[y].folderIds)
          /\ \A g \in ToSet(d.projects[y].folderIds) :
               g \in DOMAIN d.folders /\ d.folders[g].project = y
          /\ \E h \in ToSet(d.projects[y].folderIds) :
               \A g \in ToSet(d.projects[y].folderIds) :
                  d.folders[g].kind = "general" <=> g = h
      BY <1>1, <3>1 DEF FoldersSound
    <3>3. \A g \in ToSet(d.projects[y].folderIds) :
            g \in DOMAIN e.folders /\ e.folders[g] = d.folders[g]
      BY <1>5, <1>8, <3>1, <3>2
    <3> QED BY <3>1, <3>2, <3>3
  <2>2. ASSUME NEW g \in DOMAIN e.folders
        PROVE  /\ e.folders[g].project \in DOMAIN e.projects
               /\ g \in ToSet(e.projects[e.folders[g].project].folderIds)
               /\ e.folders[g].kind = "linked" <=> e.folders[g].worktree # None
    <3>1. g \in DOMAIN d.folders /\ e.folders[g] = d.folders[g] /\ d.folders[g].project # pr
      BY <1>5, <1>8
    <3> QED BY <1>1, <1>7, <3>1 DEF FoldersSound
  <2>3. ASSUME NEW g \in DOMAIN e.folders, NEW h \in DOMAIN e.folders,
               e.folders[g].worktree # None, e.folders[g].worktree = e.folders[h].worktree,
               e.folders[g].project = e.folders[h].project
        PROVE  g = h
    BY <1>1, <1>8, <2>3 DEF FoldersSound
  <2> QED BY <2>1, <2>2, <2>3 DEF FoldersSound
<1>15. \A g \in DOMAIN e.folders : g \in DOMAIN d.folders /\ e.folders[g] = d.folders[g]
                                   /\ d.folders[g].project # pr
  BY <1>5, <1>8
<1>16. \A p \in DOMAIN e.panels : p \in DOMAIN d.panels /\ e.panels[p] = d.panels[p]
                                  /\ d.panels[p].project # pr
  BY <1>5, <1>9
<1>17. \A p \in DOMAIN d.panels : d.panels[p].project # pr
                                   => p \in DOMAIN e.panels /\ e.panels[p] = d.panels[p]
  BY <1>5, <1>9
<1>18. PlacesSound(e)
  <2>1. ASSUME NEW g \in DOMAIN e.folders
        PROVE  /\ FolderShows(e.folders[g])
               /\ \A p \in ToSet(e.folders[g].panelIds) :
                    p \in DOMAIN e.panels /\ e.panels[p].folder = g
    BY <1>1, <1>15, <1>17 DEF PlacesSound
  <2>2. ASSUME NEW p \in DOMAIN e.panels
        PROVE  /\ e.panels[p].folder \in DOMAIN e.folders
               /\ e.folders[e.panels[p].folder].project = e.panels[p].project
               /\ p \in ToSet(e.folders[e.panels[p].folder].panelIds)
    <3>1. p \in DOMAIN d.panels /\ e.panels[p] = d.panels[p] /\ d.panels[p].project # pr
      BY <1>16
    <3>2. /\ d.panels[p].folder \in DOMAIN d.folders
          /\ d.folders[d.panels[p].folder].project = d.panels[p].project
          /\ p \in ToSet(d.folders[d.panels[p].folder].panelIds)
      BY <1>1, <3>1 DEF PlacesSound
    <3> QED BY <1>5, <1>8, <3>1, <3>2
  <2> QED BY <2>1, <2>2 DEF PlacesSound
<1>19. ReferencesSound(e)
  BY <1>1, <1>15, <1>17 DEF ReferencesSound
<1>20. SessionsSound(e)
  <2>1. ASSUME NEW p \in DOMAIN e.panels, e.panels[p].session # None
        PROVE  /\ e.panels[p].session \in DOMAIN e.sessions
               /\ e.sessions[e.panels[p].session].project = e.panels[p].project
    BY <1>1, <1>6, <1>10, <1>16, <2>1 DEF SessionsSound
  <2>2. ASSUME NEW s \in DOMAIN e.sessions
        PROVE  /\ e.sessions[s].project \in DOMAIN e.projects
               /\ ~e.projects[e.sessions[s].project].awaiting
    BY <1>1, <1>6, <1>7, <1>10 DEF SessionsSound
  <2>3. \A y \in DOMAIN e.projects : e.projects[y].awaiting => y # AutomationSpace
    BY <1>1, <1>7 DEF SessionsSound
  <2> QED BY <2>1, <2>2, <2>3 DEF SessionsSound
<1>21. ASSUME NEW y \in DOMAIN e.projects
       PROVE  Derived(e.projects[y], e.folders, e.panels)
  <2>1. y \in DOMAIN d.projects /\ y # pr /\ e.projects[y] = d.projects[y] BY <1>7
  <2>2. \A f \in DOMAIN d.folders : d.folders[f].project = y
            => f \in DOMAIN e.folders /\ e.folders[f] = d.folders[f]
    BY <1>5, <1>8, <2>1
  <2>3. \A p \in DOMAIN d.panels : d.panels[p].project = y
            => e.panels[p].folder = d.panels[p].folder
    BY <1>17, <2>1
  <2> QED BY <2>1, <2>2, <2>3, CopiesStay
<1> QED BY <1>12, <1>13, <1>14, <1>18, <1>19, <1>20, <1>21 DEF Sound, Placed, e

-----------------------------------------------------------------------------
(* Commands on the folders and panels of projects that stay where they are. *)

\* No folder comes or goes, and none changes its project, kind or worktree.
Rewrites(d, m) ==
    /\ m.viewOrder = d.viewOrder /\ m.views = d.views /\ m.projects = d.projects
    /\ DOMAIN m.folders = DOMAIN d.folders
    /\ \A f \in DOMAIN d.folders :
         /\ m.folders[f].project = d.folders[f].project
         /\ m.folders[f].kind = d.folders[f].kind
         /\ m.folders[f].worktree = d.folders[f].worktree

\* Views, projects and the identity of folders are left alone.
LEMMA RewritesKeep ==
    ASSUME NEW d, NEW m, Rewrites(d, m), ViewsSound(d), FoldersSound(d)
    PROVE  ViewsSound(m) /\ FoldersSound(m)
<1>1. ViewsSound(m) BY DEF Rewrites, ViewsSound
<1>2. FoldersSound(m)
  <2>1. ASSUME NEW pr \in DOMAIN m.projects
        PROVE  /\ IsInjective(m.projects[pr].folderIds)
               /\ \A f \in ToSet(m.projects[pr].folderIds) :
                    f \in DOMAIN m.folders /\ m.folders[f].project = pr
               /\ \E g \in ToSet(m.projects[pr].folderIds) :
                    \A f \in ToSet(m.projects[pr].folderIds) :
                       m.folders[f].kind = "general" <=> f = g
    BY DEF Rewrites, FoldersSound
  <2>2. ASSUME NEW f \in DOMAIN m.folders
        PROVE  /\ m.folders[f].project \in DOMAIN m.projects
               /\ f \in ToSet(m.projects[m.folders[f].project].folderIds)
               /\ m.folders[f].kind = "linked" <=> m.folders[f].worktree # None
    BY DEF Rewrites, FoldersSound
  <2>3. ASSUME NEW f \in DOMAIN m.folders, NEW g \in DOMAIN m.folders,
               m.folders[f].worktree # None, m.folders[f].worktree = m.folders[g].worktree,
               m.folders[f].project = m.folders[g].project
        PROVE  f = g
    BY <2>3 DEF Rewrites, FoldersSound
  <2> QED BY <2>1, <2>2, <2>3 DEF FoldersSound
<1> QED BY <1>1, <1>2

\* What of m the projects outside S copy is as it was in d.
OthersStay(d, m, S) ==
    /\ \A x \in DOMAIN d.projects \ S :
         /\ m.projects[x].folderIds = d.projects[x].folderIds
         /\ m.projects[x].panelIds = d.projects[x].panelIds
         /\ m.projects[x].active = d.projects[x].active
         /\ m.projects[x].layout = d.projects[x].layout
    /\ \A f \in DOMAIN d.folders : d.folders[f].project \notin S =>
         /\ f \in DOMAIN m.folders
         /\ m.folders[f].panelIds = d.folders[f].panelIds
         /\ m.folders[f].active = d.folders[f].active
         /\ m.folders[f].layout = d.folders[f].layout
    /\ \A p \in DOMAIN d.panels : d.panels[p].project \notin S =>
         m.panels[p].folder = d.panels[p].folder

\* A project outside S copies its folders still.
LEMMA OthersDerive ==
    ASSUME NEW d, Sound(d), NEW m, NEW S, OthersStay(d, m, S), FoldersSound(d), PlacesSound(d),
           NEW x \in DOMAIN d.projects \ S
    PROVE  Derived(m.projects[x], m.folders, m.panels)
<1>1. x \in DOMAIN d.projects /\ x \notin S OBVIOUS
<1>2. \A f \in DOMAIN d.folders : d.folders[f].project = x =>
         /\ f \in DOMAIN m.folders
         /\ m.folders[f].panelIds = d.folders[f].panelIds
         /\ m.folders[f].active = d.folders[f].active
         /\ m.folders[f].layout = d.folders[f].layout
  BY <1>1 DEF OthersStay
<1>3. \A p \in DOMAIN d.panels : d.panels[p].project = x =>
         m.panels[p].folder = d.panels[p].folder
  BY <1>1 DEF OthersStay
<1>4. /\ m.projects[x].folderIds = d.projects[x].folderIds
      /\ m.projects[x].panelIds = d.projects[x].panelIds
      /\ m.projects[x].active = d.projects[x].active
      /\ m.projects[x].layout = d.projects[x].layout
  BY <1>1 DEF OthersStay
<1> QED BY <1>1, <1>2, <1>3, <1>4, CopiesStay

\* A command that leaves everything a project copies.
LEMMA UnsyncedSound ==
    ASSUME NEW d, Sound(d), NEW m, Placed(m), DOMAIN m.projects = DOMAIN d.projects,
           OthersStay(d, m, {})
    PROVE  Sound(m)
<1>1. FoldersSound(d) /\ PlacesSound(d) BY DEF Sound, Placed
<1>2. ASSUME NEW x \in DOMAIN m.projects
      PROVE  Derived(m.projects[x], m.folders, m.panels)
  BY <1>1, OthersDerive
<1> QED BY <1>2 DEF Sound

\* A command that rewrites folders of one project and then what it copies.
LEMMA SyncedSound ==
    ASSUME NEW d, Sound(d), NEW m, Placed(m), DOMAIN m.projects = DOMAIN d.projects,
           NEW pr \in DOMAIN d.projects, OthersStay(d, m, {pr}), NEW asked,
           LET wanted == IF asked = None THEN m.projects[pr].active ELSE asked
           IN  wanted \in DOMAIN m.panels /\ m.panels[wanted].project = pr
                 => m.folders[m.panels[wanted].folder].active = wanted
    PROVE  Sound(SyncProject(m, pr, asked))
<1> DEFINE e == SyncProject(m, pr, asked)
<1>1. FoldersSound(d) /\ PlacesSound(d) BY DEF Sound, Placed
<1>2. /\ Placed(e)
      /\ SameButCopies(m, e, pr)
      /\ Derived(e.projects[pr], e.folders, e.panels)
  BY SyncDerives
<1> HIDE DEF e
<1>3. ASSUME NEW x \in DOMAIN e.projects
      PROVE  Derived(e.projects[x], e.folders, e.panels)
  <2>1. CASE x = pr BY <1>2, <2>1
  <2>2. CASE x # pr
    <3>1. x \in DOMAIN d.projects \ {pr} BY <1>2, <2>2 DEF SameButCopies
    <3>2. Derived(m.projects[x], m.folders, m.panels) BY <1>1, <3>1, OthersDerive
    <3>3. e.projects[x] = m.projects[x] /\ e.folders = m.folders /\ e.panels = m.panels
      BY <1>2, <3>1 DEF SameButCopies
    <3> QED BY <3>2, <3>3
  <2> QED BY <2>1, <2>2
<1> QED BY <1>2, <1>3 DEF Sound, e

\* A project's active panel is the active one of its folder.
LEMMA ActiveStands ==
    ASSUME NEW d, Sound(d), NEW pr \in DOMAIN d.projects,
           d.projects[pr].active # None
    PROVE  LET w == d.projects[pr].active
           IN  /\ w \in DOMAIN d.panels /\ d.panels[w].project = pr
               /\ d.folders[d.panels[w].folder].active = w
<1>1. Typed(d) /\ FoldersSound(d) /\ PlacesSound(d) BY DEF Sound, Placed
<1>2. Derived(d.projects[pr], d.folders, d.panels) BY DEF Sound
<1>3. \A p : p \in ToSet(PanelsOf(d.folders, d.projects[pr].folderIds))
                <=> p \in DOMAIN d.panels /\ d.panels[p].project = pr
  BY <1>1, ProjectPanels
<1> QED BY <1>2, <1>3 DEF Derived

\* withFolderPanels() leaves a folder that shows its panels in one stack.
LEMMA WithFolderPanelsIs ==
    ASSUME NEW folder \in FolderRecord, NEW ids \in Seq(Panel), IsInjective(ids),
           NEW wanted
    PROVE  LET e == WithFolderPanels(folder, ids, wanted)
           IN /\ e \in FolderRecord /\ FolderShows(e)
              /\ e.panelIds = ids
              /\ wanted \in ToSet(ids) => e.active = wanted
              /\ e.active \in ToSet(ids) \cup {None}
              /\ e.project = folder.project /\ e.kind = folder.kind
              /\ e.worktree = folder.worktree
              /\ e.creator = folder.creator /\ e.offer = folder.offer
<1> DEFINE active == IF wanted \in ToSet(ids) THEN wanted
                     ELSE IF ids = <<>> THEN None ELSE ids[1]
           e == WithFolderPanels(folder, ids, wanted)
           lay == Stack(ids, active)
<1>1. active \in ToSet(ids) \cup {None} /\ (active = None <=> ids = <<>>)
      /\ (wanted \in ToSet(ids) => active = wanted)
  <2>1. None \notin ToSet(ids) BY EmptyIs, NoneIsNone
  <2> QED BY <2>1, EmptyIs
<1>2. active \in Panel \cup {None} BY <1>1, EmptyIs
<1>3. e = [folder EXCEPT !.panelIds = ids, !.active = active, !.layout = lay]
  BY DEF WithFolderPanels
<1> HIDE DEF active
<1>4. lay \in Layout BY <1>2, StackTyped
<1>5. lay = Stack(ids, active) OBVIOUS
<1> HIDE DEF lay
<1> DEFINE a == [folder EXCEPT !.panelIds = ids]
<1>6. a \in FolderRecord /\ a.panelIds = ids /\ a.project = folder.project
      /\ a.kind = folder.kind /\ a.worktree = folder.worktree
      /\ a.creator = folder.creator /\ a.offer = folder.offer
  BY DEF FolderRecord
<1> DEFINE b == [a EXCEPT !.active = active]
<1> HIDE DEF a
<1>7. b \in FolderRecord /\ b.panelIds = ids /\ b.active = active /\ b.project = folder.project
      /\ b.kind = folder.kind /\ b.worktree = folder.worktree
      /\ b.creator = folder.creator /\ b.offer = folder.offer
  BY <1>2, <1>6 DEF FolderRecord
<1> DEFINE c == [b EXCEPT !.layout = lay]
<1> HIDE DEF b
<1>8. c \in FolderRecord /\ c.panelIds = ids /\ c.active = active /\ c.project = folder.project
      /\ c.kind = folder.kind /\ c.worktree = folder.worktree
      /\ c.creator = folder.creator /\ c.offer = folder.offer /\ c.layout = lay
  BY <1>4, <1>7 DEF FolderRecord
<1>9. e = c BY <1>3 DEF a, b, c
<1> HIDE DEF c, e
<1>10. FolderShows(e) BY <1>1, <1>5, <1>8, <1>9 DEF FolderShows
<1> QED BY <1>1, <1>8, <1>9, <1>10 DEF e

-----------------------------------------------------------------------------
(* Commands that leave what projects copy. *)

\* folder.offer.set and folder.offer.decline.
LEMMA OfferSound ==
    ASSUME NEW d, Sound(d), NEW f \in DOMAIN d.folders, NEW o \in Panel \cup {None},
           o # None => /\ o \in DOMAIN d.panels
                       /\ d.panels[o].project = d.folders[f].project
                       /\ d.panels[o].folder # f
    PROVE  Sound([d EXCEPT !.folders[f].offer = o])
<1> DEFINE e == [d EXCEPT !.folders[f].offer = o]
           x == [d.folders[f] EXCEPT !.offer = o]
<1>1. /\ Typed(d) /\ ViewsSound(d) /\ FoldersSound(d) /\ PlacesSound(d) /\ ReferencesSound(d)
      /\ SessionsSound(d)
  BY DEF Sound, Placed
<1>2. /\ Fields(e)
      /\ e.viewOrder = d.viewOrder /\ e.views = d.views /\ e.projects = d.projects
      /\ e.folders = [d.folders EXCEPT ![f] = x]
      /\ e.panels = d.panels /\ e.sessions = d.sessions
  <2>1. Fields(d) BY <1>1 DEF Typed
  <2> QED BY <2>1 DEF Fields, Sections
<1>3. /\ x \in FolderRecord /\ x.offer = o
      /\ x.project = d.folders[f].project /\ x.kind = d.folders[f].kind
      /\ x.worktree = d.folders[f].worktree /\ x.panelIds = d.folders[f].panelIds
      /\ x.active = d.folders[f].active /\ x.layout = d.folders[f].layout
      /\ x.creator = d.folders[f].creator
  <2>1. d.folders[f] \in FolderRecord BY <1>1, TypedFields
  <2> QED BY <2>1 DEF FolderRecord
<1> HIDE DEF e, x
<1>4. /\ Table(e.folders, Folder, FolderRecord)
      /\ DOMAIN e.folders = DOMAIN d.folders
      /\ e.folders[f] = x
      /\ \A y \in DOMAIN d.folders : y # f => e.folders[y] = d.folders[y]
  <2>1. Table(d.folders, Folder, FolderRecord) BY <1>1 DEF Typed
  <2> QED BY <1>2, <1>3, <2>1, UpdateKeeps
<1>5. Typed(e) BY <1>1, <1>2, <1>4 DEF Typed
<1>6. \A g \in DOMAIN d.folders :
        /\ e.folders[g].project = d.folders[g].project
        /\ e.folders[g].kind = d.folders[g].kind
        /\ e.folders[g].worktree = d.folders[g].worktree
        /\ e.folders[g].panelIds = d.folders[g].panelIds
        /\ e.folders[g].active = d.folders[g].active
        /\ e.folders[g].layout = d.folders[g].layout
        /\ e.folders[g].creator = d.folders[g].creator
        /\ g # f => e.folders[g].offer = d.folders[g].offer
  BY <1>3, <1>4
<1>7. Rewrites(d, e) BY <1>2, <1>4, <1>6 DEF Rewrites
<1>8. ViewsSound(e) /\ FoldersSound(e) BY <1>1, <1>7, RewritesKeep
<1>9. PlacesSound(e)
  <2>1. \A g \in DOMAIN d.folders : FolderShows(d.folders[g]) => FolderShows(e.folders[g])
    BY <1>6 DEF FolderShows
  <2> QED BY <1>1, <1>2, <1>4, <1>6, <2>1 DEF PlacesSound
<1>10. ReferencesSound(e)
  BY <1>1, <1>2, <1>3, <1>4, <1>6 DEF ReferencesSound
<1>11. SessionsSound(e) BY <1>1, <1>2 DEF SessionsSound
<1>12. OthersStay(d, e, {}) BY <1>2, <1>4, <1>6 DEF OthersStay
<1> QED BY <1>2, <1>5, <1>8, <1>9, <1>10, <1>11, <1>12, UnsyncedSound DEF Placed, e

\* folder.offer.set.
LEMMA FolderOfferSetSound ==
    ASSUME NEW d, Sound(d), NEW f \in DOMAIN d.folders, NEW p \in DOMAIN d.panels,
           FolderOfferSetAllowed(d, f, p)
    PROVE  Sound(FolderOfferSet(d, f, p))
<1>1. p \in Panel
  <2>1. Typed(d) BY DEF Sound, Placed
  <2> QED BY <2>1, TypedFields
<1> QED BY <1>1, OfferSound DEF FolderOfferSetAllowed, FolderOfferSet

\* folder.offer.decline.
LEMMA FolderOfferDeclineSound ==
    ASSUME NEW d, Sound(d), NEW f \in DOMAIN d.folders
    PROVE  Sound(FolderOfferDecline(d, f))
BY OfferSound DEF FolderOfferDecline

\* folder.link.update, unless another folder of the project has the worktree.
LEMMA FolderLinkUpdateSound ==
    ASSUME NEW d, Sound(d), NEW f \in DOMAIN d.folders, NEW link \in Link,
           d.folders[f].kind = "linked",
           \A g \in DOMAIN d.folders :
              d.folders[g].project = d.folders[f].project /\ d.folders[g].worktree = link
                => g = f
    PROVE  Sound(FolderLinkUpdate(d, f, link))
<1> DEFINE e == FolderLinkUpdate(d, f, link)
           x == [d.folders[f] EXCEPT !.worktree = link]
<1>1. /\ Typed(d) /\ ViewsSound(d) /\ FoldersSound(d) /\ PlacesSound(d) /\ ReferencesSound(d)
      /\ SessionsSound(d)
  BY DEF Sound, Placed
<1>2. /\ Fields(e)
      /\ e.viewOrder = d.viewOrder /\ e.views = d.views /\ e.projects = d.projects
      /\ e.folders = [d.folders EXCEPT ![f] = x]
      /\ e.panels = d.panels /\ e.sessions = d.sessions
  <2>1. Fields(d) BY <1>1 DEF Typed
  <2> QED BY <2>1 DEF Fields, Sections, FolderLinkUpdate
<1>3. /\ x \in FolderRecord /\ x.worktree = link
      /\ x.project = d.folders[f].project /\ x.kind = d.folders[f].kind
      /\ x.offer = d.folders[f].offer /\ x.panelIds = d.folders[f].panelIds
      /\ x.active = d.folders[f].active /\ x.layout = d.folders[f].layout
      /\ x.creator = d.folders[f].creator
  <2>1. d.folders[f] \in FolderRecord BY <1>1, TypedFields
  <2> QED BY <2>1 DEF FolderRecord
<1> HIDE DEF e, x
<1>4. /\ Table(e.folders, Folder, FolderRecord)
      /\ DOMAIN e.folders = DOMAIN d.folders
      /\ e.folders[f] = x
      /\ \A y \in DOMAIN d.folders : y # f => e.folders[y] = d.folders[y]
  <2>1. Table(d.folders, Folder, FolderRecord) BY <1>1 DEF Typed
  <2> QED BY <1>2, <1>3, <2>1, UpdateKeeps
<1>5. Typed(e) BY <1>1, <1>2, <1>4 DEF Typed
<1>6. \A g \in DOMAIN d.folders :
        /\ e.folders[g].project = d.folders[g].project
        /\ e.folders[g].kind = d.folders[g].kind
        /\ e.folders[g].offer = d.folders[g].offer
        /\ e.folders[g].panelIds = d.folders[g].panelIds
        /\ e.folders[g].active = d.folders[g].active
        /\ e.folders[g].layout = d.folders[g].layout
        /\ e.folders[g].creator = d.folders[g].creator
        /\ g # f => e.folders[g].worktree = d.folders[g].worktree
  BY <1>3, <1>4
<1>7. ViewsSound(e) BY <1>1, <1>2 DEF ViewsSound
<1>8. FoldersSound(e)
  <2>1. ASSUME NEW pr \in DOMAIN e.projects
        PROVE  /\ IsInjective(e.projects[pr].folderIds)
               /\ \A h \in ToSet(e.projects[pr].folderIds) :
                    h \in DOMAIN e.folders /\ e.folders[h].project = pr
               /\ \E g \in ToSet(e.projects[pr].folderIds) :
                    \A h \in ToSet(e.projects[pr].folderIds) :
                       e.folders[h].kind = "general" <=> h = g
    BY <1>1, <1>2, <1>4, <1>6 DEF FoldersSound
  <2>2. ASSUME NEW h \in DOMAIN e.folders
        PROVE  /\ e.folders[h].project \in DOMAIN e.projects
               /\ h \in ToSet(e.projects[e.folders[h].project].folderIds)
               /\ e.folders[h].kind = "linked" <=> e.folders[h].worktree # None
    <3>1. link # None BY NoneIsNone
    <3> QED BY <1>1, <1>2, <1>3, <1>4, <1>6, <3>1 DEF FoldersSound
  <2>3. ASSUME NEW h \in DOMAIN e.folders, NEW g \in DOMAIN e.folders,
               e.folders[h].worktree # None, e.folders[h].worktree = e.folders[g].worktree,
               e.folders[h].project = e.folders[g].project
        PROVE  h = g
    <3>1. CASE h # f /\ g # f BY <1>1, <1>4, <1>6, <2>3, <3>1 DEF FoldersSound
    <3>2. CASE h = f \/ g = f BY <1>3, <1>4, <1>6, <2>3, <3>2
    <3> QED BY <3>1, <3>2
  <2> QED BY <2>1, <2>2, <2>3 DEF FoldersSound
<1>9. PlacesSound(e)
  <2>1. \A g \in DOMAIN d.folders : FolderShows(d.folders[g]) => FolderShows(e.folders[g])
    BY <1>6 DEF FolderShows
  <2> QED BY <1>1, <1>2, <1>4, <1>6, <2>1 DEF PlacesSound
<1>10. ReferencesSound(e) BY <1>1, <1>2, <1>4, <1>6 DEF ReferencesSound
<1>11. SessionsSound(e) BY <1>1, <1>2 DEF SessionsSound
<1>12. OthersStay(d, e, {}) BY <1>2, <1>4, <1>6 DEF OthersStay
<1> QED BY <1>2, <1>5, <1>7, <1>8, <1>9, <1>10, <1>11, <1>12, UnsyncedSound DEF Placed, e

\* panel.update, unless the session is of another project.
LEMMA PanelUpdateSound ==
    ASSUME NEW d, Sound(d), NEW p \in DOMAIN d.panels, NEW s \in Session,
           s \in DOMAIN d.sessions, d.sessions[s].project = d.panels[p].project
    PROVE  Sound(PanelUpdate(d, p, s))
<1> DEFINE e == PanelUpdate(d, p, s)
           x == [d.panels[p] EXCEPT !.session = s]
<1>1. /\ Typed(d) /\ ViewsSound(d) /\ FoldersSound(d) /\ PlacesSound(d) /\ ReferencesSound(d)
      /\ SessionsSound(d)
  BY DEF Sound, Placed
<1>2. /\ Fields(e)
      /\ e.viewOrder = d.viewOrder /\ e.views = d.views /\ e.projects = d.projects
      /\ e.folders = d.folders
      /\ e.panels = [d.panels EXCEPT ![p] = x] /\ e.sessions = d.sessions
  <2>1. Fields(d) BY <1>1 DEF Typed
  <2> QED BY <2>1 DEF Fields, Sections, PanelUpdate
<1>3. /\ x \in PanelRecord /\ x.session = s
      /\ x.project = d.panels[p].project /\ x.folder = d.panels[p].folder
  <2>1. d.panels[p] \in PanelRecord BY <1>1, TypedFields
  <2> QED BY <2>1 DEF PanelRecord
<1> HIDE DEF e, x
<1>4. /\ Table(e.panels, Panel, PanelRecord)
      /\ DOMAIN e.panels = DOMAIN d.panels
      /\ e.panels[p] = x
      /\ \A y \in DOMAIN d.panels : y # p => e.panels[y] = d.panels[y]
  <2>1. Table(d.panels, Panel, PanelRecord) BY <1>1 DEF Typed
  <2> QED BY <1>2, <1>3, <2>1, UpdateKeeps
<1>5. Typed(e) BY <1>1, <1>2, <1>4 DEF Typed
<1>6. \A q \in DOMAIN d.panels :
        /\ e.panels[q].project = d.panels[q].project
        /\ e.panels[q].folder = d.panels[q].folder
        /\ q # p => e.panels[q].session = d.panels[q].session
  BY <1>3, <1>4
<1>7. ViewsSound(e) BY <1>1, <1>2 DEF ViewsSound
<1>8. FoldersSound(e) BY <1>1, <1>2 DEF FoldersSound
<1>9. PlacesSound(e) BY <1>1, <1>2, <1>4, <1>6 DEF PlacesSound
<1>10. ReferencesSound(e) BY <1>1, <1>2, <1>4, <1>6 DEF ReferencesSound
<1>11. SessionsSound(e) BY <1>1, <1>2, <1>3, <1>4, <1>6 DEF SessionsSound
<1>12. OthersStay(d, e, {}) BY <1>2, <1>4, <1>6 DEF OthersStay
<1> QED BY <1>2, <1>5, <1>7, <1>8, <1>9, <1>10, <1>11, <1>12, UnsyncedSound DEF Placed, e

\* A command on sessions alone.
LEMMA SessionsOnlySound ==
    ASSUME NEW d, Sound(d), NEW e, Fields(e),
           e.viewOrder = d.viewOrder, e.views = d.views, e.projects = d.projects,
           e.folders = d.folders, e.panels = d.panels,
           Table(e.sessions, Session, SessionRecord),
           DOMAIN d.sessions \subseteq DOMAIN e.sessions,
           \A s \in DOMAIN d.sessions : e.sessions[s].project = d.sessions[s].project,
           \A s \in DOMAIN e.sessions \ DOMAIN d.sessions :
              /\ e.sessions[s].project \in DOMAIN d.projects
              /\ ~d.projects[e.sessions[s].project].awaiting
    PROVE  Sound(e)
<1>1. /\ Typed(d) /\ ViewsSound(d) /\ FoldersSound(d) /\ PlacesSound(d) /\ ReferencesSound(d)
      /\ SessionsSound(d)
  BY DEF Sound, Placed
<1>2. Typed(e) BY <1>1 DEF Typed
<1>3. ViewsSound(e) /\ FoldersSound(e)
  BY <1>1 DEF ViewsSound, FoldersSound
<1>4. PlacesSound(e) /\ ReferencesSound(e) BY <1>1 DEF PlacesSound, ReferencesSound
<1>5. SessionsSound(e)
  <2>1. \A s \in DOMAIN e.sessions :
          /\ e.sessions[s].project \in DOMAIN d.projects
          /\ ~d.projects[e.sessions[s].project].awaiting
    BY <1>1 DEF SessionsSound
  <2>2. \A p \in DOMAIN d.panels : d.panels[p].session # None =>
         /\ d.panels[p].session \in DOMAIN e.sessions
         /\ e.sessions[d.panels[p].session].project = d.panels[p].project
    BY <1>1 DEF SessionsSound
  <2> QED BY <1>1, <2>1, <2>2 DEF SessionsSound
<1>6. OthersStay(d, e, {}) BY DEF OthersStay
<1> QED BY <1>2, <1>3, <1>4, <1>5, <1>6, UnsyncedSound DEF Placed

\* terminal.create: a project that awaits its root has no session.
LEMMA TerminalCreateSound ==
    ASSUME NEW d, Sound(d), NEW s \in Session \ DOMAIN d.sessions, NEW pr \in DOMAIN d.projects,
           TerminalCreateAllowed(d, pr)
    PROVE  LET e == TerminalCreate(d, s, pr)
           IN /\ Sound(e)
              /\ e.viewOrder = d.viewOrder /\ e.views = d.views /\ e.projects = d.projects
              /\ e.folders = d.folders /\ e.panels = d.panels
              /\ s \in DOMAIN e.sessions /\ e.sessions[s].project = pr
<1> DEFINE e == TerminalCreate(d, s, pr)
           x == [project |-> pr, status |-> "running"]
<1>1. Typed(d) BY DEF Sound, Placed
<1>2. /\ Fields(e)
      /\ e.viewOrder = d.viewOrder /\ e.views = d.views /\ e.projects = d.projects
      /\ e.folders = d.folders /\ e.panels = d.panels
      /\ e.sessions = With(d.sessions, s, x)
  <2>1. Fields(d) BY <1>1 DEF Typed
  <2> QED BY <2>1 DEF Fields, Sections, TerminalCreate
<1>3. x \in SessionRecord /\ x.project = pr
  <2>1. pr \in AnyProject BY <1>1, TypedFields
  <2> QED BY <2>1 DEF SessionRecord
<1> HIDE DEF e, x
<1>4. /\ Table(e.sessions, Session, SessionRecord)
      /\ DOMAIN e.sessions = DOMAIN d.sessions \cup {s}
      /\ e.sessions[s] = x
      /\ \A y \in DOMAIN d.sessions : y # s => e.sessions[y] = d.sessions[y]
  <2>1. Table(d.sessions, Session, SessionRecord) BY <1>1 DEF Typed
  <2>2. s \in Session OBVIOUS
  <2>2a. x \in SessionRecord BY <1>3
  <2> DEFINE F == d.sessions
  <2>3. Table(F, Session, SessionRecord) BY <2>1
  <2> HIDE DEF F
  <2>4. /\ Table(With(F, s, x), Session, SessionRecord)
        /\ DOMAIN With(F, s, x) = DOMAIN F \cup {s}
        /\ With(F, s, x)[s] = x
        /\ \A y \in DOMAIN F : y # s => With(F, s, x)[y] = F[y]
    BY <2>2, <2>2a, <2>3 DEF Table, With
  <2> QED BY <1>2, <2>4 DEF F
<1>5. \A y \in DOMAIN d.sessions : e.sessions[y].project = d.sessions[y].project
  BY <1>4
<1>6. \A y \in DOMAIN e.sessions \ DOMAIN d.sessions :
              /\ e.sessions[y].project \in DOMAIN d.projects
              /\ ~d.projects[e.sessions[y].project].awaiting
  BY <1>3, <1>4 DEF TerminalCreateAllowed
<1>7. DOMAIN d.sessions \subseteq DOMAIN e.sessions BY <1>4
<1>8. Table(e.sessions, Session, SessionRecord) BY <1>4
<1>9. Sound(e) BY <1>2, <1>5, <1>6, <1>7, <1>8, SessionsOnlySound
<1> QED BY <1>2, <1>3, <1>4, <1>9 DEF e

\* markInterrupted and markExited.
LEMMA TerminalMarkSound ==
    ASSUME NEW d, Sound(d), NEW s \in DOMAIN d.sessions, NEW status \in Endings
    PROVE  Sound(TerminalMark(d, s, status))
<1> DEFINE e == TerminalMark(d, s, status)
           next == IF d.sessions[s].status = "running" THEN status ELSE d.sessions[s].status
           x == [d.sessions[s] EXCEPT !.status = next]
<1>1. Typed(d) BY DEF Sound, Placed
<1>2. /\ Fields(e)
      /\ e.viewOrder = d.viewOrder /\ e.views = d.views /\ e.projects = d.projects
      /\ e.folders = d.folders /\ e.panels = d.panels
      /\ e.sessions = [d.sessions EXCEPT ![s] = x]
  <2>1. Fields(d) BY <1>1 DEF Typed
  <2> QED BY <2>1 DEF Fields, Sections, TerminalMark
<1>3. x \in SessionRecord /\ x.project = d.sessions[s].project
  <2>1. d.sessions[s] \in SessionRecord BY <1>1, TypedFields
  <2>2. next \in {"running"} \cup Endings BY <2>1 DEF SessionRecord
  <2> HIDE DEF next
  <2> QED BY <2>1, <2>2 DEF SessionRecord
<1> HIDE DEF e, x
<1>4. /\ Table(e.sessions, Session, SessionRecord)
      /\ DOMAIN e.sessions = DOMAIN d.sessions
      /\ e.sessions[s] = x
      /\ \A y \in DOMAIN d.sessions : y # s => e.sessions[y] = d.sessions[y]
  <2>1. Table(d.sessions, Session, SessionRecord) BY <1>1 DEF Typed
  <2> QED BY <1>2, <1>3, <2>1, UpdateKeeps
<1>5. \A y \in DOMAIN d.sessions : e.sessions[y].project = d.sessions[y].project
  BY <1>3, <1>4
<1>6. DOMAIN d.sessions \subseteq DOMAIN e.sessions BY <1>4
<1>7. \A y \in DOMAIN e.sessions \ DOMAIN d.sessions :
              /\ e.sessions[y].project \in DOMAIN d.projects
              /\ ~d.projects[e.sessions[y].project].awaiting
  BY <1>4
<1>8. Table(e.sessions, Session, SessionRecord) BY <1>4
<1> QED BY <1>2, <1>5, <1>6, <1>7, <1>8, SessionsOnlySound DEF e

-----------------------------------------------------------------------------
(* Reorderings, and commands that rearrange one folder. *)

\* A list without duplicates is as long as the set of its elements is large.
LEMMA OnceCounts ==
    ASSUME NEW T, NEW s \in Seq(T), IsInjective(s)
    PROVE  IsFiniteSet(ToSet(s)) /\ Cardinality(ToSet(s)) = Len(s)
<1> DEFINE n == Len(s)  D == 1..n
<1>1. n \in Nat /\ DOMAIN s = D OBVIOUS
<1>2. s \in [D -> ToSet(s)] BY <1>1 DEF ToSet
<1>3. s \in Surjection(D, ToSet(s)) /\ s \in Injection(D, ToSet(s))
  BY <1>1, <1>2 DEF Surjection, Injection, ToSet
<1>4. IsFiniteSet(D) /\ Cardinality(D) = n BY <1>1, FS_Interval
<1> HIDE DEF D, n
<1>5. IsFiniteSet(ToSet(s)) /\ Cardinality(ToSet(s)) = Cardinality(D)
  BY <1>3, <1>4, FS_Surjection
<1> QED BY <1>4, <1>5 DEF n

\* The length and the membership the reducer tests make a list a reordering:
\* nothing is lost.
LEMMA ReorderingKeeps ==
    ASSUME NEW T, NEW s \in Seq(T), IsInjective(s), NEW t \in Seq(T), IsInjective(t),
           Len(t) = Len(s), ToSet(t) \subseteq ToSet(s)
    PROVE  ToSet(t) = ToSet(s)
<1>1. /\ IsFiniteSet(ToSet(s)) /\ Cardinality(ToSet(s)) = Len(s)
      /\ Cardinality(ToSet(t)) = Len(t)
  BY OnceCounts
<1> QED BY <1>1, FS_Subset

\* An ordering is a list of the same ids.
LEMMA OrderIs ==
    ASSUME NEW T, NEW s \in Seq(T), NEW t \in Orders(s)
    PROVE  t \in Seq(T) /\ IsInjective(t) /\ Len(t) = Len(s) /\ ToSet(t) \subseteq ToSet(s)
<1>1. t \in [1..Len(s) -> ToSet(s)] /\ IsInjective(t) BY DEF Orders
<1>2. ToSet(s) \subseteq T /\ Len(s) \in Nat BY EmptyIs
<1>3. t \in Seq(T) /\ Len(t) = Len(s) BY <1>1, <1>2
<1> QED BY <1>1, <1>3 DEF ToSet

\* folder.reorder, and the panel list that follows the new order.
LEMMA FolderReorderSound ==
    ASSUME NEW d, Sound(d), NEW pr \in DOMAIN d.projects,
           NEW ids \in Orders(d.projects[pr].folderIds), FolderReorderAllowed(d, pr, ids)
    PROVE  Sound(FolderReorder(d, pr, ids))
<1> DEFINE m == [d EXCEPT !.projects[pr].folderIds = ids]
           x == [d.projects[pr] EXCEPT !.folderIds = ids]
           old == d.projects[pr].folderIds
<1>1. /\ Typed(d) /\ ViewsSound(d) /\ FoldersSound(d) /\ PlacesSound(d) /\ ReferencesSound(d)
      /\ SessionsSound(d)
  BY DEF Sound, Placed
<1>2. /\ Fields(m)
      /\ m.viewOrder = d.viewOrder /\ m.views = d.views
      /\ m.projects = [d.projects EXCEPT ![pr] = x]
      /\ m.folders = d.folders /\ m.panels = d.panels /\ m.sessions = d.sessions
  <2>1. Fields(d) BY <1>1 DEF Typed
  <2> QED BY <2>1 DEF Fields, Sections
<1>3. d.projects[pr] \in ProjectRecord BY <1>1, TypedFields
<1>4. old \in Seq(Folder) /\ IsInjective(old) BY <1>1, <1>3 DEF ProjectRecord, FoldersSound
<1>5. ids \in Seq(Folder) /\ IsInjective(ids) /\ ToSet(ids) = ToSet(old)
  <2> HIDE DEF old
  <2>1. ids \in Orders(old) BY DEF old
  <2>2. ids \in Seq(Folder) /\ IsInjective(ids) /\ Len(ids) = Len(old)
        /\ ToSet(ids) \subseteq ToSet(old)
    BY <1>4, <2>1, OrderIs
  <2> QED BY <1>4, <2>2, ReorderingKeeps
<1>6. /\ x \in ProjectRecord /\ x.folderIds = ids
      /\ x.view = d.projects[pr].view /\ x.awaiting = d.projects[pr].awaiting
      /\ x.active = d.projects[pr].active
  BY <1>3, <1>5 DEF ProjectRecord
<1> HIDE DEF m, x, old
<1>7. /\ Table(m.projects, AnyProject, ProjectRecord)
      /\ DOMAIN m.projects = DOMAIN d.projects
      /\ m.projects[pr] = x
      /\ \A y \in DOMAIN d.projects : y # pr => m.projects[y] = d.projects[y]
  <2>1. Table(d.projects, AnyProject, ProjectRecord) BY <1>1 DEF Typed
  <2> QED BY <1>2, <1>6, <2>1, UpdateKeeps
<1>8. Typed(m) BY <1>1, <1>2, <1>7 DEF Typed
<1>9. ASSUME NEW y \in DOMAIN d.projects
      PROVE  /\ m.projects[y].view = d.projects[y].view
             /\ m.projects[y].awaiting = d.projects[y].awaiting
             /\ m.projects[y].active = d.projects[y].active
             /\ ToSet(m.projects[y].folderIds) = ToSet(d.projects[y].folderIds)
             /\ IsInjective(m.projects[y].folderIds)
  <2>1. IsInjective(d.projects[y].folderIds) BY <1>1 DEF FoldersSound
  <2> QED BY <1>5, <1>6, <1>7, <2>1 DEF old
<1>10. ViewsSound(m) BY <1>1, <1>2, <1>7, <1>9 DEF ViewsSound
<1>11. FoldersSound(m)
  <2>1. ASSUME NEW y \in DOMAIN m.projects
        PROVE  /\ IsInjective(m.projects[y].folderIds)
               /\ \A h \in ToSet(m.projects[y].folderIds) :
                    h \in DOMAIN m.folders /\ m.folders[h].project = y
               /\ \E g \in ToSet(m.projects[y].folderIds) :
                    \A h \in ToSet(m.projects[y].folderIds) :
                       m.folders[h].kind = "general" <=> h = g
    BY <1>1, <1>2, <1>7, <1>9 DEF FoldersSound
  <2>2. ASSUME NEW h \in DOMAIN m.folders
        PROVE  /\ m.folders[h].project \in DOMAIN m.projects
               /\ h \in ToSet(m.projects[m.folders[h].project].folderIds)
               /\ m.folders[h].kind = "linked" <=> m.folders[h].worktree # None
    BY <1>1, <1>2, <1>7, <1>9 DEF FoldersSound
  <2>3. ASSUME NEW h \in DOMAIN m.folders, NEW g \in DOMAIN m.folders,
               m.folders[h].worktree # None, m.folders[h].worktree = m.folders[g].worktree,
               m.folders[h].project = m.folders[g].project
        PROVE  h = g
    BY <1>1, <1>2, <2>3 DEF FoldersSound
  <2> QED BY <2>1, <2>2, <2>3 DEF FoldersSound
<1>12. PlacesSound(m) BY <1>1, <1>2 DEF PlacesSound
<1>13. ReferencesSound(m) BY <1>1, <1>2 DEF ReferencesSound
<1>14. SessionsSound(m) BY <1>1, <1>2, <1>7, <1>9 DEF SessionsSound
<1>15. Placed(m) BY <1>8, <1>10, <1>11, <1>12, <1>13, <1>14 DEF Placed
<1>16. OthersStay(d, m, {pr}) BY <1>2, <1>7 DEF OthersStay
<1> DEFINE w == d.projects[pr].active
<1>17. w \in DOMAIN d.panels => d.folders[d.panels[w].folder].active = w
  <2>1. None \notin DOMAIN d.panels BY <1>1, TypedFields, NoneIsNone
  <2> QED BY <2>1, ActiveStands
<1>18. m.projects[pr].active = w BY <1>9
<1> HIDE DEF w
<1>19. Sound(SyncProject(m, pr, None))
  <2> DEFINE none == None
  <2>1. LET wanted == IF none = None THEN m.projects[pr].active ELSE none
        IN  wanted \in DOMAIN m.panels /\ m.panels[wanted].project = pr
              => m.folders[m.panels[wanted].folder].active = wanted
    BY <1>2, <1>17, <1>18
  <2> QED BY <1>7, <1>15, <1>16, <2>1, SyncedSound
<1> QED BY <1>19 DEF FolderReorder, m

\* A folder f of d shows the same panels as x.
Rearranges(d, m, f, x) ==
    /\ m.viewOrder = d.viewOrder /\ m.views = d.views /\ m.projects = d.projects
    /\ m.folders = [d.folders EXCEPT ![f] = x]
    /\ m.panels = d.panels /\ m.sessions = d.sessions
    /\ x \in FolderRecord /\ FolderShows(x)
    /\ x.project = d.folders[f].project /\ x.kind = d.folders[f].kind
    /\ x.worktree = d.folders[f].worktree
    /\ x.creator = d.folders[f].creator /\ x.offer = d.folders[f].offer
    /\ ToSet(x.panelIds) = ToSet(d.folders[f].panelIds)

\* A folder that shows the same panels in another way, then its project's
\* copies.
LEMMA RearrangeSound ==
    ASSUME NEW d, Sound(d), NEW m, Fields(m), NEW f \in DOMAIN d.folders, NEW x,
           Rearranges(d, m, f, x), NEW asked,
           \/ asked = None /\ x.active = d.folders[f].active
           \/ asked = x.active /\ asked # None
    PROVE  Sound(SyncProject(m, d.folders[f].project, asked))
<1> DEFINE pr == d.folders[f].project
<1>1. /\ Typed(d) /\ ViewsSound(d) /\ FoldersSound(d) /\ PlacesSound(d) /\ ReferencesSound(d)
      /\ SessionsSound(d)
  BY DEF Sound, Placed
<1>2. pr \in DOMAIN d.projects BY <1>1 DEF FoldersSound
<1>3. /\ Table(m.folders, Folder, FolderRecord)
      /\ DOMAIN m.folders = DOMAIN d.folders
      /\ m.folders[f] = x
      /\ \A y \in DOMAIN d.folders : y # f => m.folders[y] = d.folders[y]
  <2>1. Table(d.folders, Folder, FolderRecord) BY <1>1 DEF Typed
  <2>2. m.folders = [d.folders EXCEPT ![f] = x] /\ x \in FolderRecord BY DEF Rearranges
  <2> QED BY <2>1, <2>2, UpdateKeeps
<1>4. \A g \in DOMAIN d.folders :
        /\ m.folders[g].project = d.folders[g].project
        /\ m.folders[g].kind = d.folders[g].kind
        /\ m.folders[g].worktree = d.folders[g].worktree
        /\ m.folders[g].creator = d.folders[g].creator
        /\ m.folders[g].offer = d.folders[g].offer
        /\ ToSet(m.folders[g].panelIds) = ToSet(d.folders[g].panelIds)
        /\ FolderShows(m.folders[g])
  <2>1. \A g \in DOMAIN d.folders : FolderShows(d.folders[g]) BY <1>1 DEF PlacesSound
  <2> QED BY <1>3, <2>1 DEF Rearranges
<1>5. /\ m.viewOrder = d.viewOrder /\ m.views = d.views /\ m.projects = d.projects
      /\ m.panels = d.panels /\ m.sessions = d.sessions
  BY DEF Rearranges
<1>6. Typed(m) BY <1>1, <1>3, <1>5 DEF Typed
<1>7. Rewrites(d, m) BY <1>3, <1>4, <1>5 DEF Rewrites
<1>8. ViewsSound(m) /\ FoldersSound(m) BY <1>1, <1>7, RewritesKeep
<1>9. PlacesSound(m) BY <1>1, <1>3, <1>4, <1>5 DEF PlacesSound
<1>10. ReferencesSound(m) BY <1>1, <1>3, <1>4, <1>5 DEF ReferencesSound
<1>11. SessionsSound(m) BY <1>1, <1>5 DEF SessionsSound
<1>12. Placed(m) BY <1>6, <1>8, <1>9, <1>10, <1>11 DEF Placed
<1>13. OthersStay(d, m, {pr})
  <2>1. \A p \in DOMAIN d.panels : m.panels[p].folder = d.panels[p].folder BY <1>5
  <2> QED BY <1>3, <1>5, <2>1 DEF OthersStay
<1> HIDE DEF pr
<1>14. LET wanted == IF asked = None THEN m.projects[pr].active ELSE asked
       IN  wanted \in DOMAIN m.panels /\ m.panels[wanted].project = pr
              => m.folders[m.panels[wanted].folder].active = wanted
  <2>1. None \notin DOMAIN d.panels BY <1>1, TypedFields, NoneIsNone
  <2>2. CASE asked = None /\ x.active = d.folders[f].active
    <3> DEFINE w == d.projects[pr].active
    <3>1. w \in DOMAIN d.panels => d.folders[d.panels[w].folder].active = w
      BY <1>2, <2>1, ActiveStands
    <3>2. w \in DOMAIN d.panels => d.panels[w].folder \in DOMAIN d.folders
      BY <1>1 DEF PlacesSound
    <3>3. \A g \in DOMAIN d.folders : m.folders[g].active = d.folders[g].active
      BY <1>3, <2>2
    <3> HIDE DEF w
    <3> QED BY <1>5, <2>2, <3>1, <3>2, <3>3 DEF w
  <2>3. CASE asked = x.active /\ asked # None
    <3>1. asked \in ToSet(d.folders[f].panelIds)
      BY <2>3 DEF Rearranges, FolderShows
    <3>2. d.panels[asked].folder = f BY <1>1, <3>1 DEF PlacesSound
    <3> QED BY <1>3, <1>5, <2>3, <3>2
  <2> QED BY <2>2, <2>3
<1>15. DOMAIN m.projects = DOMAIN d.projects BY <1>5
<1>16. Sound(SyncProject(m, pr, asked)) BY <1>2, <1>12, <1>13, <1>14, <1>15, SyncedSound
<1> QED BY <1>16 DEF pr

\* panel.reorder.
LEMMA PanelReorderSound ==
    ASSUME NEW d, Sound(d), NEW f \in DOMAIN d.folders,
           NEW ids \in Orders(d.folders[f].panelIds), PanelReorderAllowed(d, f, ids)
    PROVE  Sound(PanelReorder(d, f, ids))
<1> DEFINE r == d.folders[f]
           x == WithFolderPanels(r, ids, r.active)
           m == [d EXCEPT !.folders[f] = WithFolderPanels(@, ids, @.active)]
           pr == d.folders[f].project
<1>1. Typed(d) /\ PlacesSound(d) BY DEF Sound, Placed
<1>2. r \in FolderRecord /\ FolderShows(r) BY <1>1, TypedFields DEF PlacesSound
<1>3. r.panelIds \in Seq(Panel) /\ IsInjective(r.panelIds)
      /\ r.active \in ToSet(r.panelIds) \cup {None}
  BY <1>2 DEF FolderRecord, FolderShows
<1>4. ids \in Seq(Panel) /\ IsInjective(ids) /\ ToSet(ids) = ToSet(r.panelIds)
  <2> DEFINE old == r.panelIds
  <2>1. ids \in Orders(old) /\ old \in Seq(Panel) /\ IsInjective(old) BY <1>3
  <2> HIDE DEF old
  <2>2. ids \in Seq(Panel) /\ IsInjective(ids) /\ Len(ids) = Len(old)
        /\ ToSet(ids) \subseteq ToSet(old)
    BY <2>1, OrderIs
  <2>3. ToSet(ids) = ToSet(old) BY <2>1, <2>2, ReorderingKeeps
  <2> QED BY <2>2, <2>3 DEF old
<1>5. /\ Fields(m)
      /\ m.viewOrder = d.viewOrder /\ m.views = d.views /\ m.projects = d.projects
      /\ m.folders = [d.folders EXCEPT ![f] = x]
      /\ m.panels = d.panels /\ m.sessions = d.sessions
  <2>1. Fields(d) BY <1>1 DEF Typed
  <2> QED BY <2>1 DEF Fields, Sections
<1>6. PanelReorder(d, f, ids) = SyncProject(m, pr, None) BY DEF PanelReorder
<1> HIDE DEF m
<1>7. /\ x \in FolderRecord /\ FolderShows(x) /\ x.panelIds = ids
      /\ x.project = r.project /\ x.kind = r.kind /\ x.worktree = r.worktree
      /\ x.creator = r.creator /\ x.offer = r.offer
      /\ r.active \in ToSet(ids) => x.active = r.active
      /\ x.active \in ToSet(ids) \cup {None}
  <2> HIDE DEF r
  <2> QED BY <1>2, <1>4, WithFolderPanelsIs
<1> HIDE DEF x
<1>8. x.active = r.active
  <2>1. CASE r.active \in ToSet(ids) BY <1>7, <2>1
  <2>2. CASE r.active \notin ToSet(ids)
    <3>1. r.active = None BY <1>3, <1>4, <2>2
    <3>2. r.panelIds = <<>> BY <1>2, <3>1 DEF FolderShows
    <3>3. ToSet(ids) = {} BY <1>4, <3>2, EmptyIs
    <3> QED BY <1>7, <3>1, <3>3
  <2> QED BY <2>1, <2>2
<1>9. Rearranges(d, m, f, x) BY <1>4, <1>5, <1>7 DEF Rearranges
<1> DEFINE asked == None
<1>10. asked = None /\ x.active = d.folders[f].active BY <1>8
<1> HIDE DEF asked
<1>11. Sound(SyncProject(m, d.folders[f].project, asked))
  BY <1>5, <1>9, <1>10, RearrangeSound
<1> QED BY <1>6, <1>11 DEF asked

\* panel.split.
LEMMA PanelSplitSound ==
    ASSUME NEW d, Sound(d), NEW p \in DOMAIN d.panels
    PROVE  Sound(PanelSplit(d, p))
<1> DEFINE f == d.panels[p].folder
           r == d.folders[f]
           lay == Split(p, Removing(r.panelIds, p))
           x == [r EXCEPT !.layout = lay]
           m == [d EXCEPT !.folders[f].layout = lay]
<1>1. Typed(d) /\ PlacesSound(d) BY DEF Sound, Placed
<1>2. f \in DOMAIN d.folders /\ r.project = d.panels[p].project /\ p \in ToSet(r.panelIds)
  BY <1>1 DEF PlacesSound
<1>3. r \in FolderRecord /\ FolderShows(r) BY <1>1, <1>2, TypedFields DEF PlacesSound
<1>4. /\ Fields(m)
      /\ m.viewOrder = d.viewOrder /\ m.views = d.views /\ m.projects = d.projects
      /\ m.folders = [d.folders EXCEPT ![f] = x]
      /\ m.panels = d.panels /\ m.sessions = d.sessions
  <2>1. Fields(d) BY <1>1 DEF Typed
  <2> HIDE DEF lay, f
  <2> QED BY <2>1 DEF Fields, Sections
<1>5. PanelSplit(d, p) = SyncProject(m, d.panels[p].project, None) BY DEF PanelSplit
<1> HIDE DEF m, f
<1>6. lay \in Layout
  <2>1. p \in Panel BY <1>1, TypedFields
  <2>2. <<p>> \in Seq(Panel) BY <2>1
  <2>3. Removing(r.panelIds, p) \in Seq(Panel) BY <1>3, RemovingKeeps DEF FolderRecord
  <2> QED BY <2>1, <2>2, <2>3 DEF Split, Layout
<1>7. lay = Split(p, Removing(r.panelIds, p)) OBVIOUS
<1> HIDE DEF lay, r
<1>8. /\ x \in FolderRecord /\ x.panelIds = r.panelIds /\ x.active = r.active
      /\ x.project = r.project /\ x.kind = r.kind /\ x.worktree = r.worktree
      /\ x.creator = r.creator /\ x.offer = r.offer /\ x.layout = lay
  BY <1>3, <1>6 DEF FolderRecord
<1> HIDE DEF x
<1>9. FolderShows(x) BY <1>2, <1>3, <1>7, <1>8 DEF FolderShows
<1>10. Rearranges(d, m, f, x) BY <1>4, <1>8, <1>9 DEF Rearranges, r
<1> DEFINE asked == None
<1>11. asked = None /\ x.active = d.folders[f].active BY <1>8 DEF r
<1> HIDE DEF asked
<1>12. Sound(SyncProject(m, d.folders[f].project, asked))
  BY <1>2, <1>4, <1>10, <1>11, RearrangeSound
<1> QED BY <1>2, <1>5, <1>12 DEF asked, r

\* panel.activate: the folder and the project agree on the panel.
LEMMA PanelActivateSound ==
    ASSUME NEW d, Sound(d), NEW p \in DOMAIN d.panels
    PROVE  Sound(PanelActivate(d, p))
<1> DEFINE f == d.panels[p].folder
           r == d.folders[f]
           lay == IF r.layout.kind = "stack" THEN Stack(r.panelIds, p) ELSE r.layout
           a == [r EXCEPT !.active = p]
           x == [a EXCEPT !.layout = lay]
           m == [d EXCEPT !.folders[f].active = p,
                    !.folders[f].layout = IF @.kind = "stack"
                                          THEN Stack(d.folders[f].panelIds, p) ELSE @]
<1>1. Typed(d) /\ PlacesSound(d) BY DEF Sound, Placed
<1>2. f \in DOMAIN d.folders /\ r.project = d.panels[p].project /\ p \in ToSet(r.panelIds)
      /\ p \in Panel
  BY <1>1, TypedFields DEF PlacesSound
<1>3. r \in FolderRecord /\ FolderShows(r) BY <1>1, <1>2, TypedFields DEF PlacesSound
<1> HIDE DEF f
<1>4. /\ Fields(m)
      /\ m.viewOrder = d.viewOrder /\ m.views = d.views /\ m.projects = d.projects
      /\ m.folders = [d.folders EXCEPT ![f] = x]
      /\ m.panels = d.panels /\ m.sessions = d.sessions
  <2>1. Fields(d) BY <1>1 DEF Typed
  <2>2. d.folders \in [DOMAIN d.folders -> FolderRecord] BY <1>1 DEF Typed, Table
  <2> DEFINE d1 == [d EXCEPT !.folders[f].active = p]
  <2>3. /\ Fields(d1)
        /\ d1.viewOrder = d.viewOrder /\ d1.views = d.views /\ d1.projects = d.projects
        /\ d1.folders = [d.folders EXCEPT ![f] = a]
        /\ d1.panels = d.panels /\ d1.sessions = d.sessions
    BY <2>1 DEF Fields, Sections
  <2>4. d1.folders[f] = a /\ a.layout = r.layout
    BY <1>2, <1>3, <2>3 DEF FolderRecord
  <2>5. m = [d1 EXCEPT !.folders[f].layout = lay]
    BY <2>4
  <2> HIDE DEF d1, m, lay
  <2>6. /\ Fields(m)
        /\ m.viewOrder = d1.viewOrder /\ m.views = d1.views /\ m.projects = d1.projects
        /\ m.folders = [d1.folders EXCEPT ![f] = [d1.folders[f] EXCEPT !.layout = lay]]
        /\ m.panels = d1.panels /\ m.sessions = d1.sessions
    BY <2>3, <2>5 DEF Fields, Sections
  <2>7. m.folders = [d.folders EXCEPT ![f] = x] BY <2>2, <2>3, <2>4, <2>6
  <2> QED BY <2>3, <2>6, <2>7
<1>5. PanelActivate(d, p) = SyncProject(m, d.panels[p].project, p) BY DEF PanelActivate, f
<1> HIDE DEF m
<1>6. lay \in Layout
  <2>1. r.panelIds \in Seq(Panel) /\ r.layout \in Layout BY <1>3 DEF FolderRecord
  <2>2. Stack(r.panelIds, p) \in Layout BY <1>2, <2>1, StackTyped
  <2> QED BY <2>1, <2>2
<1>7. \/ lay = Stack(r.panelIds, p)
      \/ \E q \in ToSet(r.panelIds) : lay = Split(q, Removing(r.panelIds, q))
  BY <1>3 DEF FolderShows, Stack
<1> HIDE DEF lay, r
<1>8. /\ a \in FolderRecord /\ a.panelIds = r.panelIds /\ a.active = p
      /\ a.project = r.project /\ a.kind = r.kind /\ a.worktree = r.worktree
      /\ a.creator = r.creator /\ a.offer = r.offer
  BY <1>2, <1>3 DEF FolderRecord
<1> HIDE DEF a
<1>9. /\ x \in FolderRecord /\ x.panelIds = r.panelIds /\ x.active = p
      /\ x.project = r.project /\ x.kind = r.kind /\ x.worktree = r.worktree
      /\ x.creator = r.creator /\ x.offer = r.offer /\ x.layout = lay
  BY <1>6, <1>8 DEF FolderRecord
<1> HIDE DEF x
<1>10. FolderShows(x)
  <2>1. p # None BY <1>2, NoneIsNone
  <2>2. r.panelIds # <<>> BY <1>2, EmptyIs
  <2> QED BY <1>2, <1>3, <1>7, <1>9, <2>1, <2>2 DEF FolderShows
<1>11. Rearranges(d, m, f, x) BY <1>4, <1>9, <1>10 DEF Rearranges, r
<1>12. p = x.active /\ p # None BY <1>2, <1>9, NoneIsNone
<1>13. Sound(SyncProject(m, d.folders[f].project, p))
  BY <1>2, <1>4, <1>11, <1>12, RearrangeSound
<1> QED BY <1>2, <1>5, <1>13 DEF r

-----------------------------------------------------------------------------
(* Folders come and go. *)

\* An empty folder more or less changes nothing a project copies.
LEMMA EmptyFolderCopies ==
    ASSUME NEW x, NEW y, NEW F, NEW P,
           y.panelIds = x.panelIds, y.active = x.active, y.layout = x.layout,
           PanelsOf(F, y.folderIds) = PanelsOf(F, x.folderIds),
           Occupied(F, y.folderIds) = Occupied(F, x.folderIds),
           Derived(x, F, P)
    PROVE  Derived(y, F, P)
BY DEF Derived

\* A list of folders with an empty one more copies the same.
LEMMA EmptyFolderAppended ==
    ASSUME NEW F, Table(F, Folder, FolderRecord), NEW ids \in Seq(DOMAIN F), NEW f \in DOMAIN F,
           F[f].panelIds = <<>>
    PROVE  /\ PanelsOf(F, Append(ids, f)) = PanelsOf(F, ids)
           /\ Occupied(F, Append(ids, f)) = Occupied(F, ids)
<1>1. PanelsOf(F, ids) \in Seq(Panel)
      /\ PanelsOf(F, Append(ids, f)) = PanelsOf(F, ids) \o <<>>
  BY PanelsOfAppend
<1>2. PanelsOf(F, ids) \o <<>> = PanelsOf(F, ids) BY <1>1, ConcatEmptySeq
<1> DEFINE S == {g \in DOMAIN F : F[g].panelIds # <<>>}
<1>3. f \notin S OBVIOUS
<1> HIDE DEF S
<1>4. Filtered(Append(ids, f), S) = Filtered(ids, S) BY <1>3, FilteredOut
<1> QED BY <1>1, <1>2, <1>4 DEF Occupied, S

\* A list of folders with an empty one less copies the same.
LEMMA EmptyFolderRemoved ==
    ASSUME NEW F, Table(F, Folder, FolderRecord), NEW ids \in Seq(DOMAIN F), NEW f \in DOMAIN F,
           F[f].panelIds = <<>>
    PROVE  /\ PanelsOf(F, Removing(ids, f)) = PanelsOf(F, ids)
           /\ Occupied(F, Removing(ids, f)) = Occupied(F, ids)
<1> DEFINE K == ToSet(ids) \ {f}
           S == DOMAIN F \ {f}
           R == {g \in DOMAIN F : F[g].panelIds # <<>>}
<1>0. ToSet(ids) \cap K = ToSet(ids) \cap S BY EmptyIs
<1>a. Removing(ids, f) = Filtered(ids, K) BY DEF Removing
<1>b. \A g \in DOMAIN F \ S : F[g].panelIds = <<>> OBVIOUS
<1>c. R = S \cap R OBVIOUS
<1> HIDE DEF K, S, R
<1>1. Removing(ids, f) = Filtered(ids, S) BY <1>0, <1>a, FilteredSame
<1>2. PanelsOf(F, Filtered(ids, S)) = PanelsOf(F, ids) BY <1>b, PanelsOfFiltered
<1>3. Filtered(Filtered(ids, S), R) = Filtered(ids, R) BY <1>c, FilteredTwice
<1> QED BY <1>1, <1>2, <1>3 DEF Occupied, R

\* folder.create, unless another folder of the project has the worktree.
LEMMA FolderCreateSound ==
    ASSUME NEW d, Sound(d), NEW pr \in DOMAIN d.projects, NEW f \in Folder \ DOMAIN d.folders,
           NEW link \in Link \cup {None}, NEW p \in DOMAIN d.panels \cup {None},
           FolderCreateAllowed(d, pr, link, p),
           link # None => \A g \in DOMAIN d.folders :
                            d.folders[g].project = pr => d.folders[g].worktree # link
    PROVE  Sound(FolderCreate(d, pr, f, link, p))
<1> DEFINE kind == IF link = None THEN "plain" ELSE "linked"
           x == NewFolder(pr, kind, link, p)
           old == d.projects[pr].folderIds
           y == [d.projects[pr] EXCEPT !.folderIds = Append(old, f)]
           e == FolderCreate(d, pr, f, link, p)
<1>1. /\ Typed(d) /\ ViewsSound(d) /\ FoldersSound(d) /\ PlacesSound(d) /\ ReferencesSound(d)
      /\ SessionsSound(d)
  BY DEF Sound, Placed
<1>2. /\ Fields(e)
      /\ e.viewOrder = d.viewOrder /\ e.views = d.views
      /\ e.projects = [d.projects EXCEPT ![pr] = y]
      /\ e.folders = With(d.folders, f, x) /\ e.panels = d.panels /\ e.sessions = d.sessions
  <2>1. Fields(d) BY <1>1 DEF Typed
  <2> QED BY <2>1 DEF Fields, Sections, FolderCreate
<1>3. p # None => p \in DOMAIN d.panels /\ d.panels[p].project = pr
  BY DEF FolderCreateAllowed
<1>4. p \in Panel \cup {None} /\ pr \in AnyProject BY <1>1, TypedFields
<1>5. /\ x \in FolderRecord /\ FolderShows(x)
      /\ x.project = pr /\ x.kind = kind /\ x.worktree = link
      /\ x.panelIds = <<>> /\ x.active = None
      /\ x.creator = p /\ x.offer = None
  <2>1. kind \in {"general", "plain", "linked"} OBVIOUS
  <2> HIDE DEF kind
  <2> QED BY <1>4, <2>1, NewFolderIs
<1>6. kind # "general" /\ (kind = "linked" <=> link # None) OBVIOUS
<1>7. d.projects[pr] \in ProjectRecord /\ old \in Seq(Folder)
  BY <1>1, TypedFields DEF ProjectRecord
<1>8. f \notin ToSet(old) /\ IsInjective(old) BY <1>1 DEF FoldersSound
<1>9. /\ Append(old, f) \in Seq(Folder) /\ ToSet(Append(old, f)) = ToSet(old) \cup {f}
      /\ IsInjective(Append(old, f))
  <2> HIDE DEF old
  <2> QED BY <1>7, <1>8, AppendKeeps
<1>10. /\ y \in ProjectRecord /\ y.folderIds = Append(old, f)
       /\ y.view = d.projects[pr].view /\ y.awaiting = d.projects[pr].awaiting
       /\ y.panelIds = d.projects[pr].panelIds
       /\ y.active = d.projects[pr].active /\ y.layout = d.projects[pr].layout
  <2> DEFINE new == Append(old, f)
  <2>1. new \in Seq(Folder) BY <1>9
  <2> HIDE DEF new
  <2> QED BY <1>7, <2>1 DEF ProjectRecord, new
<1> HIDE DEF e, x, y, old, kind
<1>11. /\ Table(e.projects, AnyProject, ProjectRecord)
       /\ DOMAIN e.projects = DOMAIN d.projects
       /\ e.projects[pr] = y
       /\ \A z \in DOMAIN d.projects : z # pr => e.projects[z] = d.projects[z]
  <2>1. Table(d.projects, AnyProject, ProjectRecord) BY <1>1 DEF Typed
  <2> QED BY <1>2, <1>10, <2>1, UpdateKeeps
<1>12. /\ Table(e.folders, Folder, FolderRecord)
       /\ DOMAIN e.folders = DOMAIN d.folders \cup {f}
       /\ e.folders[f] = x
       /\ \A z \in DOMAIN d.folders : z # f /\ e.folders[z] = d.folders[z]
  <2> DEFINE F == d.folders
  <2>1. Table(F, Folder, FolderRecord) BY <1>1 DEF Typed
  <2>2. f \in Folder OBVIOUS
  <2>3. x \in FolderRecord BY <1>5
  <2> HIDE DEF F
  <2>4. /\ Table(With(F, f, x), Folder, FolderRecord)
        /\ DOMAIN With(F, f, x) = DOMAIN F \cup {f}
        /\ With(F, f, x)[f] = x
        /\ \A z \in DOMAIN F : z # f => With(F, f, x)[z] = F[z]
    BY <2>1, <2>2, <2>3 DEF Table, With
  <2> QED BY <1>2, <2>4 DEF F
<1>13. Typed(e) BY <1>1, <1>2, <1>11, <1>12 DEF Typed
<1>14. \A z \in DOMAIN d.projects :
        /\ e.projects[z].view = d.projects[z].view
        /\ e.projects[z].awaiting = d.projects[z].awaiting
        /\ ToSet(d.projects[z].folderIds) \subseteq ToSet(e.projects[z].folderIds)
  BY <1>9, <1>10, <1>11 DEF old
<1>15. ViewsSound(e) BY <1>1, <1>2, <1>11, <1>14 DEF ViewsSound
<1>16. FoldersSound(e)
  <2>1. ASSUME NEW z \in DOMAIN e.projects
        PROVE  /\ IsInjective(e.projects[z].folderIds)
               /\ \A h \in ToSet(e.projects[z].folderIds) :
                    h \in DOMAIN e.folders /\ e.folders[h].project = z
               /\ \E g \in ToSet(e.projects[z].folderIds) :
                    \A h \in ToSet(e.projects[z].folderIds) :
                       e.folders[h].kind = "general" <=> h = g
    <3>1. /\ IsInjective(d.projects[z].folderIds)
          /\ \A h \in ToSet(d.projects[z].folderIds) :
               h \in DOMAIN d.folders /\ d.folders[h].project = z
          /\ \E g \in ToSet(d.projects[z].folderIds) :
               \A h \in ToSet(d.projects[z].folderIds) :
                  d.folders[h].kind = "general" <=> h = g
      BY <1>1, <1>11 DEF FoldersSound
    <3>2. CASE z # pr
      <4>1. e.projects[z] = d.projects[z] BY <1>11, <3>2
      <4> QED BY <1>12, <3>1, <4>1
    <3>3. CASE z = pr
      <4>1. e.projects[z].folderIds = Append(old, f) BY <1>10, <1>11, <3>3
      <4>2. /\ \A h \in ToSet(old) : h \in DOMAIN d.folders /\ d.folders[h].project = z
            /\ \E g \in ToSet(old) : \A h \in ToSet(old) :
                  d.folders[h].kind = "general" <=> h = g
        BY <3>1, <3>3 DEF old
      <4>3. PICK g \in ToSet(old) : \A h \in ToSet(old) :
                  d.folders[h].kind = "general" <=> h = g
        BY <4>2
      <4>4. e.folders[f].kind # "general" /\ e.folders[f].project = z /\ f # g
        BY <1>5, <1>6, <1>8, <1>12, <3>3
      <4>5. \A h \in ToSet(Append(old, f)) : e.folders[h].kind = "general" <=> h = g
        BY <1>9, <1>12, <4>2, <4>3, <4>4
      <4>6. \A h \in ToSet(Append(old, f)) : h \in DOMAIN e.folders /\ e.folders[h].project = z
        BY <1>9, <1>12, <4>2, <4>4
      <4> QED BY <1>9, <4>1, <4>3, <4>5, <4>6
    <3> QED BY <3>2, <3>3
  <2>2. ASSUME NEW h \in DOMAIN e.folders
        PROVE  /\ e.folders[h].project \in DOMAIN e.projects
               /\ h \in ToSet(e.projects[e.folders[h].project].folderIds)
               /\ e.folders[h].kind = "linked" <=> e.folders[h].worktree # None
    <3>1. CASE h = f BY <1>5, <1>6, <1>9, <1>10, <1>11, <1>12, <3>1
    <3>2. CASE h # f
      <4>1. h \in DOMAIN d.folders /\ e.folders[h] = d.folders[h] BY <1>12, <3>2
      <4>2. /\ d.folders[h].project \in DOMAIN d.projects
            /\ h \in ToSet(d.projects[d.folders[h].project].folderIds)
            /\ d.folders[h].kind = "linked" <=> d.folders[h].worktree # None
        BY <1>1, <4>1 DEF FoldersSound
      <4> QED BY <1>11, <1>14, <4>1, <4>2
    <3> QED BY <3>1, <3>2
  <2>3. ASSUME NEW h \in DOMAIN e.folders, NEW g \in DOMAIN e.folders,
               e.folders[h].worktree # None, e.folders[h].worktree = e.folders[g].worktree,
               e.folders[h].project = e.folders[g].project
        PROVE  h = g
    <3>1. CASE h # f /\ g # f BY <1>1, <1>12, <2>3, <3>1 DEF FoldersSound
    <3>2. CASE h = f \/ g = f BY <1>5, <1>12, <2>3, <3>2
    <3> QED BY <3>1, <3>2
  <2> QED BY <2>1, <2>2, <2>3 DEF FoldersSound
<1>17. PlacesSound(e)
  <2>0. ToSet(<<>>) = {} BY EmptyIs
  <2>1. ASSUME NEW g \in DOMAIN e.folders
        PROVE  /\ FolderShows(e.folders[g])
               /\ \A q \in ToSet(e.folders[g].panelIds) :
                    q \in DOMAIN e.panels /\ e.panels[q].folder = g
    <3>1. CASE g = f BY <1>5, <1>12, <2>0, <3>1
    <3>2. CASE g # f BY <1>1, <1>2, <1>12, <3>2 DEF PlacesSound
    <3> QED BY <3>1, <3>2
  <2>2. ASSUME NEW q \in DOMAIN e.panels
        PROVE  /\ e.panels[q].folder \in DOMAIN e.folders
               /\ e.folders[e.panels[q].folder].project = e.panels[q].project
               /\ q \in ToSet(e.folders[e.panels[q].folder].panelIds)
    BY <1>1, <1>2, <1>12 DEF PlacesSound
  <2> QED BY <2>1, <2>2 DEF PlacesSound
<1>18. ReferencesSound(e)
  <2> SUFFICES ASSUME NEW g \in DOMAIN e.folders
               PROVE  /\ e.folders[g].creator # None =>
                           /\ e.folders[g].creator \in DOMAIN e.panels
                           /\ e.panels[e.folders[g].creator].project = e.folders[g].project
                      /\ e.folders[g].offer # None =>
                           /\ e.folders[g].offer \in DOMAIN e.panels
                           /\ e.panels[e.folders[g].offer].project = e.folders[g].project
                           /\ e.panels[e.folders[g].offer].folder # g
    BY DEF ReferencesSound
  <2>1. CASE g = f BY <1>2, <1>3, <1>5, <1>12, <2>1
  <2>2. CASE g # f BY <1>1, <1>2, <1>12, <2>2 DEF ReferencesSound
  <2> QED BY <2>1, <2>2
<1>19. SessionsSound(e) BY <1>1, <1>2, <1>11, <1>14 DEF SessionsSound
<1>20. ASSUME NEW z \in DOMAIN e.projects
       PROVE  Derived(e.projects[z], e.folders, e.panels)
  <2>0. z \in DOMAIN d.projects /\ e.panels = d.panels BY <1>2, <1>11
  <2>1. Derived(d.projects[z], e.folders, e.panels) BY <1>12, <2>0, CopiesStay
  <2>2. CASE z # pr BY <1>11, <2>0, <2>1, <2>2
  <2>3. CASE z = pr
    <3>1. old \in Seq(DOMAIN e.folders)
      <4>1. ToSet(old) \subseteq DOMAIN e.folders BY <1>1, <1>12 DEF FoldersSound, old
      <4> QED BY <1>7, <4>1, ListedIn
    <3>2. f \in DOMAIN e.folders /\ e.folders[f].panelIds = <<>> BY <1>5, <1>12
    <3>3. Table(e.folders, Folder, FolderRecord) BY <1>12
    <3> DEFINE F == e.folders
    <3> HIDE DEF F
    <3>4. /\ PanelsOf(F, Append(old, f)) = PanelsOf(F, old)
          /\ Occupied(F, Append(old, f)) = Occupied(F, old)
      BY <3>1, <3>2, <3>3, EmptyFolderAppended DEF F
    <3>5. Derived(d.projects[pr], F, e.panels) BY <2>1, <2>3 DEF F
    <3>6. /\ PanelsOf(F, y.folderIds) = PanelsOf(F, d.projects[pr].folderIds)
          /\ Occupied(F, y.folderIds) = Occupied(F, d.projects[pr].folderIds)
      BY <1>10, <3>4 DEF old
    <3>7. y.panelIds = d.projects[pr].panelIds /\ y.active = d.projects[pr].active
          /\ y.layout = d.projects[pr].layout
      BY <1>10
    <3>8. Derived(y, F, e.panels) BY <3>5, <3>6, <3>7, EmptyFolderCopies
    <3> QED BY <1>11, <2>3, <3>8 DEF F
  <2> QED BY <2>2, <2>3
<1> QED BY <1>13, <1>15, <1>16, <1>17, <1>18, <1>19, <1>20 DEF Sound, Placed, e

\* folder.delete of an empty folder needs no syncProject().
LEMMA FolderDeleteSound ==
    ASSUME NEW d, Sound(d), NEW f \in DOMAIN d.folders, FolderDeleteAllowed(d, f)
    PROVE  Sound(FolderDelete(d, f))
<1> DEFINE pr == d.folders[f].project
           old == d.projects[pr].folderIds
           y == [d.projects[pr] EXCEPT !.folderIds = Removing(old, f)]
           e == FolderDelete(d, f)
<1>1. /\ Typed(d) /\ ViewsSound(d) /\ FoldersSound(d) /\ PlacesSound(d) /\ ReferencesSound(d)
      /\ SessionsSound(d)
  BY DEF Sound, Placed
<1>2. /\ Fields(e)
      /\ e.viewOrder = d.viewOrder /\ e.views = d.views
      /\ e.projects = [d.projects EXCEPT ![pr] = y]
      /\ e.folders = Without(d.folders, {f}) /\ e.panels = d.panels /\ e.sessions = d.sessions
  <2>1. Fields(d) BY <1>1 DEF Typed
  <2> QED BY <2>1 DEF Fields, Sections, FolderDelete
<1>3. d.folders[f].kind # "general" /\ d.folders[f].panelIds = <<>> BY DEF FolderDeleteAllowed
<1>4. pr \in DOMAIN d.projects /\ f \in ToSet(old) BY <1>1 DEF FoldersSound
<1>5. d.projects[pr] \in ProjectRecord /\ old \in Seq(Folder)
  BY <1>1, <1>4, TypedFields DEF ProjectRecord
<1>6. IsInjective(old) BY <1>1, <1>4 DEF FoldersSound
<1>7. /\ Removing(old, f) \in Seq(Folder) /\ ToSet(Removing(old, f)) = ToSet(old) \ {f}
      /\ IsInjective(Removing(old, f))
  <2> HIDE DEF old
  <2> QED BY <1>5, <1>6, RemovingKeeps
<1>8. /\ y \in ProjectRecord /\ y.folderIds = Removing(old, f)
      /\ y.view = d.projects[pr].view /\ y.awaiting = d.projects[pr].awaiting
      /\ y.panelIds = d.projects[pr].panelIds
      /\ y.active = d.projects[pr].active /\ y.layout = d.projects[pr].layout
  <2> DEFINE new == Removing(old, f)
  <2>1. new \in Seq(Folder) BY <1>7
  <2> HIDE DEF new
  <2> QED BY <1>5, <2>1 DEF ProjectRecord, new
<1> HIDE DEF e, y, old
<1>11. /\ Table(e.projects, AnyProject, ProjectRecord)
       /\ DOMAIN e.projects = DOMAIN d.projects
       /\ e.projects[pr] = y
       /\ \A z \in DOMAIN d.projects : z # pr => e.projects[z] = d.projects[z]
  <2>1. Table(d.projects, AnyProject, ProjectRecord) BY <1>1 DEF Typed
  <2> HIDE DEF pr
  <2> QED BY <1>2, <1>4, <1>8, <2>1, UpdateKeeps
<1>12. /\ Table(e.folders, Folder, FolderRecord)
       /\ DOMAIN e.folders = DOMAIN d.folders \ {f}
       /\ \A z \in DOMAIN d.folders : z # f => e.folders[z] = d.folders[z]
  <2> DEFINE F == d.folders
  <2>1. Table(F, Folder, FolderRecord) BY <1>1 DEF Typed
  <2> HIDE DEF F
  <2>4. /\ Table(Without(F, {f}), Folder, FolderRecord)
        /\ DOMAIN Without(F, {f}) = DOMAIN F \ {f}
        /\ \A z \in DOMAIN F \ {f} : Without(F, {f})[z] = F[z]
    BY <2>1, WithoutKeeps
  <2> QED BY <1>2, <2>4 DEF F
<1>13. Typed(e) BY <1>1, <1>2, <1>11, <1>12 DEF Typed
<1>14. \A z \in DOMAIN d.projects :
        /\ e.projects[z].view = d.projects[z].view
        /\ e.projects[z].awaiting = d.projects[z].awaiting
        /\ ToSet(e.projects[z].folderIds) = ToSet(d.projects[z].folderIds) \ {f}
        /\ IsInjective(e.projects[z].folderIds)
  <2> TAKE z \in DOMAIN d.projects
  <2>1. CASE z = pr BY <1>7, <1>8, <1>11, <2>1 DEF old
  <2>2. CASE z # pr
    <3>1. f \notin ToSet(d.projects[z].folderIds) /\ IsInjective(d.projects[z].folderIds)
      BY <1>1, <2>2 DEF FoldersSound
    <3>2. ToSet(d.projects[z].folderIds) = ToSet(d.projects[z].folderIds) \ {f} BY <3>1
    <3> QED BY <1>11, <2>2, <3>1, <3>2
  <2> QED BY <2>1, <2>2
<1>15. ViewsSound(e) BY <1>1, <1>2, <1>11, <1>14 DEF ViewsSound
<1>16. FoldersSound(e)
  <2>1. ASSUME NEW z \in DOMAIN e.projects
        PROVE  /\ IsInjective(e.projects[z].folderIds)
               /\ \A h \in ToSet(e.projects[z].folderIds) :
                    h \in DOMAIN e.folders /\ e.folders[h].project = z
               /\ \E g \in ToSet(e.projects[z].folderIds) :
                    \A h \in ToSet(e.projects[z].folderIds) :
                       e.folders[h].kind = "general" <=> h = g
    <3>1. /\ z \in DOMAIN d.projects
          /\ \A h \in ToSet(d.projects[z].folderIds) :
               h \in DOMAIN d.folders /\ d.folders[h].project = z
          /\ \E g \in ToSet(d.projects[z].folderIds) :
               \A h \in ToSet(d.projects[z].folderIds) :
                  d.folders[h].kind = "general" <=> h = g
      BY <1>1, <1>11 DEF FoldersSound
    <3>2. PICK g \in ToSet(d.projects[z].folderIds) :
               \A h \in ToSet(d.projects[z].folderIds) :
                  d.folders[h].kind = "general" <=> h = g
      BY <3>1
    <3>3. g # f BY <1>3, <3>2
    <3>4. \A h \in ToSet(e.projects[z].folderIds) :
            h \in DOMAIN e.folders /\ e.folders[h] = d.folders[h]
            /\ h \in ToSet(d.projects[z].folderIds)
      BY <1>12, <1>14, <3>1
    <3>5. g \in ToSet(e.projects[z].folderIds) BY <1>14, <3>1, <3>3
    <3> QED BY <1>14, <3>1, <3>2, <3>4, <3>5
  <2>2. ASSUME NEW h \in DOMAIN e.folders
        PROVE  /\ e.folders[h].project \in DOMAIN e.projects
               /\ h \in ToSet(e.projects[e.folders[h].project].folderIds)
               /\ e.folders[h].kind = "linked" <=> e.folders[h].worktree # None
    <3>1. h \in DOMAIN d.folders /\ h # f /\ e.folders[h] = d.folders[h] BY <1>12
    <3>2. /\ d.folders[h].project \in DOMAIN d.projects
          /\ h \in ToSet(d.projects[d.folders[h].project].folderIds)
          /\ d.folders[h].kind = "linked" <=> d.folders[h].worktree # None
      BY <1>1, <3>1 DEF FoldersSound
    <3> QED BY <1>11, <1>14, <3>1, <3>2
  <2>3. ASSUME NEW h \in DOMAIN e.folders, NEW g \in DOMAIN e.folders,
               e.folders[h].worktree # None, e.folders[h].worktree = e.folders[g].worktree,
               e.folders[h].project = e.folders[g].project
        PROVE  h = g
    BY <1>1, <1>12, <2>3 DEF FoldersSound
  <2> QED BY <2>1, <2>2, <2>3 DEF FoldersSound
<1>17. \A q \in DOMAIN d.panels : d.panels[q].folder # f
  BY <1>1, <1>3, EmptyIs DEF PlacesSound
<1>18. PlacesSound(e)
  <2>1. ASSUME NEW g \in DOMAIN e.folders
        PROVE  /\ FolderShows(e.folders[g])
               /\ \A q \in ToSet(e.folders[g].panelIds) :
                    q \in DOMAIN e.panels /\ e.panels[q].folder = g
    BY ZenonT(40), <1>1, <1>2, <1>12 DEF PlacesSound
  <2>2. ASSUME NEW q \in DOMAIN e.panels
        PROVE  /\ e.panels[q].folder \in DOMAIN e.folders
               /\ e.folders[e.panels[q].folder].project = e.panels[q].project
               /\ q \in ToSet(e.folders[e.panels[q].folder].panelIds)
    <3>1. /\ q \in DOMAIN d.panels /\ e.panels[q] = d.panels[q]
          /\ d.panels[q].folder \in DOMAIN d.folders
          /\ d.folders[d.panels[q].folder].project = d.panels[q].project
          /\ q \in ToSet(d.folders[d.panels[q].folder].panelIds)
      BY <1>1, <1>2 DEF PlacesSound
    <3>2. d.panels[q].folder # f BY <1>17, <3>1
    <3>3. e.folders[d.panels[q].folder] = d.folders[d.panels[q].folder]
          /\ d.panels[q].folder \in DOMAIN e.folders
      BY <1>12, <3>1, <3>2
    <3> QED BY <3>1, <3>3
  <2> QED BY <2>1, <2>2 DEF PlacesSound
<1>19. ReferencesSound(e) BY <1>1, <1>2, <1>12 DEF ReferencesSound
<1>20. SessionsSound(e) BY <1>1, <1>2, <1>11, <1>14 DEF SessionsSound
<1>21. ASSUME NEW z \in DOMAIN e.projects
       PROVE  Derived(e.projects[z], e.folders, e.panels)
  <2>0. z \in DOMAIN d.projects /\ e.panels = d.panels BY <1>2, <1>11
  <2>2. CASE z # pr
    <3>1. \A g \in DOMAIN d.folders : d.folders[g].project = z
             => g \in DOMAIN e.folders /\ e.folders[g] = d.folders[g]
      BY <1>12, <2>2
    <3>2. e.projects[z] = d.projects[z] BY <1>11, <2>0, <2>2
    <3> QED BY <2>0, <3>1, <3>2, CopiesStay
  <2>3. CASE z = pr
    <3> DEFINE F == d.folders
    <3>1. old \in Seq(DOMAIN F)
      <4>1. ToSet(old) \subseteq DOMAIN F BY <1>1, <1>4 DEF FoldersSound, old
      <4> HIDE DEF F
      <4> QED BY <1>5, <4>1, ListedIn
    <3>2. f \in DOMAIN F /\ F[f].panelIds = <<>> BY <1>3
    <3>3. Table(F, Folder, FolderRecord) BY <1>1 DEF Typed
    <3> HIDE DEF F
    <3>4. /\ PanelsOf(F, Removing(old, f)) = PanelsOf(F, old)
          /\ Occupied(F, Removing(old, f)) = Occupied(F, old)
      BY <3>1, <3>2, <3>3, EmptyFolderRemoved
    <3>5. Derived(d.projects[pr], F, d.panels) BY <1>4 DEF F, Sound
    <3>6. /\ PanelsOf(F, y.folderIds) = PanelsOf(F, d.projects[pr].folderIds)
          /\ Occupied(F, y.folderIds) = Occupied(F, d.projects[pr].folderIds)
      BY <1>8, <3>4 DEF old
    <3>7. y.panelIds = d.projects[pr].panelIds /\ y.active = d.projects[pr].active
          /\ y.layout = d.projects[pr].layout
      BY <1>8
    <3>8. Derived(y, F, d.panels) BY <3>5, <3>6, <3>7, EmptyFolderCopies
    <3>9. y.folderIds \in Seq(Folder) /\ f \notin ToSet(y.folderIds)
          /\ ToSet(y.folderIds) \subseteq DOMAIN F \cap DOMAIN e.folders
      <4>1. ToSet(old) \subseteq DOMAIN F BY <3>1, EmptyIs
      <4> QED BY <1>7, <1>8, <1>12, <4>1 DEF F
    <3>10. \A g \in ToSet(y.folderIds) : e.folders[g] = F[g]
      BY <1>12, <3>9 DEF F
    <3>11. \A q : y.active = q /\ q # None
               => d.panels[q].folder = d.panels[q].folder /\ d.panels[q].folder \in ToSet(y.folderIds)
      <4>1. ASSUME y.active # None PROVE d.panels[y.active].folder \in ToSet(y.folderIds)
        <5> DEFINE w == d.projects[pr].active
        <5>1. w \in DOMAIN d.panels /\ d.panels[w].project = pr
          BY <1>4, <1>8, <4>1, ActiveStands
        <5>2. d.panels[w].folder \in DOMAIN d.folders /\ d.panels[w].folder # f
              /\ d.folders[d.panels[w].folder].project = pr
          BY <1>1, <1>17, <5>1 DEF PlacesSound
        <5>3. d.panels[w].folder \in ToSet(old)
          BY <1>1, <5>2 DEF FoldersSound, old
        <5> QED BY <5>3, <1>7, <1>8, <5>2
      <4> QED BY <4>1
    <3>12. Derived(y, e.folders, d.panels)
      <4> DEFINE G == e.folders  P == d.panels
      <4>1. /\ y.folderIds \in Seq(Folder)
            /\ ToSet(y.folderIds) \subseteq DOMAIN F \cap DOMAIN G
            /\ \A g \in ToSet(y.folderIds) : /\ G[g].panelIds = F[g].panelIds
                                             /\ G[g].active = F[g].active
                                             /\ G[g].layout = F[g].layout
            /\ \A q : y.active = q /\ q # None
                  => P[q].folder = P[q].folder /\ P[q].folder \in ToSet(y.folderIds)
            /\ Derived(y, F, P)
        BY <3>8, <3>9, <3>10, <3>11
      <4> HIDE DEF G, P
      <4>2. Derived(y, G, P) BY <4>1, DerivedKeeps
      <4> QED BY <4>2 DEF G, P
    <3> QED BY <1>2, <1>11, <2>3, <3>12
  <2> QED BY <2>2, <2>3
<1> QED BY <1>13, <1>15, <1>16, <1>18, <1>19, <1>20, <1>21 DEF Sound, Placed, e

-----------------------------------------------------------------------------
(* Panels come, and move between the folders of their project. *)

\* A new panel is put last in its folder and becomes active there and in the
\* project.
LEMMA NewPanelPlacedSound ==
    ASSUME NEW d, Sound(d), NEW p \in Panel \ DOMAIN d.panels, NEW f \in DOMAIN d.folders,
           NEW s \in Session \cup {None},
           s # None => s \in DOMAIN d.sessions /\ d.sessions[s].project = d.folders[f].project
    PROVE  Sound(NewPanelPlaced(d, p, d.folders[f].project, f, s))
<1> DEFINE pr == d.folders[f].project
           r == d.folders[f]
           x == WithFolderPanels(r, Append(r.panelIds, p), p)
           y == [project |-> pr, folder |-> f, session |-> s]
           m == [d EXCEPT
                  !.panels = With(@, p, [project |-> pr, folder |-> f, session |-> s]),
                  !.folders[f] = WithFolderPanels(@, Append(@.panelIds, p), p)]
<1>1. /\ Typed(d) /\ ViewsSound(d) /\ FoldersSound(d) /\ PlacesSound(d) /\ ReferencesSound(d)
      /\ SessionsSound(d)
  BY DEF Sound, Placed
<1>2. /\ Fields(m)
      /\ m.viewOrder = d.viewOrder /\ m.views = d.views /\ m.projects = d.projects
      /\ m.folders = [d.folders EXCEPT ![f] = x]
      /\ m.panels = With(d.panels, p, y) /\ m.sessions = d.sessions
  <2>1. Fields(d) BY <1>1 DEF Typed
  <2> QED BY <2>1 DEF Fields, Sections
<1>3. NewPanelPlaced(d, p, pr, f, s) = SyncProject(m, pr, p) BY DEF NewPanelPlaced
<1> HIDE DEF m
<1>4. r \in FolderRecord /\ r.panelIds \in Seq(Panel) /\ IsInjective(r.panelIds)
  BY <1>1, TypedFields DEF FolderRecord, PlacesSound, FolderShows
<1>5. p \in Panel /\ p \notin ToSet(r.panelIds) BY <1>1 DEF PlacesSound
<1> DEFINE ids == Append(r.panelIds, p)
<1>6. ids \in Seq(Panel) /\ IsInjective(ids) /\ ToSet(ids) = ToSet(r.panelIds) \cup {p}
  <2> DEFINE t == r.panelIds
  <2>1. t \in Seq(Panel) /\ IsInjective(t) /\ p \notin ToSet(t) BY <1>4, <1>5
  <2> HIDE DEF t
  <2>2. Append(t, p) \in Seq(Panel) /\ IsInjective(Append(t, p))
        /\ ToSet(Append(t, p)) = ToSet(t) \cup {p}
    BY <1>5, <2>1, AppendKeeps
  <2> QED BY <2>2 DEF t
<1>7. /\ x \in FolderRecord /\ FolderShows(x) /\ x.panelIds = ids /\ x.active = p
      /\ x.project = r.project /\ x.kind = r.kind /\ x.worktree = r.worktree
      /\ x.creator = r.creator /\ x.offer = r.offer
  <2> HIDE DEF r, ids
  <2>1. x = WithFolderPanels(r, ids, p) BY DEF ids
  <2>2. p \in ToSet(ids) BY <1>6
  <2> HIDE DEF x
  <2> QED BY <1>4, <1>6, <2>1, <2>2, WithFolderPanelsIs
<1>8. y \in PanelRecord /\ y.project = pr /\ y.folder = f /\ y.session = s
  <2>1. pr \in AnyProject /\ f \in Folder BY <1>1, TypedFields DEF FolderRecord
  <2> QED BY <2>1 DEF PanelRecord
<1> HIDE DEF x, y, ids
<1>9. /\ Table(m.folders, Folder, FolderRecord)
      /\ DOMAIN m.folders = DOMAIN d.folders
      /\ m.folders[f] = x
      /\ \A z \in DOMAIN d.folders : z # f => m.folders[z] = d.folders[z]
  <2>1. Table(d.folders, Folder, FolderRecord) BY <1>1 DEF Typed
  <2> QED BY <1>2, <1>7, <2>1, UpdateKeeps
<1>10. /\ Table(m.panels, Panel, PanelRecord)
       /\ DOMAIN m.panels = DOMAIN d.panels \cup {p}
       /\ m.panels[p] = y
       /\ \A z \in DOMAIN d.panels : z # p /\ m.panels[z] = d.panels[z]
  <2> DEFINE F == d.panels
  <2>1. Table(F, Panel, PanelRecord) BY <1>1 DEF Typed
  <2>2. y \in PanelRecord BY <1>8
  <2> HIDE DEF F
  <2>4. /\ Table(With(F, p, y), Panel, PanelRecord)
        /\ DOMAIN With(F, p, y) = DOMAIN F \cup {p}
        /\ With(F, p, y)[p] = y
        /\ \A z \in DOMAIN F : z # p => With(F, p, y)[z] = F[z]
    BY <1>5, <2>1, <2>2 DEF Table, With
  <2> QED BY <1>2, <2>4 DEF F
<1>11. Typed(m) BY <1>1, <1>2, <1>9, <1>10 DEF Typed
<1>12. \A g \in DOMAIN d.folders :
        /\ m.folders[g].project = d.folders[g].project
        /\ m.folders[g].kind = d.folders[g].kind
        /\ m.folders[g].worktree = d.folders[g].worktree
        /\ m.folders[g].creator = d.folders[g].creator
        /\ m.folders[g].offer = d.folders[g].offer
  BY <1>7, <1>9
<1>13. Rewrites(d, m) BY <1>2, <1>9, <1>12 DEF Rewrites
<1>14. ViewsSound(m) /\ FoldersSound(m) BY <1>1, <1>13, RewritesKeep
<1>15. PlacesSound(m)
  <2>1. ASSUME NEW g \in DOMAIN m.folders
        PROVE  /\ FolderShows(m.folders[g])
               /\ \A q \in ToSet(m.folders[g].panelIds) :
                    q \in DOMAIN m.panels /\ m.panels[q].folder = g
    <3>1. /\ FolderShows(d.folders[g])
          /\ \A q \in ToSet(d.folders[g].panelIds) :
                    q \in DOMAIN d.panels /\ d.panels[q].folder = g
      BY <1>1, <1>9 DEF PlacesSound
    <3>2. CASE g = f BY <1>6, <1>7, <1>8, <1>9, <1>10, <3>1, <3>2
    <3>3. CASE g # f BY <1>9, <1>10, <3>1, <3>3
    <3> QED BY <3>2, <3>3
  <2>2. ASSUME NEW q \in DOMAIN m.panels
        PROVE  /\ m.panels[q].folder \in DOMAIN m.folders
               /\ m.folders[m.panels[q].folder].project = m.panels[q].project
               /\ q \in ToSet(m.folders[m.panels[q].folder].panelIds)
    <3>1. CASE q = p BY <1>6, <1>7, <1>8, <1>9, <1>10, <3>1
    <3>2. CASE q # p
      <4>1. q \in DOMAIN d.panels /\ m.panels[q] = d.panels[q] BY <1>10, <3>2
      <4>2. /\ d.panels[q].folder \in DOMAIN d.folders
            /\ d.folders[d.panels[q].folder].project = d.panels[q].project
            /\ q \in ToSet(d.folders[d.panels[q].folder].panelIds)
        BY <1>1, <4>1 DEF PlacesSound
      <4>3. q \in ToSet(m.folders[d.panels[q].folder].panelIds) BY <1>6, <1>7, <1>9, <4>2
      <4> QED BY <1>9, <1>12, <4>1, <4>2, <4>3
    <3> QED BY <3>1, <3>2
  <2> QED BY <2>1, <2>2 DEF PlacesSound
<1>16. ReferencesSound(m) BY <1>1, <1>9, <1>10, <1>12 DEF ReferencesSound
<1>17. SessionsSound(m)
  <2>1. ASSUME NEW q \in DOMAIN m.panels, m.panels[q].session # None
        PROVE  /\ m.panels[q].session \in DOMAIN m.sessions
               /\ m.sessions[m.panels[q].session].project = m.panels[q].project
    <3>1. CASE q = p BY <1>2, <1>8, <1>10, <2>1, <3>1
    <3>2. CASE q # p BY <1>1, <1>2, <1>10, <2>1, <3>2 DEF SessionsSound
    <3> QED BY <3>1, <3>2
  <2> QED BY <1>1, <1>2, <2>1 DEF SessionsSound
<1>18. Placed(m) BY <1>11, <1>14, <1>15, <1>16, <1>17 DEF Placed
<1>19. OthersStay(d, m, {pr})
  <2>1. \A z \in DOMAIN d.panels : m.panels[z].folder = d.panels[z].folder BY <1>10
  <2> QED BY <1>2, <1>9, <2>1 DEF OthersStay
<1>20. pr \in DOMAIN d.projects BY <1>1 DEF FoldersSound
<1> HIDE DEF pr
<1>21. LET wanted == IF p = None THEN m.projects[pr].active ELSE p
       IN  wanted \in DOMAIN m.panels /\ m.panels[wanted].project = pr
              => m.folders[m.panels[wanted].folder].active = wanted
  <2>1. p # None BY <1>5, NoneIsNone
  <2>2. m.folders[m.panels[p].folder].active = p BY <1>7, <1>8, <1>9, <1>10
  <2> QED BY <2>1, <2>2
<1>22. DOMAIN m.projects = DOMAIN d.projects BY <1>2
<1>23. Sound(SyncProject(m, pr, p)) BY <1>18, <1>19, <1>20, <1>21, <1>22, SyncedSound
<1> QED BY <1>3, <1>23 DEF pr

\* panel.create.
LEMMA PanelCreateSound ==
    ASSUME NEW d, Sound(d), NEW p \in Panel \ DOMAIN d.panels, NEW f \in DOMAIN d.folders,
           NEW s \in Session \cup {None}, PanelCreateAllowed(d, d.folders[f].project, f, s)
    PROVE  Sound(PanelCreate(d, p, d.folders[f].project, f, s))
BY NewPanelPlacedSound DEF PanelCreateAllowed, PanelCreate

\* terminal.createPanel: the session is there before the panel that shows
\* it.
LEMMA TerminalCreatePanelSound ==
    ASSUME NEW d, Sound(d), NEW s \in Session \ DOMAIN d.sessions,
           NEW p \in Panel \ DOMAIN d.panels, NEW f \in DOMAIN d.folders,
           TerminalCreateAllowed(d, d.folders[f].project)
    PROVE  Sound(TerminalCreatePanel(d, s, d.folders[f].project, p, f))
<1> DEFINE pr == d.folders[f].project
           e == TerminalCreate(d, s, pr)
<1>1. pr \in DOMAIN d.projects BY DEF Sound, Placed, FoldersSound
<1>2. /\ Sound(e)
      /\ e.folders = d.folders /\ e.panels = d.panels
      /\ s \in DOMAIN e.sessions /\ e.sessions[s].project = pr
  BY <1>1, TerminalCreateSound
<1>3. TerminalCreatePanel(d, s, pr, p, f) = NewPanelPlaced(e, p, pr, f, s)
  BY DEF TerminalCreatePanel
<1> HIDE DEF e
<1>4. p \in Panel \ DOMAIN e.panels /\ f \in DOMAIN e.folders /\ s \in Session \cup {None}
      /\ e.folders[f].project = pr
  BY <1>2
<1>5. Sound(NewPanelPlaced(e, p, e.folders[f].project, f, s))
  BY <1>2, <1>4, NewPanelPlacedSound
<1> QED BY <1>3, <1>4, <1>5

\* movePanelToFolder(): the offer of the panel to its new folder is
\* answered, also when the folder is its own.
LEMMA MovePanelToFolderSound ==
    ASSUME NEW d, Sound(d), NEW p \in DOMAIN d.panels, NEW f \in DOMAIN d.folders,
           PanelMoveToFolderAllowed(d, p, f),
           NEW i \in Positions(Removing(d.folders[f].panelIds, p))
    PROVE  Sound(MovePanelToFolder(d, p, f, i))
<1> DEFINE panel == d.panels[p]
           h == panel.folder
           pr == panel.project
           r == d.folders[h]
           x == WithFolderPanels(r, Removing(r.panelIds, p), r.active)
           t == d.folders[f]
           others == Removing(t.panelIds, p)
           target == [t EXCEPT !.offer = IF @ = p THEN None ELSE @]
           y == WithFolderPanels(target, Spliced(others, i, p), p)
           z == [panel EXCEPT !.folder = f]
           left == IF f = h THEN d ELSE RemoveFromFolder(d, h, p)
           m == [left EXCEPT !.folders[f] = y, !.panels[p].folder = f]
<1>1. /\ Typed(d) /\ ViewsSound(d) /\ FoldersSound(d) /\ PlacesSound(d) /\ ReferencesSound(d)
      /\ SessionsSound(d)
  BY DEF Sound, Placed
<1>2. /\ h \in DOMAIN d.folders /\ r.project = pr /\ t.project = pr /\ pr \in DOMAIN d.projects
      /\ p \in Panel /\ f \in Folder /\ panel \in PanelRecord
      /\ r \in FolderRecord /\ t \in FolderRecord /\ p \in ToSet(r.panelIds)
  BY <1>1, TypedFields DEF PlacesSound, FoldersSound, PanelMoveToFolderAllowed
<1>3. /\ r.panelIds \in Seq(Panel) /\ IsInjective(r.panelIds)
      /\ t.panelIds \in Seq(Panel) /\ IsInjective(t.panelIds)
  BY <1>1, <1>2 DEF PlacesSound, FolderShows, FolderRecord
<1> HIDE DEF h, r, t, x, y, target, others
<1>4. left.folders[f] = t
  <2>1. CASE f = h BY <2>1 DEF t
  <2>2. CASE f # h
    <3>1. Fields(d) /\ d.folders \in [DOMAIN d.folders -> FolderRecord] BY <1>1 DEF Typed, Table
    <3> QED BY <2>2, <3>1 DEF RemoveFromFolder, Fields, Sections, t
  <2> QED BY <2>1, <2>2
<1>5. MovePanelToFolder(d, p, f, i) = SyncProject(m, pr, p)
  BY <1>4 DEF MovePanelToFolder, y, target, others, h
<1> DEFINE F == IF f = h THEN d.folders ELSE [d.folders EXCEPT ![h] = x]
<1>6. /\ Fields(left)
      /\ left.viewOrder = d.viewOrder /\ left.views = d.views /\ left.projects = d.projects
      /\ left.folders = F
      /\ left.panels = d.panels /\ left.sessions = d.sessions
  <2>1. Fields(d) BY <1>1 DEF Typed
  <2>2. CASE f = h BY <2>1, <2>2
  <2>3. CASE f # h BY <2>1, <2>3 DEF Fields, Sections, RemoveFromFolder, x, r
  <2> QED BY <2>2, <2>3
<1> HIDE DEF left
<1>7. /\ Fields(m)
      /\ m.viewOrder = d.viewOrder /\ m.views = d.views /\ m.projects = d.projects
      /\ m.folders = [F EXCEPT ![f] = y]
      /\ m.panels = [d.panels EXCEPT ![p] = z] /\ m.sessions = d.sessions
  <2> HIDE DEF F
  <2> QED BY <1>6 DEF Fields, Sections
<1> HIDE DEF m
<1>8. /\ x \in FolderRecord /\ FolderShows(x)
      /\ ToSet(x.panelIds) = ToSet(r.panelIds) \ {p}
      /\ x.project = r.project /\ x.kind = r.kind /\ x.worktree = r.worktree
      /\ x.creator = r.creator /\ x.offer = r.offer
  <2> DEFINE ids == Removing(r.panelIds, p)
  <2>1. ids \in Seq(Panel) /\ IsInjective(ids) /\ ToSet(ids) = ToSet(r.panelIds) \ {p}
    BY <1>3, RemovingKeeps
  <2>2. x = WithFolderPanels(r, ids, r.active) BY DEF x
  <2> HIDE DEF ids
  <2>3. /\ x \in FolderRecord /\ FolderShows(x) /\ x.panelIds = ids
        /\ x.project = r.project /\ x.kind = r.kind /\ x.worktree = r.worktree
        /\ x.creator = r.creator /\ x.offer = r.offer
    BY <1>2, <2>1, <2>2, WithFolderPanelsIs
  <2> QED BY <2>1, <2>3
<1>9. /\ target \in FolderRecord
      /\ target.project = t.project /\ target.kind = t.kind /\ target.worktree = t.worktree
      /\ target.creator = t.creator
      /\ target.offer # p /\ target.offer \in {None, t.offer}
  <2>1. p # None BY <1>2, NoneIsNone
  <2> QED BY <1>2, <2>1 DEF target, FolderRecord
<1>10. /\ y \in FolderRecord /\ FolderShows(y)
       /\ ToSet(y.panelIds) = ToSet(t.panelIds) \cup {p} /\ y.active = p
       /\ y.project = t.project /\ y.kind = t.kind /\ y.worktree = t.worktree
       /\ y.creator = t.creator /\ y.offer = target.offer
  <2> DEFINE ids == Spliced(others, i, p)
  <2>1. others \in Seq(Panel) /\ IsInjective(others) /\ ToSet(others) = ToSet(t.panelIds) \ {p}
    BY <1>3, RemovingKeeps DEF others
  <2>2. i \in 0..Len(others) BY DEF Positions, others, t
  <2>3. ids \in Seq(Panel) /\ IsInjective(ids) /\ ToSet(ids) = ToSet(others) \cup {p}
    BY <1>2, <2>1, <2>2, SplicedKeeps
  <2>4. y = WithFolderPanels(target, ids, p) BY DEF y
  <2> HIDE DEF ids
  <2>5. p \in ToSet(ids) BY <2>3
  <2>6. /\ y \in FolderRecord /\ FolderShows(y) /\ y.panelIds = ids /\ y.active = p
        /\ y.project = target.project /\ y.kind = target.kind /\ y.worktree = target.worktree
        /\ y.creator = target.creator /\ y.offer = target.offer
    BY <1>9, <2>3, <2>4, <2>5, WithFolderPanelsIs
  <2> QED BY <1>9, <2>1, <2>3, <2>6
<1>11. z \in PanelRecord /\ z.project = pr /\ z.folder = f /\ z.session = panel.session
  BY <1>2 DEF PanelRecord
<1>12. /\ Table(F, Folder, FolderRecord)
       /\ DOMAIN F = DOMAIN d.folders
       /\ f # h => F[h] = x
       /\ \A g \in DOMAIN d.folders : g # h \/ f = h => F[g] = d.folders[g]
  <2>1. Table(d.folders, Folder, FolderRecord) BY <1>1 DEF Typed
  <2>2. CASE f = h BY <2>1, <2>2
  <2>3. CASE f # h
    <3>1. h \in DOMAIN d.folders /\ x \in FolderRecord BY <1>2, <1>8
    <3>2. /\ Table([d.folders EXCEPT ![h] = x], Folder, FolderRecord)
          /\ DOMAIN [d.folders EXCEPT ![h] = x] = DOMAIN d.folders
          /\ [d.folders EXCEPT ![h] = x][h] = x
          /\ \A g \in DOMAIN d.folders : g # h => [d.folders EXCEPT ![h] = x][g] = d.folders[g]
      BY <2>1, <3>1, UpdateKeeps
    <3> QED BY <2>3, <3>2
  <2> QED BY <2>2, <2>3
<1> HIDE DEF F, z
<1>13. /\ Table(m.folders, Folder, FolderRecord)
       /\ DOMAIN m.folders = DOMAIN d.folders
       /\ m.folders[f] = y
       /\ f # h => m.folders[h] = x
       /\ \A g \in DOMAIN d.folders : g # f /\ g # h => m.folders[g] = d.folders[g]
  <2>1. f \in DOMAIN F /\ y \in FolderRecord BY <1>10, <1>12
  <2>2. Table(F, Folder, FolderRecord) BY <1>12
  <2>3. /\ Table([F EXCEPT ![f] = y], Folder, FolderRecord)
        /\ DOMAIN [F EXCEPT ![f] = y] = DOMAIN F
        /\ [F EXCEPT ![f] = y][f] = y
        /\ \A g \in DOMAIN F : g # f => [F EXCEPT ![f] = y][g] = F[g]
    BY <2>1, <2>2, UpdateKeeps
  <2> QED BY <1>2, <1>7, <1>12, <2>3
<1>14. /\ Table(m.panels, Panel, PanelRecord)
       /\ DOMAIN m.panels = DOMAIN d.panels
       /\ m.panels[p] = z
       /\ \A q \in DOMAIN d.panels : q # p => m.panels[q] = d.panels[q]
  <2>1. Table(d.panels, Panel, PanelRecord) BY <1>1 DEF Typed
  <2> QED BY <1>7, <1>11, <2>1, UpdateKeeps
<1>15. Typed(m) BY <1>1, <1>7, <1>13, <1>14 DEF Typed
<1>16. ASSUME NEW g \in DOMAIN d.folders
       PROVE  /\ m.folders[g].project = d.folders[g].project
              /\ m.folders[g].kind = d.folders[g].kind
              /\ m.folders[g].worktree = d.folders[g].worktree
              /\ m.folders[g].creator = d.folders[g].creator
              /\ m.folders[g].offer \in {None, d.folders[g].offer}
              /\ g = f => m.folders[g].offer # p
  <2>1. CASE g = f BY <1>9, <1>10, <1>13, <2>1 DEF t
  <2>2. CASE g # f /\ g = h BY <1>8, <1>13, <2>2 DEF r
  <2>3. CASE g # f /\ g # h BY <1>13, <2>3
  <2> QED BY <2>1, <2>2, <2>3
<1>17. Rewrites(d, m) BY <1>7, <1>13, <1>16 DEF Rewrites
<1>18. ViewsSound(m) /\ FoldersSound(m) BY <1>1, <1>17, RewritesKeep
<1>19. \A q \in DOMAIN d.panels :
         /\ m.panels[q].project = d.panels[q].project
         /\ m.panels[q].session = d.panels[q].session
         /\ q # p => m.panels[q].folder = d.panels[q].folder
  BY <1>11, <1>14
<1>20. PlacesSound(m)
  <2>1. ASSUME NEW g \in DOMAIN m.folders
        PROVE  /\ FolderShows(m.folders[g])
               /\ \A q \in ToSet(m.folders[g].panelIds) :
                    q \in DOMAIN m.panels /\ m.panels[q].folder = g
    <3>1. /\ FolderShows(d.folders[g])
          /\ \A q \in ToSet(d.folders[g].panelIds) :
                    q \in DOMAIN d.panels /\ d.panels[q].folder = g
      BY <1>1, <1>13 DEF PlacesSound
    <3>2. CASE g = f BY <1>10, <1>11, <1>13, <1>14, <1>19, <3>1, <3>2 DEF t
    <3>3. CASE g # f /\ g = h BY <1>8, <1>13, <1>14, <1>19, <3>1, <3>3 DEF r
    <3>4. CASE g # f /\ g # h
      <4>1. p \notin ToSet(d.folders[g].panelIds) BY <3>1, <3>4 DEF h
      <4> QED BY <1>13, <1>14, <1>19, <3>1, <3>4, <4>1
    <3> QED BY <3>2, <3>3, <3>4
  <2>2. ASSUME NEW q \in DOMAIN m.panels
        PROVE  /\ m.panels[q].folder \in DOMAIN m.folders
               /\ m.folders[m.panels[q].folder].project = m.panels[q].project
               /\ q \in ToSet(m.folders[m.panels[q].folder].panelIds)
    <3>1. CASE q = p BY <1>2, <1>10, <1>11, <1>13, <1>14, <3>1
    <3>2. CASE q # p
      <4> DEFINE g == d.panels[q].folder
      <4>1. /\ g \in DOMAIN d.folders
            /\ d.folders[g].project = d.panels[q].project
            /\ q \in ToSet(d.folders[g].panelIds)
            /\ q \in DOMAIN d.panels
        BY <1>1, <1>14 DEF PlacesSound
      <4>2. m.panels[q].folder = g /\ m.panels[q].project = d.panels[q].project
        BY <1>19, <3>2, <4>1
      <4> HIDE DEF g
      <4>3. q \in ToSet(m.folders[g].panelIds)
        <5>1. CASE g = f BY <1>10, <1>13, <4>1, <5>1 DEF t
        <5>2. CASE g # f /\ g = h BY <1>8, <1>13, <3>2, <4>1, <5>2 DEF r
        <5>3. CASE g # f /\ g # h BY <1>13, <4>1, <5>3
        <5> QED BY <5>1, <5>2, <5>3
      <4> QED BY <1>13, <1>16, <4>1, <4>2, <4>3
    <3> QED BY <3>1, <3>2
  <2> QED BY <2>1, <2>2 DEF PlacesSound
<1>21. ReferencesSound(m)
  <2> SUFFICES ASSUME NEW g \in DOMAIN d.folders
               PROVE  /\ m.folders[g].creator # None =>
                           /\ m.folders[g].creator \in DOMAIN m.panels
                           /\ m.panels[m.folders[g].creator].project = m.folders[g].project
                      /\ m.folders[g].offer # None =>
                           /\ m.folders[g].offer \in DOMAIN m.panels
                           /\ m.panels[m.folders[g].offer].project = m.folders[g].project
                           /\ m.panels[m.folders[g].offer].folder # g
    BY <1>13 DEF ReferencesSound
  <2>1. /\ d.folders[g].creator # None =>
             /\ d.folders[g].creator \in DOMAIN d.panels
             /\ d.panels[d.folders[g].creator].project = d.folders[g].project
        /\ d.folders[g].offer # None =>
             /\ d.folders[g].offer \in DOMAIN d.panels
             /\ d.panels[d.folders[g].offer].project = d.folders[g].project
             /\ d.panels[d.folders[g].offer].folder # g
    BY <1>1 DEF ReferencesSound
  <2>2. m.folders[g].creator # None =>
           /\ m.folders[g].creator \in DOMAIN m.panels
           /\ m.panels[m.folders[g].creator].project = m.folders[g].project
    BY <1>14, <1>16, <1>19, <2>1
  <2>3. ASSUME m.folders[g].offer # None
        PROVE  /\ m.folders[g].offer \in DOMAIN m.panels
               /\ m.panels[m.folders[g].offer].project = m.folders[g].project
               /\ m.panels[m.folders[g].offer].folder # g
    <3> DEFINE o == m.folders[g].offer
    <3>1. o = d.folders[g].offer BY <1>16, <2>3
    <3> HIDE DEF o
    <3>2. o \in DOMAIN d.panels /\ d.panels[o].project = d.folders[g].project
          /\ d.panels[o].folder # g
      BY <2>1, <2>3, <3>1 DEF o
    <3>3. m.panels[o].folder # g
      <4>1. CASE o # p BY <1>19, <3>2, <4>1
      <4>2. CASE o = p
        <5>1. g # f BY <1>16, <4>2 DEF o
        <5> QED BY <1>11, <1>14, <4>2, <5>1
      <4> QED BY <4>1, <4>2
    <3> QED BY <1>14, <1>16, <1>19, <3>2, <3>3 DEF o
  <2> QED BY <2>2, <2>3
<1>22. SessionsSound(m) BY <1>1, <1>7, <1>14, <1>19 DEF SessionsSound
<1>23. Placed(m) BY <1>15, <1>18, <1>20, <1>21, <1>22 DEF Placed
<1>24. OthersStay(d, m, {pr})
  <2>1. \A g \in DOMAIN d.folders : d.folders[g].project # pr => m.folders[g] = d.folders[g]
    BY <1>2, <1>13 DEF r, t
  <2>2. \A q \in DOMAIN d.panels : d.panels[q].project # pr
                                     => m.panels[q].folder = d.panels[q].folder
    BY <1>19
  <2> QED BY <1>7, <1>13, <2>1, <2>2 DEF OthersStay
<1>25. pr \in DOMAIN d.projects /\ DOMAIN m.projects = DOMAIN d.projects BY <1>2, <1>7
<1> HIDE DEF pr
<1>26. LET wanted == IF p = None THEN m.projects[pr].active ELSE p
       IN  wanted \in DOMAIN m.panels /\ m.panels[wanted].project = pr
              => m.folders[m.panels[wanted].folder].active = wanted
  <2>1. p # None BY <1>2, NoneIsNone
  <2>2. m.folders[m.panels[p].folder].active = p BY <1>10, <1>11, <1>13, <1>14
  <2> QED BY <2>1, <2>2
<1>27. Sound(SyncProject(m, pr, p)) BY <1>23, <1>24, <1>25, <1>26, SyncedSound
<1> QED BY <1>5, <1>27

\* folder.offer.accept: the offered panel is in another folder, so it moves.
LEMMA FolderOfferAcceptSound ==
    ASSUME NEW d, Sound(d), NEW f \in DOMAIN d.folders, d.folders[f].offer # None
    PROVE  Sound(FolderOfferAccept(d, f))
<1> DEFINE p == d.folders[f].offer
           others == Removing(d.folders[f].panelIds, p)
<1>1. Typed(d) /\ ReferencesSound(d) BY DEF Sound, Placed
<1>2. p \in DOMAIN d.panels /\ d.panels[p].project = d.folders[f].project
  BY <1>1 DEF ReferencesSound
<1>3. others \in Seq(Panel) BY <1>1, TypedFields, RemovingKeeps DEF FolderRecord
<1>4. Len(others) \in Positions(others) BY <1>3 DEF Positions
<1>5. FolderOfferAccept(d, f) = MovePanelToFolder(d, p, f, Len(others))
  BY DEF FolderOfferAccept
<1>6. PanelMoveToFolderAllowed(d, p, f) BY <1>2 DEF PanelMoveToFolderAllowed
<1> DEFINE i == Len(others)
<1>7. i \in Positions(Removing(d.folders[f].panelIds, p)) BY <1>4
<1> HIDE DEF i, p
<1>8. Sound(MovePanelToFolder(d, p, f, i)) BY <1>2, <1>6, <1>7, MovePanelToFolderSound
<1> QED BY <1>5, <1>8 DEF i, p

-----------------------------------------------------------------------------
(* Panels leave their project. *)

\* The folders H that are left when the panel p is taken out of its folder and
\* forgotten by the folders of its project.
Leaves(d, H, p) ==
    /\ Table(H, Folder, FolderRecord)
    /\ DOMAIN H = DOMAIN d.folders
    /\ \A g \in DOMAIN d.folders :
         /\ H[g].project = d.folders[g].project
         /\ H[g].kind = d.folders[g].kind
         /\ H[g].worktree = d.folders[g].worktree
         /\ H[g].creator \in {None, d.folders[g].creator} \ {p}
         /\ H[g].offer \in {None, d.folders[g].offer} \ {p}
         /\ FolderShows(H[g])
         /\ ToSet(H[g].panelIds) = ToSet(d.folders[g].panelIds) \ {p}
         /\ H[g].active \in ToSet(H[g].panelIds) \cup {None}
         /\ d.folders[g].active # p => H[g].active = d.folders[g].active
         /\ g # d.panels[p].folder =>
              /\ H[g].panelIds = d.folders[g].panelIds
              /\ H[g].active = d.folders[g].active
              /\ H[g].layout = d.folders[g].layout

Forgetting(d, p) ==
    [f \in DOMAIN d.folders |->
       IF f \in ToSet(d.projects[d.panels[p].project].folderIds)
       THEN [d.folders[f] EXCEPT !.creator = IF @ = p THEN None ELSE @,
                                 !.offer = IF @ = p THEN None ELSE @]
       ELSE d.folders[f]]

\* A folder that forgets the panel keeps everything else.
LEMMA ForgottenIs ==
    ASSUME NEW x \in FolderRecord, NEW p \in Panel
    PROVE  LET e == [x EXCEPT !.creator = IF @ = p THEN None ELSE @,
                              !.offer = IF @ = p THEN None ELSE @]
           IN /\ e \in FolderRecord
              /\ e.project = x.project /\ e.kind = x.kind /\ e.worktree = x.worktree
              /\ e.panelIds = x.panelIds /\ e.active = x.active /\ e.layout = x.layout
              /\ e.creator \in {None, x.creator} \ {p}
              /\ e.offer \in {None, x.offer} \ {p}
<1> DEFINE c == IF x.creator = p THEN None ELSE x.creator
           o == IF x.offer = p THEN None ELSE x.offer
           a == [x EXCEPT !.creator = c]
           b == [a EXCEPT !.offer = o]
           e == [x EXCEPT !.creator = IF @ = p THEN None ELSE @,
                              !.offer = IF @ = p THEN None ELSE @]
<1>0. p # None BY NoneIsNone
<1>1. /\ c \in Panel \cup {None} /\ o \in Panel \cup {None}
      /\ c \in {None, x.creator} \ {p} /\ o \in {None, x.offer} \ {p}
  BY <1>0 DEF FolderRecord
<1>2. e = b BY DEF FolderRecord
<1> HIDE DEF c, o
<1>3. /\ a \in FolderRecord /\ a.creator = c
      /\ a.project = x.project /\ a.kind = x.kind /\ a.worktree = x.worktree
      /\ a.panelIds = x.panelIds /\ a.active = x.active /\ a.layout = x.layout
      /\ a.offer = x.offer
  BY <1>1 DEF FolderRecord
<1> HIDE DEF a
<1>4. /\ b \in FolderRecord /\ b.creator = c /\ b.offer = o
      /\ b.project = x.project /\ b.kind = x.kind /\ b.worktree = x.worktree
      /\ b.panelIds = x.panelIds /\ b.active = x.active /\ b.layout = x.layout
  BY <1>1, <1>3 DEF FolderRecord
<1> HIDE DEF b, e
<1> QED BY <1>1, <1>2, <1>4 DEF e

\* The panel's folder shows the other panels; the others forget it.
LEMMA LeavesIs ==
    ASSUME NEW d, Placed(d), NEW p \in DOMAIN d.panels
    PROVE  LET G == Forgetting(d, p)
               h == d.panels[p].folder
           IN  Leaves(d, [G EXCEPT ![h] = WithFolderPanels(G[h], Removing(G[h].panelIds, p),
                                                           G[h].active)], p)
<1> DEFINE G == Forgetting(d, p)
           h == d.panels[p].folder
           pr == d.panels[p].project
           x == WithFolderPanels(G[h], Removing(G[h].panelIds, p), G[h].active)
           H == [G EXCEPT ![h] = x]
<1>1. Typed(d) /\ FoldersSound(d) /\ PlacesSound(d) /\ ReferencesSound(d) BY DEF Placed
<1>2. h \in DOMAIN d.folders /\ p \in ToSet(d.folders[h].panelIds) /\ p \in Panel /\ p # None
  BY <1>1, TypedFields, NoneIsNone DEF PlacesSound
<1>3. ASSUME NEW g \in DOMAIN d.folders
      PROVE  /\ G[g] \in FolderRecord
             /\ G[g].project = d.folders[g].project /\ G[g].kind = d.folders[g].kind
             /\ G[g].worktree = d.folders[g].worktree
             /\ G[g].panelIds = d.folders[g].panelIds /\ G[g].active = d.folders[g].active
             /\ G[g].layout = d.folders[g].layout
             /\ G[g].creator \in {None, d.folders[g].creator} \ {p}
             /\ G[g].offer \in {None, d.folders[g].offer} \ {p}
  <2> DEFINE r == d.folders[g]
             e == [r EXCEPT !.creator = IF @ = p THEN None ELSE @,
                            !.offer = IF @ = p THEN None ELSE @]
  <2>1. r \in FolderRecord BY <1>1, TypedFields
  <2>2. CASE g \in ToSet(d.projects[pr].folderIds)
    <3>1. G[g] = e BY <2>2 DEF Forgetting
    <3> HIDE DEF r
    <3>2. /\ e \in FolderRecord
          /\ e.project = r.project /\ e.kind = r.kind /\ e.worktree = r.worktree
          /\ e.panelIds = r.panelIds /\ e.active = r.active /\ e.layout = r.layout
          /\ e.creator \in {None, r.creator} \ {p}
          /\ e.offer \in {None, r.offer} \ {p}
      BY <1>2, <2>1, ForgottenIs
    <3> HIDE DEF e, G
    <3> QED BY <3>1, <3>2 DEF r
  <2>3. CASE g \notin ToSet(d.projects[pr].folderIds)
    <3>1. G[g] = r BY <2>3 DEF Forgetting
    <3>2. r.project # pr BY <1>1, <2>3 DEF FoldersSound
    <3>3. r.creator # p /\ r.offer # p
      BY <1>1, <1>2, <3>2 DEF ReferencesSound
    <3> HIDE DEF r, G
    <3> QED BY <2>1, <3>1, <3>3 DEF r
  <2> QED BY <2>2, <2>3
<1>4. DOMAIN G = DOMAIN d.folders BY DEF Forgetting
<1>5. Table(G, Folder, FolderRecord)
  <2>1. G \in [DOMAIN G -> FolderRecord]
    <3>1. G = [g \in DOMAIN G |-> G[g]] BY DEF Forgetting
    <3> HIDE DEF G
    <3> QED BY <1>3, <1>4, <3>1
  <2>2. DOMAIN d.folders \subseteq Folder BY <1>1 DEF Typed, Table
  <2> QED BY <1>4, <2>1, <2>2 DEF Table
<1> HIDE DEF G
<1>6. \A g \in DOMAIN d.folders : FolderShows(d.folders[g]) /\ FolderShows(G[g])
  <2>1. \A g \in DOMAIN d.folders : FolderShows(d.folders[g]) BY <1>1 DEF PlacesSound
  <2> QED BY <1>3, <2>1 DEF FolderShows
<1>7. /\ x \in FolderRecord /\ FolderShows(x)
      /\ ToSet(x.panelIds) = ToSet(G[h].panelIds) \ {p}
      /\ x.active \in ToSet(x.panelIds) \cup {None}
      /\ G[h].active # p => x.active = G[h].active
      /\ x.project = G[h].project /\ x.kind = G[h].kind /\ x.worktree = G[h].worktree
      /\ x.creator = G[h].creator /\ x.offer = G[h].offer
  <2> DEFINE ids == Removing(G[h].panelIds, p)
  <2>1. G[h] \in FolderRecord /\ FolderShows(G[h]) BY <1>2, <1>3, <1>6
  <2>2. G[h].panelIds \in Seq(Panel) /\ IsInjective(G[h].panelIds)
    BY <2>1 DEF FolderRecord, FolderShows
  <2>3. ids \in Seq(Panel) /\ IsInjective(ids) /\ ToSet(ids) = ToSet(G[h].panelIds) \ {p}
    BY <2>2, RemovingKeeps
  <2> HIDE DEF ids
  <2>4. x = WithFolderPanels(G[h], ids, G[h].active) BY DEF ids
  <2> HIDE DEF x
  <2>5. /\ x \in FolderRecord /\ FolderShows(x) /\ x.panelIds = ids
        /\ G[h].active \in ToSet(ids) => x.active = G[h].active
        /\ x.active \in ToSet(ids) \cup {None}
        /\ x.project = G[h].project /\ x.kind = G[h].kind /\ x.worktree = G[h].worktree
        /\ x.creator = G[h].creator /\ x.offer = G[h].offer
    <3> DEFINE u == G[h]
    <3>1. u \in FolderRecord /\ x = WithFolderPanels(u, ids, u.active) BY <2>1, <2>4
    <3> HIDE DEF u
    <3>2. /\ x \in FolderRecord /\ FolderShows(x) /\ x.panelIds = ids
          /\ u.active \in ToSet(ids) => x.active = u.active
          /\ x.active \in ToSet(ids) \cup {None}
          /\ x.project = u.project /\ x.kind = u.kind /\ x.worktree = u.worktree
          /\ x.creator = u.creator /\ x.offer = u.offer
      BY <2>3, <3>1, WithFolderPanelsIs
    <3> QED BY <3>2 DEF u
  <2>6. G[h].active \in ToSet(G[h].panelIds)
    <3>1. G[h].active \in ToSet(G[h].panelIds) \cup {None}
          /\ (G[h].active = None <=> G[h].panelIds = <<>>)
      BY <2>1 DEF FolderShows
    <3>2. G[h].panelIds # <<>> BY <1>2, <1>3, EmptyIs
    <3> QED BY <3>1, <3>2
  <2> QED BY <2>3, <2>5, <2>6
<1> HIDE DEF x
<1>8. /\ Table(H, Folder, FolderRecord)
      /\ DOMAIN H = DOMAIN d.folders
      /\ H[h] = x
      /\ \A g \in DOMAIN d.folders : g # h => H[g] = G[g]
  <2>1. h \in DOMAIN G /\ x \in FolderRecord BY <1>2, <1>4, <1>7
  <2> HIDE DEF h
  <2> QED BY <1>4, <1>5, <2>1, UpdateKeeps
<1> HIDE DEF H
<1>9. ASSUME NEW g \in DOMAIN d.folders
      PROVE  /\ H[g].project = d.folders[g].project
             /\ H[g].kind = d.folders[g].kind
             /\ H[g].worktree = d.folders[g].worktree
             /\ H[g].creator \in {None, d.folders[g].creator} \ {p}
             /\ H[g].offer \in {None, d.folders[g].offer} \ {p}
             /\ FolderShows(H[g])
             /\ ToSet(H[g].panelIds) = ToSet(d.folders[g].panelIds) \ {p}
             /\ H[g].active \in ToSet(H[g].panelIds) \cup {None}
             /\ d.folders[g].active # p => H[g].active = d.folders[g].active
             /\ g # h =>
                  /\ H[g].panelIds = d.folders[g].panelIds
                  /\ H[g].active = d.folders[g].active
                  /\ H[g].layout = d.folders[g].layout
  <2>1. CASE g = h BY <1>3, <1>7, <1>8, <2>1
  <2>2. CASE g # h
    <3>1. H[g] = G[g] BY <1>8, <2>2
    <3>2. p \notin ToSet(d.folders[g].panelIds) BY <1>1, <2>2 DEF PlacesSound
    <3>3. ToSet(d.folders[g].panelIds) = ToSet(d.folders[g].panelIds) \ {p} BY <3>2
    <3>4. G[g].active \in ToSet(G[g].panelIds) \cup {None} BY <1>6 DEF FolderShows
    <3> QED BY <1>3, <1>6, <2>2, <3>1, <3>3, <3>4
  <2> QED BY <2>1, <2>2
<1> HIDE DEF h
<1>10. Leaves(d, H, p) BY <1>8, <1>9 DEF Leaves, h
<1> QED BY <1>10 DEF H, x, G, h

\* No other panel shows the session p shows.
Alone(d, p) ==
    \A q \in DOMAIN d.panels :
      q # p /\ d.panels[p].session # None => d.panels[q].session # d.panels[p].session

\* syncProject() keeps panels and sessions.
LEMMA SyncLeaves ==
    ASSUME NEW m, Fields(m), NEW pr, NEW asked
    PROVE  LET e == SyncProject(m, pr, asked)
           IN Fields(e) /\ e.panels = m.panels /\ e.sessions = m.sessions
BY ZenonT(40) DEF SyncProject, Fields, Sections

LeftFolders(d, p) ==
    [Forgetting(d, p) EXCEPT ![d.panels[p].folder] =
       WithFolderPanels(@, Removing(@.panelIds, p), @.active)]

\* The folders a close or a move leaves, by the reducer's own steps.
LEMMA LeftFoldersLeave ==
    ASSUME NEW d, Placed(d), NEW p \in DOMAIN d.panels
    PROVE  Leaves(d, LeftFolders(d, p), p)
<1> DEFINE G == Forgetting(d, p)
           h == d.panels[p].folder
<1>1. h \in DOMAIN d.folders BY DEF Placed, PlacesSound
<1>2. h \in DOMAIN G BY <1>1 DEF Forgetting
<1>3. Leaves(d, [G EXCEPT ![h] = WithFolderPanels(G[h], Removing(G[h].panelIds, p),
                                                  G[h].active)], p)
  BY LeavesIs
<1> HIDE DEF G, h
<1>4. [G EXCEPT ![h] = WithFolderPanels(G[h], Removing(G[h].panelIds, p), G[h].active)]
       = [G EXCEPT ![h] = WithFolderPanels(@, Removing(@.panelIds, p), @.active)]
  OBVIOUS
<1> QED BY <1>3, <1>4 DEF LeftFolders, G, h

\* The document before the copies are made again.
Closes(d, m, p) ==
    /\ Fields(m)
    /\ m.viewOrder = d.viewOrder /\ m.views = d.views /\ m.projects = d.projects
    /\ m.folders = LeftFolders(d, p)
    /\ m.panels = Without(d.panels, {p})
    /\ m.sessions = Without(d.sessions, {d.panels[p].session})

\* panel.close, up to the copies.
LEMMA PanelCloseIs ==
    ASSUME NEW d, Fields(d), NEW p
    PROVE  \E m : /\ Closes(d, m, p)
                  /\ PanelClose(d, p) =
                       SyncProject(m, d.panels[p].project,
                         IF d.projects[d.panels[p].project].active = p
                         THEN m.folders[d.panels[p].folder].active ELSE None)
<1> DEFINE panel == d.panels[p]
           gone == [d EXCEPT !.panels = Without(@, {p}),
                             !.sessions = Without(@, {panel.session})]
           forgot == ForgetPanelReferences(gone, panel.project, p)
           m == RemoveFromFolder(forgot, panel.folder, p)
<1>1. PanelClose(d, p) = SyncProject(m, d.panels[p].project,
                         IF d.projects[d.panels[p].project].active = p
                         THEN m.folders[d.panels[p].folder].active ELSE None)
  BY DEF PanelClose
<1>2. /\ Fields(gone)
      /\ gone.viewOrder = d.viewOrder /\ gone.views = d.views /\ gone.projects = d.projects
      /\ gone.folders = d.folders
      /\ gone.panels = Without(d.panels, {p})
      /\ gone.sessions = Without(d.sessions, {panel.session})
  BY DEF Fields, Sections
<1> HIDE DEF gone
<1> DEFINE pr == panel.project
<1>3. /\ Fields(forgot)
      /\ forgot.viewOrder = d.viewOrder /\ forgot.views = d.views /\ forgot.projects = d.projects
      /\ forgot.folders = Forgetting(d, p)
      /\ forgot.panels = gone.panels /\ forgot.sessions = gone.sessions
  <2> DEFINE F == [f \in DOMAIN gone.folders |->
                     IF f \in ToSet(gone.projects[pr].folderIds)
                     THEN [gone.folders[f] EXCEPT !.creator = IF @ = p THEN None ELSE @,
                                                  !.offer = IF @ = p THEN None ELSE @]
                     ELSE gone.folders[f]]
  <2>1. forgot = [gone EXCEPT !.folders = F] BY DEF ForgetPanelReferences
  <2>2. F = Forgetting(d, p) BY <1>2 DEF Forgetting
  <2> HIDE DEF F, forgot
  <2> QED BY <1>2, <2>1, <2>2 DEF Fields, Sections
<1> HIDE DEF forgot
<1>4. /\ Fields(m)
      /\ m.viewOrder = d.viewOrder /\ m.views = d.views /\ m.projects = d.projects
      /\ m.folders = LeftFolders(d, p)
      /\ m.panels = gone.panels /\ m.sessions = gone.sessions
  BY <1>3 DEF Fields, Sections, RemoveFromFolder, LeftFolders
<1> HIDE DEF m
<1>5. Closes(d, m, p) BY <1>2, <1>4 DEF Closes
<1> QED BY <1>1, <1>5

\* The validation refuses to close a panel whose session another one shows.
LEMMA PanelCloseAlone ==
    ASSUME NEW d, Typed(d), NEW p \in DOMAIN d.panels, Valid(PanelClose(d, p))
    PROVE  Alone(d, p)
<1> DEFINE e == PanelClose(d, p)
<1>1. /\ e.panels = Without(d.panels, {p})
      /\ e.sessions = Without(d.sessions, {d.panels[p].session})
  <2>1. Fields(d) BY DEF Typed
  <2> DEFINE pr == d.panels[p].project
             asked(m) == IF d.projects[pr].active = p
                         THEN m.folders[d.panels[p].folder].active ELSE None
  <2>2. PICK m : Closes(d, m, p) /\ e = SyncProject(m, pr, asked(m))
    BY <2>1, PanelCloseIs
  <2> HIDE DEF e, asked, pr
  <2>3. e.panels = m.panels /\ e.sessions = m.sessions
    BY <2>2, SyncLeaves DEF Closes
  <2> QED BY <2>2, <2>3 DEF Closes
<1> HIDE DEF e
<1> SUFFICES ASSUME NEW q \in DOMAIN d.panels, q # p, d.panels[p].session # None,
                    d.panels[q].session = d.panels[p].session
             PROVE  FALSE
  BY DEF Alone
<1>2. q \in DOMAIN e.panels /\ e.panels[q] = d.panels[q] BY <1>1 DEF Without
<1>3. PanelValid(e, q) BY <1>2 DEF Valid, e
<1>4. d.panels[q].session \in DOMAIN e.sessions BY <1>2, <1>3 DEF PanelValid
<1> QED BY <1>1, <1>4 DEF Without

\* panel.close, when no other panel shows the session that goes with it.
LEMMA PanelCloseSound ==
    ASSUME NEW d, Sound(d), NEW p \in DOMAIN d.panels, Alone(d, p)
    PROVE  Sound(PanelClose(d, p))
<1> DEFINE panel == d.panels[p]
           h == panel.folder
           pr == panel.project
           s == panel.session
           H == LeftFolders(d, p)
           asked(m) == IF d.projects[pr].active = p THEN m.folders[h].active ELSE None
<1>1. /\ Typed(d) /\ ViewsSound(d) /\ FoldersSound(d) /\ PlacesSound(d) /\ ReferencesSound(d)
      /\ SessionsSound(d) /\ Placed(d)
  BY DEF Sound, Placed
<1>2. /\ h \in DOMAIN d.folders /\ d.folders[h].project = pr /\ pr \in DOMAIN d.projects
      /\ p \in Panel /\ p # None
  BY <1>1, TypedFields, NoneIsNone DEF PlacesSound, FoldersSound
<1>3. PICK m : Closes(d, m, p) /\ PanelClose(d, p) = SyncProject(m, pr, asked(m))
  <2>1. Fields(d) BY <1>1 DEF Typed
  <2> QED BY <2>1, PanelCloseIs
<1>4. /\ Fields(m)
      /\ m.viewOrder = d.viewOrder /\ m.views = d.views /\ m.projects = d.projects
      /\ m.folders = H
      /\ m.panels = Without(d.panels, {p}) /\ m.sessions = Without(d.sessions, {s})
  BY <1>3 DEF Closes
<1>5. /\ Table(H, Folder, FolderRecord)
      /\ DOMAIN H = DOMAIN d.folders
      /\ \A g \in DOMAIN d.folders :
         /\ H[g].project = d.folders[g].project
         /\ H[g].kind = d.folders[g].kind
         /\ H[g].worktree = d.folders[g].worktree
         /\ H[g].creator \in {None, d.folders[g].creator} \ {p}
         /\ H[g].offer \in {None, d.folders[g].offer} \ {p}
         /\ FolderShows(H[g])
         /\ ToSet(H[g].panelIds) = ToSet(d.folders[g].panelIds) \ {p}
         /\ H[g].active \in ToSet(H[g].panelIds) \cup {None}
         /\ d.folders[g].active # p => H[g].active = d.folders[g].active
         /\ g # h =>
              /\ H[g].panelIds = d.folders[g].panelIds
              /\ H[g].active = d.folders[g].active
              /\ H[g].layout = d.folders[g].layout
  <2>1. Leaves(d, H, p) BY <1>1, LeftFoldersLeave
  <2> HIDE DEF H
  <2> QED BY <2>1 DEF Leaves
<1> HIDE DEF H, asked
<1>6. /\ Table(m.panels, Panel, PanelRecord)
      /\ DOMAIN m.panels = DOMAIN d.panels \ {p}
      /\ \A q \in DOMAIN d.panels : q # p => m.panels[q] = d.panels[q]
  <2>1. Table(d.panels, Panel, PanelRecord) BY <1>1 DEF Typed
  <2>2. /\ Table(Without(d.panels, {p}), Panel, PanelRecord)
        /\ DOMAIN Without(d.panels, {p}) = DOMAIN d.panels \ {p}
        /\ \A y \in DOMAIN d.panels \ {p} : Without(d.panels, {p})[y] = d.panels[y]
    BY <2>1, WithoutKeeps
  <2> QED BY <1>4, <2>2
<1>7. /\ Table(m.sessions, Session, SessionRecord)
      /\ DOMAIN m.sessions = DOMAIN d.sessions \ {s}
      /\ \A q \in DOMAIN d.sessions : q # s => m.sessions[q] = d.sessions[q]
  <2>1. Table(d.sessions, Session, SessionRecord) BY <1>1 DEF Typed
  <2> HIDE DEF s
  <2>2. /\ Table(Without(d.sessions, {s}), Session, SessionRecord)
        /\ DOMAIN Without(d.sessions, {s}) = DOMAIN d.sessions \ {s}
        /\ \A y \in DOMAIN d.sessions \ {s} : Without(d.sessions, {s})[y] = d.sessions[y]
    BY <2>1, WithoutKeeps
  <2> QED BY <1>4, <2>2
<1>8. Typed(m) BY <1>1, <1>4, <1>5, <1>6, <1>7 DEF Typed
<1>9. Rewrites(d, m) BY <1>4, <1>5 DEF Rewrites
<1>10. ViewsSound(m) /\ FoldersSound(m) BY <1>1, <1>9, RewritesKeep
<1>11. PlacesSound(m)
  <2>1. ASSUME NEW g \in DOMAIN m.folders
        PROVE  /\ FolderShows(m.folders[g])
               /\ \A q \in ToSet(m.folders[g].panelIds) :
                    q \in DOMAIN m.panels /\ m.panels[q].folder = g
    <3>1. \A q \in ToSet(d.folders[g].panelIds) : q \in DOMAIN d.panels /\ d.panels[q].folder = g
      BY <1>1, <1>4, <1>5 DEF PlacesSound
    <3>2. g \in DOMAIN d.folders /\ m.folders[g] = H[g] BY <1>4, <1>5
    <3>3. FolderShows(H[g]) BY <1>5, <3>2
    <3>4. ASSUME NEW q \in ToSet(H[g].panelIds)
          PROVE  q \in DOMAIN m.panels /\ m.panels[q].folder = g
      <4>1. q \in ToSet(d.folders[g].panelIds) /\ q # p BY <1>5, <3>2, <3>4
      <4>2. q \in DOMAIN d.panels /\ d.panels[q].folder = g BY <3>1, <4>1
      <4> QED BY <1>6, <4>1, <4>2
    <3> QED BY <3>2, <3>3, <3>4
  <2>2. ASSUME NEW q \in DOMAIN m.panels
        PROVE  /\ m.panels[q].folder \in DOMAIN m.folders
               /\ m.folders[m.panels[q].folder].project = m.panels[q].project
               /\ q \in ToSet(m.folders[m.panels[q].folder].panelIds)
    <3> DEFINE g == d.panels[q].folder
    <3>1. q \in DOMAIN d.panels /\ q # p /\ m.panels[q] = d.panels[q] BY <1>6
    <3>2. /\ g \in DOMAIN d.folders
          /\ d.folders[g].project = d.panels[q].project
          /\ q \in ToSet(d.folders[g].panelIds)
      BY <1>1, <3>1 DEF PlacesSound
    <3>3. m.panels[q].folder = g BY <3>1
    <3> HIDE DEF g
    <3> QED BY <1>4, <1>5, <3>1, <3>2, <3>3
  <2> QED BY <2>1, <2>2 DEF PlacesSound
<1>12. ReferencesSound(m)
  <2> SUFFICES ASSUME NEW g \in DOMAIN d.folders
               PROVE  /\ H[g].creator # None =>
                           /\ H[g].creator \in DOMAIN m.panels
                           /\ m.panels[H[g].creator].project = H[g].project
                      /\ H[g].offer # None =>
                           /\ H[g].offer \in DOMAIN m.panels
                           /\ m.panels[H[g].offer].project = H[g].project
                           /\ m.panels[H[g].offer].folder # g
    BY <1>4, <1>5 DEF ReferencesSound
  <2>1. /\ d.folders[g].creator # None =>
             /\ d.folders[g].creator \in DOMAIN d.panels
             /\ d.panels[d.folders[g].creator].project = d.folders[g].project
        /\ d.folders[g].offer # None =>
             /\ d.folders[g].offer \in DOMAIN d.panels
             /\ d.panels[d.folders[g].offer].project = d.folders[g].project
             /\ d.panels[d.folders[g].offer].folder # g
    BY <1>1 DEF ReferencesSound
  <2> QED BY <1>5, <1>6, <2>1
<1>13. SessionsSound(m)
  <2>1. ASSUME NEW q \in DOMAIN m.panels, m.panels[q].session # None
        PROVE  /\ m.panels[q].session \in DOMAIN m.sessions
               /\ m.sessions[m.panels[q].session].project = m.panels[q].project
    <3>1. q \in DOMAIN d.panels /\ q # p /\ m.panels[q] = d.panels[q] BY <1>6
    <3>2. /\ d.panels[q].session \in DOMAIN d.sessions
          /\ d.sessions[d.panels[q].session].project = d.panels[q].project
      BY <1>1, <2>1, <3>1 DEF SessionsSound
    <3>3. d.panels[q].session # s BY <2>1, <3>1 DEF Alone
    <3> QED BY <1>7, <3>1, <3>2, <3>3
  <2>2. ASSUME NEW t \in DOMAIN m.sessions
        PROVE  /\ m.sessions[t].project \in DOMAIN m.projects
               /\ ~m.projects[m.sessions[t].project].awaiting
    BY <1>1, <1>4, <1>7 DEF SessionsSound
  <2> QED BY <1>1, <1>4, <2>1, <2>2 DEF SessionsSound
<1>14. Placed(m) BY <1>8, <1>10, <1>11, <1>12, <1>13 DEF Placed
<1>15. OthersStay(d, m, {pr})
  <2>1. \A q \in DOMAIN d.panels : d.panels[q].project # pr
                                     => m.panels[q].folder = d.panels[q].folder
    BY <1>6
  <2> QED BY <1>2, <1>4, <1>5, <2>1 DEF OthersStay
<1>16. DOMAIN m.projects = DOMAIN d.projects BY <1>4
<1> DEFINE ask == asked(m)
<1>17. ask = IF d.projects[pr].active = p THEN m.folders[h].active ELSE None BY DEF asked
<1> HIDE DEF ask
<1>18. LET wanted == IF ask = None THEN m.projects[pr].active ELSE ask
       IN  wanted \in DOMAIN m.panels /\ m.panels[wanted].project = pr
              => m.folders[m.panels[wanted].folder].active = wanted
  <2>1. None \notin DOMAIN m.panels BY <1>8, TypedFields, NoneIsNone
  <2>2. CASE ask # None
    <3>1. ask = H[h].active /\ ask \in ToSet(H[h].panelIds) BY <1>2, <1>4, <1>5, <1>17, <2>2
    <3>2. m.panels[ask].folder = h BY <1>2, <1>4, <1>5, <1>11, <3>1 DEF PlacesSound
    <3> QED BY <1>4, <2>2, <3>1, <3>2
  <2>3. CASE ask = None
    <3> DEFINE w == d.projects[pr].active
    <3>1. CASE w = p BY <1>4, <1>6, <2>3, <3>1
    <3>2. CASE w = None BY <1>4, <2>1, <2>3, <3>2
    <3>3. CASE w # p /\ w # None
      <4>1. w \in DOMAIN d.panels /\ d.folders[d.panels[w].folder].active = w
        BY <1>2, <3>3, ActiveStands
      <4> DEFINE g == d.panels[w].folder
      <4>2. g \in DOMAIN d.folders BY <1>1, <4>1 DEF PlacesSound
      <4>3. m.projects[pr].active = w /\ m.panels[w].folder = g /\ d.folders[g].active = w
        BY <1>4, <1>6, <3>3, <4>1
      <4> HIDE DEF g, w
      <4>4. H[g].active = w BY <1>5, <3>3, <4>2, <4>3
      <4> QED BY <1>4, <2>3, <4>3, <4>4
    <3> QED BY <3>1, <3>2, <3>3
  <2> QED BY <2>2, <2>3
<1>19. Sound(SyncProject(m, pr, ask)) BY <1>2, <1>14, <1>15, <1>16, <1>18, SyncedSound
<1> QED BY <1>3, <1>19 DEF ask

-----------------------------------------------------------------------------
(* A panel goes to another project. *)

\* The copies of two projects are made again, one after the other.
LEMMA SyncedTwiceSound ==
    ASSUME NEW d, Sound(d), NEW m, Placed(m), DOMAIN m.projects = DOMAIN d.projects,
           NEW a \in DOMAIN d.projects, NEW b \in DOMAIN d.projects, a # b,
           OthersStay(d, m, {a, b}), NEW none, none = None, NEW q, q # None,
           LET wanted == m.projects[a].active
           IN  wanted \in DOMAIN m.panels /\ m.panels[wanted].project = a
                 => m.folders[m.panels[wanted].folder].active = wanted,
           m.folders[m.panels[q].folder].active = q
    PROVE  Sound(SyncProject(SyncProject(m, a, none), b, q))
<1> DEFINE c == SyncProject(m, a, none)
           e == SyncProject(c, b, q)
<1>1. FoldersSound(d) /\ PlacesSound(d) BY DEF Sound, Placed
<1>2. /\ Placed(c)
      /\ SameButCopies(m, c, a)
      /\ Derived(c.projects[a], c.folders, c.panels)
  BY SyncDerives
<1> HIDE DEF c
<1>3. /\ b \in DOMAIN c.projects
      /\ c.folders[c.panels[q].folder].active = q
  BY <1>2 DEF SameButCopies
<1>4. /\ Placed(e)
      /\ SameButCopies(c, e, b)
      /\ Derived(e.projects[b], e.folders, e.panels)
  BY <1>2, <1>3, SyncDerives
<1> HIDE DEF e
<1>5. ASSUME NEW x \in DOMAIN e.projects
      PROVE  Derived(e.projects[x], e.folders, e.panels)
  <2>1. CASE x = b BY <1>4, <2>1
  <2>2. CASE x # b
    <3>1. /\ e.projects[x] = c.projects[x] /\ e.folders = c.folders /\ e.panels = c.panels
          /\ x \in DOMAIN c.projects
      BY <1>4, <2>2 DEF SameButCopies
    <3>2. CASE x = a BY <1>2, <3>1, <3>2
    <3>3. CASE x # a
      <4>1. x \in DOMAIN d.projects \ {a, b} BY <1>2, <2>2, <3>1, <3>3 DEF SameButCopies
      <4>2. Derived(m.projects[x], m.folders, m.panels) BY <1>1, <4>1, OthersDerive
      <4>3. c.projects[x] = m.projects[x] /\ c.folders = m.folders /\ c.panels = m.panels
        BY <1>2, <3>3, <4>1 DEF SameButCopies
      <4> QED BY <3>1, <4>2, <4>3
    <3> QED BY <3>2, <3>3
  <2> QED BY <2>1, <2>2
<1> QED BY <1>4, <1>5 DEF Sound, e, c

\* The document before the copies of the two projects are made again.
Moves(d, m, p, pr, i) ==
    LET g == GeneralFolder(d, pr)
        H == LeftFolders(d, p)
        s == d.panels[p].session
    IN /\ Fields(m)
       /\ m.viewOrder = d.viewOrder /\ m.views = d.views /\ m.projects = d.projects
       /\ m.folders = [H EXCEPT ![g] = WithFolderPanels(H[g], Spliced(H[g].panelIds, i, p), p)]
       /\ m.panels = [d.panels EXCEPT ![p] = [project |-> pr, folder |-> g, session |-> s]]
       /\ m.sessions = IF s = None THEN d.sessions
                       ELSE [d.sessions EXCEPT ![s] = [project |-> pr,
                                                       status |-> d.sessions[s].status]]

\* panel.move to another project, up to the copies.
LEMMA PanelMoveIs ==
    ASSUME NEW d, Typed(d), NEW p \in DOMAIN d.panels, NEW pr, pr # d.panels[p].project,
           NEW i
    PROVE  \E m : /\ Moves(d, m, p, pr, i)
                  /\ PanelMove(d, p, pr, i) =
                       SyncProject(SyncProject(m, d.panels[p].project, None), pr, p)
<1> DEFINE panel == d.panels[p]
           src == panel.project
           s == panel.session
           g == GeneralFolder(d, pr)
           H == LeftFolders(d, p)
           forgot == ForgetPanelReferences(d, panel.project, p)
           left == RemoveFromFolder(forgot, panel.folder, p)
           m == [left EXCEPT
               !.folders[g] = WithFolderPanels(@, Spliced(@.panelIds, i, p), p),
               !.panels[p].project = pr, !.panels[p].folder = g,
               !.sessions = IF panel.session = None THEN @
                            ELSE [@ EXCEPT ![panel.session].project = pr]]
<1>1. PanelMove(d, p, pr, i) = SyncProject(SyncProject(m, src, None), pr, p)
  BY DEF PanelMove
<1>2. Fields(d) BY DEF Typed
<1>3. /\ Fields(forgot)
      /\ forgot.viewOrder = d.viewOrder /\ forgot.views = d.views /\ forgot.projects = d.projects
      /\ forgot.folders = Forgetting(d, p)
      /\ forgot.panels = d.panels /\ forgot.sessions = d.sessions
  <2> DEFINE F == [f \in DOMAIN d.folders |->
                     IF f \in ToSet(d.projects[src].folderIds)
                     THEN [d.folders[f] EXCEPT !.creator = IF @ = p THEN None ELSE @,
                                               !.offer = IF @ = p THEN None ELSE @]
                     ELSE d.folders[f]]
  <2>1. forgot = [d EXCEPT !.folders = F] BY DEF ForgetPanelReferences
  <2>2. F = Forgetting(d, p) BY DEF Forgetting
  <2> HIDE DEF F, forgot
  <2> QED BY <1>2, <2>1, <2>2 DEF Fields, Sections
<1> HIDE DEF forgot
<1>4. /\ Fields(left)
      /\ left.viewOrder = d.viewOrder /\ left.views = d.views /\ left.projects = d.projects
      /\ left.folders = H
      /\ left.panels = d.panels /\ left.sessions = d.sessions
  BY <1>3 DEF Fields, Sections, RemoveFromFolder, LeftFolders
<1> HIDE DEF left, H, g
<1>5. /\ Fields(m)
      /\ m.viewOrder = d.viewOrder /\ m.views = d.views /\ m.projects = d.projects
      /\ m.folders = [H EXCEPT ![g] = WithFolderPanels(H[g], Spliced(H[g].panelIds, i, p), p)]
      /\ m.panels = [[d.panels EXCEPT ![p].project = pr] EXCEPT ![p].folder = g]
      /\ m.sessions = IF s = None THEN d.sessions
                      ELSE [d.sessions EXCEPT ![s].project = pr]
  BY <1>4 DEF Fields, Sections
<1> HIDE DEF m
<1>6. m.panels = [d.panels EXCEPT ![p] = [project |-> pr, folder |-> g, session |-> s]]
  <2>1. panel \in PanelRecord /\ d.panels = [q \in DOMAIN d.panels |-> d.panels[q]]
    BY TypedFields DEF Typed, Table
  <2> DEFINE P == d.panels
             y == [project |-> pr, folder |-> g, session |-> s]
  <2>2. [[P[p] EXCEPT !.project = pr] EXCEPT !.folder = g] = y
    <3> DEFINE u == P[p]  t == u.session  v == [u EXCEPT !.project = pr]
    <3>1. u = [project |-> u.project, folder |-> u.folder, session |-> t]
      BY <2>1 DEF PanelRecord
    <3>2. t = s OBVIOUS
    <3> HIDE DEF u, t
    <3>3. v = [project |-> pr, folder |-> u.folder, session |-> t] BY <3>1
    <3> HIDE DEF v
    <3>4. [v EXCEPT !.folder = g] = [project |-> pr, folder |-> g, session |-> t] BY <3>3
    <3> QED BY <3>2, <3>4 DEF u, v
  <2> QED BY <1>5, <2>1, <2>2
<1>7. ASSUME s # None
      PROVE  [d.sessions EXCEPT ![s].project = pr]
               = [d.sessions EXCEPT ![s] = [project |-> pr, status |-> d.sessions[s].status]]
  <2> DEFINE T == d.sessions
  <2>1. T \in [DOMAIN T -> SessionRecord] BY DEF Typed, Table
  <2> HIDE DEF T, s
  <2>2. CASE s \in DOMAIN T
    <3>1. T[s] \in SessionRecord BY <2>1, <2>2
    <3>2. [T[s] EXCEPT !.project = pr] = [project |-> pr, status |-> T[s].status]
      BY <3>1 DEF SessionRecord
    <3>3. [T EXCEPT ![s].project = pr] = [T EXCEPT ![s] = [project |-> pr, status |-> T[s].status]]
      BY <2>1, <3>2
    <3> QED BY <3>3 DEF T
  <2>3. CASE s \notin DOMAIN T
    <3>1. [T EXCEPT ![s].project = pr] = T BY <2>1, <2>3
    <3>2. [T EXCEPT ![s] = [project |-> pr, status |-> T[s].status]] = T BY <2>1, <2>3
    <3> QED BY <3>1, <3>2 DEF T
  <2> QED BY <2>2, <2>3
<1>8. Moves(d, m, p, pr, i) BY <1>5, <1>6, <1>7 DEF Moves, g, H
<1> QED BY <1>1, <1>8

\* The validation refuses to move a panel whose session another one shows.
LEMMA PanelMoveAlone ==
    ASSUME NEW d, Typed(d), SessionsSound(d), NEW p \in DOMAIN d.panels,
           NEW pr, pr # d.panels[p].project, NEW i, Valid(PanelMove(d, p, pr, i))
    PROVE  Alone(d, p)
<1> DEFINE e == PanelMove(d, p, pr, i)
           s == d.panels[p].session
           src == d.panels[p].project
           g == GeneralFolder(d, pr)
           y == [project |-> pr, folder |-> g, session |-> s]
<1>1. /\ e.panels = [d.panels EXCEPT ![p] = y]
      /\ e.sessions = IF s = None THEN d.sessions
                      ELSE [d.sessions EXCEPT ![s] = [project |-> pr,
                                                      status |-> d.sessions[s].status]]
  <2>1. PICK m : Moves(d, m, p, pr, i) /\ e = SyncProject(SyncProject(m, src, None), pr, p)
    BY PanelMoveIs
  <2> DEFINE none == None  c == SyncProject(m, src, none)
  <2>2. e = SyncProject(c, pr, p) BY <2>1
  <2> HIDE DEF e, src, none
  <2>3. Fields(c) /\ c.panels = m.panels /\ c.sessions = m.sessions
    BY <2>1, SyncLeaves DEF Moves
  <2> HIDE DEF c
  <2>4. e.panels = c.panels /\ e.sessions = c.sessions BY <2>2, <2>3, SyncLeaves
  <2> QED BY <2>1, <2>3, <2>4 DEF Moves
<1> HIDE DEF e, g
<1> SUFFICES ASSUME NEW q \in DOMAIN d.panels, q # p, s # None, d.panels[q].session = s
             PROVE  FALSE
  BY DEF Alone
<1> HIDE DEF y
<1>2. q \in DOMAIN e.panels /\ e.panels[q] = d.panels[q] BY <1>1
<1>3. PanelValid(e, q) BY <1>2 DEF Valid, e
<1>4. e.sessions[s].project = d.panels[q].project BY <1>2, <1>3 DEF PanelValid
<1>5. /\ s \in DOMAIN d.sessions
      /\ d.sessions[s].project = src /\ d.sessions[s].project = d.panels[q].project
  BY DEF SessionsSound
<1>6. e.sessions[s].project = pr BY <1>1, <1>5
<1> QED BY <1>4, <1>5, <1>6

\* Every project has its General folder.
LEMMA GeneralIs ==
    ASSUME NEW d, FoldersSound(d), NEW pr \in DOMAIN d.projects
    PROVE  LET g == GeneralFolder(d, pr)
           IN  g \in DOMAIN d.folders /\ d.folders[g].project = pr
<1>1. PICK g \in ToSet(d.projects[pr].folderIds) : d.folders[g].kind = "general"
  BY DEF FoldersSound
<1>2. GeneralFolder(d, pr) \in ToSet(d.projects[pr].folderIds) BY <1>1 DEF GeneralFolder
<1> QED BY <1>2 DEF FoldersSound

\* panel.move to another project, when no other panel shows the session that
\* goes along.
LEMMA PanelMoveSound ==
    ASSUME NEW d, Sound(d), NEW p \in DOMAIN d.panels, NEW pr \in DOMAIN d.projects,
           pr # d.panels[p].project, ~d.projects[pr].awaiting, Alone(d, p),
           NEW i \in Positions(d.folders[GeneralFolder(d, pr)].panelIds)
    PROVE  Sound(PanelMove(d, p, pr, i))
<1> DEFINE h == d.panels[p].folder
           src == d.panels[p].project
           s == d.panels[p].session
           g == GeneralFolder(d, pr)
           H == LeftFolders(d, p)
           x == WithFolderPanels(H[g], Spliced(H[g].panelIds, i, p), p)
           y == [project |-> pr, folder |-> g, session |-> s]
           z == [project |-> pr, status |-> d.sessions[s].status]
           none == None
<1>1. /\ Typed(d) /\ ViewsSound(d) /\ FoldersSound(d) /\ PlacesSound(d) /\ ReferencesSound(d)
      /\ SessionsSound(d) /\ Placed(d)
  BY DEF Sound, Placed
<1>2. /\ h \in DOMAIN d.folders /\ d.folders[h].project = src /\ src \in DOMAIN d.projects
      /\ p \in Panel /\ p # None
  BY <1>1, TypedFields, NoneIsNone DEF PlacesSound, FoldersSound
<1>3. /\ g \in DOMAIN d.folders /\ d.folders[g].project = pr /\ g # h
  BY <1>1, <1>2, GeneralIs
<1>4. PICK m : /\ Moves(d, m, p, pr, i)
               /\ PanelMove(d, p, pr, i) = SyncProject(SyncProject(m, src, None), pr, p)
  BY <1>1, PanelMoveIs
<1>5. /\ Fields(m)
      /\ m.viewOrder = d.viewOrder /\ m.views = d.views /\ m.projects = d.projects
      /\ m.folders = [H EXCEPT ![g] = x]
      /\ m.panels = [d.panels EXCEPT ![p] = y]
      /\ m.sessions = IF s = None THEN d.sessions ELSE [d.sessions EXCEPT ![s] = z]
  BY <1>4 DEF Moves
<1>6. /\ Table(H, Folder, FolderRecord)
      /\ DOMAIN H = DOMAIN d.folders
      /\ \A f \in DOMAIN d.folders :
         /\ H[f].project = d.folders[f].project
         /\ H[f].kind = d.folders[f].kind
         /\ H[f].worktree = d.folders[f].worktree
         /\ H[f].creator \in {None, d.folders[f].creator} \ {p}
         /\ H[f].offer \in {None, d.folders[f].offer} \ {p}
         /\ FolderShows(H[f])
         /\ ToSet(H[f].panelIds) = ToSet(d.folders[f].panelIds) \ {p}
         /\ H[f].active \in ToSet(H[f].panelIds) \cup {None}
         /\ d.folders[f].active # p => H[f].active = d.folders[f].active
         /\ f # h =>
              /\ H[f].panelIds = d.folders[f].panelIds
              /\ H[f].active = d.folders[f].active
              /\ H[f].layout = d.folders[f].layout
  <2>1. Leaves(d, H, p) BY <1>1, LeftFoldersLeave
  <2> HIDE DEF H
  <2> QED BY <2>1 DEF Leaves
<1> HIDE DEF H, x, y, z, g
<1>7. /\ x \in FolderRecord /\ FolderShows(x)
      /\ ToSet(x.panelIds) = ToSet(d.folders[g].panelIds) \cup {p}
      /\ x.active = p
      /\ x.project = H[g].project /\ x.kind = H[g].kind /\ x.worktree = H[g].worktree
      /\ x.creator = H[g].creator /\ x.offer = H[g].offer
  <2> DEFINE r == H[g]
             ids == Spliced(r.panelIds, i, p)
  <2>1. r \in FolderRecord /\ r.panelIds = d.folders[g].panelIds /\ FolderShows(r)
    BY <1>3, <1>6 DEF Table
  <2>2. p \notin ToSet(r.panelIds) BY <1>3, <1>6
  <2>3. r.panelIds \in Seq(Panel) /\ IsInjective(r.panelIds)
    BY <2>1 DEF FolderRecord, FolderShows
  <2>4. i \in 0..Len(r.panelIds) BY <2>1 DEF Positions, g
  <2>5. x = WithFolderPanels(r, ids, p) BY DEF x
  <2> HIDE DEF r
  <2>6. ids \in Seq(Panel) /\ IsInjective(ids) /\ ToSet(ids) = ToSet(r.panelIds) \cup {p}
    BY <1>2, <2>2, <2>3, <2>4, SplicedKeeps
  <2> HIDE DEF ids
  <2>7. p \in ToSet(ids) BY <2>6
  <2>8. /\ x \in FolderRecord /\ FolderShows(x) /\ x.panelIds = ids /\ x.active = p
        /\ x.project = r.project /\ x.kind = r.kind /\ x.worktree = r.worktree
        /\ x.creator = r.creator /\ x.offer = r.offer
    BY <2>1, <2>5, <2>6, <2>7, WithFolderPanelsIs
  <2> QED BY <2>1, <2>6, <2>8 DEF r
<1>8. y \in PanelRecord /\ y.project = pr /\ y.folder = g /\ y.session = s
  <2>1. d.panels[p] \in PanelRecord /\ pr \in AnyProject /\ g \in Folder
    BY <1>1, <1>3, TypedFields DEF FolderRecord
  <2> QED BY <2>1 DEF PanelRecord, y
<1>9. /\ Table(m.folders, Folder, FolderRecord)
      /\ DOMAIN m.folders = DOMAIN d.folders
      /\ m.folders[g] = x
      /\ \A f \in DOMAIN d.folders : f # g => m.folders[f] = H[f]
  <2>1. Table(H, Folder, FolderRecord) /\ g \in DOMAIN H BY <1>3, <1>6
  <2>2. /\ Table([H EXCEPT ![g] = x], Folder, FolderRecord)
        /\ DOMAIN [H EXCEPT ![g] = x] = DOMAIN H
        /\ [H EXCEPT ![g] = x][g] = x
        /\ \A f \in DOMAIN H : f # g => [H EXCEPT ![g] = x][f] = H[f]
    BY <1>7, <2>1, UpdateKeeps
  <2> QED BY <1>5, <1>6, <2>2
<1>10. /\ Table(m.panels, Panel, PanelRecord)
       /\ DOMAIN m.panels = DOMAIN d.panels
       /\ m.panels[p] = y
       /\ \A q \in DOMAIN d.panels : q # p => m.panels[q] = d.panels[q]
  <2>1. Table(d.panels, Panel, PanelRecord) BY <1>1 DEF Typed
  <2> QED BY <1>5, <1>8, <2>1, UpdateKeeps
<1>11. /\ Table(m.sessions, Session, SessionRecord)
       /\ DOMAIN m.sessions = DOMAIN d.sessions
       /\ s # None => s \in DOMAIN d.sessions /\ m.sessions[s].project = pr
       /\ \A t \in DOMAIN d.sessions : t # s => m.sessions[t] = d.sessions[t]
  <2>1. Table(d.sessions, Session, SessionRecord) BY <1>1 DEF Typed
  <2>2. CASE s = None
    <3>1. m.sessions = d.sessions BY <1>5, <2>2
    <3> QED BY <2>1, <2>2, <3>1
  <2>3. CASE s # None
    <3>1. s \in DOMAIN d.sessions BY <1>1, <2>3 DEF SessionsSound
    <3>2. z \in SessionRecord /\ z.project = pr
      <4>1. d.sessions[s] \in SessionRecord /\ pr \in AnyProject
        BY <1>1, <3>1, TypedFields
      <4> QED BY <4>1 DEF SessionRecord, z
    <3> HIDE DEF s
    <3>3. m.sessions = [d.sessions EXCEPT ![s] = z] BY <1>5, <2>3
    <3>4. /\ Table([d.sessions EXCEPT ![s] = z], Session, SessionRecord)
          /\ DOMAIN [d.sessions EXCEPT ![s] = z] = DOMAIN d.sessions
          /\ [d.sessions EXCEPT ![s] = z][s] = z
          /\ \A t \in DOMAIN d.sessions : t # s
                => [d.sessions EXCEPT ![s] = z][t] = d.sessions[t]
      BY <2>1, <3>1, <3>2, UpdateKeeps
    <3> QED BY <3>1, <3>2, <3>3, <3>4
  <2> QED BY <2>2, <2>3
<1>12. Typed(m) BY <1>1, <1>5, <1>9, <1>10, <1>11 DEF Typed
<1>13. ASSUME NEW f \in DOMAIN d.folders
       PROVE  /\ m.folders[f].project = d.folders[f].project
              /\ m.folders[f].kind = d.folders[f].kind
              /\ m.folders[f].worktree = d.folders[f].worktree
              /\ m.folders[f].creator \in {None, d.folders[f].creator} \ {p}
              /\ m.folders[f].offer \in {None, d.folders[f].offer} \ {p}
  <2>1. CASE f = g BY <1>6, <1>7, <1>9, <2>1
  <2>2. CASE f # g BY <1>6, <1>9, <2>2
  <2> QED BY <2>1, <2>2
<1>14. Rewrites(d, m) BY <1>5, <1>9, <1>13 DEF Rewrites
<1>15. ViewsSound(m) /\ FoldersSound(m) BY <1>1, <1>14, RewritesKeep
<1>16. PlacesSound(m)
  <2>1. ASSUME NEW f \in DOMAIN m.folders
        PROVE  /\ FolderShows(m.folders[f])
               /\ \A q \in ToSet(m.folders[f].panelIds) :
                    q \in DOMAIN m.panels /\ m.panels[q].folder = f
    <3>1. f \in DOMAIN d.folders BY <1>9
    <3>2. \A q \in ToSet(d.folders[f].panelIds) : q \in DOMAIN d.panels /\ d.panels[q].folder = f
      BY <1>1, <3>1 DEF PlacesSound
    <3>3. CASE f = g
      <4>1. ASSUME NEW q \in ToSet(x.panelIds)
            PROVE  q \in DOMAIN m.panels /\ m.panels[q].folder = g
        <5>1. CASE q = p BY <1>8, <1>10, <5>1
        <5>2. CASE q # p BY <1>7, <1>10, <3>2, <3>3, <5>2
        <5> QED BY <5>1, <5>2
      <4> QED BY <1>7, <1>9, <3>3, <4>1
    <3>4. CASE f # g
      <4>1. m.folders[f] = H[f] BY <1>9, <3>1, <3>4
      <4>2. FolderShows(H[f]) BY <1>6, <3>1
      <4>3. ASSUME NEW q \in ToSet(H[f].panelIds)
            PROVE  q \in DOMAIN m.panels /\ m.panels[q].folder = f
        <5>1. q \in ToSet(d.folders[f].panelIds) /\ q # p BY <1>6, <3>1, <4>3
        <5>2. q \in DOMAIN d.panels /\ d.panels[q].folder = f BY <3>2, <5>1
        <5> QED BY <1>10, <5>1, <5>2
      <4> QED BY <4>1, <4>2, <4>3
    <3> QED BY <3>3, <3>4
  <2>2. ASSUME NEW q \in DOMAIN m.panels
        PROVE  /\ m.panels[q].folder \in DOMAIN m.folders
               /\ m.folders[m.panels[q].folder].project = m.panels[q].project
               /\ q \in ToSet(m.folders[m.panels[q].folder].panelIds)
    <3>1. CASE q = p
      <4>1. m.panels[q].folder = g /\ m.panels[q].project = pr BY <1>8, <1>10, <3>1
      <4> QED BY <1>3, <1>7, <1>9, <1>13, <3>1, <4>1
    <3>2. CASE q # p
      <4> DEFINE f == d.panels[q].folder
      <4>1. q \in DOMAIN d.panels /\ m.panels[q] = d.panels[q] BY <1>10, <3>2
      <4>2. /\ f \in DOMAIN d.folders
            /\ d.folders[f].project = d.panels[q].project
            /\ q \in ToSet(d.folders[f].panelIds)
        BY <1>1, <4>1 DEF PlacesSound
      <4>3. m.panels[q].folder = f BY <4>1
      <4> HIDE DEF f
      <4>4. q \in ToSet(m.folders[f].panelIds)
        <5>1. CASE f = g BY <1>7, <1>9, <4>2, <5>1
        <5>2. CASE f # g BY <1>6, <1>9, <3>2, <4>2, <5>2
        <5> QED BY <5>1, <5>2
      <4>5. f \in DOMAIN m.folders /\ m.folders[f].project = d.folders[f].project
        BY <1>9, <1>13, <4>2
      <4> QED BY <4>1, <4>2, <4>3, <4>4, <4>5
    <3> QED BY <3>1, <3>2
  <2> QED BY <2>1, <2>2 DEF PlacesSound
<1>17. ReferencesSound(m)
  <2> SUFFICES ASSUME NEW f \in DOMAIN d.folders
               PROVE  /\ m.folders[f].creator # None =>
                           /\ m.folders[f].creator \in DOMAIN m.panels
                           /\ m.panels[m.folders[f].creator].project = m.folders[f].project
                      /\ m.folders[f].offer # None =>
                           /\ m.folders[f].offer \in DOMAIN m.panels
                           /\ m.panels[m.folders[f].offer].project = m.folders[f].project
                           /\ m.panels[m.folders[f].offer].folder # f
    BY <1>9 DEF ReferencesSound
  <2>1. /\ d.folders[f].creator # None =>
             /\ d.folders[f].creator \in DOMAIN d.panels
             /\ d.panels[d.folders[f].creator].project = d.folders[f].project
        /\ d.folders[f].offer # None =>
             /\ d.folders[f].offer \in DOMAIN d.panels
             /\ d.panels[d.folders[f].offer].project = d.folders[f].project
             /\ d.panels[d.folders[f].offer].folder # f
    BY <1>1 DEF ReferencesSound
  <2> QED BY <1>10, <1>13, <2>1
<1>18. SessionsSound(m)
  <2>1. ASSUME NEW q \in DOMAIN m.panels, m.panels[q].session # None
        PROVE  /\ m.panels[q].session \in DOMAIN m.sessions
               /\ m.sessions[m.panels[q].session].project = m.panels[q].project
    <3>1. CASE q = p BY <1>8, <1>10, <1>11, <2>1, <3>1
    <3>2. CASE q # p
      <4>1. q \in DOMAIN d.panels /\ m.panels[q] = d.panels[q] BY <1>10, <3>2
      <4>2. /\ d.panels[q].session \in DOMAIN d.sessions
            /\ d.sessions[d.panels[q].session].project = d.panels[q].project
        BY <1>1, <2>1, <4>1 DEF SessionsSound
      <4>3. d.panels[q].session # s BY <2>1, <3>2, <4>1 DEF Alone
      <4> QED BY <1>11, <4>1, <4>2, <4>3
    <3> QED BY <3>1, <3>2
  <2>2. ASSUME NEW t \in DOMAIN m.sessions
        PROVE  /\ m.sessions[t].project \in DOMAIN m.projects
               /\ ~m.projects[m.sessions[t].project].awaiting
    <3>1. CASE t = s
      <4>1. s # None BY <1>1, <1>11, <2>2, <3>1, NoneIsNone DEF Typed, Table
      <4> QED BY <1>5, <1>11, <3>1, <4>1
    <3>2. CASE t # s BY <1>1, <1>5, <1>11, <3>2 DEF SessionsSound
    <3> QED BY <3>1, <3>2
  <2> QED BY <1>1, <1>5, <2>1, <2>2 DEF SessionsSound
<1>19. Placed(m) BY <1>12, <1>15, <1>16, <1>17, <1>18 DEF Placed
<1>20. OthersStay(d, m, {src, pr})
  <2>1. \A q \in DOMAIN d.panels : d.panels[q].project \notin {src, pr}
                                     => m.panels[q].folder = d.panels[q].folder
    BY <1>10
  <2>2. ASSUME NEW f \in DOMAIN d.folders, d.folders[f].project \notin {src, pr}
        PROVE  /\ f \in DOMAIN m.folders
               /\ m.folders[f].panelIds = d.folders[f].panelIds
               /\ m.folders[f].active = d.folders[f].active
               /\ m.folders[f].layout = d.folders[f].layout
    <3>1. f # g /\ f # h BY <1>2, <1>3, <2>2
    <3>2. m.folders[f] = H[f] BY <1>9, <3>1
    <3> QED BY <1>6, <1>9, <3>1, <3>2
  <2> QED BY <1>5, <2>1, <2>2 DEF OthersStay
<1>21. LET wanted == m.projects[src].active
       IN  wanted \in DOMAIN m.panels /\ m.panels[wanted].project = src
             => m.folders[m.panels[wanted].folder].active = wanted
  <2> DEFINE w == d.projects[src].active
  <2> SUFFICES ASSUME w \in DOMAIN m.panels, m.panels[w].project = src
               PROVE  m.folders[m.panels[w].folder].active = w
    BY <1>5
  <2>1. w # p BY <1>8, <1>10
  <2>2. w # None BY <1>12, TypedFields, NoneIsNone
  <2>3. w \in DOMAIN d.panels /\ d.folders[d.panels[w].folder].active = w
        /\ d.panels[w].project = src
    BY <1>2, <2>2, ActiveStands
  <2> DEFINE f == d.panels[w].folder
  <2>4. f \in DOMAIN d.folders /\ d.folders[f].project = src BY <1>1, <2>3 DEF PlacesSound
  <2>5. m.panels[w].folder = f /\ d.folders[f].active = w BY <1>10, <2>1, <2>3
  <2> HIDE DEF f, w
  <2>6. f # g BY <1>3, <2>4
  <2> QED BY <1>6, <1>9, <2>1, <2>4, <2>5, <2>6
<1>22. m.folders[m.panels[p].folder].active = p BY <1>7, <1>8, <1>9, <1>10
<1>23. DOMAIN m.projects = DOMAIN d.projects BY <1>5
<1>24. none = None OBVIOUS
<1>25. PanelMove(d, p, pr, i) = SyncProject(SyncProject(m, src, none), pr, p) BY <1>4
<1> HIDE DEF none, src
<1>26. pr # src BY DEF src
<1>27. Sound(SyncProject(SyncProject(m, src, none), pr, p))
  BY <1>2, <1>19, <1>20, <1>21, <1>22, <1>23, <1>24, <1>26, SyncedTwiceSound
<1> QED BY <1>25, <1>27

-----------------------------------------------------------------------------
(* A restart discards the terminals of the last turn. *)

Stale(d) == {p \in DOMAIN d.panels : d.panels[p].session # None}
Hit(d) == {pr \in DOMAIN d.projects : ToSet(d.projects[pr].panelIds) \cap Stale(d) # {}}

Kept(folder, S) ==
    WithFolderPanels([folder EXCEPT !.creator = IF @ \in S THEN None ELSE @,
                                    !.offer = IF @ \in S THEN None ELSE @],
                     Filtered(folder.panelIds, ToSet(folder.panelIds) \ S), folder.active)

Cleared(d) ==
    [d EXCEPT !.panels = Without(@, Stale(d)),
              !.sessions = <<>>,
              !.folders = [f \in DOMAIN d.folders |->
                             IF d.folders[f].project \in Hit(d)
                             THEN Kept(d.folders[f], Stale(d)) ELSE d.folders[f]]]

\* What a restart discards, by the names above.
LEMMA DiscardIs ==
    ASSUME NEW d
    PROVE  DiscardStaleTerminalState(d) =
             [Cleared(d) EXCEPT !.projects = [pr \in DOMAIN d.projects |->
                IF pr \in Hit(d) THEN SyncProject(Cleared(d), pr, None).projects[pr]
                ELSE d.projects[pr]]]
BY DEF DiscardStaleTerminalState, Cleared, Kept, Stale, Hit

\* A project is hit when one of its panels is stale.
LEMMA HitIs ==
    ASSUME NEW d, Sound(d), NEW pr \in DOMAIN d.projects
    PROVE  pr \in Hit(d) <=> \E p \in Stale(d) : d.panels[p].project = pr
<1>1. Typed(d) /\ FoldersSound(d) /\ PlacesSound(d) BY DEF Sound, Placed
<1>2. \A p : p \in ToSet(PanelsOf(d.folders, d.projects[pr].folderIds))
                <=> p \in DOMAIN d.panels /\ d.panels[p].project = pr
  BY <1>1, ProjectPanels
<1>3. d.projects[pr].panelIds = PanelsOf(d.folders, d.projects[pr].folderIds)
  BY DEF Sound, Derived
<1> QED BY <1>2, <1>3 DEF Hit, Stale

\* A folder of a project that is hit keeps the panels that are not stale.
LEMMA KeptIs ==
    ASSUME NEW r \in FolderRecord, FolderShows(r), NEW S, None \notin S
    PROVE  LET e == Kept(r, S)
           IN /\ e \in FolderRecord /\ FolderShows(e)
              /\ ToSet(e.panelIds) = ToSet(r.panelIds) \ S
              /\ r.active \notin S => e.active = r.active
              /\ e.project = r.project /\ e.kind = r.kind /\ e.worktree = r.worktree
              /\ e.creator \in {None, r.creator} \ S
              /\ e.offer \in {None, r.offer} \ S
<1> DEFINE c == IF r.creator \in S THEN None ELSE r.creator
           o == IF r.offer \in S THEN None ELSE r.offer
           a == [r EXCEPT !.creator = c]
           b == [a EXCEPT !.offer = o]
           ids == Filtered(r.panelIds, ToSet(r.panelIds) \ S)
           w == r.active
           e == Kept(r, S)
<1>1. e = WithFolderPanels(b, ids, w)
  <2>1. b = [r EXCEPT !.creator = IF @ \in S THEN None ELSE @,
                      !.offer = IF @ \in S THEN None ELSE @]
    BY DEF FolderRecord
  <2> QED BY <2>1 DEF Kept
<1>2. /\ c \in Panel \cup {None} /\ o \in Panel \cup {None}
      /\ c \in {None, r.creator} \ S /\ o \in {None, r.offer} \ S
  BY DEF FolderRecord
<1> HIDE DEF c, o, e
<1>3. /\ a \in FolderRecord /\ a.creator = c
      /\ a.project = r.project /\ a.kind = r.kind /\ a.worktree = r.worktree
  BY <1>2 DEF FolderRecord
<1> HIDE DEF a
<1>4. /\ b \in FolderRecord /\ b.creator = c /\ b.offer = o
      /\ b.project = r.project /\ b.kind = r.kind /\ b.worktree = r.worktree
  BY <1>2, <1>3 DEF FolderRecord
<1> HIDE DEF b
<1>5. r.panelIds \in Seq(Panel) /\ IsInjective(r.panelIds) BY DEF FolderRecord, FolderShows
<1>6. ids \in Seq(Panel) /\ IsInjective(ids) /\ ToSet(ids) = ToSet(r.panelIds) \ S
  <2>1. ToSet(r.panelIds) \cap (ToSet(r.panelIds) \ S) = ToSet(r.panelIds) \ S OBVIOUS
  <2> QED BY <1>5, <2>1, FilteredKeeps
<1> HIDE DEF ids
<1>7. w \in ToSet(r.panelIds) \cup {None} /\ (w = None <=> r.panelIds = <<>>)
  BY DEF FolderShows
<1> HIDE DEF w
<1>8. /\ e \in FolderRecord /\ FolderShows(e) /\ e.panelIds = ids
      /\ w \in ToSet(ids) => e.active = w
      /\ e.active \in ToSet(ids) \cup {None}
      /\ e.project = b.project /\ e.kind = b.kind /\ e.worktree = b.worktree
      /\ e.creator = b.creator /\ e.offer = b.offer
  BY <1>1, <1>4, <1>6, WithFolderPanelsIs
<1>9. w \notin S => e.active = w
  <2>1. CASE w = None
    <3>1. ToSet(ids) = {} BY <1>5, <1>6, <1>7, <2>1, EmptyIs
    <3> QED BY <1>8, <2>1, <3>1
  <2>2. CASE w # None BY <1>6, <1>7, <1>8, <2>2
  <2> QED BY <2>1, <2>2
<1> QED BY <1>2, <1>4, <1>6, <1>8, <1>9 DEF e, w

\* What is left of d when its terminals are gone.
Clears(d, m) ==
    /\ Fields(m)
    /\ m.viewOrder = d.viewOrder /\ m.views = d.views /\ m.projects = d.projects
    /\ Table(m.folders, Folder, FolderRecord) /\ DOMAIN m.folders = DOMAIN d.folders
    /\ Table(m.panels, Panel, PanelRecord) /\ DOMAIN m.panels = DOMAIN d.panels \ Stale(d)
    /\ \A p \in DOMAIN m.panels : m.panels[p] = d.panels[p]
    /\ m.sessions = <<>>
    /\ \A f \in DOMAIN d.folders :
         /\ m.folders[f].project = d.folders[f].project
         /\ m.folders[f].kind = d.folders[f].kind
         /\ m.folders[f].worktree = d.folders[f].worktree
         /\ FolderShows(m.folders[f])
         /\ ToSet(m.folders[f].panelIds) = ToSet(d.folders[f].panelIds) \ Stale(d)
         /\ d.folders[f].active \notin Stale(d) => m.folders[f].active = d.folders[f].active
         /\ m.folders[f].creator \in {None, d.folders[f].creator} \ Stale(d)
         /\ m.folders[f].offer \in {None, d.folders[f].offer} \ Stale(d)
         /\ d.folders[f].project \notin Hit(d) => m.folders[f] = d.folders[f]

\* No folder, of any project, refers to a stale panel any more.
LEMMA ClearedIs ==
    ASSUME NEW d, Sound(d)
    PROVE  Clears(d, Cleared(d))
<1> DEFINE m == Cleared(d)
           S == Stale(d)
           K(r) == Kept(r, S)
           F == [f \in DOMAIN d.folders |->
                   IF d.folders[f].project \in Hit(d) THEN K(d.folders[f]) ELSE d.folders[f]]
<1>1. Typed(d) /\ FoldersSound(d) /\ PlacesSound(d) /\ ReferencesSound(d)
  BY DEF Sound, Placed
<1>2. None \notin S BY <1>1, TypedFields, NoneIsNone DEF Stale
<1>3. /\ Fields(m)
      /\ m.viewOrder = d.viewOrder /\ m.views = d.views /\ m.projects = d.projects
      /\ m.folders = F /\ m.panels = Without(d.panels, S) /\ m.sessions = <<>>
  <2>1. Fields(d) BY <1>1 DEF Typed
  <2>2. m = [d EXCEPT !.panels = Without(@, S), !.sessions = <<>>, !.folders = F]
    BY DEF Cleared
  <2> HIDE DEF F, m, S
  <2> QED BY <2>1, <2>2 DEF Fields, Sections
<1>4. ASSUME NEW f \in DOMAIN d.folders
      PROVE  /\ F[f] \in FolderRecord
             /\ F[f].project = d.folders[f].project
             /\ F[f].kind = d.folders[f].kind
             /\ F[f].worktree = d.folders[f].worktree
             /\ FolderShows(F[f])
             /\ ToSet(F[f].panelIds) = ToSet(d.folders[f].panelIds) \ S
             /\ d.folders[f].active \notin S => F[f].active = d.folders[f].active
             /\ F[f].creator \in {None, d.folders[f].creator} \ S
             /\ F[f].offer \in {None, d.folders[f].offer} \ S
             /\ d.folders[f].project \notin Hit(d) => F[f] = d.folders[f]
  <2> DEFINE r == d.folders[f]
  <2>1. r \in FolderRecord /\ FolderShows(r) BY <1>1, TypedFields DEF PlacesSound
  <2>2. CASE r.project \in Hit(d)
    <3>1. F[f] = Kept(r, S) BY <2>2
    <3> HIDE DEF F, S, r
    <3>2. /\ F[f] \in FolderRecord /\ FolderShows(F[f])
          /\ ToSet(F[f].panelIds) = ToSet(r.panelIds) \ S
          /\ r.active \notin S => F[f].active = r.active
          /\ F[f].project = r.project /\ F[f].kind = r.kind /\ F[f].worktree = r.worktree
          /\ F[f].creator \in {None, r.creator} \ S
          /\ F[f].offer \in {None, r.offer} \ S
      BY <1>2, <2>1, <3>1, KeptIs
    <3> QED BY <2>2, <3>2 DEF r
  <2>3. CASE r.project \notin Hit(d)
    <3>1. F[f] = r BY <2>3
    <3>2. r.project \in DOMAIN d.projects BY <1>1 DEF FoldersSound
    <3>3. \A p \in S : d.panels[p].project # r.project BY <2>3, <3>2, HitIs
    <3>4. S \subseteq DOMAIN d.panels BY DEF Stale
    <3>5. ToSet(r.panelIds) \cap S = {}
      <4> SUFFICES ASSUME NEW q \in ToSet(r.panelIds), q \in S PROVE FALSE OBVIOUS
      <4>1. d.panels[q].folder = f /\ q \in DOMAIN d.panels BY <1>1 DEF PlacesSound
      <4>2. d.panels[q].project = r.project BY <1>1, <4>1 DEF PlacesSound
      <4> QED BY <3>3, <4>2
    <3>6. r.creator \notin S /\ r.offer \notin S
      <4>1. /\ r.creator # None => d.panels[r.creator].project = r.project
            /\ r.offer # None => d.panels[r.offer].project = r.project
        BY <1>1 DEF ReferencesSound
      <4> QED BY <1>2, <3>3, <4>1
    <3> HIDE DEF F, S, r
    <3>7. ToSet(r.panelIds) = ToSet(r.panelIds) \ S BY <3>5
    <3> QED BY <2>1, <2>3, <3>1, <3>6, <3>7 DEF r
  <2> QED BY <2>2, <2>3
<1>5. DOMAIN F = DOMAIN d.folders /\ F = [f \in DOMAIN F |-> F[f]] OBVIOUS
<1> HIDE DEF F, m, S
<1>6. Table(m.folders, Folder, FolderRecord)
  <2>1. DOMAIN d.folders \subseteq Folder BY <1>1 DEF Typed, Table
  <2>2. F \in [DOMAIN F -> FolderRecord] BY <1>4, <1>5
  <2> QED BY <1>3, <1>5, <2>1, <2>2 DEF Table
<1>7. /\ Table(m.panels, Panel, PanelRecord) /\ DOMAIN m.panels = DOMAIN d.panels \ S
      /\ \A p \in DOMAIN m.panels : m.panels[p] = d.panels[p]
  <2>1. Table(d.panels, Panel, PanelRecord) BY <1>1 DEF Typed
  <2>2. /\ Table(Without(d.panels, S), Panel, PanelRecord)
        /\ DOMAIN Without(d.panels, S) = DOMAIN d.panels \ S
        /\ \A q \in DOMAIN d.panels \ S : Without(d.panels, S)[q] = d.panels[q]
    BY <2>1, WithoutKeeps
  <2> QED BY <1>3, <2>2
<1> QED BY <1>3, <1>4, <1>5, <1>6, <1>7 DEF Clears, m, S

\* What is left has its places.
LEMMA ClearsPlaced ==
    ASSUME NEW d, Sound(d), NEW m, Clears(d, m)
    PROVE  Placed(m)
<1> DEFINE S == Stale(d)
<1>1. /\ Typed(d) /\ ViewsSound(d) /\ FoldersSound(d) /\ PlacesSound(d) /\ ReferencesSound(d)
      /\ SessionsSound(d)
  BY DEF Sound, Placed
<1>2. Typed(m)
  <2>1. Table(m.sessions, Session, SessionRecord)
    <3>1. m.sessions = <<>> BY DEF Clears
    <3>2. DOMAIN <<>> = {} /\ <<>> = [s \in {} |-> s] OBVIOUS
    <3> QED BY <3>1, <3>2 DEF Table
  <2> QED BY <1>1, <2>1 DEF Clears, Typed
<1>3. Rewrites(d, m) BY DEF Clears, Rewrites
<1>4. ViewsSound(m) /\ FoldersSound(m) BY <1>1, <1>3, RewritesKeep
<1>5. \A q \in DOMAIN m.panels :
        q \in DOMAIN d.panels /\ q \notin S /\ m.panels[q] = d.panels[q]
  BY DEF Clears
<1>6. \A q \in DOMAIN d.panels : q \notin S => q \in DOMAIN m.panels BY DEF Clears
<1>7. PlacesSound(m)
  <2>1. ASSUME NEW f \in DOMAIN m.folders
        PROVE  /\ FolderShows(m.folders[f])
               /\ \A q \in ToSet(m.folders[f].panelIds) :
                    q \in DOMAIN m.panels /\ m.panels[q].folder = f
    <3>1. f \in DOMAIN d.folders /\ FolderShows(m.folders[f]) BY DEF Clears
    <3>2. ASSUME NEW q \in ToSet(m.folders[f].panelIds)
          PROVE  q \in DOMAIN m.panels /\ m.panels[q].folder = f
      <4>1. q \in ToSet(d.folders[f].panelIds) /\ q \notin S BY <3>1, <3>2 DEF Clears
      <4>2. q \in DOMAIN d.panels /\ d.panels[q].folder = f BY <1>1, <3>1, <4>1 DEF PlacesSound
      <4> QED BY <1>5, <1>6, <4>1, <4>2
    <3> QED BY <3>1, <3>2
  <2>2. ASSUME NEW q \in DOMAIN m.panels
        PROVE  /\ m.panels[q].folder \in DOMAIN m.folders
               /\ m.folders[m.panels[q].folder].project = m.panels[q].project
               /\ q \in ToSet(m.folders[m.panels[q].folder].panelIds)
    <3> DEFINE f == d.panels[q].folder
    <3>1. q \in DOMAIN d.panels /\ q \notin S /\ m.panels[q] = d.panels[q] BY <1>5
    <3>2. /\ f \in DOMAIN d.folders
          /\ d.folders[f].project = d.panels[q].project
          /\ q \in ToSet(d.folders[f].panelIds)
      BY <1>1, <3>1 DEF PlacesSound
    <3>3. m.panels[q].folder = f BY <3>1
    <3> HIDE DEF f
    <3>4. /\ f \in DOMAIN m.folders /\ m.folders[f].project = d.folders[f].project
          /\ ToSet(m.folders[f].panelIds) = ToSet(d.folders[f].panelIds) \ S
      BY <3>2 DEF Clears
    <3> QED BY <3>1, <3>2, <3>3, <3>4
  <2> QED BY <2>1, <2>2 DEF PlacesSound
<1>8. ReferencesSound(m)
  <2> SUFFICES ASSUME NEW f \in DOMAIN d.folders
               PROVE  /\ m.folders[f].creator # None =>
                           /\ m.folders[f].creator \in DOMAIN m.panels
                           /\ m.panels[m.folders[f].creator].project = m.folders[f].project
                      /\ m.folders[f].offer # None =>
                           /\ m.folders[f].offer \in DOMAIN m.panels
                           /\ m.panels[m.folders[f].offer].project = m.folders[f].project
                           /\ m.panels[m.folders[f].offer].folder # f
    BY DEF ReferencesSound, Clears
  <2>1. /\ d.folders[f].creator # None =>
             /\ d.folders[f].creator \in DOMAIN d.panels
             /\ d.panels[d.folders[f].creator].project = d.folders[f].project
        /\ d.folders[f].offer # None =>
             /\ d.folders[f].offer \in DOMAIN d.panels
             /\ d.panels[d.folders[f].offer].project = d.folders[f].project
             /\ d.panels[d.folders[f].offer].folder # f
    BY <1>1 DEF ReferencesSound
  <2>2. /\ m.folders[f].project = d.folders[f].project
        /\ m.folders[f].creator \in {None, d.folders[f].creator} \ S
        /\ m.folders[f].offer \in {None, d.folders[f].offer} \ S
    BY DEF Clears
  <2> HIDE DEF S
  <2> QED BY <1>5, <1>6, <2>1, <2>2
<1>9. SessionsSound(m)
  <2>1. \A q \in DOMAIN m.panels : m.panels[q].session = None BY <1>5 DEF Stale
  <2>2. DOMAIN m.sessions = {} BY DEF Clears
  <2>3. m.projects = d.projects BY DEF Clears
  <2> QED BY <1>1, <2>1, <2>2, <2>3 DEF SessionsSound
<1> QED BY <1>2, <1>4, <1>7, <1>8, <1>9 DEF Placed

\* Only what the projects copy is different.
LEMMA ManyCopiesKeep ==
    ASSUME NEW m, Placed(m), NEW e, Typed(e),
           e.viewOrder = m.viewOrder, e.views = m.views, e.folders = m.folders,
           e.panels = m.panels, e.sessions = m.sessions,
           DOMAIN e.projects = DOMAIN m.projects,
           \A x \in DOMAIN m.projects :
              /\ e.projects[x].view = m.projects[x].view
              /\ e.projects[x].awaiting = m.projects[x].awaiting
              /\ e.projects[x].folderIds = m.projects[x].folderIds
    PROVE  Placed(e)
<1>1. ViewsSound(e) BY DEF Placed, ViewsSound
<1>2. FoldersSound(e) BY DEF Placed, FoldersSound
<1>3. PlacesSound(e) BY DEF Placed, PlacesSound
<1>4. ReferencesSound(e) BY DEF Placed, ReferencesSound
<1>5. SessionsSound(e) BY DEF Placed, SessionsSound
<1> QED BY <1>1, <1>2, <1>3, <1>4, <1>5 DEF Placed

\* A restart rewrites the copies of the projects it hit; the others copied
\* nothing stale.
LEMMA DiscardSound ==
    ASSUME NEW d, Sound(d)
    PROVE  Sound(DiscardStaleTerminalState(d))
<1> DEFINE m == Cleared(d)
           none == None
           c(pr) == SyncProject(m, pr, none)
           Q == [pr \in DOMAIN d.projects |->
                   IF pr \in Hit(d) THEN c(pr).projects[pr] ELSE d.projects[pr]]
           e == DiscardStaleTerminalState(d)
<1>1. /\ Typed(d) /\ FoldersSound(d) /\ PlacesSound(d) BY DEF Sound, Placed
<1>2. Clears(d, m) /\ Placed(m) BY ClearedIs, ClearsPlaced
<1>3. e = [m EXCEPT !.projects = Q] BY DiscardIs
<1>4. /\ Fields(m) /\ m.projects = d.projects /\ DOMAIN m.folders = DOMAIN d.folders
  BY <1>2 DEF Clears
<1>5. none = None OBVIOUS
<1> HIDE DEF m, none, e
<1>6. ASSUME NEW pr \in DOMAIN d.projects, pr \in Hit(d)
      PROVE  /\ Placed(c(pr)) /\ SameButCopies(m, c(pr), pr)
             /\ Derived(c(pr).projects[pr], c(pr).folders, c(pr).panels)
  <2>1. ASSUME m.projects[pr].active \in DOMAIN m.panels
        PROVE  m.folders[m.panels[m.projects[pr].active].folder].active = m.projects[pr].active
    <3> DEFINE w == d.projects[pr].active  f == d.panels[w].folder
    <3>1. w \in DOMAIN m.panels /\ m.projects[pr].active = w BY <1>4, <2>1
    <3>2. w # None BY <1>2, <3>1, TypedFields, NoneIsNone DEF Placed
    <3>3. w \in DOMAIN d.panels /\ d.folders[f].active = w BY <3>2, ActiveStands
    <3>4. f \in DOMAIN d.folders BY <1>1, <3>3 DEF PlacesSound
    <3>5. w \notin Stale(d) /\ m.panels[w] = d.panels[w] BY <1>2, <3>1 DEF Clears
    <3>6. m.panels[w].folder = f BY <3>5
    <3> HIDE DEF w, f
    <3>7. m.folders[f].active = w BY <1>2, <3>3, <3>4, <3>5 DEF Clears
    <3> QED BY <3>1, <3>6, <3>7
  <2>2. pr \in DOMAIN m.projects BY <1>4
  <2>3. LET wanted == IF none = None THEN m.projects[pr].active ELSE none
        IN  wanted \in DOMAIN m.panels /\ m.panels[wanted].project = pr
              => m.folders[m.panels[wanted].folder].active = wanted
    BY <1>5, <2>1
  <2> QED BY <1>2, <2>2, <2>3, SyncDerives
<1>7. ASSUME NEW pr \in DOMAIN d.projects
      PROVE  /\ Q[pr] \in ProjectRecord
             /\ Q[pr].view = d.projects[pr].view
             /\ Q[pr].awaiting = d.projects[pr].awaiting
             /\ Q[pr].folderIds = d.projects[pr].folderIds
             /\ Derived(Q[pr], m.folders, m.panels)
  <2>1. CASE pr \in Hit(d)
    <3> DEFINE u == c(pr)
    <3>1. Q[pr] = u.projects[pr] BY <2>1
    <3>2. Placed(u) /\ SameButCopies(m, u, pr) /\ Derived(u.projects[pr], u.folders, u.panels)
      BY <1>6, <2>1
    <3> HIDE DEF u, Q
    <3>3. pr \in DOMAIN u.projects /\ u.folders = m.folders /\ u.panels = m.panels
          /\ u.projects[pr].view = d.projects[pr].view
          /\ u.projects[pr].awaiting = d.projects[pr].awaiting
          /\ u.projects[pr].folderIds = d.projects[pr].folderIds
      BY <1>4, <3>2 DEF SameButCopies
    <3>4. u.projects[pr] \in ProjectRecord BY <3>2, <3>3, TypedFields DEF Placed
    <3> QED BY <3>1, <3>2, <3>3, <3>4
  <2>2. CASE pr \notin Hit(d)
    <3>1. Q[pr] = d.projects[pr] BY <2>2
    <3>2. d.projects[pr] \in ProjectRecord BY <1>1, TypedFields
    <3>3. \A f \in DOMAIN d.folders : d.folders[f].project = pr =>
            f \in DOMAIN m.folders /\ m.folders[f] = d.folders[f]
      BY <1>2, <2>2 DEF Clears
    <3>4. \A p \in DOMAIN d.panels : d.panels[p].project = pr =>
            m.panels[p].folder = d.panels[p].folder
      <4>1. \A p \in Stale(d) : d.panels[p].project # pr BY <2>2, HitIs
      <4> QED BY <1>2, <4>1 DEF Clears
    <3> HIDE DEF Q
    <3>5. Derived(d.projects[pr], m.folders, m.panels) BY <3>3, <3>4, CopiesStay
    <3> QED BY <3>1, <3>2, <3>5
  <2> QED BY <2>1, <2>2
<1>8. DOMAIN Q = DOMAIN d.projects /\ Q = [pr \in DOMAIN Q |-> Q[pr]] OBVIOUS
<1> HIDE DEF Q
<1>9. /\ Fields(e) /\ e.projects = Q
      /\ e.viewOrder = m.viewOrder /\ e.views = m.views /\ e.folders = m.folders
      /\ e.panels = m.panels /\ e.sessions = m.sessions
  BY <1>3, <1>4 DEF Fields, Sections
<1>10. Typed(e)
  <2>1. Table(e.projects, AnyProject, ProjectRecord)
    <3>1. DOMAIN d.projects \subseteq AnyProject BY <1>1 DEF Typed, Table
    <3>2. Q \in [DOMAIN Q -> ProjectRecord] BY <1>7, <1>8
    <3> QED BY <1>8, <1>9, <3>1, <3>2 DEF Table
  <2> QED BY <1>2, <1>9, <2>1 DEF Placed, Typed
<1>11. Placed(e) BY <1>2, <1>4, <1>7, <1>8, <1>9, <1>10, ManyCopiesKeep
<1>12. \A pr \in DOMAIN e.projects : Derived(e.projects[pr], e.folders, e.panels)
  BY <1>7, <1>8, <1>9
<1> QED BY <1>11, <1>12 DEF Sound, e

-----------------------------------------------------------------------------
(* What the validation of a draft tells of the document it was made from. *)

\* A folder is not created for the worktree of another one.
LEMMA FolderCreateValidSound ==
    ASSUME NEW d, Sound(d), NEW pr \in DOMAIN d.projects, NEW f \in Folder \ DOMAIN d.folders,
           NEW link \in Link \cup {None}, NEW p \in DOMAIN d.panels \cup {None},
           FolderCreateAllowed(d, pr, link, p), Valid(FolderCreate(d, pr, f, link, p))
    PROVE  Sound(FolderCreate(d, pr, f, link, p))
<1> DEFINE e == FolderCreate(d, pr, f, link, p)
           kind == IF link = None THEN "plain" ELSE "linked"
           x == NewFolder(pr, kind, link, p)
           old == d.projects[pr].folderIds
<1>1. Typed(d) /\ FoldersSound(d) BY DEF Sound, Placed
<1>2. old \in Seq(Folder) BY <1>1, TypedFields DEF ProjectRecord
<1>3. /\ e.folders = With(d.folders, f, x)
      /\ e.projects = [d.projects EXCEPT ![pr].folderIds = Append(@, f)]
  <2>1. Fields(d) BY <1>1 DEF Typed
  <2> HIDE DEF x
  <2>2. e = [d EXCEPT !.folders = With(@, f, x), !.projects[pr].folderIds = Append(@, f)]
    BY DEF FolderCreate, x
  <2> HIDE DEF e
  <2> QED BY <2>1, <2>2 DEF Fields, Sections
<1>4. x.worktree = link BY DEF NewFolder
<1>5. e.projects[pr].folderIds = Append(old, f) /\ pr \in DOMAIN e.projects
  <2>1. d.projects[pr] \in ProjectRecord /\ d.projects \in [DOMAIN d.projects -> ProjectRecord]
    BY <1>1, TypedFields DEF Typed, Table
  <2> HIDE DEF e
  <2> QED BY <1>3, <2>1 DEF ProjectRecord
<1> HIDE DEF e, x, old
<1>6. ToSet(Append(old, f)) = ToSet(old) \cup {f} BY <1>2, AppendKeeps
<1>7. /\ e.folders[f] = x
      /\ \A g \in DOMAIN d.folders : g # f => e.folders[g] = d.folders[g]
  BY <1>3 DEF With
<1>8. ASSUME link # None, NEW g \in DOMAIN d.folders, d.folders[g].project = pr,
             d.folders[g].worktree = link
      PROVE  FALSE
  <2>1. g \in ToSet(old) BY <1>1, <1>8 DEF FoldersSound, old
  <2>2. g # f /\ e.folders[g].worktree = link BY <1>7, <1>8
  <2>3. ProjectFoldersValid(e, pr) BY <1>5 DEF Valid, ProjectValid, e
  <2>4. f \in ToSet(e.projects[pr].folderIds) /\ g \in ToSet(e.projects[pr].folderIds)
    BY <1>5, <1>6, <2>1
  <2>5. e.folders[f].worktree = link BY <1>4, <1>7
  <2> QED BY <1>8, <2>2, <2>3, <2>4, <2>5 DEF ProjectFoldersValid
<1>9. link # None => \A g \in DOMAIN d.folders :
                       d.folders[g].project = pr => d.folders[g].worktree # link
  BY <1>8
<1> QED BY <1>9, FolderCreateSound

\* A folder is not linked to the worktree of another one.
LEMMA FolderLinkUpdateValidSound ==
    ASSUME NEW d, Sound(d), NEW f \in DOMAIN d.folders, NEW link \in Link,
           d.folders[f].kind = "linked", Valid(FolderLinkUpdate(d, f, link))
    PROVE  Sound(FolderLinkUpdate(d, f, link))
<1> DEFINE e == FolderLinkUpdate(d, f, link)
           pr == d.folders[f].project
<1>1. Typed(d) /\ FoldersSound(d) BY DEF Sound, Placed
<1>2. /\ e.projects = d.projects
      /\ e.folders = [d.folders EXCEPT ![f].worktree = link]
  <2>1. Fields(d) BY <1>1 DEF Typed
  <2> QED BY <2>1 DEF Fields, Sections, FolderLinkUpdate
<1> HIDE DEF e
<1>3. /\ e.folders[f].worktree = link
      /\ \A g \in DOMAIN d.folders : g # f => e.folders[g] = d.folders[g]
  <2>1. d.folders[f] \in FolderRecord /\ d.folders \in [DOMAIN d.folders -> FolderRecord]
    BY <1>1, TypedFields DEF Typed, Table
  <2> QED BY <1>2, <2>1 DEF FolderRecord
<1>4. ASSUME NEW g \in DOMAIN d.folders, d.folders[g].project = pr,
             d.folders[g].worktree = link, g # f
      PROVE  FALSE
  <2>1. pr \in DOMAIN e.projects /\ f \in ToSet(e.projects[pr].folderIds)
        /\ g \in ToSet(e.projects[pr].folderIds)
    BY <1>1, <1>2, <1>4 DEF FoldersSound
  <2> HIDE DEF pr
  <2>2. ProjectFoldersValid(e, pr) BY <2>1 DEF Valid, ProjectValid, e
  <2>3. e.folders[g].worktree = link /\ link # None BY <1>3, <1>4, NoneIsNone
  <2> QED BY <1>3, <1>4, <2>1, <2>2, <2>3 DEF ProjectFoldersValid
<1> QED BY <1>4, FolderLinkUpdateSound

\* A panel is not pointed at a session of another project.
LEMMA PanelUpdateValidSound ==
    ASSUME NEW d, Sound(d), NEW p \in DOMAIN d.panels, NEW s \in Session,
           Valid(PanelUpdate(d, p, s))
    PROVE  Sound(PanelUpdate(d, p, s))
<1> DEFINE e == PanelUpdate(d, p, s)
<1>1. Typed(d) BY DEF Sound, Placed
<1>2. /\ e.sessions = d.sessions
      /\ e.panels = [d.panels EXCEPT ![p].session = s]
  <2>1. Fields(d) BY <1>1 DEF Typed
  <2> QED BY <2>1 DEF Fields, Sections, PanelUpdate
<1> HIDE DEF e
<1>3. /\ p \in DOMAIN e.panels /\ e.panels[p].session = s
      /\ e.panels[p].project = d.panels[p].project
  <2>1. d.panels[p] \in PanelRecord /\ d.panels \in [DOMAIN d.panels -> PanelRecord]
    BY <1>1, TypedFields DEF Typed, Table
  <2> QED BY <1>2, <2>1 DEF PanelRecord
<1>4. PanelValid(e, p) BY <1>3 DEF Valid, e
<1>5. s # None BY NoneIsNone
<1>6. s \in DOMAIN d.sessions /\ d.sessions[s].project = d.panels[p].project
  BY <1>2, <1>3, <1>4, <1>5 DEF PanelValid
<1> QED BY <1>6, PanelUpdateSound

-----------------------------------------------------------------------------
(* The invariant of the store, and one step of it. *)

Inv == Sound(doc) /\ OnlyKnownDrops

\* A new workspace is sound: one view and nothing else.
LEMMA InitialSound == Sound(InitialWorkspace(FirstView))
<1> DEFINE e == InitialWorkspace(FirstView)
           r == [projectIds |-> <<>>, activeProject |-> None]
<1>1. FirstView \in View BY StoreAssumption
<1>2. /\ Fields(e)
      /\ e.viewOrder = <<FirstView>> /\ e.views = [x \in {FirstView} |-> r]
      /\ e.projects = <<>> /\ e.folders = <<>> /\ e.panels = <<>> /\ e.sessions = <<>>
  BY DEF Fields, Sections, InitialWorkspace
<1> HIDE DEF e
<1>3. DOMAIN <<>> = {} /\ <<>> = [x \in {} |-> x] OBVIOUS
<1>4. \A S, R : Table(<<>>, S, R) BY <1>3 DEF Table
<1>5. r \in ViewRecord /\ r.projectIds = <<>> /\ r.activeProject = None
  BY EmptySeq DEF ViewRecord
<1> HIDE DEF r
<1>6. /\ Table(e.views, View, ViewRecord) /\ DOMAIN e.views = {FirstView}
      /\ e.views[FirstView] = r
  BY <1>1, <1>2, <1>5 DEF Table
<1>7. /\ e.viewOrder \in Seq(View) /\ ToSet(e.viewOrder) = {FirstView}
      /\ IsInjective(e.viewOrder) /\ e.viewOrder # <<>>
  <2>1. <<FirstView>> \in Seq(View) /\ ToSet(<<FirstView>>) = {FirstView}
        /\ IsInjective(<<FirstView>>)
    BY <1>1, SingleIs
  <2> QED BY <1>2, <2>1
<1>8. Typed(e) BY <1>2, <1>4, <1>6, <1>7 DEF Typed
<1>9. ViewsSound(e)
  <2>1. ToSet(<<>>) = {} /\ IsInjective(<<>>) BY <1>3, EmptyIs
  <2> QED BY <1>2, <1>3, <1>5, <1>6, <1>7, <2>1 DEF ViewsSound
<1>10. FoldersSound(e) BY <1>2, <1>3 DEF FoldersSound
<1>11. PlacesSound(e) BY <1>2, <1>3 DEF PlacesSound
<1>12. ReferencesSound(e) BY <1>2, <1>3 DEF ReferencesSound
<1>13. SessionsSound(e) BY <1>2, <1>3 DEF SessionsSound
<1>14. DOMAIN e.projects = {} BY <1>2, <1>3
<1> QED BY <1>8, <1>9, <1>10, <1>11, <1>12, <1>13, <1>14 DEF Sound, Placed, e

\* A sound draft is a valid one: it becomes the document.
LEMMA SoundDraftKeeps ==
    ASSUME Inv, NEW draft, Sound(draft), NEW type, NEW wellFormed \in BOOLEAN,
           ApplyWith(type, draft, wellFormed)
    PROVE  Inv'
<1>1. dropped = None /\ Valid(draft) BY SoundValid DEF ApplyWith
<1>2. CASE wellFormed
  <2>1. doc' = draft /\ dropped' = None BY <1>1, <1>2 DEF ApplyWith
  <2> QED BY <2>1 DEF Inv, OnlyKnownDrops
<1>3. CASE ~wellFormed
  <2>1. doc' = doc /\ dropped' = [type |-> type, wellFormed |-> wellFormed]
    BY <1>3 DEF ApplyWith
  <2> QED BY <1>3, <2>1 DEF Inv, OnlyKnownDrops
<1> QED BY <1>2, <1>3

\* The draft of a command the validation may refuse.
LEMMA CheckedDraftKeeps ==
    ASSUME Inv, NEW draft, Valid(draft) => Sound(draft),
           NEW type \in {"folder.create", "folder.link.update", "panel.update",
                         "panel.close", "panel.move"},
           type \in {"panel.close", "panel.move"} /\ ~Valid(draft) => SharedSession,
           NEW wellFormed \in BOOLEAN, ApplyWith(type, draft, wellFormed)
    PROVE  Inv'
<1>1. CASE Valid(draft) BY <1>1, SoundDraftKeeps
<1>2. CASE ~Valid(draft)
  <2>1. doc' = doc /\ dropped' = [type |-> type, wellFormed |-> wellFormed]
    BY <1>2 DEF ApplyWith
  <2>2. dropped'.type = type BY <2>1
  <2>3. SharedSession' <=> SharedSession BY <2>1 DEF SharedSession
  <2> QED BY <1>2, <2>1, <2>2, <2>3 DEF Inv, OnlyKnownDrops
<1> QED BY <1>1, <1>2

\* Two panels that show one session.
LEMMA NotAloneShared ==
    ASSUME NEW p \in DOMAIN doc.panels, ~Alone(doc, p)
    PROVE  SharedSession
BY DEF Alone, SharedSession

\* Only a shared session can drop a panel.move.
LEMMA MovePanelKeeps ==
    ASSUME Inv, MovePanel
    PROVE  Inv'
<1>1. PICK p \in DOMAIN doc.panels, pr \in DOMAIN doc.projects :
        /\ PanelMoveAllowed(doc, p, pr)
        /\ LET list == IF pr = doc.panels[p].project
                       THEN Removing(doc.folders[doc.panels[p].folder].panelIds, p)
                       ELSE doc.folders[GeneralFolder(doc, pr)].panelIds
           IN \E i \in Positions(list) : Apply("panel.move", PanelMove(doc, p, pr, i))
  BY DEF MovePanel
<1>2. Sound(doc) /\ Typed(doc) /\ SessionsSound(doc) /\ PlacesSound(doc)
  BY DEF Inv, Sound, Placed
<1>3. CASE pr = doc.panels[p].project
  <2> DEFINE h == doc.panels[p].folder
  <2>1. PICK i \in Positions(Removing(doc.folders[h].panelIds, p)) :
          Apply("panel.move", PanelMove(doc, p, pr, i))
    BY <1>1, <1>3
  <2>2. PanelMove(doc, p, pr, i) = MovePanelToFolder(doc, p, h, i) BY <1>3 DEF PanelMove
  <2>3. h \in DOMAIN doc.folders /\ PanelMoveToFolderAllowed(doc, p, h)
    BY <1>2 DEF PlacesSound, PanelMoveToFolderAllowed
  <2> HIDE DEF h
  <2>4. Sound(MovePanelToFolder(doc, p, h, i)) BY <1>2, <2>3, MovePanelToFolderSound
  <2> QED BY <2>1, <2>2, <2>4, SoundDraftKeeps DEF Apply
<1>4. CASE pr # doc.panels[p].project
  <2>1. PICK i \in Positions(doc.folders[GeneralFolder(doc, pr)].panelIds) :
          Apply("panel.move", PanelMove(doc, p, pr, i))
    BY <1>1, <1>4
  <2> DEFINE draft == PanelMove(doc, p, pr, i)
  <2>2. ~doc.projects[pr].awaiting BY <1>1 DEF PanelMoveAllowed
  <2>3. Alone(doc, p) => Sound(draft) BY <1>2, <1>4, <2>2, PanelMoveSound
  <2>4. Valid(draft) => Alone(doc, p) BY <1>2, <1>4, PanelMoveAlone
  <2>5. ~Valid(draft) => SharedSession BY <2>3, SoundValid, NotAloneShared
  <2> HIDE DEF draft
  <2> QED BY <2>1, <2>3, <2>4, <2>5, CheckedDraftKeeps DEF draft, Apply
<1> QED BY <1>3, <1>4

\* Only a shared session can drop a panel.close.
LEMMA ClosePanelKeeps ==
    ASSUME Inv, ClosePanel
    PROVE  Inv'
<1>1. PICK p \in DOMAIN doc.panels : Apply("panel.close", PanelClose(doc, p))
  BY DEF ClosePanel
<1> DEFINE draft == PanelClose(doc, p)
<1>2. Sound(doc) /\ Typed(doc) BY DEF Inv, Sound, Placed
<1>3. Alone(doc, p) => Sound(draft) BY <1>2, PanelCloseSound
<1>4. Valid(draft) => Alone(doc, p) BY <1>2, PanelCloseAlone
<1>5. ~Valid(draft) => SharedSession BY <1>3, SoundValid, NotAloneShared
<1> HIDE DEF draft
<1> QED BY <1>1, <1>3, <1>4, <1>5, CheckedDraftKeeps DEF draft, Apply

\* The invariant holds initially.
LEMMA InitInv == Init => Inv
<1> SUFFICES ASSUME Init PROVE Inv OBVIOUS
<1>1. doc = InitialWorkspace(FirstView) /\ dropped = None BY DEF Init
<1> QED BY <1>1, InitialSound DEF Inv, OnlyKnownDrops

\* Commands on views are never dropped.
LEMMA ViewStepKeeps ==
    ASSUME Inv, \/ CreateView \/ CloseView
    PROVE  Inv'
<1>1. Sound(doc) BY DEF Inv
<1>2. CASE CreateView
  <2>1. PICK v \in View \ DOMAIN doc.views : Apply("view.create", ViewCreate(doc, v))
    BY <1>2 DEF CreateView
  <2>2. Sound(ViewCreate(doc, v)) BY <1>1, ViewCreateSound
  <2> QED BY <2>1, <2>2, SoundDraftKeeps DEF Apply
<1>3. CASE CloseView
  <2>1. PICK v \in DOMAIN doc.views :
          ViewCloseAllowed(doc, v) /\ Apply("view.close", ViewClose(doc, v))
    BY <1>3 DEF CloseView
  <2>2. Sound(ViewClose(doc, v)) BY <1>1, <2>1, ViewCloseSound
  <2> QED BY <2>1, <2>2, SoundDraftKeeps DEF Apply
<1> QED BY <1>2, <1>3

\* Well-formed commands on projects are never dropped.
LEMMA ProjectStepKeeps ==
    ASSUME Inv,
           \/ CreateProject \/ MakeAutomationSpace \/ UpdateRoot \/ StartProject
           \/ ActivateProject \/ MoveProject \/ CloseProject
    PROVE  Inv'
<1>1. Sound(doc) BY DEF Inv
<1>2. \A pr \in Projects : pr \in DOMAIN doc.projects /\ pr # AutomationSpace BY DEF Projects
<1>3. CASE CreateProject
  <2>1. PICK pr \in Project \ DOMAIN doc.projects, v \in DOMAIN doc.views,
             f \in Unissued, awaiting, wellFormed \in BOOLEAN :
               ApplyWith("project.create", ProjectCreate(doc, pr, v, f, awaiting), wellFormed)
    BY <1>3 DEF CreateProject
  <2>2. f \in Folder \ DOMAIN doc.folders BY DEF Unissued
  <2>3. Sound(ProjectCreate(doc, pr, v, f, awaiting)) BY <1>1, <2>2, ProjectCreateSound
  <2> QED BY <2>1, <2>3, SoundDraftKeeps DEF Apply
<1>4. CASE MakeAutomationSpace
  <2>1. PICK f \in Unissued : Apply("system", EnsureAutomationSpace(doc, f))
    BY <1>4 DEF MakeAutomationSpace
  <2>2. f \in Folder \ DOMAIN doc.folders BY DEF Unissued
  <2>3. Sound(EnsureAutomationSpace(doc, f))
    BY <1>1, <1>4, <2>2, EnsureAutomationSpaceSound DEF MakeAutomationSpace
  <2> QED BY <2>1, <2>3, SoundDraftKeeps DEF Apply
<1>5. CASE UpdateRoot
  <2>1. PICK pr \in Projects : Apply("project.root.update", ProjectRootUpdate(doc, pr))
    BY <1>5 DEF UpdateRoot
  <2>2. Sound(ProjectRootUpdate(doc, pr)) BY <1>1, <1>2, ProjectRootUpdateSound
  <2> QED BY <2>1, <2>2, SoundDraftKeeps DEF Apply
<1>6. CASE StartProject
  <2>1. PICK pr \in Projects : Apply("project.start", ProjectStart(doc, pr))
    BY <1>6 DEF StartProject
  <2>2. ProjectStart(doc, pr) = ProjectRootUpdate(doc, pr)
    BY DEF ProjectStart, ProjectRootUpdate
  <2>3. Sound(ProjectRootUpdate(doc, pr)) BY <1>1, <1>2, ProjectRootUpdateSound
  <2> QED BY <2>1, <2>2, <2>3, SoundDraftKeeps DEF Apply
<1>7. CASE ActivateProject
  <2>1. PICK pr \in Projects : Apply("project.activate", ProjectActivate(doc, pr))
    BY <1>7 DEF ActivateProject
  <2>2. Sound(ProjectActivate(doc, pr)) BY <1>1, <1>2, ProjectActivateSound
  <2> QED BY <2>1, <2>2, SoundDraftKeeps DEF Apply
<1>8. CASE MoveProject
  <2>1. PICK pr \in Projects, v \in DOMAIN doc.views :
          \E i \in Positions(Removing(doc.views[v].projectIds, pr)) :
            Apply("project.move", ProjectMove(doc, pr, v, i))
    BY <1>8 DEF MoveProject
  <2>2. PICK i \in Positions(Removing(doc.views[v].projectIds, pr)) :
          Apply("project.move", ProjectMove(doc, pr, v, i))
    BY <2>1
  <2>3. Sound(ProjectMove(doc, pr, v, i)) BY <1>1, <1>2, ProjectMoveSound
  <2> QED BY <2>2, <2>3, SoundDraftKeeps DEF Apply
<1>9. CASE CloseProject
  <2>1. PICK pr \in Projects : Apply("project.close", ProjectClose(doc, pr))
    BY <1>9 DEF CloseProject
  <2>2. Sound(ProjectClose(doc, pr)) BY <1>1, <1>2, ProjectCloseSound
  <2> QED BY <2>1, <2>2, SoundDraftKeeps DEF Apply
<1> QED BY <1>3, <1>4, <1>5, <1>6, <1>7, <1>8, <1>9

\* Of the commands on folders, the two that link one can be dropped.
LEMMA FolderStepKeeps ==
    ASSUME Inv,
           \/ CreateFolder \/ ReorderFolders \/ DeleteFolder \/ UpdateLink
           \/ SetOffer \/ AcceptOffer \/ DeclineOffer
    PROVE  Inv'
<1>1. Sound(doc) BY DEF Inv
<1>2. CASE CreateFolder
  <2>1. PICK pr \in Projects, f \in Unissued, link \in Link \cup {None},
             p \in DOMAIN doc.panels \cup {None} :
               /\ FolderCreateAllowed(doc, pr, link, p)
               /\ Apply("folder.create", FolderCreate(doc, pr, f, link, p))
    BY <1>2 DEF CreateFolder
  <2>2. pr \in DOMAIN doc.projects /\ f \in Folder \ DOMAIN doc.folders
    BY DEF Projects, Unissued
  <2> DEFINE draft == FolderCreate(doc, pr, f, link, p)
  <2>3. Valid(draft) => Sound(draft) BY <1>1, <2>1, <2>2, FolderCreateValidSound
  <2> HIDE DEF draft
  <2> QED BY <2>1, <2>3, CheckedDraftKeeps DEF draft, Apply
<1>3. CASE ReorderFolders
  <2>1. PICK pr \in DOMAIN doc.projects : \E ids \in Orders(doc.projects[pr].folderIds) :
          /\ FolderReorderAllowed(doc, pr, ids)
          /\ Apply("folder.reorder", FolderReorder(doc, pr, ids))
    BY <1>3 DEF ReorderFolders
  <2>2. PICK ids \in Orders(doc.projects[pr].folderIds) :
          /\ FolderReorderAllowed(doc, pr, ids)
          /\ Apply("folder.reorder", FolderReorder(doc, pr, ids))
    BY <2>1
  <2>3. Sound(FolderReorder(doc, pr, ids)) BY <1>1, <2>2, FolderReorderSound
  <2> QED BY <2>2, <2>3, SoundDraftKeeps DEF Apply
<1>4. CASE DeleteFolder
  <2>1. PICK f \in DOMAIN doc.folders :
          FolderDeleteAllowed(doc, f) /\ Apply("folder.delete", FolderDelete(doc, f))
    BY <1>4 DEF DeleteFolder
  <2>2. Sound(FolderDelete(doc, f)) BY <1>1, <2>1, FolderDeleteSound
  <2> QED BY <2>1, <2>2, SoundDraftKeeps DEF Apply
<1>5. CASE UpdateLink
  <2>1. PICK f \in DOMAIN doc.folders, link \in Link :
          /\ doc.folders[f].kind = "linked"
          /\ Apply("folder.link.update", FolderLinkUpdate(doc, f, link))
    BY <1>5 DEF UpdateLink
  <2> DEFINE draft == FolderLinkUpdate(doc, f, link)
  <2>2. Valid(draft) => Sound(draft) BY <1>1, <2>1, FolderLinkUpdateValidSound
  <2> HIDE DEF draft
  <2> QED BY <2>1, <2>2, CheckedDraftKeeps DEF draft, Apply
<1>6. CASE SetOffer
  <2>1. PICK f \in DOMAIN doc.folders, p \in DOMAIN doc.panels :
          /\ FolderOfferSetAllowed(doc, f, p)
          /\ Apply("folder.offer.set", FolderOfferSet(doc, f, p))
    BY <1>6 DEF SetOffer
  <2>2. Sound(FolderOfferSet(doc, f, p)) BY <1>1, <2>1, FolderOfferSetSound
  <2> QED BY <2>1, <2>2, SoundDraftKeeps DEF Apply
<1>7. CASE AcceptOffer
  <2>1. PICK f \in DOMAIN doc.folders :
          /\ doc.folders[f].offer # None
          /\ Apply("folder.offer.accept", FolderOfferAccept(doc, f))
    BY <1>7 DEF AcceptOffer
  <2>2. Sound(FolderOfferAccept(doc, f)) BY <1>1, <2>1, FolderOfferAcceptSound
  <2> QED BY <2>1, <2>2, SoundDraftKeeps DEF Apply
<1>8. CASE DeclineOffer
  <2>1. PICK f \in DOMAIN doc.folders :
          Apply("folder.offer.decline", FolderOfferDecline(doc, f))
    BY <1>8 DEF DeclineOffer
  <2>2. Sound(FolderOfferDecline(doc, f)) BY <1>1, FolderOfferDeclineSound
  <2> QED BY <2>1, <2>2, SoundDraftKeeps DEF Apply
<1> QED BY <1>2, <1>3, <1>4, <1>5, <1>6, <1>7, <1>8

\* Of these commands on panels, well formed, only panel.update can be dropped.
LEMMA PanelStepKeeps ==
    ASSUME Inv,
           \/ CreatePanel \/ MoveToFolder \/ UpdatePanel \/ ReorderPanels
           \/ SplitPanel \/ ActivatePanel
    PROVE  Inv'
<1>1. Sound(doc) BY DEF Inv
<1>2. CASE CreatePanel
  <2>1. PICK p \in Panel \ DOMAIN doc.panels, f \in DOMAIN doc.folders,
             s \in Session \cup {None}, wellFormed \in BOOLEAN :
               /\ PanelCreateAllowed(doc, doc.folders[f].project, f, s)
               /\ ApplyWith("panel.create", PanelCreate(doc, p, doc.folders[f].project, f, s),
                            wellFormed)
    BY <1>2 DEF CreatePanel
  <2>2. Sound(PanelCreate(doc, p, doc.folders[f].project, f, s))
    BY <1>1, <2>1, PanelCreateSound
  <2> QED BY <2>1, <2>2, SoundDraftKeeps DEF Apply
<1>3. CASE MoveToFolder
  <2>1. PICK p \in DOMAIN doc.panels, f \in DOMAIN doc.folders :
          /\ PanelMoveToFolderAllowed(doc, p, f)
          /\ \E i \in Positions(Removing(doc.folders[f].panelIds, p)) :
               Apply("panel.moveToFolder", MovePanelToFolder(doc, p, f, i))
    BY <1>3 DEF MoveToFolder
  <2>2. PICK i \in Positions(Removing(doc.folders[f].panelIds, p)) :
          Apply("panel.moveToFolder", MovePanelToFolder(doc, p, f, i))
    BY <2>1
  <2>3. Sound(MovePanelToFolder(doc, p, f, i)) BY <1>1, <2>1, MovePanelToFolderSound
  <2> QED BY <2>2, <2>3, SoundDraftKeeps DEF Apply
<1>4. CASE UpdatePanel
  <2>1. PICK p \in DOMAIN doc.panels, s \in Session, wellFormed \in BOOLEAN :
          ApplyWith("panel.update", PanelUpdate(doc, p, s), wellFormed)
    BY <1>4 DEF UpdatePanel
  <2> DEFINE draft == PanelUpdate(doc, p, s)
  <2>2. Valid(draft) => Sound(draft) BY <1>1, PanelUpdateValidSound
  <2> HIDE DEF draft
  <2> QED BY <2>1, <2>2, CheckedDraftKeeps DEF draft, Apply
<1>5. CASE ReorderPanels
  <2>1. PICK f \in DOMAIN doc.folders : \E ids \in Orders(doc.folders[f].panelIds) :
          /\ PanelReorderAllowed(doc, f, ids)
          /\ Apply("panel.reorder", PanelReorder(doc, f, ids))
    BY <1>5 DEF ReorderPanels
  <2>2. PICK ids \in Orders(doc.folders[f].panelIds) :
          /\ PanelReorderAllowed(doc, f, ids)
          /\ Apply("panel.reorder", PanelReorder(doc, f, ids))
    BY <2>1
  <2>3. Sound(PanelReorder(doc, f, ids)) BY <1>1, <2>2, PanelReorderSound
  <2> QED BY <2>2, <2>3, SoundDraftKeeps DEF Apply
<1>6. CASE SplitPanel
  <2>1. PICK p \in DOMAIN doc.panels, wellFormed \in BOOLEAN :
          ApplyWith("panel.split", PanelSplit(doc, p), wellFormed)
    BY <1>6 DEF SplitPanel
  <2>2. Sound(PanelSplit(doc, p)) BY <1>1, PanelSplitSound
  <2> QED BY <2>1, <2>2, SoundDraftKeeps DEF Apply
<1>7. CASE ActivatePanel
  <2>1. PICK p \in DOMAIN doc.panels : Apply("panel.activate", PanelActivate(doc, p))
    BY <1>7 DEF ActivatePanel
  <2>2. Sound(PanelActivate(doc, p)) BY <1>1, PanelActivateSound
  <2> QED BY <2>1, <2>2, SoundDraftKeeps DEF Apply
<1> QED BY <1>2, <1>3, <1>4, <1>5, <1>6, <1>7

\* Commands on terminals, and a restart, are never dropped.
LEMMA TerminalStepKeeps ==
    ASSUME Inv, \/ CreateTerminal \/ CreateTerminalPanel \/ MarkTerminal \/ Restart
    PROVE  Inv'
<1>1. Sound(doc) BY DEF Inv
<1>2. CASE CreateTerminal
  <2>1. PICK s \in Session \ DOMAIN doc.sessions, pr \in DOMAIN doc.projects :
          /\ TerminalCreateAllowed(doc, pr)
          /\ Apply("terminal.create", TerminalCreate(doc, s, pr))
    BY <1>2 DEF CreateTerminal
  <2>2. Sound(TerminalCreate(doc, s, pr)) BY <1>1, <2>1, TerminalCreateSound
  <2> QED BY <2>1, <2>2, SoundDraftKeeps DEF Apply
<1>3. CASE CreateTerminalPanel
  <2>1. PICK s \in Session \ DOMAIN doc.sessions, p \in Panel \ DOMAIN doc.panels,
             f \in DOMAIN doc.folders :
               /\ TerminalCreateAllowed(doc, doc.folders[f].project)
               /\ Apply("terminal.createPanel",
                        TerminalCreatePanel(doc, s, doc.folders[f].project, p, f))
    BY <1>3 DEF CreateTerminalPanel
  <2>2. Sound(TerminalCreatePanel(doc, s, doc.folders[f].project, p, f))
    BY <1>1, <2>1, TerminalCreatePanelSound
  <2> QED BY <2>1, <2>2, SoundDraftKeeps DEF Apply
<1>4. CASE MarkTerminal
  <2>1. PICK s \in DOMAIN doc.sessions, status \in Endings :
          Apply("terminal.mark", TerminalMark(doc, s, status))
    BY <1>4 DEF MarkTerminal
  <2>2. Sound(TerminalMark(doc, s, status)) BY <1>1, TerminalMarkSound
  <2> QED BY <2>1, <2>2, SoundDraftKeeps DEF Apply
<1>5. CASE Restart
  <2>1. Apply("system", DiscardStaleTerminalState(doc)) BY <1>5 DEF Restart
  <2>2. Sound(DiscardStaleTerminalState(doc)) BY <1>1, DiscardSound
  <2> QED BY <2>1, <2>2, SoundDraftKeeps DEF Apply
<1> QED BY <1>2, <1>3, <1>4, <1>5

\* Every step keeps the invariant, drafts that are dropped included.
LEMMA StepInv == Inv /\ [Next]_vars => Inv'
<1> SUFFICES ASSUME Inv, [Next]_vars PROVE Inv' OBVIOUS
<1>1. CASE CreateView \/ CloseView BY <1>1, ViewStepKeeps
<1>2. CASE \/ CreateProject \/ MakeAutomationSpace \/ UpdateRoot \/ StartProject
           \/ ActivateProject \/ MoveProject \/ CloseProject
  BY <1>2, ProjectStepKeeps
<1>3. CASE \/ CreateFolder \/ ReorderFolders \/ DeleteFolder \/ UpdateLink
           \/ SetOffer \/ AcceptOffer \/ DeclineOffer
  BY <1>3, FolderStepKeeps
<1>4. CASE \/ CreatePanel \/ MoveToFolder \/ UpdatePanel \/ ReorderPanels
           \/ SplitPanel \/ ActivatePanel
  BY <1>4, PanelStepKeeps
<1>5. CASE MovePanel BY <1>5, MovePanelKeeps
<1>6. CASE ClosePanel BY <1>6, ClosePanelKeeps
<1>7. CASE CreateTerminal \/ CreateTerminalPanel \/ MarkTerminal \/ Restart
  BY <1>7, TerminalStepKeeps
<1>8. CASE Answer
  <2>1. doc' = doc /\ dropped' = None BY <1>8 DEF Answer
  <2> QED BY <2>1 DEF Inv, OnlyKnownDrops
<1>9. CASE UNCHANGED vars
  <2>1. doc' = doc /\ dropped' = dropped BY <1>9 DEF vars
  <2>2. SharedSession' <=> SharedSession BY <2>1 DEF SharedSession
  <2> QED BY <2>1, <2>2 DEF Inv, OnlyKnownDrops
<1> QED BY <1>1, <1>2, <1>3, <1>4, <1>5, <1>6, <1>7, <1>8, <1>9 DEF Next

\* Every committed document is sound, so every one passes the validation.
THEOREM SpecInv == Spec => []Inv
BY InitInv, StepInv, PTL DEF Spec

\* Every project but the automation space is listed once, by the view it
\* belongs to and by no other, after any sequence of moves and closes.
THEOREM SpecListedOnce == Spec => []ProjectsListedOnce
<1>1. Inv => ProjectsListedOnce BY SoundProperties DEF Inv
<1> QED BY <1>1, SpecInv, PTL

\* What a project copies of its folders is what they say now: no command of
\* the reducer forgets to make the copies again.
THEOREM SpecDerivedCurrent == Spec => []DerivedCurrent
<1>1. Inv => DerivedCurrent BY SoundProperties DEF Inv
<1> QED BY <1>1, SpecInv, PTL

\* No panel is unreachable: every folder's layout shows each of its panels,
\* once.
THEOREM SpecLayoutsShowAll == Spec => []LayoutsShowAll
<1>1. Inv => LayoutsShowAll BY SoundProperties DEF Inv
<1> QED BY <1>1, SpecInv, PTL

\* Of the commands whose own fields are well formed, the validation behind the
\* reducer refuses only five, and a close or a move only while two panels show
\* one session.
THEOREM SpecOnlyKnownDrops == Spec => []OnlyKnownDrops
<1>1. Inv => OnlyKnownDrops BY DEF Inv
<1> QED BY <1>1, SpecInv, PTL
=============================================================================
