------------------------ MODULE ServerRequests_proofs ------------------------
(***************************************************************************)
(* For every number of requests, slots and queue places: the counters that *)
(* admit work agree with the work there is, nothing waits while a slot is  *)
(* free, every request is answered once, and a teardown leaves no handler  *)
(* running and no request held.                                            *)
(*                                                                         *)
(* None is inductive.  A slot is given back by a request in a phase that   *)
(* occupies one, and a byte by a request that has a place, so the queue,   *)
(* the requests in flight and the phases are related one by one; that a    *)
(* torn down connection runs nothing although a late handshake opens it    *)
(* again rests on every way of closing having aborted it first, and on no  *)
(* frame having been read before the handshake was over.                   *)
(***************************************************************************)
EXTENDS ServerRequests, FiniteSetTheorems, TLAPS

(* How far the handshake, the reader and the teardown have come tells what  *)
(* can have happened to the transport and to the requests.                  *)
ControlOK ==
    /\ conn \in {"closing", "closed"} \/ closeTask # "none" \/ disconnected \/ cleaned => aborted
    /\ hello = "processed" /\ conn # "open" => aborted
    /\ reader \in {"draining", "done"} => transport = "ended"
    /\ transport = "unopened" => hello = "awaited"
    /\ conn = "new" \/ reader = "opening" => hello = "awaited"
    /\ hello # "processed" => \A r \in Requests : phase[r] = "unsent"

(* The queue and the set of requests in flight agree with the phases.       *)
PlacesOK ==
    /\ \A r \in Requests : phase[r] = "queued" <=> r \in Queued
    /\ \A i, j \in DOMAIN queue : queue[i] = queue[j] => i = j
    /\ expired \subseteq Queued
    /\ inFlight \subseteq Occupying
    /\ \A r, q \in Queued \cup inFlight : Correlation[r] = Correlation[q] => r = q

CountsOK ==
    /\ IsFiniteSet(Occupying)
    /\ active = Cardinality(Occupying)
    /\ active <= MaxInFlight
    /\ queueBytes = BytesOf(queue)

AnswersOK ==
    \A r \in Requests :
        /\ phase[r] # "settled" => sent[r] = 0
        /\ sent[r] <= 1
        /\ ~aborted /\ ~outboundClosed /\ transport = "open" /\ phase[r] = "settled" => sent[r] = 1

RequestsInv ==
    TypeOK /\ ControlOK /\ PlacesOK /\ CountsOK /\ AnswersOK /\ WorkConserving /\ TeardownStopsWork

-----------------------------------------------------------------------------
(* Sets of numbers, and sums along a queue.                                 *)

LEMMA LeastExists ==
    ASSUME NEW S \in SUBSET Nat, S # {}
    PROVE  \E i \in S : \A j \in S : i <= j
<1> DEFINE Below == {0..i : i \in S}
<1>1. Below \subseteq FiniteSubsetsOf(Nat)
  <2>1. \A i \in S : 0..i \in SUBSET Nat
    OBVIOUS
  <2>2. \A i \in S : IsFiniteSet(0..i)
    BY FS_Interval
  <2> QED  BY <2>1, <2>2 DEF FiniteSubsetsOf
<1>2. PICK x \in Below : \A y \in Below : <<y, x>> \notin StrictSubsetOrdering(Nat)
  <2>1. Below # {}
    OBVIOUS
  <2>2. IsWellFoundedOn(StrictSubsetOrdering(Nat), FiniteSubsetsOf(Nat))
    BY FS_StrictSubsetOrderingWellFounded
  <2> HIDE DEF Below
  <2> QED  BY <1>1, <2>1, <2>2, WFMin
<1>3. PICK i \in S : x = 0..i
  OBVIOUS
<1>4. ASSUME NEW j \in S, j < i  PROVE FALSE
  <2>1. 0..j \in Below
    OBVIOUS
  <2>2. 0..j \subseteq 0..i /\ 0..j # 0..i
    <3>1. i \in 0..i /\ i \notin 0..j
      BY <1>4
    <3> QED  BY <1>4, <3>1
  <2>3. <<0..j, x>> \in StrictSubsetOrdering(Nat)
    BY <1>3, <2>2 DEF StrictSubsetOrdering
  <2> QED  BY <1>2, <2>1, <2>3
<1> QED  BY <1>4

\* f is the running total of the bytes of the first n requests of q.
Recurs(f, q, n) ==
    /\ f \in [0..n -> Int]
    /\ f[0] = 0
    /\ \A i \in 1..n : f[i] = f[i - 1] + Bytes[q[i]]

LEMMA BytesType == ASSUME NEW q \in Seq(Features), NEW i \in 1..Len(q)  PROVE Bytes[q[i]] \in Nat \ {0}
BY RequestsAssumption

\* There is one running total, and BytesOf is its last value.
LEMMA RecursAgree ==
    ASSUME NEW q \in Seq(Features), NEW n \in 0..Len(q), NEW f, NEW g, Recurs(f, q, n), Recurs(g, q, n)
    PROVE  f = g
<1> DEFINE Differ == {i \in 0..n : f[i] # g[i]}
<1>1. ASSUME Differ # {}  PROVE FALSE
  <2>1. PICK i \in Differ : \A j \in Differ : i <= j
    <3>1. Differ \in SUBSET Nat OBVIOUS
    <3> HIDE DEF Differ
    <3> QED BY <1>1, <3>1, LeastExists
  <2>2. i \in 1..n /\ i - 1 \in 0..n /\ i - 1 \notin Differ
    BY <2>1 DEF Recurs
  <2> QED BY <2>1, <2>2 DEF Recurs
<1>2. /\ f = [i \in 0..n |-> f[i]] /\ g = [i \in 0..n |-> g[i]]
      /\ \A i \in 0..n : f[i] = g[i]
  BY <1>1 DEF Recurs
<1> QED BY <1>2

LEMMA RecursExists ==
    ASSUME NEW q \in Seq(Features), NEW n \in 0..Len(q)
    PROVE  \E f : Recurs(f, q, n)
<1> DEFINE None == {i \in 0..Len(q) : \A f : ~Recurs(f, q, i)}
<1>1. ASSUME None # {}  PROVE FALSE
  <2>1. PICK i \in None : \A j \in None : i <= j
    <3>1. None \in SUBSET Nat OBVIOUS
    <3> HIDE DEF None
    <3> QED BY <1>1, <3>1, LeastExists
  <2>2. Recurs([j \in 0..0 |-> 0], q, 0)
    BY DEF Recurs
  <2>3. i # 0
    BY <2>1, <2>2
  <2>4. i \in 1..Len(q) /\ i - 1 \in 0..Len(q) /\ i - 1 \notin None
    BY <2>1, <2>3
  <2>5. PICK f : Recurs(f, q, i - 1)
    BY <2>4
  <2> DEFINE g == [j \in 0..i |-> IF j = i THEN f[i - 1] + Bytes[q[i]] ELSE f[j]]
  <2>6. Recurs(g, q, i)
    BY SMTT(30), <2>4, <2>5, BytesType DEF Recurs
  <2> QED BY <2>1, <2>6
<1> QED BY <1>1

LEMMA BytesOfIs ==
    ASSUME NEW q \in Seq(Features), NEW f, Recurs(f, q, Len(q))
    PROVE  BytesOf(q) = f[Len(q)]
<1> DEFINE n == Len(q)
           Eq(g) == g = [i \in 0..n |-> IF i = 0 THEN 0 ELSE g[i - 1] + Bytes[q[i]]]
<1>1. \A g : Recurs(g, q, n) => Eq(g)
  BY DEF Recurs
<1>2. n \in Nat OBVIOUS
<1>3. Eq(CHOOSE g : Eq(g))
  BY <1>1
<1>4. ASSUME NEW g, Eq(g) PROVE Recurs(g, q, n)
  <2> DEFINE Bad == {i \in 0..n : g[i] \notin Int}
  <2>1. /\ g = [i \in 0..n |-> g[i]]
        /\ g[0] = 0 /\ \A i \in 1..n : g[i] = g[i - 1] + Bytes[q[i]]
    BY <1>2, <1>4
  <2>2. ASSUME Bad # {} PROVE FALSE
    <3>1. PICK i \in Bad : \A j \in Bad : i <= j
      <4>1. Bad \in SUBSET Nat OBVIOUS
      <4> HIDE DEF Bad
      <4> QED BY <2>2, <4>1, LeastExists
    <3>2. i \in 1..n /\ i - 1 \in 0..n /\ i - 1 \notin Bad
      BY <2>1, <3>1
    <3> QED BY <2>1, <3>1, <3>2, BytesType
  <2> QED BY <2>1, <2>2 DEF Recurs
<1>5. BytesOf(q) = (CHOOSE g : Eq(g))[n]
  BY DEF BytesOf
<1> QED
  <2> HIDE DEF Eq
  <2> QED BY <1>3, <1>4, <1>5, RecursAgree, n \in 0..Len(q)

LEMMA EmptySums == BytesOf(<<>>) = 0
<1> DEFINE q == <<>>  f == [i \in 0..0 |-> 0]
<1>1. q \in Seq(Features) /\ Len(q) = 0 OBVIOUS
<1>2. Recurs(f, q, 0) BY DEF Recurs
<1>3. f[0] = 0 OBVIOUS
<1> HIDE DEF q, f
<1>4. BytesOf(q) = f[Len(q)] BY <1>1, <1>2, BytesOfIs
<1> QED BY <1>1, <1>3, <1>4 DEF q

LEMMA AppendSums ==
    ASSUME NEW q \in Seq(Features), NEW r \in Features
    PROVE  BytesOf(Append(q, r)) = BytesOf(q) + Bytes[r]
<1> DEFINE n == Len(q)  t == Append(q, r)
<1>1. n \in Nat /\ n \in 0..n /\ t \in Seq(Features) /\ Len(t) = n + 1 /\ t[n + 1] = r
      /\ \A i \in 1..n : t[i] = q[i]
  OBVIOUS
<1>2. PICK f : Recurs(f, q, n) BY <1>1, RecursExists
<1> DEFINE g == [i \in 0..(n + 1) |-> IF i = n + 1 THEN f[n] + Bytes[r] ELSE f[i]]
<1>3. Bytes[r] \in Nat BY RequestsAssumption
<1> HIDE DEF n, t
<1>4. Recurs(g, t, n + 1) /\ g[n + 1] = f[n] + Bytes[r]
  BY SMTT(30), <1>1, <1>2, <1>3 DEF Recurs
<1> HIDE DEF g
<1>5. BytesOf(t) = g[n + 1] BY <1>1, <1>4, BytesOfIs
<1>6. BytesOf(q) = f[n] BY <1>2, BytesOfIs DEF n
<1> QED BY <1>4, <1>5, <1>6 DEF t

\* The first n requests of a queue and those after them.
LEMMA SplitSums ==
    ASSUME NEW q \in Seq(Features), NEW n \in 0..Len(q)
    PROVE  BytesOf(SubSeq(q, n + 1, Len(q))) = BytesOf(q) - BytesOf(SubSeq(q, 1, n))
<1> DEFINE m == Len(q)  a == SubSeq(q, 1, n)  b == SubSeq(q, n + 1, m)
<1>1. m \in Nat /\ n \in Nat /\ n <= m /\ n \in 0..m /\ m \in 0..m OBVIOUS
<1>2. a \in Seq(Features) /\ Len(a) = n /\ \A i \in 1..n : a[i] = q[i] OBVIOUS
<1>3. b \in Seq(Features) /\ Len(b) = m - n /\ \A i \in 1..(m - n) : b[i] = q[i + n] OBVIOUS
<1>4. PICK f : Recurs(f, q, m) BY <1>1, RecursExists
<1> DEFINE g == [i \in 0..n |-> f[i]]  h == [i \in 0..(m - n) |-> f[i + n] - f[n]]
<1>5. BytesOf(q) = f[m] BY <1>4, BytesOfIs
<1> HIDE DEF m, a, b
<1>6. Recurs(g, a, n) /\ g[n] = f[n]
  <2>1. f \in [0..m -> Int] /\ f[0] = 0 /\ \A i \in 1..m : f[i] = f[i - 1] + Bytes[q[i]]
    BY <1>4 DEF Recurs
  <2>2. \A i \in 0..n : i \in 0..m /\ g[i] = f[i] BY <1>1
  <2>3. g \in [0..n -> Int] /\ g[0] = 0 /\ g[n] = f[n] BY <1>1, <2>1, <2>2
  <2>4. ASSUME NEW i \in 1..n PROVE g[i] = g[i - 1] + Bytes[a[i]]
    <3>1. i \in 0..n /\ i - 1 \in 0..n /\ i \in 1..m BY <1>1
    <3>2. a[i] = q[i] BY <1>2
    <3> QED BY <2>1, <2>2, <3>1, <3>2
  <2> QED BY <2>3, <2>4 DEF Recurs
<1>7. Recurs(h, b, m - n) /\ h[m - n] = f[m] - f[n]
  <2>1. f \in [0..m -> Int] /\ \A i \in 1..m : f[i] = f[i - 1] + Bytes[q[i]]
    BY <1>4 DEF Recurs
  <2>2. h \in [0..(m - n) -> Int] /\ h[0] = 0 BY <1>1, <2>1
  <2>3. ASSUME NEW i \in 1..(m - n) PROVE h[i] = h[i - 1] + Bytes[b[i]]
    <3>1. i + n \in 1..m /\ (i - 1) + n = (i + n) - 1 /\ i - 1 \in 0..(m - n) /\ i \in 0..(m - n)
      BY <1>1
    <3>2. f[i + n] = f[(i + n) - 1] + Bytes[b[i]] BY <1>3, <2>1, <3>1
    <3>3. h[i] = f[i + n] - f[n] /\ h[i - 1] = f[(i + n) - 1] - f[n] BY <3>1
    <3>4. f[i + n] \in Int /\ f[(i + n) - 1] \in Int /\ f[n] \in Int BY <1>1, <2>1, <3>1
    <3>5. Bytes[b[i]] \in Nat BY <1>3, RequestsAssumption
    <3> QED BY <3>2, <3>3, <3>4, <3>5
  <2>4. h[m - n] = f[m] - f[n] BY <1>1
  <2> QED BY <2>2, <2>3, <2>4 DEF Recurs
<1> HIDE DEF g, h
<1>8. BytesOf(a) = f[n] BY <1>2, <1>6, BytesOfIs
<1>9. BytesOf(b) = f[m] - f[n] BY <1>3, <1>7, BytesOfIs
<1> QED BY <1>5, <1>8, <1>9 DEF a, b, m

\* RemoveAt takes out one place of a queue and leaves the others in order.
LEMMA RemoveAtIs ==
    ASSUME NEW S, NEW q \in Seq(S), NEW i \in 1..Len(q)
    PROVE  /\ RemoveAt(q, i) \in Seq(S)
           /\ Len(RemoveAt(q, i)) = Len(q) - 1
           /\ \A j \in 1..(Len(q) - 1) : RemoveAt(q, i)[j] = IF j < i THEN q[j] ELSE q[j + 1]
<1> DEFINE a == SubSeq(q, 1, i - 1)  b == SubSeq(q, i + 1, Len(q))  t == a \o b
<1>1. a \in Seq(S) /\ Len(a) = i - 1 /\ \A j \in 1..(i - 1) : a[j] = q[j] OBVIOUS
<1>2. b \in Seq(S) /\ Len(b) = Len(q) - i /\ \A j \in 1..(Len(q) - i) : b[j] = q[i + j] OBVIOUS
<1> HIDE DEF a, b
<1>3. t \in Seq(S) /\ Len(t) = Len(q) - 1
  <2>1. t \in Seq(S) /\ Len(t) = Len(a) + Len(b)
    <3>1. a \in Seq(S) /\ b \in Seq(S) BY <1>1, <1>2
    <3> QED BY <3>1
  <2>2. Len(q) \in Nat OBVIOUS
  <2> QED BY <1>1, <1>2, <2>1, <2>2
<1>4. \A j \in 1..(Len(q) - 1) : t[j] = IF j < i THEN q[j] ELSE q[j + 1]
  BY <1>1, <1>2, <1>3
<1> QED BY <1>3, <1>4 DEF RemoveAt, a, b

LEMMA RemoveAtSums ==
    ASSUME NEW q \in Seq(Features), NEW i \in 1..Len(q)
    PROVE  BytesOf(RemoveAt(q, i)) = BytesOf(q) - Bytes[q[i]]
<1> DEFINE m == Len(q)  t == RemoveAt(q, i)
<1>1. m \in Nat /\ m \in 0..m /\ i \in Nat /\ 1 <= i /\ i <= m OBVIOUS
<1>2. t \in Seq(Features) /\ Len(t) = m - 1
      /\ \A j \in 1..(m - 1) : t[j] = IF j < i THEN q[j] ELSE q[j + 1]
  BY RemoveAtIs
<1>3. PICK f : Recurs(f, q, m) BY <1>1, RecursExists
<1>4. \A j \in 1..m : Bytes[q[j]] \in Nat BY BytesType
<1>5. BytesOf(q) = f[m] BY <1>3, BytesOfIs
<1> HIDE DEF m, t
<1>6. f \in [0..m -> Int] /\ f[0] = 0 /\ \A j \in 1..m : f[j] = f[j - 1] + Bytes[q[j]]
  BY <1>3 DEF Recurs
<1> DEFINE c == Bytes[q[i]]
           g == [j \in 0..(m - 1) |-> IF j < i THEN f[j] ELSE f[j + 1] - c]
<1>7. c \in Nat BY <1>1, <1>4
<1> HIDE DEF c
<1>8. g \in [0..(m - 1) -> Int] /\ g[0] = 0 BY SMTT(30), <1>1, <1>6, <1>7
<1>9. g[m - 1] = f[m] - c
  <2>1. CASE m - 1 < i
    <3>1. m = i BY <1>1, <2>1
    <3>2. f[m] = f[m - 1] + c BY <1>1, <1>6, <3>1 DEF c
    <3>3. f[m - 1] \in Int BY <1>1, <1>6
    <3> QED BY <1>1, <1>7, <2>1, <3>2, <3>3
  <2>2. CASE ~(m - 1 < i) BY <1>1, <2>2
  <2> QED BY <2>1, <2>2
<1>10. ASSUME NEW j \in 1..(m - 1) PROVE g[j] = g[j - 1] + Bytes[t[j]]
  <2>1. j - 1 \in 0..(m - 1) /\ j \in 0..(m - 1) /\ j \in 1..m /\ j + 1 \in 1..m /\ j - 1 \in 0..m
    BY <1>1
  <2>2. f[j - 1] \in Int /\ f[j] \in Int /\ f[j + 1] \in Int BY <1>6, <2>1
  <2>3. f[j] = f[j - 1] + Bytes[q[j]] /\ f[j + 1] = f[j] + Bytes[q[j + 1]]
    BY <1>6, <2>1
  <2>4. Bytes[q[j]] \in Nat /\ Bytes[q[j + 1]] \in Nat BY <1>4, <2>1
  <2>5. CASE j < i
    BY <1>2, <2>1, <2>3, <2>5
  <2>6. CASE j = i
    <3>1. g[j] = f[j + 1] - c /\ g[j - 1] = f[j - 1] BY <2>1, <2>6
    <3>2. c = Bytes[q[j]] BY <2>6 DEF c
    <3>3. Bytes[t[j]] = Bytes[q[j + 1]] BY <1>2, <2>6
    <3> QED BY <2>2, <2>3, <2>4, <3>1, <3>2, <3>3
  <2>7. CASE j > i
    <3>1. g[j] = f[j + 1] - c /\ g[j - 1] = f[j] - c BY <1>1, <2>1, <2>7
    <3>2. Bytes[t[j]] = Bytes[q[j + 1]] BY <1>1, <1>2, <2>7
    <3> QED BY <1>7, <2>2, <2>3, <2>4, <3>1, <3>2
  <2> QED BY <1>1, <2>5, <2>6, <2>7
<1>11. Recurs(g, t, m - 1) BY <1>8, <1>10 DEF Recurs
<1> HIDE DEF g
<1>12. BytesOf(t) = g[m - 1] BY <1>2, <1>11, BytesOfIs
<1> QED BY <1>5, <1>9, <1>12 DEF t, c

LEMMA SumsNat == ASSUME NEW q \in Seq(Features) PROVE BytesOf(q) \in Nat
<1> DEFINE m == Len(q)
<1>1. m \in Nat /\ m \in 0..m OBVIOUS
<1>2. PICK f : Recurs(f, q, m) BY <1>1, RecursExists
<1> DEFINE Bad == {i \in 0..m : f[i] \notin Nat}
<1>3. ASSUME Bad # {} PROVE FALSE
  <2>1. PICK i \in Bad : \A j \in Bad : i <= j
    <3>1. Bad \in SUBSET Nat OBVIOUS
    <3> HIDE DEF Bad
    <3> QED BY <1>3, <3>1, LeastExists
  <2>2. i \in 1..m /\ i - 1 \in 0..m /\ i - 1 \notin Bad BY <1>2, <2>1 DEF Recurs
  <2> QED BY SMTT(30), <1>2, <2>1, <2>2, BytesType DEF Recurs
<1> QED BY <1>1, <1>2, <1>3, BytesOfIs

-----------------------------------------------------------------------------
(* What draining the queue takes from it.                                   *)

Starting(q, n) == {i \in 1..n : q[i] \notin expired}

LEMMA StartingFinite ==
    ASSUME NEW q, NEW n \in Nat
    PROVE  IsFiniteSet(Starting(q, n)) /\ StartsAmong(q, n) \in Nat
<1>1. IsFiniteSet(1..n) BY FS_Interval
<1>2. Starting(q, n) \in SUBSET (1..n) BY DEF Starting
<1>3. IsFiniteSet(Starting(q, n)) BY <1>1, <1>2, FS_Subset
<1>4. StartsAmong(q, n) = Cardinality(Starting(q, n)) BY DEF StartsAmong, Starting
<1> QED BY <1>3, <1>4, FS_CardinalityType

LEMMA StartsAmongSteps ==
    ASSUME NEW q
    PROVE  /\ StartsAmong(q, 0) = 0
           /\ \A n \in Nat : StartsAmong(q, n + 1) <= StartsAmong(q, n) + 1
<1>1. StartsAmong(q, 0) = 0
  <2>1. {i \in 1..0 : q[i] \notin expired} = {} OBVIOUS
  <2> QED BY <2>1, FS_EmptySet DEF StartsAmong
<1>2. ASSUME NEW n \in Nat PROVE StartsAmong(q, n + 1) <= StartsAmong(q, n) + 1
  <2>1. IsFiniteSet(Starting(q, n)) /\ StartsAmong(q, n) \in Nat BY StartingFinite
  <2>2. \/ Starting(q, n + 1) = Starting(q, n)
        \/ Starting(q, n + 1) = Starting(q, n) \cup {n + 1}
    BY DEF Starting
  <2>3. Cardinality(Starting(q, n) \cup {n + 1}) <= Cardinality(Starting(q, n)) + 1
    <3>1. Cardinality(Starting(q, n)) \in Nat BY <2>1, FS_CardinalityType
    <3>2. Cardinality(Starting(q, n) \cup {n + 1})
            = IF n + 1 \in Starting(q, n) THEN Cardinality(Starting(q, n)) ELSE Cardinality(Starting(q, n)) + 1
      BY <2>1, FS_AddElement
    <3> QED BY <3>1, <3>2
  <2>4. /\ StartsAmong(q, n + 1) = Cardinality(Starting(q, n + 1))
        /\ StartsAmong(q, n) = Cardinality(Starting(q, n))
    BY DEF StartsAmong, Starting
  <2>5. CASE Starting(q, n + 1) = Starting(q, n) BY <2>1, <2>4, <2>5
  <2>6. CASE Starting(q, n + 1) = Starting(q, n) \cup {n + 1}
    <3>1. StartsAmong(q, n + 1) = Cardinality(Starting(q, n) \cup {n + 1}) BY <2>4, <2>6
    <3> QED BY <2>3, <2>4, <3>1
  <2> QED BY <2>2, <2>5, <2>6
<1> QED BY <1>1, <1>2

\* Draining stops at the end of the queue or when the room is used up, and
\* never starts more than there is room for.
LEMMA DrainedCountIs ==
    ASSUME NEW q \in Seq(Features), NEW room \in Nat \ {0}
    PROVE  LET n == DrainedCount(q, room)
           IN  /\ n \in 0..Len(q)
               /\ StartsAmong(q, n) <= room
               /\ n < Len(q) => StartsAmong(q, n) = room
<1> DEFINE S(n) == StartsAmong(q, n)
           Stop(n) == /\ S(n) = room \/ n = Len(q)
                      /\ \A m \in 0..(n - 1) : S(m) < room
           Full == {n \in 0..Len(q) : S(n) >= room \/ n = Len(q)}
<1>1. /\ S(0) = 0
      /\ \A n \in Nat : S(n) \in Nat /\ S(n + 1) <= S(n) + 1
  BY StartsAmongSteps, StartingFinite
<1>2. Len(q) \in Nat OBVIOUS
<1> HIDE DEF S
<1>3. PICK n \in Full : \A m \in Full : n <= m
  <2>1. Full \in SUBSET Nat /\ Full # {} BY <1>2
  <2> HIDE DEF Full
  <2> QED BY <2>1, LeastExists
<1>4. \A m \in 0..(n - 1) : S(m) < room
  <2> SUFFICES ASSUME NEW m \in 0..(n - 1) PROVE S(m) < room
    OBVIOUS
  <2>1. m \in 0..Len(q) /\ m # Len(q) /\ m < n /\ m \in Nat /\ n \in Nat BY <1>2, <1>3
  <2>2. m \notin Full BY <1>3, <2>1
  <2>3. ~(S(m) >= room) BY <2>1, <2>2
  <2>4. S(m) \in Nat BY <1>1, <2>1
  <2> QED BY <2>3, <2>4
<1>5. Stop(n)
  <2>1. CASE n = 0 BY <1>1, <1>3, <1>4, <2>1
  <2>2. CASE n # 0
    <3>1. n - 1 \in 0..(n - 1) /\ n - 1 \in Nat /\ (n - 1) + 1 = n /\ n \in Nat BY <1>3, <2>2
    <3>2. S(n - 1) < room BY <1>4, <3>1
    <3>3. S(n) <= S(n - 1) + 1 /\ S(n) \in Nat /\ S(n - 1) \in Nat BY <1>1, <3>1
    <3> QED BY <1>3, <1>4, <3>2, <3>3
  <2> QED BY <2>1, <2>2
<1>6. DrainedCount(q, room) = CHOOSE k \in 0..Len(q) : Stop(k)
  BY DEF DrainedCount, S
<1>7. DrainedCount(q, room) \in 0..Len(q) /\ Stop(DrainedCount(q, room))
  <2> HIDE DEF Stop
  <2> QED BY <1>3, <1>5, <1>6
<1>8. ASSUME NEW k \in 0..Len(q), Stop(k) PROVE S(k) <= room
  <2>1. CASE k = 0 BY <1>1, <2>1
  <2>2. CASE k # 0
    <3>1. k - 1 \in 0..(k - 1) /\ k - 1 \in Nat /\ (k - 1) + 1 = k /\ k \in Nat BY <2>2
    <3>2. S(k - 1) < room BY <1>8, <3>1
    <3>3. S(k) <= S(k - 1) + 1 /\ S(k) \in Nat /\ S(k - 1) \in Nat BY <1>1, <3>1
    <3> QED BY <3>2, <3>3
  <2> QED BY <2>1, <2>2
<1>9. S(DrainedCount(q, room)) <= room BY <1>7, <1>8
<1> QED BY <1>2, <1>7, <1>9 DEF S

\* The requests started are as many as the places they held.
LEMMA StartedCount ==
    ASSUME NEW q \in Seq(Features), NEW n \in 0..Len(q),
           \A i, j \in 1..Len(q) : q[i] = q[j] => i = j
    PROVE  LET started == {q[i] : i \in 1..n} \ expired
           IN  IsFiniteSet(started) /\ Cardinality(started) = StartsAmong(q, n)
<1> DEFINE started == {q[i] : i \in 1..n} \ expired
           places == Starting(q, n)
           f == [i \in places |-> q[i]]
<1>1. n \in Nat /\ Len(q) \in Nat /\ n <= Len(q) OBVIOUS
<1>2. IsFiniteSet(places) BY <1>1, StartingFinite
<1>3. places \subseteq 1..n /\ \A i \in 1..n : i \in places <=> q[i] \notin expired BY DEF Starting
<1>4. ExistsBijection(places, started)
  <2>1. f \in [places -> started] BY <1>3
  <2>2. \A i, j \in places : f[i] = f[j] => i = j BY <1>1, <1>3
  <2>3. \A x \in started : \E i \in places : f[i] = x BY <1>3
  <2> HIDE DEF f, started, places
  <2> QED BY <2>1, <2>2, <2>3 DEF ExistsBijection, Bijection, Injection, Surjection, IsInjective
<1>5. IsFiniteSet(started) /\ Cardinality(started) = Cardinality(places)
  <2> HIDE DEF started, places
  <2> QED BY <1>2, <1>4, FS_Bijection
<1>6. Cardinality(places) = StartsAmong(q, n) BY DEF StartsAmong, Starting
<1> QED BY <1>5, <1>6

-----------------------------------------------------------------------------
(* The queue, the slots and the counters through one step.                  *)

Holding == PlacesOK /\ CountsOK

LEMMA QueueKept ==
    ASSUME Holding, UNCHANGED <<queue, queueBytes, active>>,
           Occupying' = Occupying, inFlight' \subseteq inFlight, expired' \subseteq Queued,
           \A r \in Requests : phase'[r] = "queued" <=> phase[r] = "queued"
    PROVE  Holding'
<1>1. Queued' = Queued BY DEF Queued
<1>2. PlacesOK' BY <1>1 DEF Holding, PlacesOK
<1>3. CountsOK' BY DEF Holding, CountsOK, BytesOf
<1> QED BY <1>2, <1>3 DEF Holding

LEMMA QueueCleared ==
    ASSUME Holding, ClearQueue, active' = active,
           Occupying' = Occupying, inFlight' \subseteq inFlight,
           \A r \in Requests : phase'[r] # "queued"
    PROVE  Holding'
<1>1. Queued' = {} BY DEF Queued, ClearQueue
<1>2. PlacesOK'
  <2>1. Queued' \cup inFlight' \subseteq Queued \cup inFlight BY <1>1
  <2> QED BY <1>1, <2>1 DEF Holding, PlacesOK, ClearQueue
<1>3. BytesOf(queue') = 0 BY EmptySums DEF ClearQueue
<1>4. CountsOK' BY <1>3 DEF Holding, CountsOK, ClearQueue
<1> QED BY <1>2, <1>4 DEF Holding

\* Cancelling a queued request, and its deadline: it leaves its place, the
\* others keep theirs.
LEMMA QueueShortened ==
    ASSUME TypeOK, Holding, NEW r \in Queued, Dequeue(r), UNCHANGED <<active, inFlight>>
    PROVE  Holding' /\ queue' \in Seq(Features) /\ queueBytes' \in Nat
           /\ phase[r] = "queued" /\ r \in Features /\ queue # <<>>
<1>1. queue \in Seq(Features) /\ queueBytes \in Nat /\ phase \in [Requests -> Phases] BY DEF TypeOK
<1>2. PICK i \in 1..Len(queue) : queue[i] = r /\ queue' = RemoveAt(queue, i)
  <2>1. \E i \in DOMAIN queue : queue[i] = r BY DEF Queued
  <2>2. Place(r) \in DOMAIN queue /\ queue[Place(r)] = r BY <2>1 DEF Place
  <2>3. DOMAIN queue = 1..Len(queue) BY <1>1
  <2> QED BY <2>2, <2>3 DEF Dequeue
<1>3. /\ queue' \in Seq(Features) /\ Len(queue') = Len(queue) - 1
      /\ \A j \in 1..(Len(queue) - 1) : queue'[j] = IF j < i THEN queue[j] ELSE queue[j + 1]
  BY <1>1, <1>2, RemoveAtIs
<1>4. \A j, k \in 1..Len(queue) : queue[j] = queue[k] => j = k
  BY <1>1 DEF Holding, PlacesOK
<1>5. r \in Features /\ r \in Requests /\ phase[r] = "queued"
  <2>1. r \in Features BY <1>1, <1>2
  <2> QED BY <2>1 DEF Holding, PlacesOK, Requests
<1>6. phase' = [phase EXCEPT ![r] = "replying"] /\ expired' = expired \ {r}
      /\ queueBytes' = queueBytes - Bytes[r]
  BY DEF Dequeue
<1> DEFINE n == Len(queue)
<1>7. n \in Nat /\ i \in Nat /\ 1 <= i /\ i <= n BY <1>1
<1>8. DOMAIN queue' = 1..(n - 1) /\ DOMAIN queue = 1..n BY <1>1, <1>3
<1> HIDE DEF n
<1>9. Queued' = Queued \ {r}
  <2>1. ASSUME NEW q \in Queued' PROVE q \in Queued \ {r}
    <3>1. PICK j \in 1..(n - 1) : q = queue'[j] BY <1>8 DEF Queued
    <3>2. CASE j < i
      <4>1. q = queue[j] /\ j \in 1..n BY <1>3, <1>7, <3>1, <3>2 DEF n
      <4> QED BY <1>2, <1>4, <1>7, <1>8, <3>2, <4>1 DEF Queued, n
    <3>3. CASE ~(j < i)
      <4>1. q = queue[j + 1] /\ j + 1 \in 1..n /\ j + 1 # i BY <1>3, <1>7, <3>1, <3>3 DEF n
      <4> QED BY <1>2, <1>4, <1>7, <1>8, <4>1 DEF Queued, n
    <3> QED BY <3>2, <3>3
  <2>2. ASSUME NEW q \in Queued, q # r PROVE q \in Queued'
    <3>1. PICK j \in 1..n : q = queue[j] BY <1>8 DEF Queued
    <3>2. j # i BY <1>2, <2>2, <3>1
    <3>3. CASE j < i
      <4>1. j \in 1..(n - 1) BY <1>7, <3>3
      <4>2. queue'[j] = q BY <1>3, <3>1, <3>3, <4>1 DEF n
      <4> QED BY <1>8, <4>1, <4>2 DEF Queued
    <3>4. CASE j > i
      <4>1. j - 1 \in 1..(n - 1) /\ ~(j - 1 < i) /\ (j - 1) + 1 = j BY <1>7, <3>4
      <4>2. queue'[j - 1] = q BY <1>3, <3>1, <4>1 DEF n
      <4> QED BY <1>8, <4>1, <4>2 DEF Queued
    <3> QED BY <1>7, <3>2, <3>3, <3>4
  <2> QED BY <2>1, <2>2
<1>10. \A j, k \in DOMAIN queue' : queue'[j] = queue'[k] => j = k
  <2> SUFFICES ASSUME NEW j \in 1..(n - 1), NEW k \in 1..(n - 1), queue'[j] = queue'[k]
               PROVE  j = k
    BY <1>8
  <2> DEFINE old(x) == IF x < i THEN x ELSE x + 1
  <2>1. old(j) \in 1..n /\ old(k) \in 1..n BY <1>7
  <2>2. queue'[j] = queue[old(j)] /\ queue'[k] = queue[old(k)] BY <1>3 DEF n
  <2>3. old(j) = old(k)
    <3> HIDE DEF old
    <3> QED BY <1>4, <2>1, <2>2 DEF n
  <2> QED BY <1>7, <2>3
<1>11. PlacesOK'
  <2>1. \A q \in Requests : phase'[q] = "queued" <=> q \in Queued'
    BY <1>1, <1>5, <1>6, <1>9 DEF Holding, PlacesOK
  <2>2. expired' \subseteq Queued' BY <1>6, <1>9 DEF Holding, PlacesOK
  <2>3. Occupying' = Occupying BY <1>1, <1>5, <1>6 DEF Occupying
  <2> QED BY <1>9, <1>10, <2>1, <2>2, <2>3 DEF Holding, PlacesOK
<1>12. CountsOK'
  <2>1. Occupying' = Occupying BY <1>1, <1>5, <1>6 DEF Occupying
  <2>2. BytesOf(queue') = BytesOf(queue) - Bytes[r] BY <1>1, <1>2, RemoveAtSums
  <2>3. queueBytes' = BytesOf(queue') BY <1>6, <2>2 DEF Holding, CountsOK
  <2> QED BY <2>1, <2>3 DEF Holding, CountsOK
<1>13. queueBytes' \in Nat BY <1>3, <1>12, SumsNat DEF CountsOK
<1>14. queue # <<>> BY <1>2
<1> QED BY <1>3, <1>5, <1>11, <1>12, <1>13, <1>14 DEF Holding

LEMMA QueueExtended ==
    ASSUME TypeOK, Holding, NEW r \in Features, phase[r] = "unsent", Enqueue(r)
    PROVE  Holding' /\ queue' \in Seq(Features) /\ queueBytes' \in Nat
<1> DEFINE n == Len(queue)
<1>1. queue \in Seq(Features) /\ phase \in [Requests -> Phases] /\ r \in Requests BY DEF TypeOK, Requests
<1>2. phase' = [phase EXCEPT ![r] = "queued"] /\ queue' = Append(queue, r)
      /\ queueBytes' = queueBytes + Bytes[r] /\ active' = active /\ inFlight' = inFlight
      /\ expired' = expired /\ ~Duplicate(r)
  BY DEF Enqueue
<1>3. /\ n \in Nat /\ queue' \in Seq(Features) /\ DOMAIN queue = 1..n /\ DOMAIN queue' = 1..(n + 1)
      /\ queue'[n + 1] = r /\ \A i \in 1..n : queue'[i] = queue[i]
  BY <1>1, <1>2
<1> HIDE DEF n
<1>4. Queued' = Queued \cup {r} BY <1>3 DEF Queued
<1>5. r \notin Queued BY <1>1 DEF Holding, PlacesOK
<1>6. \A i, j \in DOMAIN queue' : queue'[i] = queue'[j] => i = j
  <2>1. \A i \in 1..n : queue[i] # r BY <1>3, <1>5 DEF Queued
  <2> QED BY <1>3, <2>1 DEF Holding, PlacesOK
<1>7. Occupying' = Occupying BY <1>1, <1>2 DEF Occupying
<1>8. PlacesOK'
  <2>1. \A q \in Requests : phase'[q] = "queued" <=> q \in Queued'
    BY <1>1, <1>2, <1>4 DEF Holding, PlacesOK
  <2>2. \A p, q \in Queued' \cup inFlight' : Correlation[p] = Correlation[q] => p = q
    BY <1>2, <1>4 DEF Holding, PlacesOK, Duplicate
  <2> QED BY <1>2, <1>4, <1>6, <1>7, <2>1, <2>2 DEF Holding, PlacesOK
<1>9. BytesOf(queue') = BytesOf(queue) + Bytes[r] BY <1>1, <1>2, AppendSums
<1>10. CountsOK' BY <1>2, <1>7, <1>9 DEF Holding, CountsOK
<1>11. queueBytes' \in Nat BY <1>3, <1>10, SumsNat DEF CountsOK
<1> QED BY <1>3, <1>8, <1>10, <1>11 DEF Holding

LEMMA SlotTaken ==
    ASSUME TypeOK, Holding, NEW r \in Features, phase[r] = "unsent", Dispatch(r)
    PROVE  Holding'
<1>1. phase \in [Requests -> Phases] /\ r \in Requests BY DEF TypeOK, Requests
<1>2. phase' = [phase EXCEPT ![r] = Begun] /\ active' = active + 1 /\ inFlight' = inFlight \cup {r}
      /\ active < MaxInFlight /\ UNCHANGED <<queue, queueBytes, expired>> /\ ~Duplicate(r)
  BY DEF Dispatch, SlotFree
<1>3. Begun \in {"running", "stopping"} BY DEF Begun
<1>4. Occupying' = Occupying \cup {r} /\ r \notin Occupying
  BY <1>1, <1>2, <1>3 DEF Occupying
<1>5. Queued' = Queued BY <1>2 DEF Queued
<1>6. PlacesOK'
  <2>1. \A q \in Requests : phase'[q] = "queued" <=> q \in Queued'
    BY <1>1, <1>2, <1>3, <1>5 DEF Holding, PlacesOK
  <2>2. \A p, q \in Queued' \cup inFlight' : Correlation[p] = Correlation[q] => p = q
    BY <1>2, <1>5 DEF Holding, PlacesOK, Duplicate
  <2> QED BY <1>2, <1>4, <1>5, <2>1, <2>2 DEF Holding, PlacesOK
<1>7. IsFiniteSet(Occupying') /\ Cardinality(Occupying') = Cardinality(Occupying) + 1
  BY <1>4, FS_AddElement DEF Holding, CountsOK
<1>8. active' = Cardinality(Occupying') BY <1>2, <1>7 DEF Holding, CountsOK
<1>9. active' <= MaxInFlight BY <1>2, LimitsAssumption DEF TypeOK
<1>10. queueBytes' = BytesOf(queue') BY <1>2 DEF Holding, CountsOK
<1>11. CountsOK' BY <1>7, <1>8, <1>9, <1>10 DEF CountsOK
<1> QED BY <1>6, <1>11 DEF Holding

\* A slot given back and the queue drained: whatever is left waiting finds
\* every slot taken again.
LEMMA SlotReleased ==
    ASSUME TypeOK, Holding, NEW r \in Requests, phase[r] = "answering",
           Release(r, [phase EXCEPT ![r] = "settled"])
    PROVE  /\ Holding' /\ queue' \in Seq(Features) /\ queueBytes' \in Nat /\ active' \in Nat
           /\ inFlight' \subseteq Features /\ phase' \in [Requests -> Phases]
           /\ \A q \in Requests :
                 \/ q = r /\ phase'[q] = "settled"
                 \/ q # r /\ phase'[q] = phase[q]
                 \/ q # r /\ phase[q] = "queued" /\ phase'[q] = "replying"
                 \/ q # r /\ phase[q] = "queued" /\ phase'[q] = "running" /\ ~aborted
           /\ conn = "open" /\ ~aborted /\ queue' # <<>> => active' = MaxInFlight
<1> DEFINE n == Len(queue)
           room == MaxInFlight - (active - 1)
           drained == conn = "open" /\ ~aborted
           taken == IF drained THEN DrainedCount(queue, room) ELSE 0
           heads == {queue[i] : i \in 1..taken}
           started == heads \ expired
           p == [phase EXCEPT ![r] = "settled"]
<1>1. /\ queue \in Seq(Features) /\ phase \in [Requests -> Phases] /\ active \in Nat
      /\ inFlight \subseteq Features /\ Features \subseteq Requests /\ MaxInFlight \in Nat
  BY LimitsAssumption DEF TypeOK, Requests
<1>2. /\ phase' = [q \in Requests |-> IF q \in started THEN "running"
                                      ELSE IF q \in heads THEN "replying" ELSE p[q]]
      /\ queue' = SubSeq(queue, taken + 1, n)
      /\ queueBytes' = queueBytes - BytesOf(SubSeq(queue, 1, taken))
      /\ active' = active - 1 + Cardinality(started)
      /\ inFlight' = (inFlight \ {r}) \cup started
      /\ expired' = expired \ heads
  BY DEF Release
<1>3. r \in Occupying /\ active = Cardinality(Occupying) /\ IsFiniteSet(Occupying) /\ active <= MaxInFlight
  BY DEF Occupying, Holding, CountsOK
<1>4. active >= 1 /\ Cardinality(Occupying \ {r}) = active - 1 /\ IsFiniteSet(Occupying \ {r})
  <2>1. active # 0 BY <1>3, FS_EmptySet
  <2> QED BY <1>1, <1>3, <2>1, FS_RemoveElement
<1>5. room \in Nat \ {0} BY <1>1, <1>3, <1>4
<1>6. n \in Nat /\ DOMAIN queue = 1..n /\ \A i \in 1..n : queue[i] \in Features BY <1>1
<1>7. /\ taken \in 0..n /\ StartsAmong(queue, taken) <= room
      /\ drained /\ taken < n => StartsAmong(queue, taken) = room
  <2>1. CASE drained
    <3> HIDE DEF room
    <3> QED BY <1>1, <1>5, <2>1, DrainedCountIs
  <2>2. CASE ~drained
    <3>1. taken = 0 BY <2>2
    <3>2. StartsAmong(queue, 0) = 0 BY StartsAmongSteps
    <3> QED BY <1>5, <1>6, <2>2, <3>1, <3>2
  <2> QED BY <2>1, <2>2
<1>8. ~drained => heads = {} BY DEF drained
<1> HIDE DEF taken, n, drained, room
<1>9. \A i, j \in 1..n : queue[i] = queue[j] => i = j
  BY <1>6 DEF Holding, PlacesOK
<1>10. IsFiniteSet(started) /\ Cardinality(started) = StartsAmong(queue, taken)
  BY <1>1, <1>7, <1>9, StartedCount DEF n
<1>11. Cardinality(started) \in Nat BY <1>10, FS_CardinalityType
<1>12. \A q \in heads : q \in Features /\ q \in Requests /\ q \in Queued /\ phase[q] = "queued" /\ q # r
  <2>1. \A i \in 1..taken : i \in 1..n BY <1>6, <1>7
  <2>2. heads \subseteq Queued BY <1>6, <2>1 DEF Queued
  <2> QED BY <1>1, <1>6, <2>1, <2>2 DEF Holding, PlacesOK
<1> HIDE DEF heads
<1>13. \A q \in Requests :
         /\ q \in started => phase'[q] = "running"
         /\ q \in heads /\ q \notin started => phase'[q] = "replying"
         /\ q \notin heads /\ q # r => phase'[q] = phase[q]
         /\ q = r => phase'[q] = "settled"
  BY <1>1, <1>2, <1>12
<1>14. phase' \in [Requests -> Phases]
  <2>1. \A q \in Requests : phase'[q] \in Phases BY <1>1, <1>13 DEF Phases
  <2> QED BY <1>2, <2>1
<1>15. Occupying' = (Occupying \ {r}) \cup started /\ (Occupying \ {r}) \cap started = {}
  <2>1. \A q \in Requests : q \in Occupying' <=> q \in (Occupying \ {r}) \cup started
    BY <1>12, <1>13 DEF Occupying
  <2>2. started \subseteq Requests BY <1>12
  <2>3. Occupying \subseteq Requests /\ Occupying' \subseteq Requests BY DEF Occupying
  <2> QED BY <1>12, <2>1, <2>2, <2>3 DEF Occupying
<1>16. IsFiniteSet(Occupying') /\ Cardinality(Occupying') = active'
  <2>1. IsFiniteSet(Occupying') /\ Cardinality(Occupying') = Cardinality(Occupying \ {r}) + Cardinality(started) - Cardinality((Occupying \ {r}) \cap started)
    <3> HIDE DEF started
    <3> QED BY <1>4, <1>10, <1>15, FS_Union
  <2>2. Cardinality((Occupying \ {r}) \cap started) = 0 BY <1>15, FS_EmptySet
  <2> QED BY <1>1, <1>2, <1>4, <1>11, <2>1, <2>2
<1>17. active' \in Nat /\ active' <= MaxInFlight
  <2>1. Cardinality(started) <= MaxInFlight - (active - 1) BY <1>7, <1>10 DEF room
  <2> QED BY <1>1, <1>2, <1>4, <1>11, <2>1
<1>18. queue' \in Seq(Features) /\ Len(queue') = n - taken /\ \A i \in 1..(n - taken) : queue'[i] = queue[i + taken]
  BY <1>1, <1>2, <1>7 DEF n
<1>19. DOMAIN queue' = 1..(n - taken) BY <1>18
<1>20. Queued' = Queued \ heads
  <2>1. ASSUME NEW q \in Queued' PROVE q \in Queued \ heads
    <3>1. PICK i \in 1..(n - taken) : q = queue[i + taken] BY <1>18, <1>19 DEF Queued
    <3>2. i + taken \in 1..n BY <1>6, <1>7
    <3>3. \A j \in 1..taken : j \in 1..n /\ j # i + taken BY <1>6, <1>7
    <3>4. q \notin heads BY <1>9, <3>1, <3>2, <3>3 DEF heads
    <3> QED BY <1>6, <3>1, <3>2, <3>4 DEF Queued
  <2>2. ASSUME NEW q \in Queued, q \notin heads PROVE q \in Queued'
    <3>1. PICK i \in 1..n : q = queue[i] BY <1>6 DEF Queued
    <3>2. i \notin 1..taken BY <2>2, <3>1 DEF heads
    <3>3. i - taken \in 1..(n - taken) /\ (i - taken) + taken = i BY <1>6, <1>7, <3>2
    <3>4. queue'[i - taken] = q BY <1>18, <3>1, <3>3
    <3> QED BY <1>19, <3>3, <3>4 DEF Queued
  <2> QED BY <2>1, <2>2
<1>21. \A i, j \in DOMAIN queue' : queue'[i] = queue'[j] => i = j
  <2> SUFFICES ASSUME NEW i \in 1..(n - taken), NEW j \in 1..(n - taken), queue'[i] = queue'[j]
               PROVE  i = j
    BY <1>19
  <2>1. i + taken \in 1..n /\ j + taken \in 1..n BY <1>6, <1>7
  <2>2. queue[i + taken] = queue[j + taken] BY <1>18
  <2>3. i + taken = j + taken BY <1>9, <2>1, <2>2
  <2> QED BY <1>7, <2>3
<1>22. PlacesOK'
  <2>1. \A q \in Requests : phase'[q] = "queued" <=> q \in Queued'
    BY <1>13, <1>20 DEF Holding, PlacesOK
  <2>2. expired' \subseteq Queued' BY <1>2, <1>20 DEF Holding, PlacesOK
  <2>3. inFlight' \subseteq Occupying' BY <1>2, <1>15 DEF Holding, PlacesOK
  <2>4. Queued' \cup inFlight' \subseteq Queued \cup inFlight BY <1>2, <1>12, <1>20
  <2>5. \A a, b \in Queued' \cup inFlight' : Correlation[a] = Correlation[b] => a = b
    BY <2>4 DEF Holding, PlacesOK
  <2> QED BY <1>21, <2>1, <2>2, <2>3, <2>5 DEF PlacesOK
<1>23. queueBytes' = BytesOf(queue')
  <2>1. BytesOf(SubSeq(queue, taken + 1, n)) = BytesOf(queue) - BytesOf(SubSeq(queue, 1, taken))
    BY <1>1, <1>7, SplitSums DEF n
  <2> QED BY <1>2, <2>1 DEF Holding, CountsOK
<1>24. CountsOK' BY <1>16, <1>17, <1>23 DEF CountsOK
<1>25. queueBytes' \in Nat BY <1>18, <1>23, SumsNat
<1>26. \A q \in Requests :
         \/ q = r /\ phase'[q] = "settled"
         \/ q # r /\ phase'[q] = phase[q]
         \/ q # r /\ phase[q] = "queued" /\ phase'[q] = "replying"
         \/ q # r /\ phase[q] = "queued" /\ phase'[q] = "running" /\ ~aborted
  BY <1>8, <1>12, <1>13 DEF drained
<1>27. ASSUME conn = "open", ~aborted, queue' # <<>>  PROVE active' = MaxInFlight
  <2>1. n - taken # 0 BY <1>18, <1>27
  <2>2. taken < n BY <1>6, <1>7, <2>1
  <2>3. Cardinality(started) = MaxInFlight - (active - 1) BY <1>7, <1>10, <1>27, <2>2 DEF drained, room
  <2> QED BY <1>1, <1>2, <2>3
<1>28. inFlight' \subseteq Features BY <1>1, <1>2, <1>12
<1> QED BY <1>14, <1>17, <1>18, <1>22, <1>24, <1>25, <1>26, <1>27, <1>28 DEF Holding

LEMMA NoneQueued ==
    ASSUME TypeOK, PlacesOK, \A r \in Requests : phase[r] # "queued"
    PROVE  queue = <<>>
<1>1. queue \in Seq(Features) BY DEF TypeOK
<1>2. ASSUME queue # <<>> PROVE FALSE
  <2>1. 1 \in DOMAIN queue BY <1>1, <1>2
  <2>2. queue[1] \in Queued /\ queue[1] \in Requests BY <1>1, <2>1 DEF Queued, Requests
  <2> QED BY <2>2 DEF PlacesOK
<1> QED BY <1>2

\* cleanupConnection, whoever calls it: what ran is told to stop, what waited
\* is forgotten, and nothing else changes phase.
LEMMA CleanedUp ==
    ASSUME RequestsInv, NEW p \in [Requests -> Phases],
           \A q \in Requests : p[q] = phase[q] \/ (phase[q] = "unsent" /\ p[q] = "settled"),
           Cleanup(p), active' = active
    PROVE  /\ Holding' /\ queue' \in Seq(Features) /\ queueBytes' \in Nat
           /\ inFlight' \subseteq Features /\ expired' \subseteq Features
           /\ heartbeat' \in {"off", "armed"} /\ cleaned' = TRUE
           /\ phase' \in [Requests -> Phases]
           /\ \A q \in Requests : phase'[q] # "running"
           /\ \A q \in Requests :
                 \/ phase'[q] = p[q]
                 \/ p[q] = "queued" /\ phase'[q] = "settled"
                 \/ p[q] = "running" /\ phase'[q] = "stopping"
<1>1. Holding /\ TypeOK BY DEF RequestsInv, Holding
<1>2. CASE cleaned
  <2>1. phase' = p /\ UNCHANGED <<cleaned, queue, queueBytes, expired, inFlight, heartbeat>>
    BY <1>2 DEF Cleanup
  <2>2. \A q \in Requests : phase[q] # "running"
    BY <1>2 DEF RequestsInv, ControlOK, TeardownStopsWork
  <2>3. Occupying' = Occupying BY <2>1 DEF Occupying
  <2>4. expired \subseteq Queued BY <1>1 DEF Holding, PlacesOK
  <2>5. \A q \in Requests : phase'[q] = "queued" <=> phase[q] = "queued" BY <2>1
  <2>6. Holding' BY <1>1, <2>1, <2>3, <2>4, <2>5, QueueKept
  <2> QED BY <1>1, <1>2, <2>1, <2>2, <2>6 DEF TypeOK
<1>3. CASE ~cleaned
  <2>1. /\ cleaned' = TRUE /\ phase' = Stopping(Forgotten(p)) /\ ClearQueue
        /\ inFlight' = {} /\ heartbeat' = "off"
    BY <1>3 DEF Cleanup
  <2>2. \A q \in Requests :
          phase'[q] = IF p[q] = "queued" THEN "settled" ELSE IF p[q] = "running" THEN "stopping" ELSE p[q]
    BY <2>1 DEF Stopping, Forgotten
  <2>3. phase' \in [Requests -> Phases]
    <3>1. \A q \in Requests : phase'[q] \in Phases BY <2>2 DEF Phases
    <3> QED BY <2>1, <3>1 DEF Stopping
  <2>4. Occupying' = Occupying BY <2>2 DEF Occupying
  <2>5. \A q \in Requests : phase'[q] # "queued" BY <2>2
  <2>6. Holding' BY <1>1, <2>1, <2>4, <2>5, QueueCleared
  <2>7. queue' = <<>> /\ queueBytes' = 0 /\ expired' = {} BY <2>1 DEF ClearQueue
  <2>8. <<>> \in Seq(Features) OBVIOUS
  <2> QED BY <2>1, <2>2, <2>3, <2>6, <2>7, <2>8
<1> QED BY <1>2, <1>3

\* What a step owes when it leaves the requests alone.
LEMMA RequestsUntouched ==
    ASSUME RequestsInv, UNCHANGED requestVars
    PROVE  Holding'
<1>1. Occupying' = Occupying BY DEF requestVars, Occupying
<1> QED BY <1>1, QueueKept DEF requestVars, RequestsInv, Holding, PlacesOK

LEMMA OpeningSteps ==
    ASSUME RequestsInv,
           CloseTaskEnds \/ TransportEnds \/ Start \/ TransportOpens \/ HelloArrives
           \/ Authenticate \/ HelloSent \/ HelloLost
    PROVE  RequestsInv'
<1>1. UNCHANGED requestVars /\ Holding'
  <2>1. UNCHANGED requestVars
    BY DEF CloseTaskEnds, TransportEnds, Start, TransportOpens, HelloArrives, Authenticate, HelloSent,
           HelloLost
  <2> QED BY <2>1, RequestsUntouched
<1>2. TypeOK'
  BY <1>1 DEF RequestsInv, TypeOK, requestVars, CloseTaskEnds, TransportEnds, Start, TransportOpens,
              HelloArrives, Authenticate, HelloSent, HelloLost
<1>3. ControlOK'
  BY <1>1 DEF RequestsInv, TypeOK, ControlOK, requestVars, CloseTaskEnds, TransportEnds, Start,
              TransportOpens, HelloArrives, Authenticate, HelloSent, HelloLost
<1>4. /\ aborted' = aborted /\ outboundClosed' = outboundClosed
      /\ conn' = "open" => conn = "open"
      /\ transport' = "open" => transport = "open" \/ (hello # "processed" /\ hello' # "processed")
      /\ reader' = "done" => reader = "done"
  BY DEF RequestsInv, ControlOK, CloseTaskEnds, TransportEnds, Start, TransportOpens, HelloArrives,
         Authenticate, HelloSent, HelloLost
<1>5. AnswersOK'
  BY <1>1, <1>3, <1>4 DEF RequestsInv, ControlOK, AnswersOK, requestVars
<1>6. WorkConserving' /\ TeardownStopsWork'
  BY <1>1, <1>4 DEF RequestsInv, WorkConserving, TeardownStopsWork, requestVars
<1> QED BY <1>1, <1>2, <1>3, <1>5, <1>6 DEF RequestsInv, Holding

LEMMA HelloContinuesStep ==
    ASSUME RequestsInv, HelloContinues
    PROVE  RequestsInv'
<1>1. UNCHANGED requestVars /\ Holding' BY RequestsUntouched DEF HelloContinues
<1>2. hello = "delivered" /\ hello' = "processed" /\ conn' = "open"
      /\ UNCHANGED <<transport, reader, disconnected, outboundClosed, aborted, cleaned, closeTask>>
  BY DEF HelloContinues
<1>3. \A r \in Requests : phase[r] = "unsent" BY <1>2 DEF RequestsInv, ControlOK
<1>4. queue = <<>> BY <1>3, NoneQueued DEF RequestsInv
<1>5. TypeOK'
  <2>1. heartbeat' \in {"off", "armed"} /\ opened' \in BOOLEAN
    BY DEF RequestsInv, TypeOK, HelloContinues, ArmedBy
  <2> QED BY <1>1, <1>2, <2>1 DEF RequestsInv, TypeOK, requestVars
<1>6. ControlOK' BY <1>1, <1>2 DEF RequestsInv, ControlOK, requestVars
<1>7. AnswersOK' BY <1>1, <1>2 DEF RequestsInv, AnswersOK, requestVars
<1>8. WorkConserving' /\ TeardownStopsWork'
  BY <1>1, <1>2, <1>4 DEF RequestsInv, WorkConserving, TeardownStopsWork, requestVars
<1> QED BY <1>1, <1>5, <1>6, <1>7, <1>8 DEF RequestsInv, Holding

\* Every step that begins to close the connection, whatever it did to the
\* phase of one unsent request before.
LEMMA ClosingStep ==
    ASSUME RequestsInv, NEW p \in [Requests -> Phases],
           \A q \in Requests : p[q] = phase[q] \/ (phase[q] = "unsent" /\ p[q] = "settled"),
           hello # "processed" => p = phase,
           reader = "done" => p = phase,
           BeginClose(p), UNCHANGED <<transport, reader, disconnected, opened, active, cancelled, sent>>,
           outboundClosed' \in BOOLEAN,
           hello' \in {"awaited", "authenticating", "refusing", "answering", "delivered", "processed", "failed"},
           hello' = hello \/ (hello = "refusing" /\ hello' = "processed")
    PROVE  RequestsInv'
<1>1. conn' = "closing" /\ aborted' = TRUE /\ closeTask' = "running" /\ Cleanup(p) BY DEF BeginClose
<1>2. /\ Holding' /\ queue' \in Seq(Features) /\ queueBytes' \in Nat
      /\ inFlight' \subseteq Features /\ expired' \subseteq Features
      /\ heartbeat' \in {"off", "armed"} /\ cleaned' = TRUE
      /\ phase' \in [Requests -> Phases]
      /\ \A q \in Requests : phase'[q] # "running"
      /\ \A q \in Requests :
            \/ phase'[q] = p[q]
            \/ p[q] = "queued" /\ phase'[q] = "settled"
            \/ p[q] = "running" /\ phase'[q] = "stopping"
  BY <1>1, CleanedUp
<1>3. TypeOK' BY <1>1, <1>2 DEF RequestsInv, TypeOK
<1>4. ControlOK' BY <1>1, <1>2 DEF RequestsInv, ControlOK
<1>5. AnswersOK'
  <2>1. \A q \in Requests : phase'[q] # "settled" => phase[q] # "settled" BY <1>2
  <2> QED BY <1>1, <2>1 DEF RequestsInv, AnswersOK
<1>6. WorkConserving' BY <1>1 DEF WorkConserving
<1>7. TeardownStopsWork' BY <1>2 DEF RequestsInv, TeardownStopsWork
<1> QED BY <1>2, <1>3, <1>4, <1>5, <1>6, <1>7 DEF RequestsInv, Holding

LEMMA ClosingPhase ==
    ASSUME RequestsInv, BeginClose(phase),
           UNCHANGED <<transport, reader, disconnected, opened, active, cancelled, sent>>,
           outboundClosed' \in BOOLEAN,
           hello' = hello \/ (hello = "refusing" /\ hello' = "processed")
    PROVE  RequestsInv'
<1>1. hello \in {"awaited", "authenticating", "refusing", "answering", "delivered", "processed", "failed"}
      /\ phase \in [Requests -> Phases]
  BY DEF RequestsInv, TypeOK
<1> QED BY <1>1, ClosingStep

\* Steps of the pump, of a refused handshake or of the heartbeat that find the
\* connection already closing.
LEMMA ClosingAlready ==
    ASSUME RequestsInv, ~CanClose \/ hello' = hello,
           UNCHANGED <<conn, transport, reader, disconnected, aborted, cleaned, opened, closeTask,
                       requestVars>>,
           outboundClosed' \in BOOLEAN, outboundClosed => outboundClosed',
           heartbeat' \in {"off", "armed"},
           hello' = hello \/ (hello = "refusing" /\ hello' = "processed")
    PROVE  RequestsInv'
<1>1. Holding' BY RequestsUntouched
<1>2. TypeOK' BY DEF RequestsInv, TypeOK, requestVars
<1>3. ControlOK' BY DEF RequestsInv, ControlOK, CanClose, requestVars
<1>4. AnswersOK' BY DEF RequestsInv, AnswersOK, requestVars
<1>5. WorkConserving' /\ TeardownStopsWork'
  BY DEF RequestsInv, WorkConserving, TeardownStopsWork, requestVars
<1> QED BY <1>1, <1>2, <1>3, <1>4, <1>5 DEF RequestsInv, Holding

LEMMA ClosingSteps ==
    ASSUME RequestsInv, Close \/ OutboundFails \/ RefusalSent \/ HeartbeatFires
    PROVE  RequestsInv'
<1>0. TypeOK /\ outboundClosed \in BOOLEAN /\ heartbeat \in {"off", "armed"} BY DEF RequestsInv, TypeOK
<1>1. CASE Close BY <1>1, ClosingPhase DEF Close
<1>2. CASE OutboundFails
  <2>1. CASE CanClose BY <1>2, <2>1, ClosingPhase DEF OutboundFails
  <2>2. CASE ~CanClose BY <1>0, <1>2, <2>2, ClosingAlready DEF OutboundFails, requestVars
  <2> QED BY <2>1, <2>2
<1>3. CASE RefusalSent
  <2>1. CASE CanClose BY <1>3, <2>1, ClosingPhase DEF RefusalSent
  <2>2. CASE ~CanClose BY <1>0, <1>3, <2>2, ClosingAlready DEF RefusalSent, requestVars
  <2> QED BY <2>1, <2>2
<1>4. CASE HeartbeatFires
  <2>1. CASE CanClose /\ BeginClose(phase) BY <1>0, <1>4, <2>1, ClosingPhase DEF HeartbeatFires
  <2>2. CASE ~(CanClose /\ BeginClose(phase))
    <3>1. /\ UNCHANGED <<conn, aborted, cleaned, phase, queue, queueBytes, expired, inFlight, closeTask>>
          /\ UNCHANGED <<hello, transport, reader, disconnected, outboundClosed, opened, active, cancelled, sent>>
          /\ heartbeat' \in {"off", "armed"}
      BY <1>4, <2>2 DEF HeartbeatFires
    <3> QED BY <1>0, <3>1, ClosingAlready DEF requestVars
  <2> QED BY <2>1, <2>2
<1> QED BY <1>1, <1>2, <1>3, <1>4

LEMMA OpenFailsStep ==
    ASSUME RequestsInv, OpenFails
    PROVE  RequestsInv'
<1>1. /\ reader = "opening" /\ reader' = "done" /\ outboundClosed' = TRUE /\ aborted' = TRUE
      /\ Cleanup(phase) /\ conn' = "closed" /\ transport' = "ended"
      /\ UNCHANGED <<hello, disconnected, opened, closeTask, active, cancelled, sent>>
  BY DEF OpenFails
<1>2. hello = "awaited" /\ \A q \in Requests : phase[q] = "unsent"
  BY <1>1 DEF RequestsInv, ControlOK
<1>3. phase \in [Requests -> Phases] BY DEF RequestsInv, TypeOK
<1>4. /\ Holding' /\ queue' \in Seq(Features) /\ queueBytes' \in Nat
      /\ inFlight' \subseteq Features /\ expired' \subseteq Features
      /\ heartbeat' \in {"off", "armed"} /\ cleaned' = TRUE
      /\ phase' \in [Requests -> Phases]
      /\ \A q \in Requests :
            \/ phase'[q] = phase[q]
            \/ phase[q] = "queued" /\ phase'[q] = "settled"
            \/ phase[q] = "running" /\ phase'[q] = "stopping"
  BY <1>1, <1>3, CleanedUp
<1>5. \A q \in Requests : phase'[q] = "unsent" BY <1>2, <1>4
<1>6. TypeOK' BY <1>1, <1>4 DEF RequestsInv, TypeOK
<1>7. ControlOK' BY <1>1, <1>2, <1>5 DEF RequestsInv, ControlOK
<1>8. AnswersOK' BY <1>1, <1>2, <1>5 DEF RequestsInv, AnswersOK
<1>9. WorkConserving' /\ TeardownStopsWork' BY <1>1, <1>5 DEF WorkConserving, TeardownStopsWork
<1> QED BY <1>4, <1>6, <1>7, <1>8, <1>9 DEF RequestsInv, Holding

LEMMA ReaderEndsStep ==
    ASSUME RequestsInv, ReaderEnds
    PROVE  RequestsInv'
<1>0. TypeOK /\ phase \in [Requests -> Phases] /\ inFlight \subseteq Features
  BY DEF RequestsInv, TypeOK
<1>1. /\ reader = "reading" /\ reader' = "draining" /\ transport' = "ended"
      /\ disconnected' = (conn # "closing") /\ aborted' = (aborted \/ conn # "closing")
      /\ outboundClosed' = (outboundClosed \/ conn # "closing")
      /\ ClearQueue
      /\ transport = "ended" \/ hello = "failed"
      /\ UNCHANGED <<conn, hello, cleaned, opened, closeTask, heartbeat, active, inFlight, cancelled, sent>>
  BY DEF ReaderEnds
<1>2. \A q \in Requests :
         phase'[q] = IF phase[q] = "queued" THEN "settled"
                     ELSE IF phase[q] = "running" /\ conn # "closing" THEN "stopping" ELSE phase[q]
  BY DEF ReaderEnds, Stopping, Forgotten
<1>3. phase' \in [Requests -> Phases]
  <2>1. \A q \in Requests : phase'[q] \in Phases BY <1>0, <1>2 DEF Phases
  <2> QED BY <2>1 DEF ReaderEnds, Stopping, Forgotten
<1>4. aborted' /\ \A q \in Requests : phase'[q] # "running"
  BY <1>1, <1>2 DEF RequestsInv, ControlOK, TeardownStopsWork
<1>5. Holding'
  <2>1. Occupying' = Occupying BY <1>2 DEF Occupying
  <2>2. \A q \in Requests : phase'[q] # "queued" BY <1>2
  <2> QED BY <1>1, <2>1, <2>2, QueueCleared DEF RequestsInv, Holding
<1>6. TypeOK'
  <2>1. queue' = <<>> /\ queueBytes' = 0 /\ expired' = {} BY <1>1 DEF ClearQueue
  <2>2. <<>> \in Seq(Features) OBVIOUS
  <2>3. aborted \in BOOLEAN /\ outboundClosed \in BOOLEAN BY <1>0 DEF TypeOK
  <2>4. aborted' \in BOOLEAN /\ outboundClosed' \in BOOLEAN /\ disconnected' \in BOOLEAN
    BY <1>1, <2>3
  <2> QED BY <1>0, <1>1, <1>3, <2>1, <2>2, <2>4 DEF TypeOK
<1>7. ControlOK' BY <1>1, <1>2, <1>4 DEF RequestsInv, ControlOK
<1>8. AnswersOK'
  <2>1. \A q \in Requests : phase'[q] # "settled" => phase[q] # "settled" BY <1>2
  <2> QED BY <1>1, <1>4, <2>1 DEF RequestsInv, AnswersOK
<1>9. WorkConserving' /\ TeardownStopsWork' BY <1>1, <1>4 DEF WorkConserving, TeardownStopsWork
<1> QED BY <1>5, <1>6, <1>7, <1>8, <1>9 DEF RequestsInv, Holding

LEMMA ReaderDrainedStep ==
    ASSUME RequestsInv, ReaderDrained
    PROVE  RequestsInv'
<1>1. /\ reader = "draining" /\ reader' = "done"
      /\ \A q \in Requests : phase[q] \in {"unsent", "settled"}
      /\ UNCHANGED <<hello, transport, disconnected, outboundClosed, aborted, opened, closeTask,
                     active, cancelled, sent>>
  BY DEF ReaderDrained
<1>2. transport = "ended" BY <1>1 DEF RequestsInv, ControlOK
<1>3. phase \in [Requests -> Phases] BY DEF RequestsInv, TypeOK
<1>4. CASE disconnected /\ conn # "closing"
  <2>1. Cleanup(phase) /\ conn' = "closed" BY <1>4 DEF ReaderDrained
  <2>2. /\ Holding' /\ queue' \in Seq(Features) /\ queueBytes' \in Nat
        /\ inFlight' \subseteq Features /\ expired' \subseteq Features
        /\ heartbeat' \in {"off", "armed"} /\ cleaned' = TRUE
        /\ phase' \in [Requests -> Phases]
        /\ \A q \in Requests :
              \/ phase'[q] = phase[q]
              \/ phase[q] = "queued" /\ phase'[q] = "settled"
              \/ phase[q] = "running" /\ phase'[q] = "stopping"
    BY <1>1, <1>3, <2>1, CleanedUp
  <2>3. \A q \in Requests : phase'[q] = phase[q] BY <1>1, <2>2
  <2>4. aborted BY <1>4 DEF RequestsInv, ControlOK
  <2>5. TypeOK' BY <1>1, <2>1, <2>2 DEF RequestsInv, TypeOK
  <2>6. ControlOK' BY <1>1, <1>2, <2>1, <2>2, <2>3, <2>4 DEF RequestsInv, ControlOK
  <2>7. AnswersOK' BY <1>1, <2>3, <2>4 DEF RequestsInv, AnswersOK
  <2>8. WorkConserving' /\ TeardownStopsWork'
    BY <1>1, <2>3, <2>4 DEF WorkConserving, TeardownStopsWork
  <2> QED BY <2>2, <2>5, <2>6, <2>7, <2>8 DEF RequestsInv, Holding
<1>5. CASE ~(disconnected /\ conn # "closing")
  <2>1. UNCHANGED <<conn, cleaned, phase, queue, queueBytes, expired, inFlight, heartbeat>>
    BY <1>5 DEF ReaderDrained
  <2>2. Holding' BY <1>1, <2>1, RequestsUntouched DEF requestVars
  <2>3. TypeOK' /\ ControlOK' BY <1>1, <1>2, <2>1 DEF RequestsInv, TypeOK, ControlOK
  <2>4. AnswersOK' BY <1>1, <2>1 DEF RequestsInv, AnswersOK
  <2>5. WorkConserving' /\ TeardownStopsWork'
    BY <1>1, <2>1 DEF RequestsInv, WorkConserving, TeardownStopsWork
  <2> QED BY <2>2, <2>3, <2>4, <2>5 DEF RequestsInv, Holding
<1> QED BY <1>4, <1>5

\* A step of the traffic leaves a request as it was or takes it further: a
\* request is settled with an answer, or with none once the connection is lost.
Progresses ==
    \A q \in Requests :
        \/ phase'[q] = phase[q] /\ sent'[q] = sent[q]
        \/ /\ phase[q] # "settled" /\ reader # "done" /\ phase'[q] \in Phases
           /\ phase'[q] = "running" => ~aborted
           /\ IF phase'[q] = "settled"
              THEN \/ sent'[q] = sent[q] + 1
                   \/ sent'[q] = sent[q] /\ (aborted \/ outboundClosed' \/ transport # "open")
              ELSE sent'[q] = sent[q]

\* The traffic of a connection: the phase of requests the server holds
\* changes, and the connection itself does not.
LEMMA TrafficStep ==
    ASSUME RequestsInv,
           UNCHANGED <<conn, hello, transport, reader, disconnected, aborted, cleaned, opened, closeTask>>,
           outboundClosed' \in BOOLEAN, outboundClosed => outboundClosed',
           heartbeat' \in {"off", "armed"},
           Holding', queue' \in Seq(Features), queueBytes' \in Nat, active' \in Nat,
           inFlight' \subseteq Features, expired' \subseteq Features, cancelled' \subseteq Features,
           phase' \in [Requests -> Phases], sent' \in [Requests -> Nat],
           hello = "processed",
           Progresses,
           ~aborted /\ conn = "open" /\ queue' # <<>> => active' = MaxInFlight
    PROVE  RequestsInv'
<1>1. TypeOK' BY DEF RequestsInv, TypeOK
<1>2. ControlOK' BY DEF RequestsInv, ControlOK
<1>3. AnswersOK'
  <2> SUFFICES ASSUME NEW q \in Requests
               PROVE  /\ phase'[q] # "settled" => sent'[q] = 0
                      /\ sent'[q] <= 1
                      /\ ~aborted' /\ ~outboundClosed' /\ transport' = "open" /\ phase'[q] = "settled" => sent'[q] = 1
    BY DEF AnswersOK
  <2>1. /\ phase[q] # "settled" => sent[q] = 0
        /\ sent[q] <= 1
        /\ ~aborted /\ ~outboundClosed /\ transport = "open" /\ phase[q] = "settled" => sent[q] = 1
    BY DEF RequestsInv, AnswersOK
  <2> QED BY <2>1 DEF Progresses
<1>4. WorkConserving' BY DEF WorkConserving
<1>5. TeardownStopsWork' BY DEF RequestsInv, TeardownStopsWork, Progresses
<1> QED BY <1>1, <1>2, <1>3, <1>4, <1>5 DEF RequestsInv, Holding

LEMMA ReceiveStep ==
    ASSUME RequestsInv, NEW r \in Requests, Receive(r)
    PROVE  RequestsInv'
<1>0. /\ TypeOK /\ Holding /\ phase \in [Requests -> Phases] /\ sent \in [Requests -> Nat]
      /\ queue \in Seq(Features) /\ queueBytes \in Nat /\ active \in Nat
      /\ inFlight \subseteq Features /\ expired \subseteq Features /\ cancelled \subseteq Features
      /\ heartbeat \in {"off", "armed"} /\ outboundClosed \in BOOLEAN
  BY DEF RequestsInv, TypeOK, Holding
<1>1. /\ reader = "reading" /\ hello = "processed" /\ transport = "open" /\ phase[r] = "unsent"
      /\ UNCHANGED <<hello, transport, reader, disconnected, opened, cancelled, sent>>
  BY DEF Receive, Reading
<1>2. \A c \in BOOLEAN : ArmedBy(c) \in {"off", "armed"} BY <1>0 DEF ArmedBy
<1>3. Heartbeat \in BOOLEAN BY RequestsAssumption
<1>4. expired \subseteq Queued BY <1>0 DEF Holding, PlacesOK
<1>5. ~aborted /\ conn = "open" /\ queue # <<>> => active = MaxInFlight
  BY DEF RequestsInv, WorkConserving
<1>6. CASE r \in Features /\ conn = "open" /\ Dispatch(r)
  <2>1. /\ phase' = [phase EXCEPT ![r] = Begun] /\ active' = active + 1 /\ inFlight' = inFlight \cup {r}
        /\ UNCHANGED <<conn, outboundClosed, aborted, cleaned, closeTask, queue, queueBytes, expired>>
        /\ heartbeat' \in {"off", "armed"} /\ queue = <<>>
    BY <1>2, <1>3, <1>6 DEF Dispatch, SlotFree
  <2>2. Begun \in Phases /\ Begun # "settled" /\ (Begun = "running" => ~aborted) BY DEF Begun, Phases
  <2>3. Holding' BY <1>0, <1>1, <1>6, SlotTaken
  <2>4. phase' \in [Requests -> Phases] BY <1>0, <2>1, <2>2
  <2>5. \A q \in Requests : phase'[q] = IF q = r THEN Begun ELSE phase[q] BY <1>0, <2>1
  <2>6. Progresses
    BY <1>1, <2>2, <2>5 DEF Progresses
  <2>7. active' \in Nat /\ inFlight' \subseteq Features BY <1>0, <1>6, <2>1
  <2> QED BY <1>0, <1>1, <2>1, <2>3, <2>4, <2>6, <2>7, TrafficStep
<1>7. CASE r \in Features /\ conn = "open" /\ Enqueue(r)
  <2>1. /\ phase' = [phase EXCEPT ![r] = "queued"]
        /\ UNCHANGED <<conn, outboundClosed, aborted, cleaned, closeTask, active, inFlight, expired>>
        /\ heartbeat' \in {"off", "armed"} /\ ~SlotFree
    BY <1>2, <1>3, <1>7 DEF Enqueue
  <2>2. Holding' /\ queue' \in Seq(Features) /\ queueBytes' \in Nat
    BY <1>0, <1>1, <1>7, QueueExtended
  <2>3. phase' \in [Requests -> Phases] BY <1>0, <2>1 DEF Phases
  <2>4. \A q \in Requests : phase'[q] = IF q = r THEN "queued" ELSE phase[q] BY <1>0, <2>1
  <2>5. Progresses
    BY <1>1, <2>3, <2>4 DEF Progresses
  <2>6. ~aborted /\ conn = "open" => active' = MaxInFlight
    <3>1. active <= MaxInFlight /\ MaxInFlight \in Nat BY <1>0, LimitsAssumption DEF Holding, CountsOK
    <3> QED BY <1>0, <1>5, <2>1, <3>1 DEF SlotFree
  <2> QED BY <1>0, <1>1, <2>1, <2>2, <2>3, <2>5, <2>6, TrafficStep
<1>8. ASSUME NEW s \in {"replying", "settled"}, phase' = [phase EXCEPT ![r] = s],
             UNCHANGED <<conn, aborted, cleaned, closeTask, queue, queueBytes, active, inFlight, expired>>,
             outboundClosed' \in BOOLEAN, outboundClosed => outboundClosed',
             s = "settled" => aborted \/ outboundClosed',
             heartbeat' \in {"off", "armed"}
      PROVE  RequestsInv'
  <2>1. \A q \in Requests : phase'[q] = IF q = r THEN s ELSE phase[q] BY <1>0, <1>8
  <2>2. phase' \in [Requests -> Phases] BY <1>0, <1>8 DEF Phases
  <2>3. Occupying' = Occupying BY <1>1, <2>1 DEF Occupying
  <2>4. \A q \in Requests : phase'[q] = "queued" <=> phase[q] = "queued" BY <1>1, <2>1
  <2>5. Holding' BY <1>0, <1>4, <1>8, <2>3, <2>4, QueueKept
  <2>6. Progresses
    BY <1>1, <1>8, <2>1, <2>2 DEF Progresses
  <2> QED BY <1>0, <1>1, <1>5, <1>8, <2>2, <2>5, <2>6, TrafficStep
<1>9. CASE r \in Features /\ conn = "open" /\ RefuseDuplicate(r)
  BY <1>0, <1>2, <1>3, <1>8, <1>9 DEF RefuseDuplicate
<1>10. CASE r \in Features /\ conn = "open" /\ Overflow(r)
  <2>1. CASE CanClose
    <3> DEFINE p == [phase EXCEPT ![r] = "settled"]
    <3>1. BeginClose(p) /\ outboundClosed' = TRUE /\ active' = active BY <1>10, <2>1 DEF Overflow
    <3>2. p \in [Requests -> Phases] BY <1>0 DEF Phases
    <3>3. \A q \in Requests : p[q] = phase[q] \/ (phase[q] = "unsent" /\ p[q] = "settled") BY <1>0, <1>1
    <3> HIDE DEF p
    <3> QED BY <1>1, <3>1, <3>2, <3>3, ClosingStep
  <2>2. CASE ~CanClose BY <1>0, <1>2, <1>3, <1>8, <1>10, <2>2 DEF Overflow
  <2> QED BY <2>1, <2>2
<1>11. CASE r \in Pings /\ conn = "open" /\ Ping(r)
  BY <1>0, <1>2, <1>3, <1>8, <1>11 DEF Ping
<1>12. CASE conn # "open" /\ Ignore(r)
  <2>1. aborted BY <1>1, <1>12 DEF RequestsInv, ControlOK
  <2> QED BY <1>0, <1>2, <1>3, <1>8, <1>12, <2>1 DEF Ignore
<1> QED BY <1>6, <1>7, <1>9, <1>10, <1>11, <1>12 DEF Receive, ReceiveFeature

\* A step that only takes one request from a phase to another, outside the
\* queue and without giving back a slot.
LEMMA PhaseStep ==
    ASSUME RequestsInv, NEW r \in Requests, NEW s \in Phases,
           phase[r] \notin {"unsent", "queued", "settled"} \/ s = phase[r],
           s \notin {"running", "queued"} \/ s = phase[r],
           phase[r] \in {"running", "stopping", "answering"} <=> s \in {"running", "stopping", "answering"},
           phase' = [phase EXCEPT ![r] = s],
           UNCHANGED <<conn, hello, transport, reader, disconnected, outboundClosed, aborted, cleaned,
                       opened, closeTask, queue, queueBytes, active, inFlight>>,
           heartbeat' \in {"off", "armed"}, expired' \subseteq Queued, cancelled' \subseteq Features,
           IF s = "settled" /\ s # phase[r]
           THEN \/ sent' = [sent EXCEPT ![r] = @ + 1]
                \/ sent' = sent /\ (outboundClosed \/ transport # "open")
           ELSE sent' = sent,
           hello = "processed"
    PROVE  RequestsInv'
<1>0. /\ TypeOK /\ Holding /\ phase \in [Requests -> Phases] /\ sent \in [Requests -> Nat]
      /\ queue \in Seq(Features) /\ queueBytes \in Nat /\ active \in Nat
      /\ inFlight \subseteq Features /\ outboundClosed \in BOOLEAN
  BY DEF RequestsInv, TypeOK, Holding
<1>1. \A q \in Requests : phase'[q] = IF q = r THEN s ELSE phase[q] BY <1>0
<1>2. phase' \in [Requests -> Phases] BY <1>0
<1>3. Occupying' = Occupying BY <1>1 DEF Occupying
<1>4. \A q \in Requests : phase'[q] = "queued" <=> phase[q] = "queued" BY <1>1
<1>5. Holding' BY <1>0, <1>3, <1>4, QueueKept
<1>6. Queued \subseteq Features BY <1>0 DEF Queued
<1>7. ~aborted /\ conn = "open" /\ queue # <<>> => active = MaxInFlight
  BY DEF RequestsInv, WorkConserving
<1>8. sent' \in [Requests -> Nat] /\ \A q \in Requests : q # r => sent'[q] = sent[q] BY <1>0
<1>9. s # phase[r] => reader # "done" BY DEF RequestsInv, TeardownStopsWork
<1>10. Progresses BY <1>0, <1>1, <1>2, <1>8, <1>9 DEF Progresses
<1> QED BY <1>0, <1>2, <1>5, <1>6, <1>7, <1>8, <1>10, TrafficStep

\* A queued request is answered where it waits.
LEMMA DequeueStep ==
    ASSUME RequestsInv, NEW r \in Queued, Dequeue(r), UNCHANGED <<active, inFlight, sent>>,
           UNCHANGED <<conn, hello, transport, reader, disconnected, outboundClosed, aborted, cleaned,
                       opened, closeTask>>,
           heartbeat' \in {"off", "armed"}, cancelled' \subseteq Features
    PROVE  RequestsInv'
<1>0. /\ TypeOK /\ Holding /\ phase \in [Requests -> Phases] /\ sent \in [Requests -> Nat]
      /\ active \in Nat /\ inFlight \subseteq Features /\ expired \subseteq Features
      /\ outboundClosed \in BOOLEAN
  BY DEF RequestsInv, TypeOK, Holding
<1>1. /\ Holding' /\ queue' \in Seq(Features) /\ queueBytes' \in Nat
      /\ phase[r] = "queued" /\ r \in Features /\ queue # <<>>
  BY <1>0, QueueShortened
<1>2. phase' = [phase EXCEPT ![r] = "replying"] /\ expired' = expired \ {r} BY DEF Dequeue
<1>3. r \in Requests BY <1>1 DEF Requests
<1>4. phase' \in [Requests -> Phases] BY <1>0, <1>2 DEF Phases
<1>5. ~aborted /\ conn = "open" => active = MaxInFlight BY <1>1 DEF RequestsInv, WorkConserving
<1>6. hello = "processed" BY <1>1, <1>3 DEF RequestsInv, ControlOK
<1>7. reader # "done" BY <1>1, <1>3 DEF RequestsInv, TeardownStopsWork
<1>8. Progresses BY <1>0, <1>1, <1>2, <1>3, <1>4, <1>7 DEF Progresses
<1> QED BY <1>0, <1>1, <1>2, <1>4, <1>5, <1>6, <1>8, TrafficStep

LEMMA ReceiveCancelStep ==
    ASSUME RequestsInv, NEW r \in Features, ReceiveCancel(r)
    PROVE  RequestsInv'
<1>0. /\ TypeOK /\ phase \in [Requests -> Phases] /\ r \in Requests /\ cancelled \subseteq Features
      /\ expired \subseteq Queued /\ heartbeat \in {"off", "armed"}
  BY DEF RequestsInv, TypeOK, Requests, PlacesOK
<1>1. Heartbeat \in BOOLEAN BY RequestsAssumption
<1>2. /\ hello = "processed" /\ cancelled' = cancelled \cup {r} /\ heartbeat' \in {"off", "armed"}
      /\ UNCHANGED <<conn, hello, transport, reader, disconnected, outboundClosed, aborted, cleaned,
                     opened, closeTask, sent>>
  BY <1>0, <1>1 DEF ReceiveCancel, Reading, ArmedBy
<1>3. CASE CancelQueued(r) BY <1>0, <1>2, <1>3, DequeueStep DEF CancelQueued
<1>4. CASE CancelInFlight(r)
  <2> DEFINE s == IF phase[r] = "running" THEN "stopping" ELSE phase[r]
  <2>1. /\ phase' = [phase EXCEPT ![r] = s]
        /\ UNCHANGED <<queue, queueBytes, active, inFlight, expired>>
    BY <1>0, <1>4 DEF CancelInFlight
  <2>2. s \in Phases BY <1>0 DEF Phases
  <2>3. r \in Occupying BY <1>4 DEF CancelInFlight, RequestsInv, PlacesOK
  <2>4. phase[r] \in {"running", "stopping", "answering"} /\ s \in {"stopping", "answering"}
    BY <2>3 DEF Occupying
  <2> HIDE DEF s
  <2> QED BY <1>0, <1>2, <2>1, <2>2, <2>4, PhaseStep
<1> QED BY <1>3, <1>4 DEF ReceiveCancel

LEMMA RequestStepStep ==
    ASSUME RequestsInv, NEW r \in Requests, RequestStep(r)
    PROVE  RequestsInv'
<1>0. /\ TypeOK /\ Holding /\ phase \in [Requests -> Phases] /\ sent \in [Requests -> Nat]
      /\ cancelled \subseteq Features /\ expired \subseteq Queued /\ heartbeat \in {"off", "armed"}
      /\ expired \subseteq Features /\ outboundClosed \in BOOLEAN /\ transport \in {"unopened", "open", "ended"}
  BY DEF RequestsInv, TypeOK, Requests, PlacesOK, Holding
<1>1. phase[r] # "unsent" => hello = "processed" BY DEF RequestsInv, ControlOK
<1>2. PumpRejects => outboundClosed \/ transport # "open" BY DEF PumpRejects
<1>3. CASE AnswerSent(r) \/ AnswerLost(r)
  <2>1. /\ phase[r] = "answering" /\ Release(r, [phase EXCEPT ![r] = "settled"])
        /\ UNCHANGED <<connVars, cancelled>>
        /\ \/ sent' = [sent EXCEPT ![r] = @ + 1]
           \/ sent' = sent /\ PumpRejects
    BY <1>3 DEF AnswerSent, AnswerLost
  <2>2. UNCHANGED <<conn, hello, transport, reader, disconnected, outboundClosed, aborted, cleaned,
                    opened, closeTask, heartbeat>>
    BY <2>1 DEF connVars
  <2>3. /\ Holding' /\ queue' \in Seq(Features) /\ queueBytes' \in Nat /\ active' \in Nat
        /\ inFlight' \subseteq Features /\ phase' \in [Requests -> Phases]
        /\ \A q \in Requests :
              \/ q = r /\ phase'[q] = "settled"
              \/ q # r /\ phase'[q] = phase[q]
              \/ q # r /\ phase[q] = "queued" /\ phase'[q] = "replying"
              \/ q # r /\ phase[q] = "queued" /\ phase'[q] = "running" /\ ~aborted
        /\ conn = "open" /\ ~aborted /\ queue' # <<>> => active' = MaxInFlight
    BY <1>0, <2>1, SlotReleased
  <2>4. expired' \subseteq Features BY <1>0, <2>1 DEF Release
  <2>5. sent' \in [Requests -> Nat] /\ \A q \in Requests : q # r => sent'[q] = sent[q] BY <1>0, <2>1
  <2>6. reader # "done" BY <2>1 DEF RequestsInv, TeardownStopsWork
  <2>7. sent'[r] = sent[r] + 1 \/ (sent'[r] = sent[r] /\ (outboundClosed \/ transport # "open"))
    BY <1>0, <1>2, <2>1
  <2>8. Progresses BY <2>1, <2>2, <2>3, <2>5, <2>6, <2>7 DEF Progresses, Phases
  <2> QED BY <1>0, <1>1, <2>1, <2>2, <2>3, <2>4, <2>5, <2>8, TrafficStep
<1>4. CASE ReplySent(r) \/ ReplyLost(r)
  <2>1. /\ phase[r] = "replying" /\ phase' = [phase EXCEPT ![r] = "settled"]
        /\ UNCHANGED <<connVars, queue, queueBytes, active, inFlight, expired, cancelled>>
        /\ \/ sent' = [sent EXCEPT ![r] = @ + 1]
           \/ sent' = sent /\ PumpRejects
    BY <1>4 DEF ReplySent, ReplyLost
  <2> QED BY <1>0, <1>1, <1>2, <2>1, PhaseStep DEF connVars, Phases
<1>5. CASE r \in Features /\ Expire(r)
  <2>1. /\ r \in Queued /\ expired' = expired \cup {r}
        /\ UNCHANGED <<connVars, phase, queue, queueBytes, active, inFlight, cancelled, sent>>
    BY <1>5 DEF Expire
  <2>2. phase[r] = "queued" BY <2>1 DEF RequestsInv, PlacesOK
  <2>3. phase' = [phase EXCEPT ![r] = "queued"] BY <1>0, <2>1, <2>2
  <2>4. "queued" \in Phases BY DEF Phases
  <2>5. expired' \subseteq Queued BY <1>0, <2>1
  <2>6. hello = "processed" BY <1>1, <2>2
  <2>7. /\ UNCHANGED <<conn, hello, transport, reader, disconnected, outboundClosed, aborted, cleaned,
                       opened, closeTask, queue, queueBytes, active, inFlight>>
        /\ heartbeat' \in {"off", "armed"} /\ cancelled' \subseteq Features /\ sent' = sent
    BY <1>0, <2>1 DEF connVars
  <2> QED BY <2>2, <2>3, <2>4, <2>5, <2>6, <2>7, PhaseStep
<1>6. CASE r \in Features /\ PendingDeadline(r)
  BY <1>0, <1>6, DequeueStep DEF PendingDeadline, connVars
<1>7. CASE r \in Features /\ (RunningDeadline(r) \/ HandlerReturns(r) \/ Interrupted(r))
  <2>1. PICK s \in {"stopping", "answering"} :
          /\ phase[r] \in {"running", "stopping"} /\ phase' = [phase EXCEPT ![r] = s]
          /\ UNCHANGED <<connVars, queue, queueBytes, active, inFlight, expired, cancelled, sent>>
    BY <1>7 DEF RunningDeadline, HandlerReturns, Interrupted
  <2> QED BY <1>0, <1>1, <2>1, PhaseStep DEF connVars, Phases
<1> QED BY <1>3, <1>4, <1>5, <1>6, <1>7 DEF RequestStep

-----------------------------------------------------------------------------
(* The invariant and what follows from it.                                  *)

LEMMA InitInv == Init => RequestsInv
<1> SUFFICES ASSUME Init PROVE RequestsInv
  OBVIOUS
<1>1. phase = [r \in Requests |-> "unsent"] /\ sent = [r \in Requests |-> 0] /\ queue = <<>>
      /\ queueBytes = 0 /\ active = 0 /\ inFlight = {} /\ expired = {} /\ cancelled = {}
  BY DEF Init
<1>2. Occupying = {} BY <1>1 DEF Occupying
<1>3. Queued = {} BY <1>1 DEF Queued
<1>4. TypeOK
  <2>1. <<>> \in Seq(Features) OBVIOUS
  <2>2. phase \in [Requests -> Phases] /\ sent \in [Requests -> Nat] BY <1>1 DEF Phases
  <2>3. queue \in Seq(Features) BY <1>1, <2>1
  <2>4. /\ queueBytes \in Nat /\ active \in Nat /\ inFlight \subseteq Features
        /\ expired \subseteq Features /\ cancelled \subseteq Features
    BY <1>1
  <2>5. /\ conn = "new" /\ hello = "awaited" /\ transport = "unopened" /\ reader = "none"
        /\ closeTask = "none" /\ heartbeat = "off"
        /\ {disconnected, outboundClosed, aborted, cleaned, opened} \subseteq BOOLEAN
    BY DEF Init
  <2> QED BY <2>2, <2>3, <2>4, <2>5 DEF TypeOK
<1>5. ControlOK BY <1>1 DEF Init, ControlOK
<1>6. PlacesOK BY <1>1, <1>3 DEF PlacesOK
<1>7. CountsOK BY <1>1, <1>2, FS_EmptySet, EmptySums, LimitsAssumption DEF CountsOK
<1>8. AnswersOK BY <1>1 DEF AnswersOK
<1>9. WorkConserving /\ TeardownStopsWork BY <1>1 DEF Init, WorkConserving, TeardownStopsWork
<1> QED BY <1>4, <1>5, <1>6, <1>7, <1>8, <1>9 DEF RequestsInv

LEMMA NextInv == RequestsInv /\ [Next]_vars => RequestsInv'
<1> SUFFICES ASSUME RequestsInv, [Next]_vars PROVE RequestsInv'
  OBVIOUS
<1>1. CASE ConnectionStep
  BY <1>1, OpeningSteps, HelloContinuesStep, ClosingSteps, OpenFailsStep, ReaderEndsStep,
     ReaderDrainedStep DEF ConnectionStep
<1>2. CASE \E r \in Requests : Receive(r) \/ RequestStep(r)
  BY <1>2, ReceiveStep, RequestStepStep
<1>3. CASE \E r \in Features : ReceiveCancel(r)
  BY <1>3, ReceiveCancelStep
<1>4. CASE UNCHANGED vars
  <2>1. Holding' BY <1>4, RequestsUntouched DEF vars
  <2>2. TypeOK' /\ ControlOK' BY <1>4 DEF vars, connVars, requestVars, RequestsInv, TypeOK, ControlOK
  <2>3. AnswersOK' /\ WorkConserving' /\ TeardownStopsWork'
    BY <1>4 DEF vars, connVars, requestVars, RequestsInv, AnswersOK, WorkConserving, TeardownStopsWork
  <2> QED BY <2>1, <2>2, <2>3 DEF RequestsInv, Holding
<1> QED BY <1>1, <1>2, <1>3, <1>4 DEF Next

\* The counters, the queue, the phases, the teardown and the answers agree in
\* every reachable state (ServerConnection).
THEOREM ConnectionInvariant == Spec => []RequestsInv
BY InitInv, NextInv, PTL DEF Spec

\* No slot and no byte of the queue is leaked, whatever frees them, and no
\* correlation id names two requests the server holds (activeFeatures,
\* pendingFeatureBytes, pendingFeatureIds).
THEOREM ConnectionSlotsCounted == Spec => []SlotsCounted
<1>1. RequestsInv => SlotsCounted BY DEF RequestsInv, PlacesOK, CountsOK, SlotsCounted
<1> QED BY <1>1, ConnectionInvariant, PTL

\* Nothing waits in the queue while a slot is free (dispatchFeature's finally
\* block drains it).
THEOREM ConnectionWorkConserving == Spec => []WorkConserving
<1>1. RequestsInv => WorkConserving BY DEF RequestsInv
<1> QED BY <1>1, ConnectionInvariant, PTL

\* A request is answered at most once, and exactly once on a connection
\* nobody tore down (admitFeature, cancelRequest, armPendingDeadline).
THEOREM ConnectionAnsweredOnce == Spec => []AnsweredOnce
<1>1. RequestsInv => AnsweredOnce BY DEF RequestsInv, AnswersOK, AnsweredOnce
<1> QED BY <1>1, ConnectionInvariant, PTL

\* After teardown no handler runs that was not told to stop, and a reader that
\* is done leaves no request held (beginRequest, cleanupConnection, readLoop).
THEOREM ConnectionTeardownStopsWork == Spec => []TeardownStopsWork
<1>1. RequestsInv => TeardownStopsWork BY DEF RequestsInv
<1> QED BY <1>1, ConnectionInvariant, PTL
=============================================================================
