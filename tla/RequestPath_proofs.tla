------------------------- MODULE RequestPath_proofs -------------------------
(***************************************************************************)
(* For every number and size of requests: what a client reports as never   *)
(* sent is unknown to the server, and a client that keeps to its own       *)
(* admission never meets the ceiling of the server's FIFO.                 *)
(*                                                                         *)
(* Neither is inductive.  What the server may have to hold when it reads a *)
(* frame (Load) was outstanding on the client when that frame was handed   *)
(* over, and only shrinks afterwards: a request that has lost its place on *)
(* the client is settled, or its cancel frame travels ahead of any request *)
(* admitted in its stead.  That in turn needs each request to be on its    *)
(* way at most once and ahead of its own cancel frame, and the queue of    *)
(* the server to be counted right, which is the invariant of               *)
(* ServerRequests_proofs: the server of the path takes its steps only.     *)
(***************************************************************************)
EXTENDS RequestPath, ServerRequests_proofs

ClientPhases == {"idle", "waiting", "sending", "handed", "early", "accepted", "answered", "aborted",
                 "abandoned", "unsent", "lost"}
Frames == [kind : {"request", "cancel"}, of : Features]
RequestFrame(r) == [kind |-> "request", of |-> r]
CancelFrame(r) == [kind |-> "cancel", of |-> r]

PathTypeOK ==
    /\ client \in [Features -> ClientPhases]
    /\ waiting \in Seq(Features)
    /\ upstream \in Seq(Frames)
    /\ downstream \in Seq(Features)

(* The handshake is over, and the waiting requests are those in the queue.  *)
WaitingOK ==
    /\ hello = "processed"
    /\ \A r \in Features : client[r] = "waiting" <=> \E i \in DOMAIN waiting : waiting[i] = r
    /\ \A i, j \in DOMAIN waiting : waiting[i] = waiting[j] => i = j

(* What the socket did not take is unknown to the server, and what was      *)
(* answered is settled there.                                               *)
KnownOK ==
    /\ \A r \in Features : client[r] \in {"idle", "waiting", "sending", "unsent"} =>
          phase[r] = "unsent" /\ \A i \in DOMAIN upstream : upstream[i].of # r
    /\ \A r \in Features :
          client[r] \in {"early", "answered"} \/ (\E i \in DOMAIN downstream : downstream[i] = r) =>
             phase[r] = "settled"

(* Each request is on its way once, ahead of its cancel frame.              *)
FramesOK ==
    /\ \A i \in DOMAIN upstream : upstream[i].kind = "request" => phase[upstream[i].of] = "unsent"
    /\ \A i, j \in DOMAIN upstream :
          upstream[i].kind = "request" /\ upstream[j] = upstream[i] => i = j
    /\ \A i, j \in DOMAIN upstream :
          upstream[i].kind = "cancel" /\ upstream[j] = RequestFrame(upstream[i].of) => j < i

(* The server has done with a request given up, or is told on its way.      *)
CancelsOK ==
    Connected /\ conn = "open" =>
        \A r \in Features :
            /\ client[r] # "lost"
            /\ client[r] = "aborted" =>
                  \/ \E i \in DOMAIN upstream : upstream[i] = CancelFrame(r)
                  \/ phase[r] # "queued" /\ \A i \in DOMAIN upstream : upstream[i] # RequestFrame(r)

Fits(set) ==
    IsFiniteSet(set) /\ Cardinality(set) <= MaxOutstanding /\ BytesIn(set) <= Budget

(* What may hold a place on the server when the i-th frame is read.         *)
Load(i) ==
    {r \in Features :
        /\ phase[r] = "queued" \/ \E j \in 1..i : upstream[j] = RequestFrame(r)
        /\ \A j \in 1..(i - 1) : upstream[j] # CancelFrame(r)}

AdmissionOK ==
    /\ Fits(OutstandingIn(client))
    /\ Connected /\ waiting # <<>> => ~CanAdmit(client, waiting[1])
    /\ (\A r \in Features : client[r] # "abandoned") /\ conn = "open" =>
          \A i \in DOMAIN upstream : upstream[i].kind = "request" => Fits(Load(i))

PathInv == PathTypeOK /\ WaitingOK /\ KnownOK /\ FramesOK /\ CancelsOK /\ AdmissionOK

-----------------------------------------------------------------------------
(* The bytes of a set of requests, whatever order they are added up in.     *)

LEMMA MinimalExists ==
    ASSUME NEW X, NEW Bad, Bad \subseteq FiniteSubsetsOf(X), Bad # {}
    PROVE  \E S \in Bad : \A T \in Bad : T \subseteq S => T = S
<1>1. IsWellFoundedOn(StrictSubsetOrdering(X), FiniteSubsetsOf(X))
  BY FS_StrictSubsetOrderingWellFounded
<1>2. PICK S \in Bad : \A T \in Bad : <<T, S>> \notin StrictSubsetOrdering(X)
  BY <1>1, WFMin
<1>3. \A T \in Bad : T \subseteq S /\ T # S => <<T, S>> \in StrictSubsetOrdering(X)
  BY DEF StrictSubsetOrdering, FiniteSubsetsOf
<1>4. \A T \in Bad : T \subseteq S => T = S
  BY <1>2, <1>3
<1> QED BY <1>4

Pick(S) == CHOOSE r \in S : TRUE

\* g is the fold of BytesIn on the subsets of S.
Folds(g, S) ==
    g = [T \in SUBSET S |-> IF T = {} THEN 0 ELSE Bytes[Pick(T)] + g[T \ {Pick(T)}]]
Fold(S) == CHOOSE g : Folds(g, S)

LEMMA PickIn == \A S : S # {} => Pick(S) \in S
BY DEF Pick

LEMMA BytesInIs == \A S : BytesIn(S) = Fold(S)[S]
BY DEF BytesIn, FoldSet, MapThenFoldSet, Fold, Folds, Pick

FiniteFeatures == {S \in SUBSET Features : IsFiniteSet(S)}

LEMMA FoldsAgree ==
    ASSUME NEW S \in FiniteFeatures, NEW T \in FiniteFeatures, NEW g, NEW h, Folds(g, S), Folds(h, T)
    PROVE  \A U \in SUBSET (S \cap T) : g[U] = h[U]
<1> DEFINE Bad == {U \in SUBSET (S \cap T) : g[U] # h[U]}
<1>1. ASSUME Bad # {} PROVE FALSE
  <2>1. Bad \subseteq FiniteSubsetsOf(Features)
    BY FS_Subset DEF FiniteFeatures, FiniteSubsetsOf
  <2>2. PICK U \in Bad : \A V \in Bad : V \subseteq U => V = U
    <3> HIDE DEF Bad
    <3> QED BY <1>1, <2>1, MinimalExists
  <2>3. /\ g[U] = IF U = {} THEN 0 ELSE Bytes[Pick(U)] + g[U \ {Pick(U)}]
        /\ h[U] = IF U = {} THEN 0 ELSE Bytes[Pick(U)] + h[U \ {Pick(U)}]
    BY DEF Folds
  <2>4. U # {} BY <2>3
  <2>5. Pick(U) \in U BY <2>4, PickIn
  <2>6. U \ {Pick(U)} \notin Bad BY <2>2, <2>5
  <2>7. g[U \ {Pick(U)}] = h[U \ {Pick(U)}] BY <2>6
  <2> QED BY <2>3, <2>4, <2>7
<1> QED BY <1>1

LEMMA FoldsExists ==
    ASSUME NEW S \in FiniteFeatures
    PROVE  Folds(Fold(S), S)
<1> DEFINE Bad == {T \in FiniteFeatures : \A g : ~Folds(g, T)}
<1>1. ASSUME Bad # {} PROVE FALSE
  <2>1. Bad \subseteq FiniteSubsetsOf(Features)
    BY DEF FiniteFeatures, FiniteSubsetsOf
  <2>2. PICK T \in Bad : \A U \in Bad : U \subseteq T => U = T
    <3> HIDE DEF Bad
    <3> QED BY <1>1, <2>1, MinimalExists
  <2>3. \A U \in SUBSET T : U \in FiniteFeatures
    BY FS_Subset DEF FiniteFeatures
  <2>4. \A U \in SUBSET T : U # T => Folds(Fold(U), U)
    <3> SUFFICES ASSUME NEW U \in SUBSET T, U # T PROVE Folds(Fold(U), U)
      OBVIOUS
    <3>1. U \notin Bad BY <2>2
    <3>2. \E g : Folds(g, U) BY <2>3, <3>1
    <3> QED BY <3>2 DEF Fold
  <2> DEFINE val(U) == IF U = {} THEN 0
                       ELSE Bytes[Pick(U)] + Fold(U \ {Pick(U)})[U \ {Pick(U)}]
             g == [U \in SUBSET T |-> val(U)]
  <2>5. \A U \in SUBSET T : U # T => Fold(U)[U] = val(U)
    <3> SUFFICES ASSUME NEW U \in SUBSET T, U # T PROVE Fold(U)[U] = val(U)
      OBVIOUS
    <3>1. Folds(Fold(U), U) BY <2>4
    <3>2. Fold(U)[U] = IF U = {} THEN 0 ELSE Bytes[Pick(U)] + Fold(U)[U \ {Pick(U)}]
      BY <3>1 DEF Folds
    <3>3. CASE U # {}
      <4> DEFINE V == U \ {Pick(U)}
      <4>1. V \in SUBSET T /\ V # T /\ V \subseteq U BY PickIn
      <4>2. Folds(Fold(V), V) BY <2>4, <4>1
      <4>3. V \in FiniteFeatures /\ U \in FiniteFeatures BY <2>3, <4>1
      <4>4. V \in SUBSET (U \cap V) BY <4>1
      <4> HIDE DEF V
      <4>5. Fold(U)[V] = Fold(V)[V] BY <3>1, <4>2, <4>3, <4>4, FoldsAgree
      <4> QED BY <3>2, <3>3, <4>5 DEF V
    <3> QED BY <3>2, <3>3
  <2>6. Folds(g, T)
    <3> SUFFICES ASSUME NEW U \in SUBSET T
                 PROVE  g[U] = IF U = {} THEN 0 ELSE Bytes[Pick(U)] + g[U \ {Pick(U)}]
      BY DEF Folds
    <3>1. CASE U # {}
      <4> DEFINE V == U \ {Pick(U)}
      <4>1. V \in SUBSET T /\ V # T BY <3>1, PickIn
      <4>2. g[V] = val(V) /\ g[U] = val(U) BY <4>1
      <4>3. Fold(V)[V] = val(V) BY <2>5, <4>1
      <4> QED BY <3>1, <4>2, <4>3
    <3> QED BY <3>1
  <2> QED BY <2>2, <2>6
<1>2. \E g : Folds(g, S) BY <1>1
<1> QED BY <1>2 DEF Fold

LEMMA BytesInSteps ==
    /\ BytesIn({}) = 0
    /\ \A S \in FiniteFeatures :
          S # {} => BytesIn(S) = Bytes[Pick(S)] + BytesIn(S \ {Pick(S)})
<1>1. {} \in FiniteFeatures BY FS_EmptySet DEF FiniteFeatures
<1>2. BytesIn({}) = 0
  <2>1. Folds(Fold({}), {}) BY <1>1, FoldsExists
  <2> QED BY <2>1, BytesInIs DEF Folds
<1>3. ASSUME NEW S \in FiniteFeatures, S # {}
      PROVE  BytesIn(S) = Bytes[Pick(S)] + BytesIn(S \ {Pick(S)})
  <2> DEFINE T == S \ {Pick(S)}
  <2>1. T \in FiniteFeatures BY FS_Subset DEF FiniteFeatures
  <2>2. Folds(Fold(S), S) /\ Folds(Fold(T), T) BY <2>1, FoldsExists
  <2>3. T \in SUBSET (S \cap T) OBVIOUS
  <2>4. Fold(S)[S] = Bytes[Pick(S)] + Fold(S)[T] BY <1>3, <2>2 DEF Folds
  <2> HIDE DEF T
  <2>5. Fold(S)[T] = Fold(T)[T] BY <2>1, <2>2, <2>3, FoldsAgree
  <2> QED BY <2>4, <2>5, BytesInIs DEF T
<1> QED BY <1>2, <1>3

LEMMA BytesInNat == \A S \in FiniteFeatures : BytesIn(S) \in Nat
<1> DEFINE Bad == {S \in FiniteFeatures : BytesIn(S) \notin Nat}
<1>1. ASSUME Bad # {} PROVE FALSE
  <2>1. Bad \subseteq FiniteSubsetsOf(Features) BY DEF FiniteFeatures, FiniteSubsetsOf
  <2>2. PICK S \in Bad : \A T \in Bad : T \subseteq S => T = S
    <3> HIDE DEF Bad
    <3> QED BY <1>1, <2>1, MinimalExists
  <2>3. S # {} BY <2>2, BytesInSteps
  <2>4. Pick(S) \in S BY <2>3, PickIn
  <2>5. S \ {Pick(S)} \in FiniteFeatures BY FS_Subset DEF FiniteFeatures
  <2>6. BytesIn(S \ {Pick(S)}) \in Nat BY <2>2, <2>4, <2>5
  <2>7. Pick(S) \in Features BY <2>4 DEF FiniteFeatures
  <2>8. Bytes[Pick(S)] \in Nat BY <2>7, RequestsAssumption
  <2>9. BytesIn(S) = Bytes[Pick(S)] + BytesIn(S \ {Pick(S)}) BY <2>3, BytesInSteps
  <2> QED BY <2>2, <2>6, <2>8, <2>9
<1> QED BY <1>1

\* Whichever request is taken out first.
LEMMA BytesInRemove ==
    \A S \in FiniteFeatures : \A r \in S : BytesIn(S) = Bytes[r] + BytesIn(S \ {r})
<1> DEFINE Bad == {S \in FiniteFeatures : \E r \in S : BytesIn(S) # Bytes[r] + BytesIn(S \ {r})}
<1>1. ASSUME Bad # {} PROVE FALSE
  <2>1. Bad \subseteq FiniteSubsetsOf(Features) BY DEF FiniteFeatures, FiniteSubsetsOf
  <2>2. PICK S \in Bad : \A T \in Bad : T \subseteq S => T = S
    <3> HIDE DEF Bad
    <3> QED BY <1>1, <2>1, MinimalExists
  <2>3. PICK r \in S : BytesIn(S) # Bytes[r] + BytesIn(S \ {r}) BY <2>2
  <2> DEFINE x == Pick(S)
  <2>4. x \in S BY PickIn
  <2>5. S \ {x} \in FiniteFeatures /\ S \ {r} \in FiniteFeatures /\ (S \ {x}) \ {r} \in FiniteFeatures
    BY FS_Subset DEF FiniteFeatures
  <2>6. BytesIn(S) = Bytes[x] + BytesIn(S \ {x}) BY <2>2, BytesInSteps
  <2>7. x # r BY <2>3, <2>6
  <2>8. S \ {x} \notin Bad /\ S \ {r} \notin Bad BY <2>2, <2>4
  <2>9. BytesIn(S \ {x}) = Bytes[r] + BytesIn((S \ {x}) \ {r}) BY <2>5, <2>7, <2>8
  <2>10. BytesIn(S \ {r}) = Bytes[x] + BytesIn((S \ {r}) \ {x}) BY <2>4, <2>5, <2>7, <2>8
  <2>11. (S \ {x}) \ {r} = (S \ {r}) \ {x} OBVIOUS
  <2>12. x \in Features /\ r \in Features BY <2>4 DEF FiniteFeatures
  <2>13. Bytes[x] \in Nat /\ Bytes[r] \in Nat BY <2>12, RequestsAssumption
  <2>14. BytesIn((S \ {x}) \ {r}) \in Nat BY <2>5, BytesInNat
  <2> DEFINE a == Bytes[x]  b == Bytes[r]  rest == BytesIn((S \ {x}) \ {r})
  <2>15. BytesIn(S) = a + (b + rest) /\ BytesIn(S \ {r}) = a + rest
    BY <2>6, <2>9, <2>10, <2>11
  <2>16. a \in Nat /\ b \in Nat /\ rest \in Nat BY <2>13, <2>14
  <2>17. a + (b + rest) = b + (a + rest)
    <3> HIDE DEF a, b, rest
    <3> QED BY <2>16
  <2> QED BY <2>3, <2>15, <2>17
<1> QED BY <1>1

LEMMA BytesInAdd ==
    ASSUME NEW S \in FiniteFeatures, NEW r \in Features, r \notin S
    PROVE  S \cup {r} \in FiniteFeatures /\ BytesIn(S \cup {r}) = BytesIn(S) + Bytes[r]
<1>1. IsFiniteSet(S \cup {r}) BY FS_AddElement DEF FiniteFeatures
<1>2. S \cup {r} \in FiniteFeatures BY <1>1 DEF FiniteFeatures
<1>3. BytesIn(S \cup {r}) = Bytes[r] + BytesIn((S \cup {r}) \ {r}) BY <1>2, BytesInRemove
<1>4. (S \cup {r}) \ {r} = S OBVIOUS
<1>5. Bytes[r] \in Nat /\ BytesIn(S) \in Nat BY BytesInNat, RequestsAssumption
<1> DEFINE a == Bytes[r]  b == BytesIn(S)
<1>6. BytesIn(S \cup {r}) = a + b BY <1>3, <1>4
<1>7. a + b = b + a
  <2>1. a \in Nat /\ b \in Nat BY <1>5
  <2> HIDE DEF a, b
  <2> QED BY <2>1
<1> QED BY <1>2, <1>6, <1>7

LEMMA BytesInMonotone ==
    \A T \in FiniteFeatures : \A S \in SUBSET T : S \in FiniteFeatures /\ BytesIn(S) <= BytesIn(T)
<1>1. \A T \in FiniteFeatures : \A S \in SUBSET T : S \in FiniteFeatures
  BY FS_Subset DEF FiniteFeatures
<1> DEFINE Bad == {T \in FiniteFeatures : \E S \in SUBSET T : ~(BytesIn(S) <= BytesIn(T))}
<1>2. ASSUME Bad # {} PROVE FALSE
  <2>1. Bad \subseteq FiniteSubsetsOf(Features) BY DEF FiniteFeatures, FiniteSubsetsOf
  <2>2. PICK T \in Bad : \A U \in Bad : U \subseteq T => U = T
    <3> HIDE DEF Bad
    <3> QED BY <1>2, <2>1, MinimalExists
  <2>3. PICK S \in SUBSET T : ~(BytesIn(S) <= BytesIn(T)) BY <2>2
  <2>4. BytesIn(S) \in Nat /\ BytesIn(T) \in Nat BY <1>1, <2>2, BytesInNat
  <2>5. S # T BY <2>3, <2>4
  <2>6. PICK r \in T : r \notin S BY <2>5
  <2>7. T \ {r} \in FiniteFeatures /\ T \ {r} \notin Bad BY <1>1, <2>2
  <2>8. S \in SUBSET (T \ {r}) BY <2>6
  <2>9. BytesIn(S) <= BytesIn(T \ {r}) BY <2>7, <2>8
  <2>10. BytesIn(T) = Bytes[r] + BytesIn(T \ {r}) BY <2>2, BytesInRemove
  <2>11. Bytes[r] \in Nat BY <2>2, RequestsAssumption DEF FiniteFeatures
  <2>12. BytesIn(T \ {r}) \in Nat BY <2>7, BytesInNat
  <2> QED BY <2>3, <2>4, <2>9, <2>10, <2>11, <2>12
<1> QED BY <1>1, <1>2

LEMMA FitsSmaller ==
    ASSUME NEW T \in SUBSET Features, NEW S \in SUBSET T, Fits(T)
    PROVE  Fits(S)
<1>1. T \in FiniteFeatures BY DEF Fits, FiniteFeatures
<1>2. S \in FiniteFeatures /\ BytesIn(S) <= BytesIn(T) BY <1>1, BytesInMonotone
<1>3. BytesIn(S) \in Nat /\ BytesIn(T) \in Nat BY <1>1, <1>2, BytesInNat
<1>4. IsFiniteSet(S) /\ Cardinality(S) <= Cardinality(T) BY FS_Subset DEF Fits
<1>5. Cardinality(S) \in Nat /\ Cardinality(T) \in Nat BY <1>4, FS_CardinalityType DEF Fits
<1> QED BY <1>2, <1>3, <1>4, <1>5, PathAssumption DEF Fits

LEMMA FitsAdmitted ==
    ASSUME NEW c, NEW r \in Features, Fits(OutstandingIn(c)), CanAdmit(c, r)
    PROVE  Fits(OutstandingIn(c) \cup {r})
<1> DEFINE S == OutstandingIn(c)
<1>1. S \in FiniteFeatures BY DEF Fits, FiniteFeatures, OutstandingIn
<1>2. CASE r \in S
  <2>1. S \cup {r} = S BY <1>2
  <2> QED BY <2>1
<1>3. CASE r \notin S
  <2>1. S \cup {r} \in FiniteFeatures /\ BytesIn(S \cup {r}) = BytesIn(S) + Bytes[r]
    <3> HIDE DEF S
    <3> QED BY <1>1, <1>3, BytesInAdd
  <2>2. Cardinality(S \cup {r}) = Cardinality(S) + 1 /\ Cardinality(S) \in Nat
    BY <1>3, FS_AddElement, FS_CardinalityType DEF Fits
  <2>3. Cardinality(S) < MaxOutstanding /\ BytesIn(S) + Bytes[r] <= Budget BY DEF CanAdmit
  <2>4. IsFiniteSet(S \cup {r}) BY <2>1 DEF FiniteFeatures
  <2> HIDE DEF S
  <2>5. Cardinality(S \cup {r}) <= MaxOutstanding BY <2>2, <2>3, PathAssumption
  <2>6. BytesIn(S \cup {r}) <= Budget BY <2>1, <2>3
  <2> QED BY <2>4, <2>5, <2>6 DEF Fits, S
<1> QED BY <1>2, <1>3

\* What the server's queue holds is a set of requests, each in one place.
LEMMA QueueIsSet ==
    ASSUME NEW q \in Seq(Features), \A i, j \in DOMAIN q : q[i] = q[j] => i = j
    PROVE  LET S == {q[i] : i \in DOMAIN q}
           IN  S \in FiniteFeatures /\ Cardinality(S) = Len(q) /\ BytesIn(S) = BytesOf(q)
<1> DEFINE n == Len(q)  Of(m) == {q[i] : i \in 1..m}
           Bad == {m \in 0..n : ~(/\ Of(m) \in FiniteFeatures
                                  /\ Cardinality(Of(m)) = m
                                  /\ BytesIn(Of(m)) = BytesOf(SubSeq(q, 1, m)))}
<1>1. n \in Nat /\ DOMAIN q = 1..n OBVIOUS
<1>2. ASSUME Bad # {} PROVE FALSE
  <2>1. PICK m \in Bad : \A k \in Bad : m <= k
    <3>1. Bad \in SUBSET Nat BY <1>1
    <3> HIDE DEF Bad
    <3> QED BY <1>2, <3>1, LeastExists
  <2>2. CASE m = 0
    <3>1. Of(0) = {} /\ SubSeq(q, 1, 0) = <<>> OBVIOUS
    <3>2. Of(0) \in FiniteFeatures /\ Cardinality(Of(0)) = 0
      BY <3>1, FS_EmptySet DEF FiniteFeatures
    <3>3. BytesIn(Of(0)) = BytesOf(SubSeq(q, 1, 0)) BY <3>1, BytesInSteps, EmptySums
    <3> QED BY <2>1, <2>2, <3>2, <3>3
  <2>3. CASE m # 0
    <3> DEFINE k == m - 1
    <3>1. k \in 0..n /\ k \in Nat /\ k + 1 = m /\ m \in 1..n /\ m \in Nat BY <1>1, <2>1, <2>3
    <3>2. k \notin Bad
      <4> HIDE DEF Bad
      <4> QED BY <2>1, <3>1
    <3>3. Of(k) \in FiniteFeatures /\ Cardinality(Of(k)) = k /\ BytesIn(Of(k)) = BytesOf(SubSeq(q, 1, k))
      BY <3>1, <3>2
    <3>4. q[m] \in Features BY <1>1, <3>1
    <3>5. q[m] \notin Of(k) BY <1>1, <3>1
    <3>6. Of(m) = Of(k) \cup {q[m]} BY <1>1, <3>1
    <3>7. SubSeq(q, 1, k) \in Seq(Features) /\ SubSeq(q, 1, m) = Append(SubSeq(q, 1, k), q[m])
      BY <1>1, <3>1
    <3> DEFINE S == Of(k)  p == SubSeq(q, 1, k)  r == q[m]
    <3> HIDE DEF S, p, r, k
    <3>8. S \in FiniteFeatures /\ r \in Features /\ r \notin S /\ p \in Seq(Features)
      BY <3>3, <3>4, <3>5, <3>7 DEF S, r, p
    <3>9. S \cup {r} \in FiniteFeatures /\ BytesIn(S \cup {r}) = BytesIn(S) + Bytes[r]
      BY <3>8, BytesInAdd
    <3>10. Cardinality(S \cup {r}) = Cardinality(S) + 1
      BY <3>8, FS_AddElement DEF FiniteFeatures
    <3>11. BytesOf(Append(p, r)) = BytesOf(p) + Bytes[r] BY <3>8, AppendSums
    <3>12. Of(m) \in FiniteFeatures /\ Cardinality(Of(m)) = m BY <3>1, <3>3, <3>6, <3>9, <3>10 DEF S, r
    <3>13. BytesIn(Of(m)) = BytesOf(SubSeq(q, 1, m)) BY <3>3, <3>6, <3>7, <3>9, <3>11 DEF S, r, p
    <3> QED BY <2>1, <3>12, <3>13
  <2> QED BY <2>2, <2>3
<1>3. n \in 0..n /\ n \notin Bad
  <2> HIDE DEF Bad
  <2> QED BY <1>1, <1>2
<1>4. SubSeq(q, 1, n) = q OBVIOUS
<1>5. {q[i] : i \in DOMAIN q} = Of(n) BY <1>1
<1> QED BY <1>3, <1>4, <1>5

-----------------------------------------------------------------------------
(* What the client's admission lets through.                                *)

LEMMA SameOutstanding ==
    ASSUME NEW c, NEW d, OutstandingIn(c) = OutstandingIn(d)
    PROVE  \A r \in Features : CanAdmit(c, r) <=> CanAdmit(d, r)
BY DEF CanAdmit

\* The waiting requests are admitted from the head, as many as fit.
LEMMA AdmittedCountIs ==
    ASSUME NEW c, NEW q \in Seq(Features)
    PROVE  LET n == AdmittedCount(c, q)
           IN  /\ n \in 0..Len(q)
               /\ \A m \in 0..(n - 1) : CanAdmit(AdmittedAfter(c, q, m), q[m + 1])
               /\ n < Len(q) => ~CanAdmit(AdmittedAfter(c, q, n), q[n + 1])
<1> DEFINE Can(m) == CanAdmit(AdmittedAfter(c, q, m), q[m + 1])
           Stop(n) == /\ \A m \in 0..(n - 1) : Can(m)
                      /\ n < Len(q) => ~Can(n)
           Full == {n \in 0..Len(q) : n = Len(q) \/ ~Can(n)}
<1>1. Len(q) \in Nat OBVIOUS
<1>2. AdmittedCount(c, q) = CHOOSE n \in 0..Len(q) : Stop(n) BY DEF AdmittedCount
<1> HIDE DEF Can
<1>3. PICK n \in Full : \A m \in Full : n <= m
  <2>1. Full \in SUBSET Nat /\ Full # {} BY <1>1
  <2> HIDE DEF Full
  <2> QED BY <2>1, LeastExists
<1>4. n \in 0..Len(q) /\ (n = Len(q) \/ ~Can(n)) BY <1>3
<1>5. \A m \in 0..(n - 1) : Can(m)
  <2> SUFFICES ASSUME NEW m \in 0..(n - 1) PROVE Can(m)
    OBVIOUS
  <2>1. m \in 0..Len(q) /\ m # Len(q) /\ m < n /\ m \in Nat /\ n \in Nat BY <1>1, <1>4
  <2>2. m \notin Full BY <1>3, <2>1
  <2> QED BY <2>1, <2>2
<1>6. Stop(n) BY <1>1, <1>4, <1>5
<1>7. AdmittedCount(c, q) \in 0..Len(q) /\ Stop(AdmittedCount(c, q))
  <2> HIDE DEF Stop
  <2> QED BY <1>2, <1>4, <1>6
<1> QED BY <1>7 DEF Can

LEMMA Drains ==
    ASSUME NEW c \in [Features -> ClientPhases], NEW q \in Seq(Features), Fits(OutstandingIn(c)),
           DrainAdmission(c, q)
    PROVE  \E n \in 0..Len(q) :
              /\ client' = AdmittedAfter(c, q, n)
              /\ waiting' = SubSeq(q, n + 1, Len(q))
              /\ Fits(OutstandingIn(client)')
              /\ waiting' # <<>> => ~CanAdmit(client', waiting'[1])
<1> DEFINE n == AdmittedCount(c, q)
           Set(m) == OutstandingIn(AdmittedAfter(c, q, m))
           Bad == {m \in 0..n : ~Fits(Set(m))}
<1>1. n \in 0..Len(q) /\ (\A m \in 0..(n - 1) : CanAdmit(AdmittedAfter(c, q, m), q[m + 1]))
      /\ (n < Len(q) => ~CanAdmit(AdmittedAfter(c, q, n), q[n + 1]))
  BY AdmittedCountIs
<1>2. client' = AdmittedAfter(c, q, n) /\ waiting' = SubSeq(q, n + 1, Len(q))
  BY DEF DrainAdmission
<1>3. Len(q) \in Nat /\ n \in Nat /\ n <= Len(q) /\ \A i \in 1..Len(q) : q[i] \in Features BY <1>1
<1> HIDE DEF n
<1>4. ASSUME Bad # {} PROVE FALSE
  <2>1. PICK m \in Bad : \A k \in Bad : m <= k
    <3>1. Bad \in SUBSET Nat BY <1>3
    <3> HIDE DEF Bad
    <3> QED BY <1>4, <3>1, LeastExists
  <2>2. CASE m = 0
    <3>1. AdmittedAfter(c, q, 0) = c
      <4>1. AdmittedAfter(c, q, 0) = [r \in Features |-> c[r]] BY DEF AdmittedAfter
      <4> QED BY <4>1
    <3> QED BY <2>1, <2>2, <3>1
  <2>3. CASE m # 0
    <3> DEFINE k == m - 1
    <3>1. k \in 0..n /\ k \in 0..(n - 1) /\ k \in Nat /\ k + 1 = m /\ m \in 1..Len(q)
      BY <1>3, <2>1, <2>3
    <3>2. k \notin Bad
      <4> HIDE DEF Bad
      <4> QED BY <2>1, <3>1
    <3>3. Fits(Set(k)) /\ CanAdmit(AdmittedAfter(c, q, k), q[m]) /\ q[m] \in Features
      BY <1>1, <1>3, <3>1, <3>2
    <3>4. Set(m) = Set(k) \cup {q[m]}
      <4>1. 1..m = (1..k) \cup {m} BY <3>1
      <4>2. \A r \in Features : (\E i \in 1..m : q[i] = r) <=> (r = q[m] \/ \E i \in 1..k : q[i] = r)
        BY <4>1
      <4>3. "sending" \in Outstanding BY DEF Outstanding
      <4>4. \A j : Set(j) = {r \in Features : (\E i \in 1..j : q[i] = r) \/ c[r] \in Outstanding}
        BY <4>3 DEF OutstandingIn, AdmittedAfter
      <4> HIDE DEF Set
      <4> QED BY <3>3, <4>2, <4>4
    <3> DEFINE b == AdmittedAfter(c, q, k)
    <3>5. Fits(OutstandingIn(b)) /\ CanAdmit(b, q[m]) BY <3>3
    <3> HIDE DEF b
    <3>6. Fits(OutstandingIn(b) \cup {q[m]}) BY <3>3, <3>5, FitsAdmitted
    <3> QED BY <2>1, <3>4, <3>6 DEF b
  <2> QED BY <2>2, <2>3
<1>5. Fits(Set(n))
  <2>1. n \in 0..n BY <1>3
  <2> QED BY <1>4, <2>1
<1>6. Fits(OutstandingIn(client)') BY <1>2, <1>5 DEF OutstandingIn
<1>7. ASSUME waiting' # <<>> PROVE ~CanAdmit(client', waiting'[1])
  <2>1. n < Len(q) BY <1>2, <1>3, <1>7
  <2>2. waiting'[1] = q[n + 1] BY <1>2, <1>3, <2>1
  <2> QED BY <1>1, <1>2, <2>1, <2>2
<1> QED BY <1>1, <1>2, <1>6, <1>7

-----------------------------------------------------------------------------
(* What the server's steps do to a client.                                  *)

\* The server reads nothing here and gives nothing back.
Onward(q) ==
    /\ phase'[q] = "unsent" <=> phase[q] = "unsent"
    /\ phase'[q] = "queued" => phase[q] = "queued"
    /\ phase[q] = "settled" => phase'[q] = "settled"

NotReopened ==
    /\ hello' = "processed"
    /\ Connected' => Connected
    /\ conn' = "open" => conn = "open"

LEMMA CleanupOnward ==
    ASSUME TypeOK, NEW p \in [Requests -> Phases], Cleanup(p)
    PROVE  \A q \in Requests :
              /\ phase'[q] = "unsent" <=> p[q] = "unsent"
              /\ phase'[q] = "queued" => p[q] = "queued"
              /\ p[q] = "settled" => phase'[q] = "settled"
<1>1. phase' = p \/ phase' = Stopping(Forgotten(p)) BY DEF Cleanup
<1> QED BY <1>1 DEF Stopping, Forgotten, Phases

LEMMA ConnectionEffects ==
    ASSUME RequestsInv, hello = "processed", ConnectionStep
    PROVE  NotReopened /\ \A q \in Requests : Onward(q)
<1>0. TypeOK /\ phase \in [Requests -> Phases] /\ ControlOK BY DEF RequestsInv, TypeOK
<1>1. CASE Close \/ OutboundFails \/ HeartbeatFires
  <2>1. UNCHANGED <<hello, transport>> BY <1>1 DEF Close, OutboundFails, HeartbeatFires
  <2>2. BeginClose(phase) \/ UNCHANGED <<conn, closeTask, phase>>
    BY <1>1 DEF Close, OutboundFails, HeartbeatFires
  <2>3. CASE BeginClose(phase)
    <3>1. Cleanup(phase) /\ conn' = "closing" /\ closeTask' = "running" BY <2>3 DEF BeginClose
    <3> QED BY <1>0, <2>1, <3>1, CleanupOnward DEF Onward, NotReopened, Connected
  <2>4. CASE UNCHANGED <<conn, closeTask, phase>> BY <2>1, <2>4 DEF Onward, NotReopened, Connected
  <2> QED BY <2>2, <2>3, <2>4
<1>2. CASE CloseTaskEnds \/ TransportEnds
  BY <1>2 DEF CloseTaskEnds, TransportEnds, requestVars, Onward, NotReopened, Connected
<1>3. ~(Start \/ TransportOpens \/ OpenFails \/ HelloArrives \/ Authenticate \/ HelloSent \/ HelloLost
        \/ RefusalSent \/ HelloContinues)
  BY <1>0 DEF ControlOK, Start, TransportOpens, OpenFails, HelloArrives, Authenticate, HelloSent,
              HelloLost, RefusalSent, HelloContinues
<1>4. CASE ReaderEnds
  <2>1. phase' = Stopping(Forgotten(phase)) \/ phase' = Forgotten(phase) BY <1>4 DEF ReaderEnds
  <2>2. \A q \in Requests : Onward(q) BY <1>0, <2>1 DEF Stopping, Forgotten, Phases, Onward
  <2>3. transport' = "ended" /\ UNCHANGED <<conn, hello>> BY <1>4 DEF ReaderEnds
  <2> QED BY <2>2, <2>3 DEF NotReopened, Connected
<1>5. CASE ReaderDrained
  <2>1. UNCHANGED <<hello, transport, closeTask>> BY <1>5 DEF ReaderDrained
  <2>2. (Cleanup(phase) /\ conn' = "closed") \/ UNCHANGED <<conn, phase>> BY <1>5 DEF ReaderDrained
  <2>3. \A q \in Requests : Onward(q) BY <1>0, <2>2, CleanupOnward DEF Onward
  <2> QED BY <2>1, <2>2, <2>3 DEF NotReopened, Connected
<1> QED BY <1>1, <1>2, <1>3, <1>4, <1>5 DEF ConnectionStep

LEMMA RequestEffects ==
    ASSUME RequestsInv, hello = "processed", NEW r \in Features, RequestStep(r)
    PROVE  /\ NotReopened
           /\ \A q \in Requests : Onward(q)
           /\ \A q \in Requests : sent'[q] > sent[q] => phase'[q] = "settled"
<1>0. /\ TypeOK /\ Holding /\ phase \in [Requests -> Phases] /\ r \in Requests
      /\ sent \in [Requests -> Nat]
  BY DEF RequestsInv, TypeOK, Holding, Requests
<1>1. RequestsInv' BY <1>0, RequestStepStep
<1>2. \A q \in Requests : phase'[q] # "settled" => sent'[q] = 0 BY <1>1 DEF RequestsInv, AnswersOK
<1>3. \A q \in Requests : sent'[q] > sent[q] => phase'[q] = "settled" BY <1>0, <1>2
<1>4. UNCHANGED connVars
  BY DEF RequestStep, AnswerSent, AnswerLost, ReplySent, ReplyLost, Expire, PendingDeadline,
         RunningDeadline, HandlerReturns, Interrupted
<1>5. NotReopened BY <1>4 DEF connVars, NotReopened, Connected
<1>6. \A q \in Requests : Onward(q)
  <2>1. CASE AnswerSent(r) \/ AnswerLost(r)
    <3>1. phase[r] = "answering" /\ Release(r, [phase EXCEPT ![r] = "settled"])
      BY <2>1 DEF AnswerSent, AnswerLost
    <3>2. \A q \in Requests :
              \/ q = r /\ phase'[q] = "settled"
              \/ q # r /\ phase'[q] = phase[q]
              \/ q # r /\ phase[q] = "queued" /\ phase'[q] = "replying"
              \/ q # r /\ phase[q] = "queued" /\ phase'[q] = "running" /\ ~aborted
      BY <1>0, <3>1, SlotReleased
    <3> QED BY <3>1, <3>2 DEF Onward
  <2>2. CASE Expire(r)
    BY <2>2 DEF Expire, Onward
  <2>3. CASE PendingDeadline(r)
    <3>1. r \in expired /\ phase' = [phase EXCEPT ![r] = "replying"]
      BY <2>3 DEF PendingDeadline, Dequeue
    <3>2. phase[r] = "queued" BY <1>0, <3>1 DEF RequestsInv, PlacesOK
    <3> QED BY <1>0, <3>1, <3>2 DEF Onward
  <2>4. CASE ReplySent(r) \/ ReplyLost(r) \/ RunningDeadline(r) \/ HandlerReturns(r) \/ Interrupted(r)
    <3>1. PICK s \in {"settled", "stopping", "answering"} :
            phase' = [phase EXCEPT ![r] = s] /\ phase[r] \in {"replying", "running", "stopping"}
      BY <2>4 DEF ReplySent, ReplyLost, RunningDeadline, HandlerReturns, Interrupted
    <3> QED BY <1>0, <3>1 DEF Onward
  <2> QED BY <2>1, <2>2, <2>3, <2>4 DEF RequestStep
<1> QED BY <1>3, <1>5, <1>6

LEMMA CancelEffects ==
    ASSUME RequestsInv, NEW r \in Features, ReceiveCancel(r)
    PROVE  NotReopened /\ (\A q \in Requests : Onward(q)) /\ phase'[r] # "queued"
<1>0. phase \in [Requests -> Phases] /\ r \in Requests BY DEF RequestsInv, TypeOK, Requests
<1>1. NotReopened BY DEF ReceiveCancel, Reading, NotReopened, Connected
<1>2. CASE CancelQueued(r)
  <2>1. r \in Queued /\ phase' = [phase EXCEPT ![r] = "replying"] BY <1>2 DEF CancelQueued, Dequeue
  <2>2. phase[r] = "queued" BY <1>0, <2>1 DEF RequestsInv, PlacesOK
  <2> QED BY <1>0, <1>1, <2>1, <2>2 DEF Onward
<1>3. CASE CancelInFlight(r)
  <2>1. r \in inFlight /\ phase' = [phase EXCEPT ![r] = IF @ = "running" THEN "stopping" ELSE @]
    BY <1>3 DEF CancelInFlight
  <2>2. phase[r] \in {"running", "stopping", "answering"}
    BY <2>1 DEF RequestsInv, PlacesOK, Occupying
  <2> QED BY <1>0, <1>1, <2>1, <2>2 DEF Onward
<1> QED BY <1>2, <1>3 DEF ReceiveCancel

LEMMA ReceiveEffects ==
    ASSUME RequestsInv, NEW r \in Features, Receive(r)
    PROVE  /\ NotReopened
           /\ phase[r] = "unsent" /\ phase'[r] # "unsent"
           /\ \A q \in Requests : q # r => Onward(q)
<1>0. TypeOK /\ phase \in [Requests -> Phases] /\ r \in Requests
  BY DEF RequestsInv, TypeOK, Requests
<1>1. phase[r] = "unsent" /\ hello = "processed" /\ UNCHANGED <<hello, transport>>
  BY DEF Receive, Reading
<1>2. CASE Overflow(r)
  <2> DEFINE p == [phase EXCEPT ![r] = "settled"]
  <2>1. p \in [Requests -> Phases] BY <1>0 DEF Phases
  <2>2. p[r] = "settled" /\ \A q \in Requests : q # r => p[q] = phase[q] BY <1>0
  <2>3. BeginClose(p) \/ (phase' = p /\ UNCHANGED <<conn, closeTask>>) BY <1>2 DEF Overflow
  <2> HIDE DEF p
  <2>4. CASE BeginClose(p)
    <3>1. Cleanup(p) /\ conn' = "closing" /\ closeTask' = "running" BY <2>4 DEF BeginClose
    <3>2. /\ \A q \in Requests :
              /\ phase'[q] = "unsent" <=> p[q] = "unsent"
              /\ phase'[q] = "queued" => p[q] = "queued"
              /\ p[q] = "settled" => phase'[q] = "settled"
      BY <1>0, <2>1, <3>1, CleanupOnward
    <3> QED BY <1>0, <1>1, <2>2, <3>1, <3>2 DEF Onward, NotReopened, Connected
  <2>5. CASE phase' = p /\ UNCHANGED <<conn, closeTask>>
    BY <1>0, <1>1, <2>2, <2>5 DEF Onward, NotReopened, Connected
  <2> QED BY <2>3, <2>4, <2>5
<1>3. CASE RefuseDuplicate(r) \/ Dispatch(r) \/ Enqueue(r) \/ Ping(r) \/ Ignore(r)
  <2>1. PICK s \in {"replying", "running", "stopping", "queued", "settled"} :
          phase' = [phase EXCEPT ![r] = s] /\ UNCHANGED <<conn, closeTask>>
    BY <1>3 DEF RefuseDuplicate, Dispatch, Begun, Enqueue, Ping, Ignore
  <2> QED BY <1>0, <1>1, <2>1 DEF Onward, NotReopened, Connected
<1> QED BY <1>2, <1>3 DEF Receive, ReceiveFeature

-----------------------------------------------------------------------------
(* What the client's steps do.                                              *)

WaitingIs(c, q) ==
    /\ \A r \in Features : c[r] = "waiting" <=> \E i \in DOMAIN q : q[i] = r
    /\ \A i, j \in DOMAIN q : q[i] = q[j] => i = j

Exact(c, q) == Connected /\ q # <<>> => ~CanAdmit(c, q[1])

LEMMA DrainedWaiting ==
    ASSUME NEW c \in [Features -> ClientPhases], NEW q \in Seq(Features), WaitingIs(c, q),
           Fits(OutstandingIn(c)), DrainAdmission(c, q)
    PROVE  /\ client' \in [Features -> ClientPhases]
           /\ waiting' \in Seq(Features)
           /\ WaitingIs(client', waiting')
           /\ Fits(OutstandingIn(client)')
           /\ waiting' # <<>> => ~CanAdmit(client', waiting'[1])
           /\ \A r \in Features : client'[r] = c[r] \/ (c[r] = "waiting" /\ client'[r] = "sending")
<1>1. PICK n \in 0..Len(q) :
        /\ client' = AdmittedAfter(c, q, n)
        /\ waiting' = SubSeq(q, n + 1, Len(q))
        /\ Fits(OutstandingIn(client)')
        /\ waiting' # <<>> => ~CanAdmit(client', waiting'[1])
  BY Drains
<1>2. /\ Len(q) \in Nat /\ DOMAIN q = 1..Len(q) /\ n \in Nat /\ n <= Len(q)
      /\ \A i \in 1..Len(q) : q[i] \in Features
  OBVIOUS
<1>3. /\ waiting' \in Seq(Features) /\ DOMAIN waiting' = 1..(Len(q) - n)
      /\ \A i \in 1..(Len(q) - n) : waiting'[i] = q[n + i]
  BY <1>1, <1>2
<1>4. \A r \in Features : client'[r] = IF \E i \in 1..n : q[i] = r THEN "sending" ELSE c[r]
  BY <1>1 DEF AdmittedAfter
<1>5. client' \in [Features -> ClientPhases]
  <2>1. \A r \in Features : (IF \E i \in 1..n : q[i] = r THEN "sending" ELSE c[r]) \in ClientPhases
    BY DEF ClientPhases
  <2> QED BY <1>1, <2>1 DEF AdmittedAfter
<1>6. \A r \in Features : client'[r] = c[r] \/ (c[r] = "waiting" /\ client'[r] = "sending")
  BY <1>2, <1>4 DEF WaitingIs
<1>7. WaitingIs(client', waiting')
  <2>1. \A i, j \in 1..Len(q) : q[i] = q[j] => i = j BY <1>2 DEF WaitingIs
  <2>2. ASSUME NEW i \in DOMAIN waiting', NEW j \in DOMAIN waiting', waiting'[i] = waiting'[j]
        PROVE  i = j
    <3>1. n + i \in 1..Len(q) /\ n + j \in 1..Len(q) /\ i \in Nat /\ j \in Nat BY <1>2, <1>3
    <3>2. q[n + i] = q[n + j] BY <1>3, <2>2
    <3>3. n + i = n + j BY <2>1, <3>1, <3>2
    <3> QED BY <1>2, <3>1, <3>3
  <2>3. ASSUME NEW r \in Features, client'[r] = "waiting"
        PROVE  \E i \in DOMAIN waiting' : waiting'[i] = r
    <3>1. c[r] = "waiting" /\ ~\E i \in 1..n : q[i] = r BY <1>4, <2>3
    <3>2. PICK k \in 1..Len(q) : q[k] = r BY <1>2, <3>1 DEF WaitingIs
    <3>3. k - n \in 1..(Len(q) - n) /\ n + (k - n) = k BY <1>2, <3>1, <3>2
    <3> QED BY <1>3, <3>2, <3>3
  <2>4. ASSUME NEW r \in Features, NEW i \in DOMAIN waiting', waiting'[i] = r
        PROVE  client'[r] = "waiting"
    <3>1. n + i \in 1..Len(q) /\ i \in Nat /\ i >= 1 /\ q[n + i] = r BY <1>2, <1>3, <2>4
    <3>2. c[r] = "waiting" BY <1>2, <3>1 DEF WaitingIs
    <3>3. ~\E k \in 1..n : q[k] = r
      <4> SUFFICES ASSUME NEW k \in 1..n, q[k] = r PROVE FALSE
        OBVIOUS
      <4>1. k \in 1..Len(q) /\ k # n + i BY <1>2, <3>1
      <4> QED BY <2>1, <3>1, <4>1
    <3> QED BY <1>4, <3>2, <3>3
  <2> QED BY <2>2, <2>3, <2>4 DEF WaitingIs
<1> QED BY <1>1, <1>3, <1>5, <1>6, <1>7

\* A request that never left the client stays away from the server, an
\* answered one is settled, and one given up is followed by a cancel frame.
Moves(q) ==
    /\ client'[q] \in {"idle", "waiting", "sending", "unsent"} =>
          client[q] \in {"idle", "waiting", "sending", "unsent"}
    /\ client'[q] \in {"early", "answered"} => client[q] \in {"early", "answered"} \/ phase[q] = "settled"
    /\ client'[q] = "aborted" =>
          client[q] = "aborted" \/ ~Connected \/ upstream' = Append(upstream, CancelFrame(q))
    /\ client'[q] = "lost" => client[q] = "lost" \/ ~Connected
    /\ client[q] = "abandoned" => client'[q] = "abandoned"

\* The frames there were, and perhaps a cancel frame behind them.
LEMMA FrameAppended ==
    ASSUME PathTypeOK, NEW f \in Frames, upstream' = Append(upstream, f)
    PROVE  /\ upstream' \in Seq(Frames)
           /\ DOMAIN upstream = 1..Len(upstream) /\ DOMAIN upstream' = 1..(Len(upstream) + 1)
           /\ Len(upstream) \in Nat /\ upstream'[Len(upstream) + 1] = f
           /\ \A i \in 1..Len(upstream) : upstream'[i] = upstream[i] /\ upstream[i] \in Frames
BY DEF PathTypeOK

LEMMA ClientStep ==
    ASSUME PathInv, UNCHANGED vars, \A q \in Features : Moves(q),
           client' \in [Features -> ClientPhases], waiting' \in Seq(Features),
           downstream' \in Seq(Features),
           \A i \in DOMAIN downstream' : \E j \in DOMAIN downstream : downstream'[i] = downstream[j],
           WaitingIs(client', waiting'), Fits(OutstandingIn(client)'), Exact(client', waiting'),
           \/ upstream' = upstream
           \/ \E r \in Features : client[r] = "accepted" /\ upstream' = Append(upstream, CancelFrame(r))
    PROVE  PathInv'
<1>0. /\ PathTypeOK /\ WaitingOK /\ KnownOK /\ FramesOK /\ CancelsOK /\ AdmissionOK
      /\ upstream \in Seq(Frames) /\ DOMAIN upstream = 1..Len(upstream) /\ Len(upstream) \in Nat
  BY DEF PathInv, PathTypeOK
<1>1. phase' = phase /\ conn' = conn /\ hello' = hello /\ transport' = transport /\ closeTask' = closeTask
  BY DEF vars, connVars, requestVars
<1>2. Connected' <=> Connected BY <1>1 DEF Connected
<1> DEFINE n == Len(upstream)
           Longer(r) == client[r] = "accepted" /\ upstream' = Append(upstream, CancelFrame(r))
<1>3. \A r \in Features : CancelFrame(r) \in Frames /\ CancelFrame(r).kind = "cancel" /\ CancelFrame(r).of = r
  BY DEF CancelFrame, Frames
<1>4. /\ upstream' \in Seq(Frames)
      /\ \/ DOMAIN upstream' = 1..n
         \/ DOMAIN upstream' = 1..(n + 1) /\ \E r \in Features : client[r] = "accepted" /\ upstream'[n + 1] = CancelFrame(r)
      /\ \A i \in 1..n : upstream'[i] = upstream[i]
  <2>1. CASE upstream' = upstream BY <1>0, <2>1
  <2>2. CASE \E r \in Features : Longer(r)
    <3>1. PICK r \in Features : Longer(r) BY <2>2
    <3> QED BY <1>0, <1>3, <3>1, FrameAppended
  <2> QED BY <2>1, <2>2
<1>5. \A i \in DOMAIN upstream' : upstream'[i].kind = "request" => i \in 1..n BY <1>0, <1>3, <1>4
<1> HIDE DEF n
<1>6. PathTypeOK' BY <1>4 DEF PathTypeOK
<1>7. WaitingOK' BY <1>0, <1>1 DEF WaitingOK, WaitingIs
<1>8. KnownOK'
  <2>1. ASSUME NEW r \in Features, client'[r] \in {"idle", "waiting", "sending", "unsent"}
        PROVE  phase'[r] = "unsent" /\ \A i \in DOMAIN upstream' : upstream'[i].of # r
    <3>1. client[r] \in {"idle", "waiting", "sending", "unsent"} BY <2>1 DEF Moves
    <3>2. phase[r] = "unsent" /\ \A i \in DOMAIN upstream : upstream[i].of # r BY <1>0, <3>1 DEF KnownOK
    <3>3. client[r] # "accepted" BY <3>1
    <3>4. \A i \in DOMAIN upstream' : i \in 1..n \/ upstream'[i].of # r
      BY <1>0, <1>3, <1>4, <3>3 DEF n
    <3> QED BY <1>0, <1>1, <1>4, <3>2, <3>4 DEF n
  <2>2. ASSUME NEW r \in Features,
               client'[r] \in {"early", "answered"} \/ (\E i \in DOMAIN downstream' : downstream'[i] = r)
        PROVE  phase'[r] = "settled"
    BY <1>0, <1>1, <2>2 DEF KnownOK, Moves
  <2> QED BY <2>1, <2>2 DEF KnownOK
<1>9. FramesOK'
  <2>1. \A i \in DOMAIN upstream' : upstream'[i].kind = "request" => phase'[upstream'[i].of] = "unsent"
    BY <1>0, <1>1, <1>4, <1>5 DEF FramesOK, n
  <2>2. \A i, j \in DOMAIN upstream' :
            upstream'[i].kind = "request" /\ upstream'[j] = upstream'[i] => i = j
    BY <1>0, <1>4, <1>5 DEF FramesOK, n
  <2>3. ASSUME NEW i \in DOMAIN upstream', NEW j \in DOMAIN upstream', upstream'[i].kind = "cancel",
               upstream'[j] = RequestFrame(upstream'[i].of)
        PROVE  j < i
    <3>1. j \in 1..n BY <1>5, <2>3 DEF RequestFrame
    <3>2. CASE i \in 1..n BY <1>0, <1>4, <2>3, <3>1, <3>2 DEF FramesOK, n
    <3>3. CASE i \notin 1..n
      <4>1. i = n + 1 /\ n \in Nat BY <1>0, <1>4, <3>3 DEF n
      <4> QED BY <3>1, <4>1
    <3> QED BY <3>2, <3>3
  <2> QED BY <2>1, <2>2, <2>3 DEF FramesOK
<1>10. CancelsOK'
  <2> SUFFICES ASSUME Connected', conn' = "open", NEW r \in Features
               PROVE  /\ client'[r] # "lost"
                      /\ client'[r] = "aborted" =>
                            \/ \E i \in DOMAIN upstream' : upstream'[i] = CancelFrame(r)
                            \/ phase'[r] # "queued" /\ \A i \in DOMAIN upstream' : upstream'[i] # RequestFrame(r)
    BY DEF CancelsOK
  <2>1. Connected /\ conn = "open" BY <1>1, <1>2
  <2>2. client'[r] # "lost" BY <1>0, <2>1 DEF CancelsOK, Moves
  <2>3. ASSUME client'[r] = "aborted"
        PROVE  \/ \E i \in DOMAIN upstream' : upstream'[i] = CancelFrame(r)
               \/ phase'[r] # "queued" /\ \A i \in DOMAIN upstream' : upstream'[i] # RequestFrame(r)
    <3>1. CASE upstream' = Append(upstream, CancelFrame(r))
      <4>1. n + 1 \in DOMAIN upstream' /\ upstream'[n + 1] = CancelFrame(r)
        <5> DEFINE f == CancelFrame(r)
        <5>1. f \in Frames /\ upstream' = Append(upstream, f) BY <1>3, <3>1
        <5> HIDE DEF f
        <5>2. DOMAIN upstream' = 1..(Len(upstream) + 1) /\ upstream'[Len(upstream) + 1] = f
          BY <1>0, <5>1, FrameAppended
        <5>3. n \in Nat /\ DOMAIN upstream' = 1..(n + 1) /\ upstream'[n + 1] = f BY <1>0, <5>2 DEF n
        <5> QED BY <5>3 DEF f
      <4> QED BY <4>1
    <3>2. CASE client[r] = "aborted"
      <4>1. CASE \E i \in DOMAIN upstream : upstream[i] = CancelFrame(r)
        BY <1>0, <1>4, <4>1 DEF n
      <4>2. CASE phase[r] # "queued" /\ \A i \in DOMAIN upstream : upstream[i] # RequestFrame(r)
        <5>1. RequestFrame(r).kind = "request" BY DEF RequestFrame
        <5> QED BY <1>0, <1>1, <1>4, <1>5, <4>2, <5>1 DEF n
      <4> QED BY <1>0, <2>1, <3>2, <4>1, <4>2 DEF CancelsOK
    <3> QED BY <2>1, <2>3, <3>1, <3>2 DEF Moves
  <2> QED BY <2>2, <2>3
<1>11. AdmissionOK'
  <2>1. ASSUME \A r \in Features : client'[r] # "abandoned", conn' = "open",
               NEW i \in DOMAIN upstream', upstream'[i].kind = "request"
        PROVE  Fits(Load(i)')
    <3>1. \A r \in Features : client[r] # "abandoned" BY <2>1 DEF Moves
    <3>2. i \in 1..n /\ i \in DOMAIN upstream /\ upstream[i].kind = "request" BY <1>0, <1>4, <1>5, <2>1 DEF n
    <3>3. Fits(Load(i)) BY <1>0, <1>1, <2>1, <3>1, <3>2 DEF AdmissionOK
    <3>4. n \in Nat BY <1>0 DEF n
    <3>5. \A j \in 1..i : j \in 1..n BY <3>2, <3>4
    <3>6. \A j \in 1..i : upstream'[j] = upstream[j] BY <1>4, <3>5
    <3>7. \A j \in 1..(i - 1) : upstream'[j] = upstream[j] BY <3>2, <3>4, <3>6
    <3>8. Load(i)' = Load(i) BY <1>1, <3>6, <3>7 DEF Load
    <3> QED BY <3>3, <3>8
  <2>2. Connected' /\ waiting' # <<>> => ~CanAdmit(client', waiting'[1]) BY <1>2 DEF Exact
  <2> QED BY <2>1, <2>2 DEF AdmissionOK
<1> QED BY <1>6, <1>7, <1>8, <1>9, <1>10, <1>11 DEF PathInv

\* Dropping what a request held, and then draining the queue.
LEMMA GivenBack ==
    ASSUME PathInv, NEW r \in Features, NEW s \in ClientPhases \ (Outstanding \cup {"waiting"}),
           client[r] \in Outstanding,
           DrainAdmission([client EXCEPT ![r] = s], waiting)
    PROVE  /\ client' \in [Features -> ClientPhases] /\ waiting' \in Seq(Features)
           /\ WaitingIs(client', waiting') /\ Fits(OutstandingIn(client)') /\ Exact(client', waiting')
           /\ client'[r] = s
           /\ \A q \in Features : q # r => client'[q] = client[q]
                                             \/ (client[q] = "waiting" /\ client'[q] = "sending")
<1> DEFINE c == [client EXCEPT ![r] = s]
<1>1. client \in [Features -> ClientPhases] /\ waiting \in Seq(Features) BY DEF PathInv, PathTypeOK
<1>2. c \in [Features -> ClientPhases] /\ c[r] = s /\ \A q \in Features : q # r => c[q] = client[q]
  BY <1>1
<1>3. r \in Features /\ client[r] # "waiting" BY DEF Outstanding
<1> HIDE DEF c
<1>4. WaitingIs(c, waiting)
  BY <1>2, <1>3 DEF PathInv, WaitingOK, WaitingIs
<1>5. Fits(OutstandingIn(c))
  <2>1. OutstandingIn(c) \subseteq OutstandingIn(client) BY <1>2 DEF OutstandingIn
  <2>2. OutstandingIn(client) \subseteq Features BY DEF OutstandingIn
  <2>3. Fits(OutstandingIn(client)) BY DEF PathInv, AdmissionOK
  <2> QED BY <2>1, <2>2, <2>3, FitsSmaller
<1>6. DrainAdmission(c, waiting) BY DEF c
<1>7. /\ client' \in [Features -> ClientPhases]
      /\ waiting' \in Seq(Features)
      /\ WaitingIs(client', waiting')
      /\ Fits(OutstandingIn(client)')
      /\ waiting' # <<>> => ~CanAdmit(client', waiting'[1])
      /\ \A q \in Features : client'[q] = c[q] \/ (c[q] = "waiting" /\ client'[q] = "sending")
  BY <1>1, <1>2, <1>4, <1>5, <1>6, DrainedWaiting
<1> QED BY <1>2, <1>7 DEF Exact

LEMMA RequestStepPath == ASSUME PathInv, NEW r \in Features, Request(r) PROVE PathInv'
<1>0. /\ client \in [Features -> ClientPhases] /\ waiting \in Seq(Features)
      /\ Fits(OutstandingIn(client)) /\ Exact(client, waiting) /\ WaitingIs(client, waiting)
      /\ downstream \in Seq(Features)
  BY DEF PathInv, PathTypeOK, AdmissionOK, Exact, WaitingOK, WaitingIs
<1>1. Connected /\ client[r] = "idle" /\ UNCHANGED <<vars, upstream, downstream>> BY DEF Request
<1>2. PICK s \in {"sending", "waiting", "unsent"} :
        /\ client' = [client EXCEPT ![r] = s]
        /\ \/ s = "sending" /\ waiting = <<>> /\ CanAdmit(client, r) /\ waiting' = waiting
           \/ s = "waiting" /\ ~(waiting = <<>> /\ CanAdmit(client, r)) /\ waiting' = Append(waiting, r)
           \/ s = "unsent" /\ waiting' = waiting
  BY DEF Request
<1>3. client' \in [Features -> ClientPhases] /\ \A q \in Features : client'[q] = IF q = r THEN s ELSE client[q]
  BY <1>0, <1>2 DEF ClientPhases
<1>4. \A q \in Features : Moves(q) BY <1>1, <1>3 DEF Moves
<1>5. /\ waiting' \in Seq(Features) /\ WaitingIs(client', waiting') /\ Fits(OutstandingIn(client)')
      /\ Exact(client', waiting')
  <2>1. CASE s = "sending"
    <3>1. waiting = <<>> /\ CanAdmit(client, r) /\ waiting' = waiting BY <1>2, <2>1
    <3>2. OutstandingIn(client)' = OutstandingIn(client) \cup {r}
      BY <1>3, <2>1 DEF OutstandingIn, Outstanding
    <3>3. Fits(OutstandingIn(client) \cup {r}) BY <1>0, <3>1, FitsAdmitted
    <3>4. WaitingIs(client', waiting') BY <1>0, <1>1, <1>3, <2>1, <3>1 DEF WaitingIs
    <3> QED BY <1>0, <3>1, <3>2, <3>3, <3>4 DEF Exact
  <2>2. CASE s # "sending"
    <3>1. OutstandingIn(client') = OutstandingIn(client)
      BY <1>1, <1>3, <2>2 DEF OutstandingIn, Outstanding
    <3>2. \A q \in Features : CanAdmit(client', q) <=> CanAdmit(client, q) BY <3>1, SameOutstanding
    <3>3. Fits(OutstandingIn(client)') BY <1>0, <3>1 DEF OutstandingIn
    <3>4. CASE s = "unsent"
      <4>1. waiting' = waiting BY <1>2, <3>4
      <4>2. WaitingIs(client', waiting') BY <1>0, <1>1, <1>3, <3>4, <4>1 DEF WaitingIs
      <4>3. waiting # <<>> => waiting[1] \in Features BY <1>0
      <4> QED BY <1>0, <3>2, <3>3, <4>1, <4>2, <4>3 DEF Exact
    <3>5. CASE s = "waiting"
      <4> DEFINE n == Len(waiting)
      <4>1. waiting' = Append(waiting, r) /\ (waiting # <<>> \/ ~CanAdmit(client, r)) BY <1>2, <3>5
      <4>2. /\ n \in Nat /\ DOMAIN waiting = 1..n /\ DOMAIN waiting' = 1..(n + 1)
            /\ waiting' \in Seq(Features) /\ waiting'[n + 1] = r
            /\ \A i \in 1..n : waiting'[i] = waiting[i] /\ waiting[i] \in Features
        BY <1>0, <4>1
      <4>3. waiting = <<>> <=> n = 0 BY <1>0
      <4> HIDE DEF n
      <4>4. WaitingIs(client', waiting')
        <5>1. /\ \A q \in Features : client[q] = "waiting" <=> \E i \in 1..n : waiting[i] = q
              /\ \A i, j \in 1..n : waiting[i] = waiting[j] => i = j
              /\ \A i \in 1..n : waiting[i] # r
          BY <1>0, <1>1, <4>2 DEF WaitingIs
        <5>2. \A i \in 1..(n + 1) : i \in 1..n \/ i = n + 1 BY <4>2
        <5>3. 1..n \subseteq 1..(n + 1) /\ n + 1 \in 1..(n + 1) BY <4>2
        <5>4. \A i, j \in 1..(n + 1) : waiting'[i] = waiting'[j] => i = j BY <4>2, <5>1, <5>2
        <5>5. \A q \in Features : client'[q] = "waiting" <=> \E i \in 1..(n + 1) : waiting'[i] = q
          BY <1>3, <3>5, <4>2, <5>1, <5>2, <5>3
        <5> QED BY <4>2, <5>4, <5>5 DEF WaitingIs
      <4>5. Exact(client', waiting')
        <5>1. CASE n = 0 BY <3>2, <4>1, <4>2, <4>3, <5>1 DEF Exact
        <5>2. CASE n # 0
          <6>1. 1 \in 1..n BY <4>2, <5>2
          <6> QED BY <1>0, <3>2, <4>2, <4>3, <5>2, <6>1 DEF Exact
        <5> QED BY <5>1, <5>2
      <4> QED BY <3>3, <4>2, <4>4, <4>5
    <3> QED BY <2>2, <3>4, <3>5
  <2> QED BY <2>1, <2>2
<1> QED BY <1>0, <1>1, <1>3, <1>4, <1>5, ClientStep

LEMMA SendAcceptedStep == ASSUME PathInv, NEW r \in Features, SendAccepted(r) PROVE PathInv'
<1>0. /\ client \in [Features -> ClientPhases] /\ waiting \in Seq(Features)
      /\ Fits(OutstandingIn(client)) /\ Exact(client, waiting) /\ WaitingIs(client, waiting)
      /\ downstream \in Seq(Features)
  BY DEF PathInv, PathTypeOK, AdmissionOK, Exact, WaitingOK, WaitingIs
<1>1. UNCHANGED <<vars, upstream, downstream>> BY DEF SendAccepted
<1>2. CASE client[r] = "handed" /\ client' = [client EXCEPT ![r] = "accepted"] /\ UNCHANGED waiting
  <2>1. client' \in [Features -> ClientPhases]
        /\ \A q \in Features : client'[q] = IF q = r THEN "accepted" ELSE client[q]
    BY <1>0, <1>2 DEF ClientPhases
  <2>2. \A q \in Features : Moves(q) BY <1>2, <2>1 DEF Moves
  <2>3. OutstandingIn(client') = OutstandingIn(client) BY <1>2, <2>1 DEF OutstandingIn, Outstanding
  <2>4. \A q \in Features : CanAdmit(client', q) <=> CanAdmit(client, q) BY <2>3, SameOutstanding
  <2>5. Fits(OutstandingIn(client)') BY <1>0, <2>3 DEF OutstandingIn
  <2>6. WaitingIs(client', waiting') BY <1>0, <1>2, <2>1 DEF WaitingIs
  <2>7. waiting # <<>> => waiting[1] \in Features BY <1>0
  <2>8. Exact(client', waiting') BY <1>0, <1>2, <2>4, <2>7 DEF Exact
  <2> QED BY <1>0, <1>1, <1>2, <2>1, <2>2, <2>5, <2>6, <2>8, ClientStep
<1>3. CASE client[r] = "early" /\ DrainAdmission([client EXCEPT ![r] = "answered"], waiting)
  <2>1. "answered" \in ClientPhases \ (Outstanding \cup {"waiting"}) /\ client[r] \in Outstanding
    BY <1>3 DEF ClientPhases, Outstanding
  <2>2. /\ client' \in [Features -> ClientPhases] /\ waiting' \in Seq(Features)
        /\ WaitingIs(client', waiting') /\ Fits(OutstandingIn(client)') /\ Exact(client', waiting')
        /\ client'[r] = "answered"
        /\ \A q \in Features : q # r => client'[q] = client[q]
                                          \/ (client[q] = "waiting" /\ client'[q] = "sending")
    BY <1>3, <2>1, GivenBack
  <2>3. \A q \in Features : Moves(q) BY <1>3, <2>2 DEF Moves
  <2> QED BY <1>0, <1>1, <2>2, <2>3, ClientStep
<1> QED BY <1>2, <1>3 DEF SendAccepted

LEMMA AbortWaitingStep == ASSUME PathInv, NEW r \in Features, AbortWaiting(r) PROVE PathInv'
<1>0. /\ client \in [Features -> ClientPhases] /\ waiting \in Seq(Features)
      /\ Fits(OutstandingIn(client)) /\ WaitingIs(client, waiting) /\ downstream \in Seq(Features)
  BY DEF PathInv, PathTypeOK, AdmissionOK, WaitingOK, WaitingIs
<1>1. client[r] = "waiting" /\ UNCHANGED <<vars, upstream, downstream>> BY DEF AbortWaiting
<1>2. PICK k \in DOMAIN waiting :
        waiting[k] = r /\ DrainAdmission([client EXCEPT ![r] = "unsent"], RemoveAt(waiting, k))
  BY DEF AbortWaiting
<1> DEFINE c == [client EXCEPT ![r] = "unsent"]
           q == RemoveAt(waiting, k)
           n == Len(waiting)
<1>3. n \in Nat /\ DOMAIN waiting = 1..n /\ k \in 1..n BY <1>0
<1>4. /\ q \in Seq(Features) /\ Len(q) = n - 1
      /\ \A j \in 1..(n - 1) : q[j] = IF j < k THEN waiting[j] ELSE waiting[j + 1]
  BY <1>0, <1>3, RemoveAtIs
<1>5. DOMAIN q = 1..(n - 1) BY <1>4
<1>6. c \in [Features -> ClientPhases] /\ \A x \in Features : c[x] = IF x = r THEN "unsent" ELSE client[x]
  BY <1>0 DEF ClientPhases
<1>7. DrainAdmission(c, q) BY <1>2
<1> HIDE DEF c, q, n
<1>8. WaitingIs(c, q)
  <2>1. /\ \A x \in Features : client[x] = "waiting" <=> \E i \in 1..n : waiting[i] = x
        /\ \A i, j \in 1..n : waiting[i] = waiting[j] => i = j
    BY <1>0, <1>3 DEF WaitingIs
  <2> DEFINE at(j) == IF j < k THEN j ELSE j + 1
  <2>2. \A j \in 1..(n - 1) : at(j) \in 1..n /\ at(j) # k /\ q[j] = waiting[at(j)] BY <1>3, <1>4
  <2>3. \A i, j \in 1..(n - 1) : at(i) = at(j) => i = j BY <1>3
  <2>4. \A i \in 1..n : i # k => \E j \in 1..(n - 1) : at(j) = i
    <3> SUFFICES ASSUME NEW i \in 1..n, i # k PROVE \E j \in 1..(n - 1) : at(j) = i
      OBVIOUS
    <3>1. CASE i < k
      <4>1. i \in 1..(n - 1) /\ at(i) = i BY <1>3, <3>1
      <4> QED BY <4>1
    <3>2. CASE i > k
      <4>1. i - 1 \in 1..(n - 1) /\ at(i - 1) = i BY <1>3, <3>2
      <4> QED BY <4>1
    <3> QED BY <1>3, <3>1, <3>2
  <2> HIDE DEF at
  <2>5. \A i, j \in 1..(n - 1) : q[i] = q[j] => i = j BY <2>1, <2>2, <2>3
  <2>6. ASSUME NEW x \in Features, c[x] = "waiting" PROVE \E j \in 1..(n - 1) : q[j] = x
    <3>1. x # r /\ client[x] = "waiting" BY <1>6, <2>6
    <3>2. PICK i \in 1..n : waiting[i] = x BY <2>1, <3>1
    <3>3. i # k BY <1>2, <3>1, <3>2
    <3> QED BY <2>2, <2>4, <3>2, <3>3
  <2>7. ASSUME NEW x \in Features, NEW j \in 1..(n - 1), q[j] = x PROVE c[x] = "waiting"
    <3>1. at(j) \in 1..n /\ at(j) # k /\ waiting[at(j)] = x BY <2>2, <2>7
    <3>2. client[x] = "waiting" BY <2>1, <3>1
    <3>3. x # r BY <1>2, <1>3, <2>1, <3>1
    <3> QED BY <1>6, <3>2, <3>3
  <2> QED BY <1>5, <2>5, <2>6, <2>7 DEF WaitingIs
<1>9. Fits(OutstandingIn(c))
  <2>1. OutstandingIn(c) = OutstandingIn(client) BY <1>1, <1>6 DEF OutstandingIn, Outstanding
  <2> QED BY <1>0, <2>1
<1>10. /\ client' \in [Features -> ClientPhases]
       /\ waiting' \in Seq(Features)
       /\ WaitingIs(client', waiting')
       /\ Fits(OutstandingIn(client)')
       /\ waiting' # <<>> => ~CanAdmit(client', waiting'[1])
       /\ \A x \in Features : client'[x] = c[x] \/ (c[x] = "waiting" /\ client'[x] = "sending")
  BY <1>4, <1>6, <1>7, <1>8, <1>9, DrainedWaiting
<1>11. \A x \in Features : Moves(x) BY <1>1, <1>6, <1>10 DEF Moves
<1> QED BY <1>0, <1>1, <1>10, <1>11, ClientStep DEF Exact

LEMMA AbortOutstandingStep == ASSUME PathInv, NEW r \in Features, AbortOutstanding(r) PROVE PathInv'
<1>0. client \in [Features -> ClientPhases] /\ downstream \in Seq(Features)
  BY DEF PathInv, PathTypeOK
<1>1. client[r] \in Outstanding /\ UNCHANGED <<vars, downstream>> BY DEF AbortOutstanding
<1> DEFINE s == Abandoned(client[r])
<1>2. DrainAdmission([client EXCEPT ![r] = s], waiting) BY DEF AbortOutstanding
<1>3. upstream' = IF client[r] = "accepted" /\ Connected THEN Append(upstream, CancelFrame(r)) ELSE upstream
  BY DEF AbortOutstanding, CancelFrame
<1>4. /\ s \in {"unsent", "aborted", "abandoned"}
      /\ s = "unsent" => client[r] = "sending"
      /\ s = "aborted" => client[r] = "accepted"
  BY <1>1 DEF Abandoned, Outstanding
<1>5. s \in ClientPhases \ (Outstanding \cup {"waiting"}) BY <1>4 DEF ClientPhases, Outstanding
<1> HIDE DEF s
<1>6. /\ client' \in [Features -> ClientPhases] /\ waiting' \in Seq(Features)
      /\ WaitingIs(client', waiting') /\ Fits(OutstandingIn(client)') /\ Exact(client', waiting')
      /\ client'[r] = s
      /\ \A q \in Features : q # r => client'[q] = client[q]
                                        \/ (client[q] = "waiting" /\ client'[q] = "sending")
  BY <1>1, <1>2, <1>5, GivenBack
<1>7. Moves(r)
  BY <1>1, <1>3, <1>4, <1>6 DEF Moves, Outstanding
<1>8. \A q \in Features : q # r => Moves(q) BY <1>6 DEF Moves
<1>9. \/ upstream' = upstream
      \/ \E q \in Features : client[q] = "accepted" /\ upstream' = Append(upstream, CancelFrame(q))
  BY <1>3
<1> QED BY <1>0, <1>1, <1>6, <1>7, <1>8, <1>9, ClientStep

LEMMA ClientReceivesStep == ASSUME PathInv, ClientReceives PROVE PathInv'
<1>0. /\ client \in [Features -> ClientPhases] /\ waiting \in Seq(Features)
      /\ Fits(OutstandingIn(client)) /\ Exact(client, waiting) /\ WaitingIs(client, waiting)
      /\ downstream \in Seq(Features)
  BY DEF PathInv, PathTypeOK, AdmissionOK, Exact, WaitingOK, WaitingIs
<1>1. downstream # <<>> /\ downstream' = Tail(downstream) /\ UNCHANGED <<vars, upstream>>
  BY DEF ClientReceives
<1>2. /\ downstream' \in Seq(Features)
      /\ \A i \in DOMAIN downstream' : \E j \in DOMAIN downstream : downstream'[i] = downstream[j]
  <2>1. /\ Tail(downstream) \in Seq(Features) /\ Len(downstream) \in Nat
        /\ DOMAIN Tail(downstream) = 1..(Len(downstream) - 1) /\ DOMAIN downstream = 1..Len(downstream)
        /\ \A i \in 1..(Len(downstream) - 1) : Tail(downstream)[i] = downstream[i + 1]
    BY <1>0, <1>1
  <2>2. \A i \in 1..(Len(downstream) - 1) : i + 1 \in 1..Len(downstream) BY <2>1
  <2> QED BY <1>1, <2>1, <2>2
<1> DEFINE r == Head(downstream)
<1>3. r \in Features /\ \E i \in DOMAIN downstream : downstream[i] = r
  <2>1. r = downstream[1] /\ 1 \in DOMAIN downstream BY <1>0, <1>1
  <2> QED BY <1>0, <2>1
<1>4. \/ client[r] = "accepted" /\ DrainAdmission([client EXCEPT ![r] = "answered"], waiting)
      \/ client[r] = "handed" /\ client' = [client EXCEPT ![r] = "early"] /\ UNCHANGED waiting
      \/ client[r] \notin {"accepted", "handed"} /\ UNCHANGED <<client, waiting>>
  BY DEF ClientReceives
<1> HIDE DEF r
<1>5. phase[r] = "settled" BY <1>3 DEF PathInv, KnownOK
<1>6. CASE client[r] = "accepted" /\ DrainAdmission([client EXCEPT ![r] = "answered"], waiting)
  <2>1. "answered" \in ClientPhases \ (Outstanding \cup {"waiting"}) /\ client[r] \in Outstanding
    BY <1>6 DEF ClientPhases, Outstanding
  <2>2. /\ client' \in [Features -> ClientPhases] /\ waiting' \in Seq(Features)
        /\ WaitingIs(client', waiting') /\ Fits(OutstandingIn(client)') /\ Exact(client', waiting')
        /\ client'[r] = "answered"
        /\ \A q \in Features : q # r => client'[q] = client[q]
                                          \/ (client[q] = "waiting" /\ client'[q] = "sending")
    BY <1>3, <1>6, <2>1, GivenBack
  <2>3. \A q \in Features : Moves(q) BY <1>5, <1>6, <2>2 DEF Moves
  <2> QED BY <1>1, <1>2, <2>2, <2>3, ClientStep
<1>7. CASE /\ client[r] = "handed" /\ client' = [client EXCEPT ![r] = "early"] /\ UNCHANGED waiting
  <2>1. client' \in [Features -> ClientPhases]
        /\ \A q \in Features : client'[q] = IF q = r THEN "early" ELSE client[q]
    BY <1>0, <1>7 DEF ClientPhases
  <2>2. \A q \in Features : Moves(q) BY <1>5, <1>7, <2>1 DEF Moves
  <2>3. OutstandingIn(client') = OutstandingIn(client) BY <1>7, <2>1 DEF OutstandingIn, Outstanding
  <2>4. \A q \in Features : CanAdmit(client', q) <=> CanAdmit(client, q) BY <2>3, SameOutstanding
  <2>5. Fits(OutstandingIn(client)') BY <1>0, <2>3 DEF OutstandingIn
  <2>6. WaitingIs(client', waiting') BY <1>0, <1>7, <2>1 DEF WaitingIs
  <2>7. waiting # <<>> => waiting[1] \in Features BY <1>0
  <2>8. Exact(client', waiting') BY <1>0, <1>7, <2>4, <2>7 DEF Exact
  <2> QED BY <1>0, <1>1, <1>2, <1>7, <2>1, <2>2, <2>5, <2>6, <2>8, ClientStep
<1>8. CASE UNCHANGED <<client, waiting>>
  <2>1. \A q \in Features : Moves(q) BY <1>8 DEF Moves
  <2>2. Fits(OutstandingIn(client)') BY <1>0, <1>8 DEF OutstandingIn
  <2>3. Exact(client', waiting') /\ WaitingIs(client', waiting') BY <1>0, <1>8
  <2> QED BY <1>0, <1>1, <1>2, <1>8, <2>1, <2>2, <2>3, ClientStep
<1> QED BY <1>4, <1>6, <1>7, <1>8

LEMMA ClientDisconnectsStep == ASSUME PathInv, ClientDisconnects PROVE PathInv'
<1>0. client \in [Features -> ClientPhases] /\ downstream \in Seq(Features) BY DEF PathInv, PathTypeOK
<1>1. transport = "ended" /\ waiting' = <<>> /\ UNCHANGED <<vars, upstream, downstream>>
  BY DEF ClientDisconnects
<1> DEFINE to(q) == IF client[q] \in {"waiting", "sending"} THEN "unsent"
                    ELSE IF client[q] \in Outstanding THEN "lost" ELSE client[q]
<1>2. client' = [q \in Features |-> to(q)] BY DEF ClientDisconnects
<1>3. \A q \in Features : to(q) \in ClientPhases /\ to(q) \notin Outstanding \cup {"waiting"}
  BY <1>0 DEF ClientPhases, Outstanding
<1>4. client' \in [Features -> ClientPhases] BY <1>2, <1>3
<1>5. ~Connected BY <1>1 DEF Connected
<1>6. \A q \in Features : Moves(q) BY <1>0, <1>2, <1>5 DEF Moves, Outstanding
<1>7. Fits(OutstandingIn(client)')
  <2>1. OutstandingIn(client)' = {} BY <1>2, <1>3 DEF OutstandingIn
  <2> QED BY <2>1, FS_EmptySet, BytesInSteps, PathAssumption DEF Fits
<1>8. waiting' \in Seq(Features) /\ DOMAIN waiting' = {}
  <2>1. <<>> \in Seq(Features) /\ DOMAIN <<>> = {} OBVIOUS
  <2> QED BY <1>1, <2>1
<1>9. WaitingIs(client', waiting') BY <1>2, <1>3, <1>8 DEF WaitingIs
<1> QED BY <1>0, <1>1, <1>4, <1>5, <1>6, <1>7, <1>8, <1>9, ClientStep DEF Exact

LEMMA FrameIs ==
    /\ \A f \in Frames : f.kind = "request" => f = RequestFrame(f.of)
    /\ \A f \in Frames : f.kind = "cancel" => f = CancelFrame(f.of)
    /\ \A f \in Frames : f.kind \in {"request", "cancel"} /\ f.of \in Features
    /\ \A r \in Features : RequestFrame(r) \in Frames /\ RequestFrame(r).kind = "request" /\ RequestFrame(r).of = r
    /\ \A r \in Features : CancelFrame(r) \in Frames /\ CancelFrame(r).kind = "cancel" /\ CancelFrame(r).of = r
BY DEF Frames, RequestFrame, CancelFrame

\* The socket takes a frame: what the server may then have to hold at once is
\* among what the client still counts as outstanding.
LEMMA HandStep == ASSUME PathInv, NEW r \in Features, Hand(r) PROVE PathInv'
<1>0. /\ PathTypeOK /\ WaitingOK /\ KnownOK /\ FramesOK /\ CancelsOK /\ AdmissionOK
      /\ client \in [Features -> ClientPhases] /\ upstream \in Seq(Frames)
      /\ waiting \in Seq(Features) /\ downstream \in Seq(Features)
  BY DEF PathInv, PathTypeOK
<1>1. /\ Connected /\ client[r] = "sending" /\ upstream' = Append(upstream, RequestFrame(r))
      /\ client' = [client EXCEPT ![r] = "handed"]
      /\ waiting' = waiting /\ downstream' = downstream
      /\ phase' = phase /\ conn' = conn /\ hello' = hello /\ transport' = transport
      /\ closeTask' = closeTask
  BY DEF Hand, RequestFrame, vars, connVars, requestVars
<1> DEFINE n == Len(upstream)
<1>2. /\ upstream' \in Seq(Frames) /\ n \in Nat /\ DOMAIN upstream = 1..n
      /\ DOMAIN upstream' = 1..(n + 1) /\ upstream'[n + 1] = RequestFrame(r)
      /\ \A i \in 1..n : upstream'[i] = upstream[i] /\ upstream[i] \in Frames
  <2> DEFINE f == RequestFrame(r)
  <2>1. f \in Frames /\ upstream' = Append(upstream, f) BY <1>1, FrameIs
  <2> HIDE DEF f
  <2>2. /\ upstream' \in Seq(Frames)
        /\ DOMAIN upstream = 1..Len(upstream) /\ DOMAIN upstream' = 1..(Len(upstream) + 1)
        /\ Len(upstream) \in Nat /\ upstream'[Len(upstream) + 1] = f
        /\ \A i \in 1..Len(upstream) : upstream'[i] = upstream[i] /\ upstream[i] \in Frames
    BY <1>0, <2>1, FrameAppended
  <2> QED BY <2>2 DEF f
<1> HIDE DEF n
<1>3. RequestFrame(r).kind = "request" /\ RequestFrame(r).of = r BY FrameIs
<1>4. \A i \in 1..(n + 1) : i \in 1..n \/ i = n + 1 BY <1>2
<1>5. client' \in [Features -> ClientPhases]
      /\ \A q \in Features : client'[q] = IF q = r THEN "handed" ELSE client[q]
  BY <1>0, <1>1 DEF ClientPhases
<1>6. phase[r] = "unsent" /\ \A i \in 1..n : upstream[i].of # r BY <1>0, <1>1, <1>2 DEF KnownOK
<1>7. PathTypeOK' BY <1>0, <1>1, <1>2, <1>5 DEF PathTypeOK
<1>8. WaitingOK' BY <1>0, <1>1, <1>5 DEF WaitingOK
<1>9. KnownOK'
  <2>1. ASSUME NEW q \in Features, client'[q] \in {"idle", "waiting", "sending", "unsent"}
        PROVE  phase'[q] = "unsent" /\ \A i \in DOMAIN upstream' : upstream'[i].of # q
    <3>1. q # r /\ client[q] \in {"idle", "waiting", "sending", "unsent"} BY <1>5, <2>1
    <3>2. phase[q] = "unsent" /\ \A i \in 1..n : upstream[i].of # q BY <1>0, <1>2, <3>1 DEF KnownOK
    <3> QED BY <1>1, <1>2, <1>3, <1>4, <3>1, <3>2
  <2>2. ASSUME NEW q \in Features,
               client'[q] \in {"early", "answered"} \/ (\E i \in DOMAIN downstream' : downstream'[i] = q)
        PROVE  phase'[q] = "settled"
    BY <1>0, <1>1, <1>5, <2>2 DEF KnownOK
  <2> QED BY <2>1, <2>2 DEF KnownOK
<1>10. FramesOK'
  <2>1. \A i \in DOMAIN upstream' : upstream'[i].kind = "request" => phase'[upstream'[i].of] = "unsent"
    BY <1>0, <1>1, <1>2, <1>3, <1>4, <1>6 DEF FramesOK
  <2>2. ASSUME NEW i \in DOMAIN upstream', NEW j \in DOMAIN upstream',
               upstream'[i].kind = "request", upstream'[j] = upstream'[i]
        PROVE  i = j
    <3>1. (i \in 1..n \/ i = n + 1) /\ (j \in 1..n \/ j = n + 1) BY <1>2, <1>4
    <3>2. i \in 1..n => upstream'[i].of # r BY <1>2, <1>6
    <3>3. j \in 1..n => upstream'[j].of # r BY <1>2, <1>6
    <3>4. CASE i \in 1..n /\ j \in 1..n BY <1>0, <1>2, <2>2, <3>4 DEF FramesOK
    <3> QED BY <1>2, <1>3, <2>2, <3>1, <3>2, <3>3, <3>4
  <2>3. ASSUME NEW i \in DOMAIN upstream', NEW j \in DOMAIN upstream', upstream'[i].kind = "cancel",
               upstream'[j] = RequestFrame(upstream'[i].of)
        PROVE  j < i
    <3>1. i \in 1..n BY <1>2, <1>3, <1>4, <2>3
    <3>2. upstream'[i] \in Frames /\ upstream'[i].of # r BY <1>2, <1>6, <3>1
    <3>3. upstream'[j].of # r BY <2>3, <3>2, FrameIs
    <3>4. j \in 1..n BY <1>2, <1>3, <1>4, <3>3
    <3> QED BY <1>0, <1>2, <2>3, <3>1, <3>4 DEF FramesOK
  <2> QED BY <2>1, <2>2, <2>3 DEF FramesOK
<1>11. CancelsOK'
  <2> SUFFICES ASSUME Connected', conn' = "open", NEW q \in Features
               PROVE  /\ client'[q] # "lost"
                      /\ client'[q] = "aborted" =>
                            \/ \E i \in DOMAIN upstream' : upstream'[i] = CancelFrame(q)
                            \/ phase'[q] # "queued" /\ \A i \in DOMAIN upstream' : upstream'[i] # RequestFrame(q)
    BY DEF CancelsOK
  <2>1. conn = "open" BY <1>1
  <2>2. client'[q] # "lost" BY <1>0, <1>1, <1>5, <2>1 DEF CancelsOK
  <2>3. ASSUME client'[q] = "aborted"
        PROVE  \/ \E i \in DOMAIN upstream' : upstream'[i] = CancelFrame(q)
               \/ phase'[q] # "queued" /\ \A i \in DOMAIN upstream' : upstream'[i] # RequestFrame(q)
    <3>1. q # r /\ client[q] = "aborted" BY <1>5, <2>3
    <3>2. RequestFrame(q).of = q BY FrameIs
    <3>3. \/ \E i \in 1..n : upstream[i] = CancelFrame(q)
          \/ phase[q] # "queued" /\ \A i \in 1..n : upstream[i] # RequestFrame(q)
      BY <1>0, <1>1, <1>2, <2>1, <3>1 DEF CancelsOK
    <3>4. CASE \E i \in 1..n : upstream[i] = CancelFrame(q)
      <4>1. PICK i \in 1..n : upstream[i] = CancelFrame(q) BY <3>4
      <4>2. i \in 1..(n + 1) BY <1>2
      <4> QED BY <1>2, <4>1, <4>2
    <3>5. CASE phase[q] # "queued" /\ \A i \in 1..n : upstream[i] # RequestFrame(q)
      BY <1>1, <1>2, <1>3, <1>4, <3>1, <3>2, <3>5
    <3> QED BY <3>3, <3>4, <3>5
  <2> QED BY <2>2, <2>3
<1>12. AdmissionOK'
  <2>1. OutstandingIn(client') = OutstandingIn(client)
    BY <1>1, <1>5 DEF OutstandingIn, Outstanding
  <2>2. \A q \in Features : CanAdmit(client', q) <=> CanAdmit(client, q) BY <2>1, SameOutstanding
  <2>3. Fits(OutstandingIn(client)') BY <1>0, <2>1 DEF OutstandingIn, AdmissionOK
  <2>4. waiting # <<>> => waiting[1] \in Features BY <1>0
  <2>5. Connected' /\ waiting' # <<>> => ~CanAdmit(client', waiting'[1])
    BY <1>0, <1>1, <2>2, <2>4 DEF AdmissionOK
  <2>6. ASSUME \A q \in Features : client'[q] # "abandoned", conn' = "open",
               NEW i \in DOMAIN upstream', upstream'[i].kind = "request"
        PROVE  Fits(Load(i)')
    <3>1. \A q \in Features : client[q] # "abandoned" BY <1>1, <1>5, <2>6
    <3>2. CASE i \in 1..n
      <4>1. Fits(Load(i)) BY <1>0, <1>1, <1>2, <2>6, <3>1, <3>2 DEF AdmissionOK
      <4>2. \A j \in 1..i : j \in 1..n /\ upstream'[j] = upstream[j] BY <1>2, <3>2
      <4>3. \A j \in 1..(i - 1) : upstream'[j] = upstream[j] BY <1>2, <3>2, <4>2
      <4>4. Load(i)' = Load(i) BY <1>1, <4>2, <4>3 DEF Load
      <4> QED BY <4>1, <4>4
    <3>3. CASE i = n + 1
      <4>1. ASSUME NEW q \in Load(i)' PROVE q \in OutstandingIn(client)
        <5>1. /\ q \in Features
              /\ phase[q] = "queued" \/ \E j \in 1..(n + 1) : upstream'[j] = RequestFrame(q)
              /\ \A j \in 1..n : upstream'[j] # CancelFrame(q)
          BY <1>1, <1>2, <3>3, <4>1 DEF Load
        <5>2. CASE q = r BY <1>1, <5>1, <5>2 DEF OutstandingIn, Outstanding
        <5>3. CASE q # r
          <6>1. RequestFrame(q) # RequestFrame(r) BY <1>3, <5>1, <5>3, FrameIs
          <6>2. phase[q] = "queued" \/ \E j \in 1..n : upstream[j] = RequestFrame(q)
            BY <1>2, <1>4, <5>1, <6>1
          <6>3. \A j \in 1..n : upstream[j] # CancelFrame(q) BY <1>2, <5>1
          <6>10. RequestFrame(q).kind = "request" /\ RequestFrame(q).of = q BY <5>1, FrameIs
          <6>11. phase[q] = "queued" \/ \E j \in 1..n : upstream[j].kind = "request" /\ upstream[j].of = q
            BY <6>2, <6>10
          <6>4. client[q] \notin {"idle", "waiting", "sending", "unsent"}
            BY <1>0, <1>2, <5>1, <6>11 DEF KnownOK
          <6>5. phase[q] = "queued" \/ phase[q] = "unsent"
            BY <1>0, <1>2, <5>1, <6>11 DEF FramesOK
          <6>6. client[q] \notin {"answered"} BY <1>0, <5>1, <6>5 DEF KnownOK
          <6>7. client[q] \notin {"aborted", "lost"}
            BY <1>0, <1>1, <1>2, <2>6, <5>1, <6>2, <6>3 DEF CancelsOK
          <6>8. client[q] # "abandoned" BY <3>1, <5>1
          <6>9. client[q] \in ClientPhases BY <1>0, <5>1
          <6> QED BY <5>1, <6>4, <6>6, <6>7, <6>8, <6>9 DEF ClientPhases, OutstandingIn, Outstanding
        <5> QED BY <5>2, <5>3
      <4>2. OutstandingIn(client) \in SUBSET Features BY DEF OutstandingIn
      <4>3. Load(i)' \in SUBSET OutstandingIn(client) BY <4>1
      <4>4. Fits(OutstandingIn(client)) BY <1>0 DEF AdmissionOK
      <4> QED BY <4>2, <4>3, <4>4, FitsSmaller
    <3> QED BY <1>2, <1>4, <3>2, <3>3
  <2> QED BY <2>3, <2>5, <2>6 DEF AdmissionOK
<1> QED BY <1>7, <1>8, <1>9, <1>10, <1>11, <1>12 DEF PathInv

\* The server works, and perhaps answers a request it settled.
LEMMA QuietStep ==
    ASSUME PathInv, NotReopened, \A q \in Features : Onward(q), UNCHANGED <<client, waiting, upstream>>,
           downstream' \in Seq(Features),
           \A i \in DOMAIN downstream' :
              (\E j \in DOMAIN downstream : downstream'[i] = downstream[j]) \/ phase'[downstream'[i]] = "settled"
    PROVE  PathInv'
<1>0. /\ PathTypeOK /\ WaitingOK /\ KnownOK /\ FramesOK /\ CancelsOK /\ AdmissionOK
      /\ upstream \in Seq(Frames)
  BY DEF PathInv, PathTypeOK
<1>1. upstream' = upstream /\ client' = client /\ waiting' = waiting OBVIOUS
<1>2. \A i \in DOMAIN upstream : upstream[i] \in Frames /\ upstream[i].of \in Features BY <1>0, FrameIs
<1>3. PathTypeOK' BY <1>0 DEF PathTypeOK
<1>4. WaitingOK' BY <1>0, <1>1 DEF WaitingOK, NotReopened
<1>5. KnownOK'
  <2>1. \A r \in Features : client'[r] \in {"idle", "waiting", "sending", "unsent"} =>
          phase'[r] = "unsent" /\ \A i \in DOMAIN upstream' : upstream'[i].of # r
    BY <1>0, <1>1 DEF KnownOK, Onward
  <2>2. \A r \in Features : (\E i \in DOMAIN downstream : downstream[i] = r) => phase'[r] = "settled"
    BY <1>0 DEF KnownOK, Onward
  <2>3. \A r \in Features :
          client'[r] \in {"early", "answered"} \/ (\E i \in DOMAIN downstream' : downstream'[i] = r) =>
             phase'[r] = "settled"
    BY <1>0, <1>1, <2>2 DEF KnownOK, Onward
  <2> QED BY <2>1, <2>3 DEF KnownOK
<1>6. FramesOK' BY <1>0, <1>1, <1>2 DEF FramesOK, Onward
<1>7. CancelsOK' BY <1>0, <1>1 DEF CancelsOK, NotReopened, Onward
<1>8. AdmissionOK'
  <2>1. Fits(OutstandingIn(client)') BY <1>0, <1>1 DEF AdmissionOK, OutstandingIn
  <2>2. Connected' /\ waiting' # <<>> => ~CanAdmit(client', waiting'[1])
    BY <1>0, <1>1 DEF AdmissionOK, NotReopened
  <2>3. ASSUME \A q \in Features : client'[q] # "abandoned", conn' = "open",
               NEW i \in DOMAIN upstream', upstream'[i].kind = "request"
        PROVE  Fits(Load(i)')
    <3>1. Fits(Load(i)) BY <1>0, <1>1, <2>3 DEF AdmissionOK, NotReopened
    <3>2. Load(i)' \in SUBSET Load(i) BY <1>1 DEF Load, Onward
    <3>3. Load(i) \in SUBSET Features BY DEF Load
    <3> QED BY <3>1, <3>2, <3>3, FitsSmaller
  <2> QED BY <2>1, <2>2, <2>3 DEF AdmissionOK
<1> QED BY <1>3, <1>4, <1>5, <1>6, <1>7, <1>8 DEF PathInv

LEMMA ServerWorksStep == ASSUME PathInv, RequestsInv, ServerWorks PROVE PathInv'
<1>1. hello = "processed" /\ downstream \in Seq(Features) BY DEF PathInv, WaitingOK, PathTypeOK
<1>2. PICK r \in Features : RequestStep(r) BY DEF ServerWorks
<1>3. /\ NotReopened /\ \A q \in Requests : Onward(q)
      /\ \A q \in Requests : sent'[q] > sent[q] => phase'[q] = "settled"
  BY <1>1, <1>2, RequestEffects
<1>4. Features \subseteq Requests BY DEF Requests
<1> DEFINE a == CHOOSE q \in Features : Answers[q]
<1>5. /\ UNCHANGED <<client, waiting, upstream>>
      /\ downstream' = IF \E q \in Features : Answers[q] THEN Append(downstream, a) ELSE downstream
  BY DEF ServerWorks
<1>6. CASE \E q \in Features : Answers[q]
  <2>1. a \in Features /\ Answers[a] BY <1>6
  <2> HIDE DEF a
  <2>2. phase'[a] = "settled" BY <1>3, <1>4, <2>1 DEF Answers
  <2>3. downstream' = Append(downstream, a) BY <1>5, <1>6
  <2>4. /\ downstream' \in Seq(Features)
        /\ \A i \in DOMAIN downstream' :
              (i \in DOMAIN downstream /\ downstream'[i] = downstream[i]) \/ downstream'[i] = a
    BY <1>1, <2>1, <2>3
  <2> QED BY <1>3, <1>4, <1>5, <2>2, <2>4, QuietStep
<1>7. CASE ~\E q \in Features : Answers[q]
  <2>1. downstream' = downstream BY <1>5, <1>7
  <2> QED BY <1>1, <1>3, <1>4, <1>5, <2>1, QuietStep
<1> QED BY <1>6, <1>7

LEMMA ConnectionEndsStep == ASSUME PathInv, RequestsInv, ConnectionEnds PROVE PathInv'
<1>1. hello = "processed" /\ downstream \in Seq(Features) BY DEF PathInv, WaitingOK, PathTypeOK
<1>2. ConnectionStep /\ UNCHANGED <<client, waiting, upstream, downstream>>
  BY DEF ConnectionEnds, clientVars
<1>3. NotReopened /\ \A q \in Requests : Onward(q) BY <1>1, <1>2, ConnectionEffects
<1>4. Features \subseteq Requests BY DEF Requests
<1> QED BY <1>1, <1>2, <1>3, <1>4, QuietStep

\* The server reads a frame: what it may hold when it reads a later one was
\* already to be expected, because a request's cancel frame follows it.
LEMMA ServerReadsStep == ASSUME PathInv, RequestsInv, ServerReads PROVE PathInv'
<1>0. /\ PathTypeOK /\ WaitingOK /\ KnownOK /\ FramesOK /\ CancelsOK /\ AdmissionOK
      /\ upstream \in Seq(Frames) /\ hello = "processed" /\ PlacesOK
  BY DEF PathInv, PathTypeOK, WaitingOK, RequestsInv
<1> DEFINE n == Len(upstream)  h == Head(upstream)  of == h.of
<1>1. /\ upstream # <<>> /\ upstream' = Tail(upstream)
      /\ client' = client /\ waiting' = waiting /\ downstream' = downstream
  BY DEF ServerReads
<1>2. /\ n \in Nat /\ n >= 1 /\ 1 \in 1..n /\ DOMAIN upstream = 1..n /\ upstream' \in Seq(Frames)
      /\ DOMAIN upstream' = 1..(n - 1) /\ h = upstream[1]
      /\ \A i \in 1..(n - 1) : i + 1 \in 1..n /\ upstream'[i] = upstream[i + 1]
      /\ \A i \in 1..n : upstream[i] \in Frames
  BY <1>0, <1>1
<1>3. h \in Frames /\ of \in Features BY <1>2, FrameIs
<1>4. /\ \/ h.kind = "request" /\ Receive(of)
         \/ h.kind = "cancel" /\ ReceiveCancel(of)
         \/ h.kind = "cancel" /\ (conn # "open" \/ of \notin Queued \cup inFlight) /\ UNCHANGED vars
  BY DEF ServerReads
<1> HIDE DEF n, h, of
<1>5. /\ NotReopened
      /\ \A q \in Features : (q # of \/ h.kind = "cancel") => Onward(q)
      /\ h.kind = "request" => phase[of] = "unsent" /\ phase'[of] # "unsent"
      /\ h.kind = "cancel" /\ conn = "open" => phase'[of] # "queued"
  <2>1. \A q \in Features : q \in Requests BY DEF Requests
  <2>2. CASE h.kind = "request" /\ Receive(of)
    <3>1. /\ NotReopened /\ phase[of] = "unsent" /\ phase'[of] # "unsent"
          /\ \A q \in Requests : q # of => Onward(q)
      BY <1>3, <2>2, ReceiveEffects
    <3> QED BY <2>1, <2>2, <3>1
  <2>3. CASE h.kind = "cancel" /\ ReceiveCancel(of)
    <3>1. NotReopened /\ (\A q \in Requests : Onward(q)) /\ phase'[of] # "queued"
      BY <1>3, <2>3, CancelEffects
    <3> QED BY <2>1, <2>3, <3>1
  <2>4. CASE /\ h.kind = "cancel" /\ (conn # "open" \/ of \notin Queued \cup inFlight) /\ UNCHANGED vars
    <3>1. phase' = phase /\ conn' = conn /\ hello' = hello /\ transport' = transport
          /\ closeTask' = closeTask
      BY <2>4 DEF vars, connVars, requestVars
    <3>2. \A q \in Features : Onward(q) BY <3>1 DEF Onward
    <3>3. NotReopened BY <1>0, <3>1 DEF NotReopened, Connected
    <3>4. conn = "open" => phase[of] # "queued" BY <1>0, <1>3, <2>1, <2>4 DEF PlacesOK
    <3> QED BY <2>4, <3>1, <3>2, <3>3, <3>4
  <2> QED BY <1>4, <2>2, <2>3, <2>4
<1>6. h.kind \in {"request", "cancel"} /\ (h.kind = "request" => h = RequestFrame(of))
      /\ (h.kind = "cancel" => h = CancelFrame(of))
  BY <1>3, FrameIs DEF of
<1>7. PathTypeOK' BY <1>0, <1>1, <1>2 DEF PathTypeOK
<1>8. WaitingOK' BY <1>0, <1>1, <1>5 DEF WaitingOK, NotReopened
<1>9. KnownOK'
  <2>1. ASSUME NEW r \in Features, client'[r] \in {"idle", "waiting", "sending", "unsent"}
        PROVE  phase'[r] = "unsent" /\ \A i \in DOMAIN upstream' : upstream'[i].of # r
    <3>1. phase[r] = "unsent" /\ \A i \in 1..n : upstream[i].of # r
      BY <1>0, <1>1, <1>2, <2>1 DEF KnownOK
    <3>2. r # of BY <1>2, <3>1 DEF of
    <3>3. phase'[r] = "unsent" BY <1>5, <3>1, <3>2 DEF Onward
    <3> QED BY <1>2, <3>1, <3>3
  <2>2. ASSUME NEW r \in Features,
               client'[r] \in {"early", "answered"} \/ (\E i \in DOMAIN downstream' : downstream'[i] = r)
        PROVE  phase'[r] = "settled"
    <3>1. phase[r] = "settled" BY <1>0, <1>1, <2>2 DEF KnownOK
    <3>2. r # of \/ h.kind = "cancel" BY <1>5, <1>6, <3>1
    <3> QED BY <1>5, <3>1, <3>2 DEF Onward
  <2> QED BY <2>1, <2>2 DEF KnownOK
<1>10. \A i \in 1..(n - 1) : upstream'[i].kind = "request" => upstream'[i].of # of \/ h.kind = "cancel"
  <2> SUFFICES ASSUME NEW i \in 1..(n - 1), upstream'[i].kind = "request", upstream'[i].of = of,
                      h.kind # "cancel"
               PROVE  FALSE
    OBVIOUS
  <2>1. h.kind = "request" /\ h = RequestFrame(of) BY <1>6
  <2>2. i + 1 \in 1..n /\ upstream[i + 1] = RequestFrame(of) BY <1>2, FrameIs
  <2>3. upstream[i + 1] = upstream[1] /\ upstream[1].kind = "request" BY <1>2, <2>1, <2>2
  <2>4. i + 1 = 1 BY <1>0, <1>2, <2>2, <2>3 DEF FramesOK
  <2> QED BY <1>2, <2>4
<1>11. FramesOK'
  <2>1. ASSUME NEW i \in DOMAIN upstream', upstream'[i].kind = "request"
        PROVE  phase'[upstream'[i].of] = "unsent"
    <3>1. i \in 1..(n - 1) /\ i + 1 \in 1..n /\ upstream'[i] = upstream[i + 1] BY <1>2
    <3>2. phase[upstream'[i].of] = "unsent" BY <1>0, <1>2, <2>1, <3>1 DEF FramesOK
    <3>3. upstream'[i].of # of \/ h.kind = "cancel" BY <1>10, <2>1, <3>1
    <3>4. upstream'[i].of \in Features BY <1>2, <3>1, FrameIs
    <3> QED BY <1>5, <3>2, <3>3, <3>4 DEF Onward
  <2>2. ASSUME NEW i \in DOMAIN upstream', NEW j \in DOMAIN upstream',
               upstream'[i].kind = "request", upstream'[j] = upstream'[i]
        PROVE  i = j
    <3>1. i + 1 \in 1..n /\ j + 1 \in 1..n /\ i \in 1..(n - 1) /\ j \in 1..(n - 1)
          /\ upstream[i + 1].kind = "request" /\ upstream[j + 1] = upstream[i + 1]
      BY <1>2, <2>2
    <3>2. i + 1 = j + 1 BY <1>0, <1>2, <3>1 DEF FramesOK
    <3> QED BY <1>2, <3>1, <3>2
  <2>3. ASSUME NEW i \in DOMAIN upstream', NEW j \in DOMAIN upstream', upstream'[i].kind = "cancel",
               upstream'[j] = RequestFrame(upstream'[i].of)
        PROVE  j < i
    <3>1. i + 1 \in 1..n /\ j + 1 \in 1..n /\ i \in 1..(n - 1) /\ j \in 1..(n - 1)
          /\ upstream[i + 1].kind = "cancel" /\ upstream[j + 1] = RequestFrame(upstream[i + 1].of)
      BY <1>2, <2>3
    <3>2. j + 1 < i + 1 BY <1>0, <1>2, <3>1 DEF FramesOK
    <3> QED BY <1>2, <3>1, <3>2
  <2> QED BY <2>1, <2>2, <2>3 DEF FramesOK
\* Nothing of a request comes behind its cancel frame.
<1>12. ASSUME h.kind = "cancel", NEW i \in 1..(n - 1) PROVE upstream'[i] # RequestFrame(of)
  <2> SUFFICES ASSUME upstream'[i] = RequestFrame(of) PROVE FALSE
    OBVIOUS
  <2>1. i + 1 \in 1..n /\ upstream[i + 1] = RequestFrame(of) /\ upstream[1].kind = "cancel"
        /\ upstream[1].of = of
    BY <1>2, <1>12 DEF of
  <2>2. i + 1 < 1 BY <1>0, <1>2, <2>1 DEF FramesOK
  <2> QED BY <1>2, <2>2
<1>13. CancelsOK'
  <2> SUFFICES ASSUME Connected', conn' = "open", NEW r \in Features
               PROVE  /\ client'[r] # "lost"
                      /\ client'[r] = "aborted" =>
                            \/ \E i \in DOMAIN upstream' : upstream'[i] = CancelFrame(r)
                            \/ phase'[r] # "queued" /\ \A i \in DOMAIN upstream' : upstream'[i] # RequestFrame(r)
    BY DEF CancelsOK
  <2>1. Connected /\ conn = "open" BY <1>5 DEF NotReopened
  <2>2. client'[r] # "lost" BY <1>0, <1>1, <2>1 DEF CancelsOK
  <2>3. ASSUME client'[r] = "aborted"
        PROVE  \/ \E i \in DOMAIN upstream' : upstream'[i] = CancelFrame(r)
               \/ phase'[r] # "queued" /\ \A i \in DOMAIN upstream' : upstream'[i] # RequestFrame(r)
    <3>1. \/ \E i \in 1..n : upstream[i] = CancelFrame(r)
          \/ phase[r] # "queued" /\ \A i \in 1..n : upstream[i] # RequestFrame(r)
      BY <1>0, <1>1, <1>2, <2>1, <2>3 DEF CancelsOK
    <3>2. CASE \E i \in 1..n : upstream[i] = CancelFrame(r)
      <4>1. PICK i \in 1..n : upstream[i] = CancelFrame(r) BY <3>2
      <4>2. CASE i = 1
        <5>1. h.kind = "cancel" /\ of = r BY <1>2, <4>1, <4>2, FrameIs DEF of
        <5>2. phase'[r] # "queued" BY <1>5, <2>1, <5>1
        <5>3. \A k \in 1..(n - 1) : upstream'[k] # RequestFrame(r) BY <1>12, <5>1
        <5> QED BY <1>2, <5>2, <5>3
      <4>3. CASE i # 1
        <5>1. i - 1 \in 1..(n - 1) /\ (i - 1) + 1 = i BY <1>2, <4>3
        <5>2. upstream'[i - 1] = CancelFrame(r) BY <1>2, <4>1, <5>1
        <5> QED BY <1>2, <5>1, <5>2
      <4> QED BY <4>2, <4>3
    <3>3. CASE phase[r] # "queued" /\ \A i \in 1..n : upstream[i] # RequestFrame(r)
      <4>1. h # RequestFrame(r) BY <1>2, <3>3
      <4>2. r # of \/ h.kind = "cancel" BY <1>6, <4>1
      <4>3. phase'[r] # "queued" BY <1>5, <3>3, <4>2 DEF Onward
      <4> QED BY <1>2, <3>3, <4>3
    <3> QED BY <3>1, <3>2, <3>3
  <2> QED BY <2>2, <2>3
<1>14. AdmissionOK'
  <2>1. Fits(OutstandingIn(client)') BY <1>0, <1>1 DEF AdmissionOK, OutstandingIn
  <2>2. Connected' /\ waiting' # <<>> => ~CanAdmit(client', waiting'[1])
    BY <1>0, <1>1, <1>5 DEF AdmissionOK, NotReopened
  <2>3. ASSUME \A q \in Features : client'[q] # "abandoned", conn' = "open",
               NEW i \in DOMAIN upstream', upstream'[i].kind = "request"
        PROVE  Fits(Load(i)')
    <3>1. i \in 1..(n - 1) /\ i + 1 \in 1..n /\ upstream[i + 1].kind = "request" BY <1>2, <2>3
    <3>2. conn = "open" BY <1>5, <2>3 DEF NotReopened
    <3>3. Fits(Load(i + 1)) BY <1>0, <1>1, <1>2, <2>3, <3>1, <3>2 DEF AdmissionOK
    <3>4. ASSUME NEW q \in Load(i)' PROVE q \in Load(i + 1)
      <4>1. /\ q \in Features
            /\ phase'[q] = "queued" \/ \E j \in 1..i : upstream'[j] = RequestFrame(q)
            /\ \A j \in 1..(i - 1) : upstream'[j] # CancelFrame(q)
        BY <3>4 DEF Load
      <4>2. phase[q] = "queued" \/ \E j \in 1..(i + 1) : upstream[j] = RequestFrame(q)
        <5>1. CASE \E j \in 1..i : upstream'[j] = RequestFrame(q)
          <6>1. PICK j \in 1..i : upstream'[j] = RequestFrame(q) BY <5>1
          <6>2. j \in 1..(n - 1) /\ j + 1 \in 1..(i + 1) BY <1>2, <3>1
          <6>3. upstream[j + 1] = RequestFrame(q) BY <1>2, <6>1, <6>2
          <6> QED BY <6>2, <6>3
        <5>2. CASE phase'[q] = "queued"
          <6>1. CASE q # of \/ h.kind = "cancel" BY <1>5, <4>1, <5>2, <6>1 DEF Onward
          <6>2. CASE q = of /\ h.kind # "cancel"
            <7>1. upstream[1] = RequestFrame(q) BY <1>2, <1>6, <6>2
            <7>2. 1 \in 1..(i + 1) BY <1>2, <3>1
            <7> QED BY <7>1, <7>2
          <6> QED BY <6>1, <6>2
        <5> QED BY <4>1, <5>1, <5>2
      <4>3. ASSUME NEW j \in 1..i PROVE upstream[j] # CancelFrame(q)
        <5>1. CASE j = 1
          <6> SUFFICES ASSUME upstream[1] = CancelFrame(q) PROVE FALSE
            BY <5>1
          <6>1. h.kind = "cancel" /\ of = q BY <1>2, <4>1, FrameIs DEF of
          <6>2. phase'[q] # "queued" BY <1>5, <3>2, <6>1
          <6>3. PICK k \in 1..i : upstream'[k] = RequestFrame(q) BY <4>1, <6>2
          <6>4. k \in 1..(n - 1) BY <1>2, <3>1
          <6> QED BY <1>12, <6>1, <6>3, <6>4
        <5>2. CASE j # 1
          <6>1. j - 1 \in 1..(i - 1) /\ j - 1 \in 1..(n - 1) /\ (j - 1) + 1 = j BY <1>2, <3>1, <5>2
          <6>2. upstream'[j - 1] = upstream[j] BY <1>2, <6>1
          <6> QED BY <4>1, <6>1, <6>2
        <5> QED BY <5>1, <5>2
      <4>4. (i + 1) - 1 = i BY <1>2, <3>1
      <4> QED BY <4>1, <4>2, <4>3, <4>4 DEF Load
    <3>5. Load(i)' \in SUBSET Load(i + 1) BY <3>4
    <3>6. Load(i + 1) \in SUBSET Features BY DEF Load
    <3> QED BY <3>3, <3>5, <3>6, FitsSmaller
  <2> QED BY <2>1, <2>2, <2>3 DEF AdmissionOK
<1> QED BY <1>7, <1>8, <1>9, <1>11, <1>13, <1>14 DEF PathInv

-----------------------------------------------------------------------------
(* The invariant and what follows from it.                                  *)

LEMMA PathInitInv == PathInit => RequestsInv /\ PathInv
<1> SUFFICES ASSUME PathInit PROVE RequestsInv /\ PathInv
  OBVIOUS
<1>1. /\ phase = [r \in Requests |-> "unsent"] /\ sent = [r \in Requests |-> 0] /\ queue = <<>>
      /\ queueBytes = 0 /\ active = 0 /\ inFlight = {} /\ expired = {} /\ cancelled = {}
      /\ conn = "open" /\ hello = "processed" /\ transport = "open" /\ reader = "reading"
      /\ closeTask = "none" /\ disconnected = FALSE /\ cleaned = FALSE /\ aborted = FALSE
  BY DEF PathInit
<1>2. client = [r \in Features |-> "idle"] /\ waiting = <<>> /\ upstream = <<>> /\ downstream = <<>>
  BY DEF PathInit
<1>3. Occupying = {} BY <1>1 DEF Occupying
<1>4. Queued = {} BY <1>1 DEF Queued
<1>5. TypeOK
  <2>1. <<>> \in Seq(Features) OBVIOUS
  <2>2. phase \in [Requests -> Phases] /\ sent \in [Requests -> Nat] BY <1>1 DEF Phases
  <2>3. queue \in Seq(Features) BY <1>1, <2>1
  <2>4. /\ queueBytes \in Nat /\ active \in Nat /\ inFlight \subseteq Features
        /\ expired \subseteq Features /\ cancelled \subseteq Features
    BY <1>1
  <2>5. /\ conn = "open" /\ hello = "processed" /\ transport = "open" /\ reader = "reading"
        /\ closeTask = "none" /\ heartbeat \in {"off", "armed"}
        /\ {disconnected, outboundClosed, aborted, cleaned, opened} \subseteq BOOLEAN
    BY DEF PathInit
  <2> QED BY <2>2, <2>3, <2>4, <2>5 DEF TypeOK
<1>6. ControlOK BY <1>1 DEF ControlOK
<1>7. PlacesOK BY <1>1, <1>4 DEF PlacesOK
<1>8. CountsOK BY <1>1, <1>3, FS_EmptySet, EmptySums, LimitsAssumption DEF CountsOK
<1>9. AnswersOK BY <1>1 DEF AnswersOK
<1>10. WorkConserving /\ TeardownStopsWork BY <1>1 DEF WorkConserving, TeardownStopsWork
<1>11. PathTypeOK
  <2>1. <<>> \in Seq(Features) /\ <<>> \in Seq(Frames) OBVIOUS
  <2> QED BY <1>2, <2>1 DEF PathTypeOK, ClientPhases
<1>12. DOMAIN <<>> = {} OBVIOUS
<1>13. WaitingOK BY <1>1, <1>2, <1>12 DEF WaitingOK
<1>14. Features \subseteq Requests BY DEF Requests
<1>15. KnownOK BY <1>1, <1>2, <1>12, <1>14 DEF KnownOK
<1>16. FramesOK BY <1>2, <1>12 DEF FramesOK
<1>17. CancelsOK BY <1>2 DEF CancelsOK
<1>18. AdmissionOK
  <2>1. OutstandingIn(client) = {} BY <1>2 DEF OutstandingIn, Outstanding
  <2>2. Fits(OutstandingIn(client)) BY <2>1, FS_EmptySet, BytesInSteps, PathAssumption DEF Fits
  <2> QED BY <1>2, <1>12, <2>2 DEF AdmissionOK
<1> QED BY <1>5, <1>6, <1>7, <1>8, <1>9, <1>10, <1>11, <1>13, <1>15, <1>16, <1>17, <1>18
        DEF RequestsInv, PathInv

\* The server of the path takes only steps of a server connection.
LEMMA PathNextIsNext == PathInv /\ [PathNext]_pathVars => [Next]_vars
<1> SUFFICES ASSUME PathInv, [PathNext]_pathVars PROVE [Next]_vars
  OBVIOUS
<1>1. Features \subseteq Requests BY DEF Requests
<1>2. CASE \E r \in Features : Request(r) \/ Hand(r) \/ SendAccepted(r) \/ AbortWaiting(r) \/ AbortOutstanding(r)
  BY <1>2 DEF Request, Hand, SendAccepted, AbortWaiting, AbortOutstanding
<1>3. CASE ClientReceives \/ ClientDisconnects BY <1>3 DEF ClientReceives, ClientDisconnects
<1>4. CASE ServerWorks BY <1>1, <1>4 DEF ServerWorks, Next
<1>5. CASE ConnectionEnds BY <1>5 DEF ConnectionEnds, Next
<1>6. CASE UNCHANGED pathVars BY <1>6 DEF pathVars
<1>7. CASE ServerReads
  <2> DEFINE f == Head(upstream)
  <2>1. upstream \in Seq(Frames) /\ upstream # <<>> BY <1>7 DEF ServerReads, PathInv, PathTypeOK
  <2>2. f \in Frames BY <2>1
  <2>3. \/ Receive(f.of)
        \/ ReceiveCancel(f.of)
        \/ UNCHANGED vars
    BY <1>7 DEF ServerReads
  <2> HIDE DEF f
  <2>4. f.of \in Features BY <2>2, FrameIs
  <2> QED BY <1>1, <2>3, <2>4 DEF Next
<1> QED BY <1>2, <1>3, <1>4, <1>5, <1>6, <1>7 DEF PathNext

LEMMA PathNextInv == RequestsInv /\ PathInv /\ [PathNext]_pathVars => RequestsInv' /\ PathInv'
<1> SUFFICES ASSUME RequestsInv, PathInv, [PathNext]_pathVars PROVE RequestsInv' /\ PathInv'
  OBVIOUS
<1>1. RequestsInv'
  <2>1. [Next]_vars BY PathNextIsNext
  <2> QED BY <2>1, NextInv
<1>2. CASE \E r \in Features : Request(r) \/ Hand(r) \/ SendAccepted(r) \/ AbortWaiting(r) \/ AbortOutstanding(r)
  BY <1>1, <1>2, RequestStepPath, HandStep, SendAcceptedStep, AbortWaitingStep, AbortOutstandingStep
<1>3. CASE ClientReceives \/ ClientDisconnects
  BY <1>1, <1>3, ClientReceivesStep, ClientDisconnectsStep
<1>4. CASE ServerReads \/ ServerWorks \/ ConnectionEnds
  BY <1>1, <1>4, ServerReadsStep, ServerWorksStep, ConnectionEndsStep
<1>5. CASE UNCHANGED pathVars
  <2>1. /\ UNCHANGED vars /\ client' = client /\ waiting' = waiting /\ upstream' = upstream
        /\ downstream' = downstream
    BY <1>5 DEF pathVars, clientVars
  <2>2. /\ client \in [Features -> ClientPhases] /\ waiting \in Seq(Features)
        /\ Fits(OutstandingIn(client)) /\ Exact(client, waiting) /\ WaitingIs(client, waiting)
        /\ downstream \in Seq(Features)
    BY DEF PathInv, PathTypeOK, AdmissionOK, Exact, WaitingOK, WaitingIs
  <2>3. \A q \in Features : Moves(q) BY <2>1 DEF Moves
  <2>4. Fits(OutstandingIn(client)') BY <2>1, <2>2 DEF OutstandingIn
  <2>5. Exact(client', waiting') /\ WaitingIs(client', waiting') BY <2>1, <2>2
  <2> QED BY <1>1, <2>1, <2>2, <2>3, <2>4, <2>5, ClientStep
<1> QED BY <1>2, <1>3, <1>4, <1>5 DEF PathNext

\* A client and a server connection between which frames are on their way agree
\* on every request in every reachable state (RequestAdmission,
\* sendPreparedRequest, ServerConnection), and the server's own invariant holds.
THEOREM PathInvariant == PathSpec => [](RequestsInv /\ PathInv)
BY PathInitInv, PathNextInv, PTL DEF PathSpec

\* A request reported as never sent is unknown to the server for good
\* (RequestNotSentError).
THEOREM PathUnsentNeverArrives == PathSpec => []UnsentNeverArrives
<1>1. PathInv => UnsentNeverArrives BY DEF PathInv, KnownOK, UnsentNeverArrives
<1> QED BY <1>1, PathInvariant, PTL

\* Requests wait only while nothing more fits, and a client that keeps to its
\* own admission never meets the ceiling of the server's FIFO
\* (RequestAdmission's drain, MAX_PENDING_FEATURES).
THEOREM PathAdmissionExact == PathSpec => []AdmissionExact
<1>1. ASSUME RequestsInv, PathInv, \A r \in Features : client[r] # "abandoned", conn = "open",
             upstream # <<>>, Head(upstream).kind = "request"
      PROVE  ~QueueOverflows(Head(upstream).of)
  <2> DEFINE r == Head(upstream).of
  <2>1. upstream \in Seq(Frames) BY <1>1 DEF PathInv, PathTypeOK
  <2>2. 1 \in DOMAIN upstream /\ upstream[1] = Head(upstream) /\ upstream[1] \in Frames
    BY <1>1, <2>1
  <2>3. r \in Features /\ upstream[1] = RequestFrame(r) BY <1>1, <2>2, FrameIs
  <2>4. Fits(Load(1)) BY <1>1, <2>2 DEF PathInv, AdmissionOK
  <2> HIDE DEF r
  <2>5. /\ queue \in Seq(Features) /\ queueBytes = BytesOf(queue)
        /\ \A i, j \in DOMAIN queue : queue[i] = queue[j] => i = j
        /\ \A q \in Requests : phase[q] = "queued" <=> q \in Queued
    BY <1>1 DEF RequestsInv, TypeOK, CountsOK, PlacesOK
  <2>6. Queued \in FiniteFeatures /\ Cardinality(Queued) = Len(queue) /\ BytesIn(Queued) = BytesOf(queue)
    BY <2>5, QueueIsSet DEF Queued
  <2>7. r \notin Queued
    <3>1. phase[r] = "unsent"
      BY <1>1, <2>2, <2>3, FrameIs DEF PathInv, FramesOK
    <3> QED BY <2>3, <2>5, <3>1 DEF Requests
  <2>8. Queued \cup {r} \in SUBSET Load(1)
    <3>1. Queued \in SUBSET Features BY <2>6 DEF FiniteFeatures
    <3>2. \A q \in Queued : q \in Features /\ phase[q] = "queued" BY <2>5, <3>1 DEF Requests
    <3>3. 1 \in 1..1 /\ 1..(1 - 1) = {} OBVIOUS
    <3> QED BY <2>3, <3>2, <3>3 DEF Load
  <2>9. Load(1) \in SUBSET Features BY DEF Load
  <2>10. Fits(Queued \cup {r}) BY <2>4, <2>8, <2>9, FitsSmaller
  <2>11. BytesIn(Queued \cup {r}) = BytesIn(Queued) + Bytes[r] BY <2>3, <2>6, <2>7, BytesInAdd
  <2>12. Cardinality(Queued \cup {r}) = Cardinality(Queued) + 1
    BY <2>6, <2>7, FS_AddElement DEF FiniteFeatures
  <2>13. Len(queue) + 1 <= MaxOutstanding BY <2>6, <2>10, <2>12 DEF Fits
  <2>14. queueBytes + Bytes[r] <= Budget BY <2>5, <2>6, <2>10, <2>11 DEF Fits
  <2>15. Len(queue) \in Nat /\ queueBytes \in Nat /\ Bytes[r] \in Nat
    BY <1>1, <2>3, <2>5, RequestsAssumption DEF RequestsInv, TypeOK
  <2>16. Len(queue) < MaxPending
    <3> DEFINE k == Len(queue)
    <3>1. k \in Nat /\ k + 1 <= MaxOutstanding BY <2>13, <2>15
    <3> HIDE DEF k
    <3>2. k < MaxPending BY <3>1, PathAssumption, LimitsAssumption, ClientWithinServer
    <3> QED BY <3>2 DEF k
  <2>17. ~(queueBytes + Bytes[r] > MaxPendingBytes)
    <3> DEFINE b == Bytes[r]
    <3>1. b \in Nat /\ queueBytes + b <= Budget /\ queueBytes \in Nat BY <2>14, <2>15
    <3> HIDE DEF b
    <3>2. ~(queueBytes + b > MaxPendingBytes)
      BY <3>1, PathAssumption, LimitsAssumption, ClientWithinServer
    <3> QED BY <3>2 DEF b
  <2>18. ~QueueOverflows(r) BY <2>15, <2>16, <2>17, LimitsAssumption DEF QueueOverflows
  <2> QED BY <2>18 DEF r
<1>2. RequestsInv /\ PathInv => AdmissionExact
  <2> SUFFICES ASSUME RequestsInv, PathInv PROVE AdmissionExact
    OBVIOUS
  <2>1. Connected /\ waiting # <<>> => ~CanAdmit(client, waiting[1]) BY DEF PathInv, AdmissionOK
  <2> QED BY <1>1, <2>1 DEF AdmissionExact
<1> QED BY <1>2, PathInvariant, PTL
=============================================================================
