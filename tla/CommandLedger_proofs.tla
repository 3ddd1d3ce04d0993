------------------------ MODULE CommandLedger_proofs ------------------------
(***************************************************************************)
(* For every set of connections, commands and calls and every limit: the   *)
(* pending count of a ledger is the number of commands being executed, no  *)
(* executing command is forgotten, two handlers of one command overlap     *)
(* only after a cancellation or a deadline, and every outcome a caller is  *)
(* told is that of its own command.  None of these is inductive alone: a   *)
(* ledger may be retired because its count is zero, so the count must be   *)
(* right; a command is executed because it has no entry, so the entries of *)
(* those executing must be there.                                          *)
(***************************************************************************)
EXTENDS CommandLedger, TLAPS, SequenceTheorems, FiniteSetTheorems, WellFoundedInduction

Executing(c) == {r \in Requests : phase[r] = "executing" /\ Connection[r] = c}

\* Entries are found in the ledger of their own connection.
OwnersAreOwn == \A c \in Connections : \A q \in Owners(c) : Connection[q] = c

\* An entry has an outcome only after its handler was answered for, and a
\* handler that goes on after that was interrupted.
OutcomesFollow ==
    /\ \A r \in Requests : phase[r] \in {"new", "executing"} => outcome[r] = None
    /\ \A r \in Requests : phase[r] = "executing" => r \in handlers
    /\ \A r \in handlers : phase[r] = "executing" \/ outcome[r] \in {"cancelled", "deadline"}

\* At most one call executes a command.
OneExecutes ==
    \A r, q \in Requests :
        phase[r] = "executing" /\ phase[q] = "executing" /\ SameCommand(r, q) => r = q

\* A repeated call waits for its own command with its own contents.
WaitsForOwn ==
    \A r \in Requests : phase[r] = "waiting" =>
        /\ waitsOn[r] \in Requests
        /\ SameCommand(r, waitsOn[r])
        /\ Content[waitsOn[r]] = Content[r]

Inv ==
    /\ TypeOK /\ PendingIsExecuting /\ ExecutingRetained /\ LedgerBounds
    /\ OwnersAreOwn /\ OutcomesFollow /\ OneExecutes /\ WaitsForOwn /\ AnswersAreOwn

-----------------------------------------------------------------------------
(* The first of a set of positions, and sequences without one element.     *)

LEMMA LeastExists ==
    ASSUME NEW S \in SUBSET Nat, S # {}
    PROVE  \E i \in S : \A j \in S : i <= j
<1> DEFINE Below == {0..i : i \in S}
<1>1. Below \subseteq FiniteSubsetsOf(Nat)
  <2>1. \A i \in S : 0..i \in SUBSET Nat
    OBVIOUS
  <2>2. \A i \in S : IsFiniteSet(0..i)
    BY FS_Interval
  <2> QED  BY <2>1, <2>2 DEF FiniteSubsetsOf
<1>2. PICK x \in Below : \A y \in Below : <<y, x>> \notin StrictSubsetOrdering(Nat)
  <2>1. Below # {}
    OBVIOUS
  <2>2. IsWellFoundedOn(StrictSubsetOrdering(Nat), FiniteSubsetsOf(Nat))
    BY FS_StrictSubsetOrderingWellFounded
  <2> HIDE DEF Below
  <2> QED  BY <1>1, <2>1, <2>2, WFMin
<1>3. PICK i \in S : x = 0..i
  OBVIOUS
<1>4. ASSUME NEW j \in S, j < i  PROVE FALSE
  <2>1. 0..j \in Below
    OBVIOUS
  <2>2. 0..j \subseteq 0..i /\ 0..j # 0..i
    <3>1. i \in 0..i /\ i \notin 0..j
      BY <1>4
    <3> QED  BY <1>4, <3>1
  <2>3. <<0..j, 0..i>> \in (SUBSET Nat) \X (SUBSET Nat)
    OBVIOUS
  <2> QED  BY <1>2, <1>3, <2>1, <2>2, <2>3 DEF StrictSubsetOrdering
<1> QED  BY <1>4

LEMMA FirstOfIn ==
    ASSUME NEW S \in SUBSET Nat, S # {}
    PROVE  FirstOf(S) \in S
BY LeastExists DEF FirstOf

\* What RemoveAt keeps: every other element, and nothing new.
LEMMA RemoveAtKeeps ==
    ASSUME NEW S, NEW s \in Seq(S), NEW i \in DOMAIN s
    PROVE  /\ RemoveAt(s, i) \in Seq(S)
           /\ Len(RemoveAt(s, i)) = Len(s) - 1
           /\ \A j \in DOMAIN s : j # i =>
                 \E k \in DOMAIN RemoveAt(s, i) : RemoveAt(s, i)[k] = s[j]
           /\ \A k \in DOMAIN RemoveAt(s, i) : \E j \in DOMAIN s : RemoveAt(s, i)[k] = s[j]
<1> DEFINE first == SubSeq(s, 1, i - 1)  rest == SubSeq(s, i + 1, Len(s))  t == first \o rest
<1>1. first \in Seq(S) /\ Len(first) = i - 1 /\ \A j \in 1..(i - 1) : first[j] = s[j]
  OBVIOUS
<1>2. rest \in Seq(S) /\ Len(rest) = Len(s) - i /\ \A j \in 1..(Len(s) - i) : rest[j] = s[i + j]
  OBVIOUS
<1> HIDE DEF first, rest
<1>3. t \in Seq(S) /\ Len(t) = Len(s) - 1
  BY <1>1, <1>2
<1>4. \A k \in 1..Len(t) : t[k] = IF k < i THEN s[k] ELSE s[k + 1]
  BY <1>1, <1>2
<1> HIDE DEF t
<1>5. ASSUME NEW j \in DOMAIN s, j # i
      PROVE  \E k \in DOMAIN t : t[k] = s[j]
  <2>1. CASE j < i
    BY <1>3, <1>4, <1>5, <2>1
  <2>2. CASE j > i
    <3>1. j - 1 \in DOMAIN t /\ t[j - 1] = s[j]
      BY <1>3, <1>4, <1>5, <2>2
    <3> QED  BY <3>1
  <2> QED  BY <1>5, <2>1, <2>2
<1>6. ASSUME NEW k \in DOMAIN t
      PROVE  \E j \in DOMAIN s : t[k] = s[j]
  BY SMTT(30), <1>3, <1>4
<1>7. RemoveAt(s, i) = t
  BY DEF RemoveAt, t, first, rest
<1> QED  BY <1>3, <1>5, <1>6, <1>7

LEMMA AppendKeeps ==
    ASSUME NEW S, NEW s \in Seq(S), NEW e \in S
    PROVE  /\ Append(s, e) \in Seq(S)
           /\ Len(Append(s, e)) = Len(s) + 1
           /\ \A j \in DOMAIN s : j \in DOMAIN Append(s, e) /\ Append(s, e)[j] = s[j]
           /\ Len(s) + 1 \in DOMAIN Append(s, e) /\ Append(s, e)[Len(s) + 1] = e
           /\ \A k \in DOMAIN Append(s, e) :
                 Append(s, e)[k] = e \/ \E j \in DOMAIN s : Append(s, e)[k] = s[j]
OBVIOUS

-----------------------------------------------------------------------------
(* The parts of the invariant that ledgers, counts and phases decide.      *)

LedgersOK ==
    /\ ledgers \in Seq(Connections)
    /\ entries \in [Connections -> Seq(Requests)]
    /\ LedgerBounds /\ OwnersAreOwn /\ ExecutingRetained

LEMMA ExecutingFinite ==
    \A c : IsFiniteSet(Executing(c)) /\ Cardinality(Executing(c)) \in Nat
<1>1. \A c : Executing(c) \subseteq Requests
  BY DEF Executing
<1> QED  BY <1>1, RequestsAssumption, FS_Subset, FS_CardinalityType

\* A connection with a command being executed is counted as busy.
LEMMA ExecutingCounted ==
    ASSUME Inv, NEW r \in Requests, phase[r] = "executing"
    PROVE  pending[Connection[r]] \in Nat \ {0}
<1>1. Connection[r] \in Connections
  BY RequestsAssumption
<1>2. r \in Executing(Connection[r])
  BY DEF Executing
<1>3. Cardinality(Executing(Connection[r])) # 0
  BY <1>2, ExecutingFinite, FS_EmptySet
<1>4. pending[Connection[r]] = Cardinality(Executing(Connection[r]))
  BY <1>1 DEF Inv, PendingIsExecuting, Executing
<1> QED  BY <1>3, <1>4, ExecutingFinite

LEMMA InitInv == Init => Inv
<1> SUFFICES ASSUME Init PROVE Inv
  OBVIOUS
<1>1. TypeOK
  BY DEF Init, TypeOK
<1>2. PendingIsExecuting
  <2>1. \A c \in Connections : {r \in Requests : phase[r] = "executing" /\ Connection[r] = c} = {}
    BY DEF Init
  <2> QED  BY <2>1, FS_EmptySet DEF Init, PendingIsExecuting
<1>3. LedgerBounds
  BY LimitsAssumption DEF Init, LedgerBounds
<1>4. OwnersAreOwn
  BY DEF Init, OwnersAreOwn, Owners
<1>5. \A r \in Requests : phase[r] = "new" /\ outcome[r] = None /\ answer[r] = None
  BY DEF Init
<1>6. ExecutingRetained /\ OneExecutes /\ WaitsForOwn
  BY <1>5 DEF ExecutingRetained, OneExecutes, WaitsForOwn
<1>7. OutcomesFollow
  BY <1>5 DEF Init, OutcomesFollow
<1>8. AnswersAreOwn
  <2>1. None \notin {"ok", "failed", "refused"}
    BY NoneAssumption DEF Results
  <2> QED  BY <1>5, <2>1 DEF AnswersAreOwn
<1> QED  BY <1>1, <1>2, <1>3, <1>4, <1>6, <1>7, <1>8 DEF Inv

-----------------------------------------------------------------------------
(* The ledger of a connection is found, created, or put in the place of    *)
(* one that has nothing pending.                                           *)

LEMMA OpenLedgerOK ==
    ASSUME Inv, NEW r \in Requests, OpenLedger(r)
    PROVE  LET c == Connection[r]  kept == EntriesWith(c)
           IN  /\ ledgers' \in Seq(Connections) /\ Len(ledgers') <= MaxDispatchers
               /\ HasLedger(c)'
               /\ kept \in [Connections -> Seq(Requests)]
               /\ kept[c] = entries[c]
               /\ \A d \in Connections :
                     /\ kept[d] = entries[d] \/ kept[d] = <<>>
                     /\ pending[d] # 0 => kept[d] = entries[d] /\ (HasLedger(d) => HasLedger(d)')
                     /\ ~HasLedger(d)' => kept[d] = <<>>
<1> DEFINE c == Connection[r]  kept == EntriesWith(c)
<1>1. /\ ledgers \in Seq(Connections) /\ entries \in [Connections -> Seq(Requests)]
      /\ Len(ledgers) <= MaxDispatchers
      /\ \A d \in Connections : ~HasLedger(d) => entries[d] = <<>>
  BY DEF Inv, TypeOK, LedgerBounds
<1>2. c \in Connections /\ LedgerRoom(c) /\ ledgers' = LedgersWith(c)
  BY RequestsAssumption DEF OpenLedger
<1>3. MaxDispatchers \in Nat
  BY LimitsAssumption
<1> HIDE DEF c
<1>4. CASE HasLedger(c)
  <2>1. ledgers' = ledgers /\ kept = entries
    BY <1>2, <1>4 DEF LedgersWith, EntriesWith, Retires
  <2>2. \A d : HasLedger(d)' <=> HasLedger(d)
    BY <2>1 DEF HasLedger
  <2> HIDE DEF kept
  <2> QED  BY <1>1, <1>4, <2>1, <2>2 DEF c, kept
<1>5. CASE ~HasLedger(c) /\ ~Retires(c)
  <2>1. ledgers' = Append(ledgers, c) /\ kept = entries /\ Len(ledgers) < MaxDispatchers
    BY <1>1, <1>2, <1>3, <1>5 DEF LedgersWith, EntriesWith, Retires
  <2>2. ledgers' \in Seq(Connections) /\ Len(ledgers') <= MaxDispatchers
    BY <1>1, <1>2, <1>3, <2>1
  <2>3. /\ HasLedger(c)'
        /\ \A d : HasLedger(d) => HasLedger(d)'
    <3>1. /\ Len(ledgers) + 1 \in DOMAIN ledgers' /\ ledgers'[Len(ledgers) + 1] = c
          /\ \A j \in DOMAIN ledgers : j \in DOMAIN ledgers' /\ ledgers'[j] = ledgers[j]
      BY <1>1, <1>2, <2>1, AppendKeeps
    <3> QED  BY <3>1 DEF HasLedger
  <2> HIDE DEF kept
  <2> QED  BY <1>1, <2>1, <2>2, <2>3 DEF c, kept
<1>6. CASE ~HasLedger(c) /\ Retires(c)
  <2> DEFINE i == FirstOf(IdleLedgers)  without == RemoveAt(ledgers, i)
  <2>1. i \in IdleLedgers
    <3>1. IdleLedgers # {}
      BY <1>1, <1>2, <1>3, <1>6 DEF LedgerRoom, Retires
    <3>2. IdleLedgers \in SUBSET Nat
      BY <1>1 DEF IdleLedgers
    <3> QED  BY <3>1, <3>2, FirstOfIn
  <2>2. i \in DOMAIN ledgers /\ ledgers[i] \in Connections /\ pending[ledgers[i]] = 0
    BY <1>1, <2>1 DEF IdleLedgers
  <2>3. ledgers' = Append(without, c) /\ kept = [entries EXCEPT ![ledgers[i]] = <<>>]
    BY <1>2, <1>6 DEF LedgersWith, EntriesWith
  <2>4. ledgers[i] # c
    BY <1>6, <2>2 DEF HasLedger
  <2> HIDE DEF i, without
  <2>5. /\ without \in Seq(Connections) /\ Len(without) = Len(ledgers) - 1
        /\ \A j \in DOMAIN ledgers : j # i => \E k \in DOMAIN without : without[k] = ledgers[j]
    BY <1>1, <2>2, RemoveAtKeeps DEF without
  <2>6. /\ ledgers' \in Seq(Connections) /\ Len(ledgers') <= MaxDispatchers
        /\ HasLedger(c)'
        /\ \A k \in DOMAIN without : k \in DOMAIN ledgers' /\ ledgers'[k] = without[k]
    <3>1. /\ ledgers' \in Seq(Connections) /\ Len(ledgers') = Len(without) + 1
          /\ Len(without) + 1 \in DOMAIN ledgers' /\ ledgers'[Len(without) + 1] = c
          /\ \A k \in DOMAIN without : k \in DOMAIN ledgers' /\ ledgers'[k] = without[k]
      BY <1>2, <2>3, <2>5, AppendKeeps
    <3>2. Len(ledgers') <= MaxDispatchers
      BY <1>1, <1>3, <2>5, <3>1
    <3> QED  BY <3>1, <3>2 DEF HasLedger
  <2>7. \A d : HasLedger(d) /\ d # ledgers[i] => HasLedger(d)'
    <3> SUFFICES ASSUME NEW d, HasLedger(d), d # ledgers[i]
                 PROVE  HasLedger(d)'
      OBVIOUS
    <3>1. PICK j \in DOMAIN ledgers : ledgers[j] = d
      BY DEF HasLedger
    <3>2. PICK k \in DOMAIN without : without[k] = d
      BY <2>5, <3>1
    <3> QED  BY <2>6, <3>2 DEF HasLedger
  <2>8. kept \in [Connections -> Seq(Requests)] /\ kept[c] = entries[c]
    BY <1>1, <1>2, <2>2, <2>3, <2>4
  <2>9. \A d \in Connections : kept[d] = IF d = ledgers[i] THEN <<>> ELSE entries[d]
    BY <1>1, <2>3
  <2> HIDE DEF kept
  <2> QED  BY <1>1, <2>2, <2>6, <2>7, <2>8, <2>9 DEF c, kept
<1> QED  BY <1>4, <1>5, <1>6 DEF c

\* A call that finds an entry finds it in a ledger that stays.
LEMMA PriorKeepsLedgers ==
    ASSUME Inv, NEW r \in Requests, OpenLedger(r), PriorEntries(r) # {}
    PROVE  ledgers' = ledgers
<1>1. Connection[r] \in Connections
  BY RequestsAssumption
<1>2. entries[Connection[r]] # <<>>
  BY DEF PriorEntries, Owners
<1>3. HasLedger(Connection[r])
  BY <1>1, <1>2 DEF Inv, LedgerBounds
<1> QED  BY <1>3 DEF OpenLedger, LedgersWith

\* The entries after a new one: the oldest settled entry made room at most.
LEMMA RecordedOK ==
    ASSUME Inv, NEW r \in Requests, OpenLedger(r), ~AtLimit(Connection[r]),
           entries' = Recorded(r)
    PROVE  /\ entries' \in [Connections -> Seq(Requests)]
           /\ \A d \in Connections :
                 /\ Len(entries'[d]) <= MaxOutcomes
                 /\ ~HasLedger(d)' => entries'[d] = <<>>
           /\ \A d \in Connections : \A q \in Owners(d)' :
                 q \in Owners(d) \/ (q = r /\ d = Connection[r])
           /\ r \in Owners(Connection[r])'
           /\ \A q \in Requests : phase[q] = "executing" =>
                 HasLedger(Connection[q])' /\ q \in Owners(Connection[q])'
<1> DEFINE c == Connection[r]  kept == EntriesWith(c)
           full == Len(kept[c]) >= MaxOutcomes  i == FirstOf(SettledEntries(c))
           room == IF full THEN RemoveAt(kept[c], i) ELSE kept[c]
<1>1. /\ entries \in [Connections -> Seq(Requests)] /\ MaxOutcomes \in Nat \ {0}
      /\ \A d \in Connections : Len(entries[d]) <= MaxOutcomes
      /\ c \in Connections
  BY RequestsAssumption, LimitsAssumption DEF Inv, TypeOK, LedgerBounds
<1>2. /\ HasLedger(c)'
      /\ kept \in [Connections -> Seq(Requests)]
      /\ kept[c] = entries[c]
      /\ \A d \in Connections :
            /\ kept[d] = entries[d] \/ kept[d] = <<>>
            /\ pending[d] # 0 => kept[d] = entries[d] /\ (HasLedger(d) => HasLedger(d)')
            /\ ~HasLedger(d)' => kept[d] = <<>>
  BY OpenLedgerOK
<1>3. entries' = [kept EXCEPT ![c] = Append(room, r)]
  BY DEF Recorded
<1>4. full => i \in DOMAIN kept[c] /\ outcome[kept[c][i]] # None
  <2> SUFFICES ASSUME full PROVE i \in DOMAIN kept[c] /\ outcome[kept[c][i]] # None
    OBVIOUS
  <2>1. SettledEntries(c) # {}
    BY DEF AtLimit
  <2>2. SettledEntries(c) \in SUBSET Nat
    <3>1. DOMAIN kept[c] \subseteq Nat
      BY <1>1, <1>2
    <3> QED  BY <3>1 DEF SettledEntries
  <2>3. i \in SettledEntries(c)
    BY <2>1, <2>2, FirstOfIn
  <2> QED  BY <2>3 DEF SettledEntries
<1> HIDE DEF c, kept, full, i
<1>5. /\ room \in Seq(Requests) /\ Len(room) < MaxOutcomes
      /\ \A k \in DOMAIN room : \E j \in DOMAIN kept[c] : room[k] = kept[c][j]
      /\ \A j \in DOMAIN kept[c] : outcome[kept[c][j]] = None =>
            \E k \in DOMAIN room : room[k] = kept[c][j]
  <2>1. kept[c] \in Seq(Requests) /\ Len(kept[c]) \in Nat /\ Len(kept[c]) <= MaxOutcomes
    BY <1>1, <1>2
  <2>2. CASE full
    <3> DEFINE t == RemoveAt(kept[c], i)
    <3>1. i \in DOMAIN kept[c] /\ outcome[kept[c][i]] # None
      BY <1>4, <2>2
    <3>2. /\ t \in Seq(Requests) /\ Len(t) = Len(kept[c]) - 1
          /\ \A j \in DOMAIN kept[c] : j # i => \E k \in DOMAIN t : t[k] = kept[c][j]
          /\ \A k \in DOMAIN t : \E j \in DOMAIN kept[c] : t[k] = kept[c][j]
      BY <2>1, <3>1, RemoveAtKeeps
    <3>3. room = t
      BY <2>2
    <3> HIDE DEF t, room
    <3>4. Len(room) < MaxOutcomes
      BY <1>1, <2>1, <3>2, <3>3
    <3> QED  BY <3>1, <3>2, <3>3, <3>4
  <2>3. CASE ~full
    <3>1. room = kept[c]
      BY <2>3
    <3>2. Len(kept[c]) < MaxOutcomes
      BY <1>1, <2>1, <2>3 DEF full
    <3> HIDE DEF room
    <3> QED  BY <2>1, <3>1, <3>2
  <2> QED  BY <2>2, <2>3
<1> HIDE DEF room
<1> DEFINE new == Append(room, r)
<1>6. /\ new \in Seq(Requests) /\ Len(new) = Len(room) + 1
      /\ \A j \in DOMAIN room : j \in DOMAIN new /\ new[j] = room[j]
      /\ Len(room) + 1 \in DOMAIN new /\ new[Len(room) + 1] = r
      /\ \A k \in DOMAIN new : new[k] = r \/ \E j \in DOMAIN room : new[k] = room[j]
  BY <1>5, AppendKeeps
<1> HIDE DEF new
<1>7. /\ entries' \in [Connections -> Seq(Requests)]
      /\ entries'[c] = new
      /\ \A d \in Connections : d # c => entries'[d] = kept[d]
  BY <1>1, <1>2, <1>3, <1>6 DEF new
<1>8. \A d \in Connections : Len(entries'[d]) <= MaxOutcomes
  <2>1. Len(new) <= MaxOutcomes
    <3>1. Len(room) \in Nat
      BY <1>5
    <3> QED  BY <1>1, <1>5, <1>6, <3>1
  <2>2. \A d \in Connections : Len(kept[d]) <= MaxOutcomes
    <3>1. Len(<<>>) = 0
      OBVIOUS
    <3> QED  BY <1>1, <1>2, <3>1
  <2> QED  BY <1>7, <2>1, <2>2
<1>9. \A d \in Connections : ~HasLedger(d)' => entries'[d] = <<>>
  BY <1>2, <1>7
<1>10. \A d \in Connections : \A q \in Owners(d)' : q \in Owners(d) \/ (q = r /\ d = c)
  <2> SUFFICES ASSUME NEW d \in Connections, NEW k \in DOMAIN entries'[d]
               PROVE  entries'[d][k] \in Owners(d) \/ (entries'[d][k] = r /\ d = c)
    BY DEF Owners
  <2>1. CASE d = c
    BY <1>2, <1>5, <1>6, <1>7, <2>1 DEF Owners
  <2>2. CASE d # c
    <3>1. entries'[d] = kept[d] /\ (kept[d] = entries[d] \/ kept[d] = <<>>)
      BY <1>2, <1>7, <2>2
    <3>2. kept[d] # <<>>
      BY <3>1
    <3> QED  BY <3>1, <3>2 DEF Owners
  <2> QED  BY <2>1, <2>2
<1>11. r \in Owners(c)'
  BY <1>6, <1>7 DEF Owners
<1>12. ASSUME NEW q \in Requests, phase[q] = "executing"
       PROVE  HasLedger(Connection[q])' /\ q \in Owners(Connection[q])'
  <2> DEFINE d == Connection[q]
  <2>1. d \in Connections
    BY RequestsAssumption
  <2>2. HasLedger(d) /\ q \in Owners(d)
    BY <1>12 DEF Inv, ExecutingRetained
  <2>3. pending[d] # 0
    BY <1>12, ExecutingCounted
  <2>4. HasLedger(d)' /\ kept[d] = entries[d]
    BY <1>2, <2>1, <2>2, <2>3
  <2>5. outcome[q] = None
    BY <1>12 DEF Inv, OutcomesFollow
  <2>6. PICK j \in DOMAIN kept[d] : kept[d][j] = q
    BY <2>2, <2>4 DEF Owners
  <2>7. CASE d = c
    <3>1. PICK k \in DOMAIN room : room[k] = q
      BY <1>5, <2>5, <2>6, <2>7
    <3> QED  BY <1>6, <1>7, <2>4, <2>7, <3>1 DEF Owners
  <2>8. CASE d # c
    BY <1>7, <2>1, <2>4, <2>6, <2>8 DEF Owners
  <2> QED  BY <2>7, <2>8
<1> QED  BY <1>7, <1>8, <1>9, <1>10, <1>11, <1>12 DEF c

-----------------------------------------------------------------------------
(* Steps that answer a call which executes nothing.                        *)

LEMMA AnsweredInv ==
    ASSUME Inv, LedgersOK', NEW r \in Requests, phase[r] # "executing",
           NEW result \in Results \cup Refusals, Answered(r, result),
           result \in {"ok", "failed", "refused"} =>
               \E q \in Requests :
                  SameCommand(r, q) /\ Content[q] = Content[r] /\ outcome[q] = result,
           phase[r] = "new" => outcome[r] = None,
           UNCHANGED <<pending, outcome, waitsOn, handlers>>
    PROVE  Inv'
<1>1. \A q \in Requests : phase'[q] = IF q = r THEN "answered" ELSE phase[q]
  BY DEF Inv, TypeOK, Answered
<1>2. \A q \in Requests : answer'[q] = IF q = r THEN result ELSE answer[q]
  BY DEF Inv, TypeOK, Answered
<1>3. TypeOK'
  BY DEF Inv, TypeOK, Answered, LedgersOK
<1>4. PendingIsExecuting'
  <2>1. \A c : Executing(c)' = Executing(c)
    BY <1>1 DEF Executing
  <2> QED  BY <2>1 DEF Inv, PendingIsExecuting, Executing
<1>5. OutcomesFollow'
  <2>1. \A q \in handlers : q # r => (phase'[q] = "executing" <=> phase[q] = "executing")
    BY <1>1 DEF Inv, TypeOK
  <2> QED  BY <1>1, <2>1 DEF Inv, TypeOK, OutcomesFollow
<1>6. OneExecutes'
  BY <1>1 DEF Inv, OneExecutes, SameCommand
<1>7. WaitsForOwn'
  BY <1>1 DEF Inv, WaitsForOwn, SameCommand
<1>8. AnswersAreOwn'
  BY <1>2 DEF Inv, AnswersAreOwn, SameCommand
<1> QED  BY <1>3, <1>4, <1>5, <1>6, <1>7, <1>8 DEF Inv, LedgersOK

\* Nothing the ledgers' part of the invariant reads has changed, but that some
\* command executes no more.
LEMMA LedgersSame ==
    ASSUME Inv, UNCHANGED <<ledgers, entries, pending>>,
           \A q \in Requests : phase'[q] = "executing" => phase[q] = "executing"
    PROVE  LedgersOK'
<1>1. \A d : HasLedger(d)' <=> HasLedger(d)
  BY DEF HasLedger
<1>2. \A d : Owners(d)' = Owners(d)
  BY DEF Owners
<1> QED
  BY <1>1, <1>2 DEF Inv, TypeOK, LedgersOK, LedgerBounds, OwnersAreOwn, ExecutingRetained

LEMMA AnsweredPhases ==
    ASSUME Inv, NEW r \in Requests, NEW result, Answered(r, result)
    PROVE  \A q \in Requests : phase'[q] = "executing" => phase[q] = "executing"
BY DEF Inv, TypeOK, Answered

\* An entry found for a call is one of its own command.
LEMMA PriorIsOwn ==
    ASSUME Inv, NEW r \in Requests, NEW q \in PriorEntries(r)
    PROVE  q \in Requests /\ SameCommand(r, q)
<1>1. Connection[r] \in Connections
  BY RequestsAssumption
<1>2. q \in Owners(Connection[r]) /\ Command[q] = Command[r]
  BY DEF PriorEntries
<1>3. Connection[q] = Connection[r]
  BY <1>1, <1>2 DEF Inv, OwnersAreOwn
<1>4. q \in Requests
  BY <1>1, <1>2 DEF Inv, TypeOK, Owners
<1> QED  BY <1>2, <1>3, <1>4 DEF SameCommand

LEMMA RefuseInv == ASSUME Inv, NEW r \in Requests, Refuse(r) PROVE Inv'
<1>1. phase[r] = "new" /\ Answered(r, "resource") /\ outcome[r] = None
  BY DEF Refuse, Inv, OutcomesFollow
<1>2. LedgersOK'
  BY <1>1, AnsweredPhases, LedgersSame DEF Refuse
<1> QED  BY <1>1, <1>2, AnsweredInv DEF Refuse, Refusals

LEMMA ConflictInv == ASSUME Inv, NEW r \in Requests, Conflict(r) PROVE Inv'
<1>1. phase[r] = "new" /\ Answered(r, "conflict") /\ outcome[r] = None
  BY DEF Conflict, OpenLedger, Inv, OutcomesFollow
<1>2. ledgers' = ledgers
  BY PriorKeepsLedgers DEF Conflict
<1>3. LedgersOK'
  BY <1>1, <1>2, AnsweredPhases, LedgersSame DEF Conflict
<1> QED  BY <1>1, <1>3, AnsweredInv DEF Conflict, Refusals

LEMMA ReplayInv == ASSUME Inv, NEW r \in Requests, Replay(r) PROVE Inv'
<1>1. PICK q \in PriorEntries(r) :
         Content[q] = Content[r] /\ outcome[q] # None /\ Answered(r, outcome[q])
  BY DEF Replay
<1>2. phase[r] = "new" /\ outcome[r] = None
  BY DEF Replay, OpenLedger, Inv, OutcomesFollow
<1>3. ledgers' = ledgers
  BY PriorKeepsLedgers, <1>1 DEF Replay
<1>4. LedgersOK'
  BY <1>1, <1>3, AnsweredPhases, LedgersSame DEF Replay
<1>5. q \in Requests /\ SameCommand(r, q)
  BY PriorIsOwn
<1>6. outcome[q] \in Results
  BY <1>1, <1>5 DEF Inv, TypeOK
<1> QED  BY <1>1, <1>2, <1>4, <1>5, <1>6, AnsweredInv DEF Replay

LEMMA RefuseAtLimitInv == ASSUME Inv, NEW r \in Requests, RefuseAtLimit(r) PROVE Inv'
<1> DEFINE c == Connection[r]  kept == EntriesWith(c)
<1>1. phase[r] = "new" /\ Answered(r, "resource") /\ outcome[r] = None /\ entries' = kept
  BY DEF RefuseAtLimit, OpenLedger, Inv, OutcomesFollow
<1>2. /\ ledgers' \in Seq(Connections) /\ Len(ledgers') <= MaxDispatchers
      /\ kept \in [Connections -> Seq(Requests)]
      /\ \A d \in Connections :
            /\ kept[d] = entries[d] \/ kept[d] = <<>>
            /\ pending[d] # 0 => kept[d] = entries[d] /\ (HasLedger(d) => HasLedger(d)')
            /\ ~HasLedger(d)' => kept[d] = <<>>
  BY OpenLedgerOK DEF RefuseAtLimit
<1> HIDE DEF kept
<1>3. \A d \in Connections : Owners(d)' \subseteq Owners(d)
  <2> SUFFICES ASSUME NEW d \in Connections, NEW k \in DOMAIN kept[d]
               PROVE  kept[d][k] \in Owners(d)
    BY <1>1 DEF Owners
  <2>1. kept[d] # <<>>
    OBVIOUS
  <2> QED  BY <1>2, <2>1 DEF Owners
<1>4. OwnersAreOwn'
  BY <1>3 DEF Inv, OwnersAreOwn
<1>5. ExecutingRetained'
  <2> SUFFICES ASSUME NEW q \in Requests, phase'[q] = "executing"
               PROVE  HasLedger(Connection[q])' /\ q \in Owners(Connection[q])'
    BY DEF ExecutingRetained
  <2>1. phase[q] = "executing"
    BY <1>1, AnsweredPhases
  <2>2. HasLedger(Connection[q]) /\ q \in Owners(Connection[q])
    BY <2>1 DEF Inv, ExecutingRetained
  <2>3. Connection[q] \in Connections /\ pending[Connection[q]] # 0
    BY <2>1, RequestsAssumption, ExecutingCounted
  <2> QED  BY <1>1, <1>2, <2>2, <2>3 DEF Owners
<1>6. LedgerBounds'
  <2>1. \A d \in Connections : Len(kept[d]) <= MaxOutcomes
    <3>1. Len(<<>>) = 0 /\ MaxOutcomes \in Nat
      BY LimitsAssumption
    <3> QED  BY <1>2, <3>1 DEF Inv, LedgerBounds
  <2> QED  BY <1>1, <1>2, <2>1 DEF Inv, LedgerBounds, RefuseAtLimit
<1>7. LedgersOK'
  BY <1>1, <1>2, <1>4, <1>5, <1>6 DEF LedgersOK
<1> QED  BY <1>1, <1>7, AnsweredInv DEF RefuseAtLimit, Refusals

LEMMA WaitEndsInv == ASSUME Inv, NEW r \in Requests, WaitEnds(r) PROVE Inv'
<1> DEFINE q == waitsOn[r]
<1>1. phase[r] = "waiting" /\ outcome[q] # None /\ Answered(r, outcome[q])
  BY DEF WaitEnds
<1>2. q \in Requests /\ SameCommand(r, q) /\ Content[q] = Content[r]
  BY <1>1 DEF Inv, WaitsForOwn
<1>3. LedgersOK'
  BY <1>1, AnsweredPhases, LedgersSame DEF WaitEnds
<1>4. outcome[q] \in Results
  BY <1>1, <1>2 DEF Inv, TypeOK
<1> HIDE DEF q
<1> QED  BY <1>1, <1>2, <1>3, <1>4, AnsweredInv DEF WaitEnds

LEMMA WaitInterruptedInv ==
    ASSUME Inv, NEW r \in Requests, NEW why \in {"cancelled", "deadline"},
           WaitInterrupted(r, why)
    PROVE  Inv'
<1>1. phase[r] = "waiting" /\ Answered(r, why)
  BY DEF WaitInterrupted
<1>2. LedgersOK'
  BY <1>1, AnsweredPhases, LedgersSame DEF WaitInterrupted
<1> QED  BY <1>1, <1>2, AnsweredInv DEF WaitInterrupted, Refusals

-----------------------------------------------------------------------------
(* Steps that start to wait, execute and settle.                           *)

LEMMA WaitInv == ASSUME Inv, NEW r \in Requests, Wait(r) PROVE Inv'
<1>1. PICK q \in PriorEntries(r) :
         Content[q] = Content[r] /\ waitsOn' = [waitsOn EXCEPT ![r] = q]
  BY DEF Wait
<1>2. q \in Requests /\ SameCommand(r, q)
  BY PriorIsOwn
<1>3. /\ phase[r] = "new" /\ phase' = [phase EXCEPT ![r] = "waiting"]
      /\ ledgers' = ledgers
      /\ UNCHANGED <<entries, pending, outcome, answer, handlers>>
  BY PriorKeepsLedgers, <1>1 DEF Wait, OpenLedger
<1>4. \A p \in Requests : phase'[p] = IF p = r THEN "waiting" ELSE phase[p]
  BY <1>3 DEF Inv, TypeOK
<1>5. LedgersOK'
  BY <1>3, <1>4, LedgersSame
<1>6. TypeOK'
  BY <1>1, <1>2, <1>3 DEF Inv, TypeOK
<1>7. PendingIsExecuting'
  <2>1. \A c : Executing(c)' = Executing(c)
    BY <1>3, <1>4 DEF Executing
  <2> QED  BY <1>3, <2>1 DEF Inv, PendingIsExecuting, Executing
<1>8. OutcomesFollow'
  <2>1. \A p \in handlers : p # r
    <3>1. outcome[r] = None
      BY <1>3 DEF Inv, OutcomesFollow
    <3>2. None \notin {"cancelled", "deadline"}
      BY NoneAssumption DEF Refusals
    <3> QED  BY <1>3, <3>1, <3>2 DEF Inv, OutcomesFollow
  <2> QED  BY <1>3, <1>4, <2>1 DEF Inv, TypeOK, OutcomesFollow
<1>9. OneExecutes'
  BY <1>4 DEF Inv, OneExecutes, SameCommand
<1>10. WaitsForOwn'
  <2>1. \A p \in Requests : waitsOn'[p] = IF p = r THEN q ELSE waitsOn[p]
    BY <1>1 DEF Inv, TypeOK
  <2> QED  BY <1>1, <1>2, <1>4, <2>1 DEF Inv, WaitsForOwn, SameCommand
<1>11. AnswersAreOwn'
  BY <1>3 DEF Inv, AnswersAreOwn, SameCommand
<1> QED  BY <1>5, <1>6, <1>7, <1>8, <1>9, <1>10, <1>11 DEF Inv, LedgersOK

\* What a call for an unknown command finds: nobody executes that command.
LEMMA UnknownIsNotExecuting ==
    ASSUME Inv, NEW r \in Requests, PriorEntries(r) = {},
           NEW q \in Requests, phase[q] = "executing"
    PROVE  ~SameCommand(r, q)
<1>1. q \in Owners(Connection[q])
  BY DEF Inv, ExecutingRetained
<1> QED  BY <1>1 DEF PriorEntries, SameCommand

\* The call that creates an entry is not a handler that was interrupted.
LEMMA NewIsNoHandler ==
    ASSUME Inv, NEW r \in Requests, phase[r] = "new"
    PROVE  outcome[r] = None /\ r \notin handlers
<1>1. outcome[r] = None
  BY DEF Inv, OutcomesFollow
<1>2. None \notin {"cancelled", "deadline"}
  BY NoneAssumption DEF Refusals
<1> QED  BY <1>1, <1>2 DEF Inv, OutcomesFollow

LEMMA ExecuteInv == ASSUME Inv, NEW r \in Requests, Execute(r) PROVE Inv'
<1> DEFINE c == Connection[r]
<1>1. /\ phase[r] = "new" /\ PriorEntries(r) = {} /\ ~AtLimit(c) /\ OpenLedger(r)
      /\ entries' = Recorded(r)
      /\ pending' = [pending EXCEPT ![c] = @ + 1]
      /\ phase' = [phase EXCEPT ![r] = "executing"]
      /\ handlers' = handlers \cup {r}
      /\ UNCHANGED <<outcome, waitsOn, answer>>
  BY DEF Execute, OpenLedger
<1>2. c \in Connections /\ outcome[r] = None /\ r \notin handlers
  BY <1>1, RequestsAssumption, NewIsNoHandler
<1>3. \A q \in Requests : phase'[q] = IF q = r THEN "executing" ELSE phase[q]
  BY <1>1 DEF Inv, TypeOK
<1>4. ledgers' \in Seq(Connections) /\ Len(ledgers') <= MaxDispatchers /\ HasLedger(c)'
  BY <1>1, OpenLedgerOK
<1>5. /\ entries' \in [Connections -> Seq(Requests)]
      /\ \A d \in Connections :
            Len(entries'[d]) <= MaxOutcomes /\ (~HasLedger(d)' => entries'[d] = <<>>)
      /\ \A d \in Connections : \A q \in Owners(d)' : q \in Owners(d) \/ (q = r /\ d = c)
      /\ r \in Owners(c)'
      /\ \A q \in Requests : phase[q] = "executing" =>
            HasLedger(Connection[q])' /\ q \in Owners(Connection[q])'
  BY <1>1, RecordedOK
<1>6. /\ pending \in [Connections -> Nat] /\ pending[c] < MaxPending
      /\ \A d \in Connections : pending[d] <= MaxPending
      /\ MaxPending \in Nat
  BY <1>1, <1>2, LimitsAssumption DEF Inv, TypeOK, LedgerBounds, AtLimit
<1>7. \A d \in Connections : pending'[d] = IF d = c THEN pending[d] + 1 ELSE pending[d]
  BY <1>1, <1>6
<1>8. TypeOK'
  <2>1. pending' \in [Connections -> Nat]
    BY <1>1, <1>2, <1>6
  <2>2. phase' \in [Requests -> {"new", "executing", "waiting", "answered"}]
    BY <1>1 DEF Inv, TypeOK
  <2> QED  BY <1>1, <1>4, <1>5, <2>1, <2>2 DEF Inv, TypeOK
<1>9. PendingIsExecuting'
  <2>1. Executing(c)' = Executing(c) \cup {r} /\ r \notin Executing(c)
    BY <1>1, <1>3 DEF Executing
  <2>2. \A d \in Connections : d # c => Executing(d)' = Executing(d)
    BY <1>3 DEF Executing
  <2>3. Cardinality(Executing(c)') = Cardinality(Executing(c)) + 1
    BY <2>1, ExecutingFinite, FS_AddElement
  <2>4. \A d \in Connections : pending[d] = Cardinality(Executing(d))
    BY DEF Inv, PendingIsExecuting, Executing
  <2>5. \A d \in Connections : pending'[d] = Cardinality(Executing(d)')
    BY <1>2, <1>7, <2>2, <2>3, <2>4
  <2> QED  BY <2>5 DEF PendingIsExecuting, Executing
<1>10. LedgerBounds'
  <2>1. \A d \in Connections : pending'[d] <= MaxPending
    BY <1>6, <1>7
  <2> QED  BY <1>4, <1>5, <2>1 DEF LedgerBounds
<1>11. OwnersAreOwn'
  BY <1>5 DEF Inv, OwnersAreOwn
<1>12. ExecutingRetained'
  BY <1>3, <1>4, <1>5 DEF ExecutingRetained
<1>13. OutcomesFollow'
  BY <1>1, <1>2, <1>3 DEF Inv, TypeOK, OutcomesFollow
<1>14. OneExecutes'
  <2>1. \A q \in Requests : phase[q] = "executing" => ~SameCommand(r, q) /\ ~SameCommand(q, r)
    BY <1>1, UnknownIsNotExecuting DEF SameCommand
  <2> QED  BY <1>3, <2>1 DEF Inv, OneExecutes, SameCommand
<1>15. WaitsForOwn'
  BY <1>1, <1>3 DEF Inv, WaitsForOwn, SameCommand
<1>16. AnswersAreOwn'
  BY <1>1 DEF Inv, AnswersAreOwn, SameCommand
<1> QED
  BY <1>8, <1>9, <1>10, <1>11, <1>12, <1>13, <1>14, <1>15, <1>16 DEF Inv

\* An entry gets its outcome, in the turn that creates it or later.
LEMMA SettledInv ==
    ASSUME Inv, LedgersOK', NEW r \in Requests, phase[r] \in {"new", "executing"},
           NEW result \in Results, Answered(r, result),
           outcome' = [outcome EXCEPT ![r] = result], waitsOn' = waitsOn,
           handlers' \subseteq handlers, handlers \ {r} \subseteq handlers',
           r \in handlers' => result \in {"cancelled", "deadline"},
           pending' \in [Connections -> Nat],
           \A c \in Connections : pending'[c] = Cardinality(Executing(c)')
    PROVE  Inv'
<1>1. \A q \in Requests : phase'[q] = IF q = r THEN "answered" ELSE phase[q]
  BY DEF Inv, TypeOK, Answered
<1>2. \A q \in Requests : answer'[q] = IF q = r THEN result ELSE answer[q]
  BY DEF Inv, TypeOK, Answered
<1>3. \A q \in Requests : outcome'[q] = IF q = r THEN result ELSE outcome[q]
  BY DEF Inv, TypeOK
<1>4. outcome[r] = None /\ handlers' \subseteq Requests
  BY DEF Inv, TypeOK, OutcomesFollow
<1>5. TypeOK'
  <2>1. phase' \in [Requests -> {"new", "executing", "waiting", "answered"}]
    BY DEF Inv, TypeOK, Answered
  <2>2. answer' \in [Requests -> Results \cup Refusals \cup {None}]
    BY DEF Inv, TypeOK, Answered
  <2>3. outcome' \in [Requests -> Results \cup {None}]
    BY DEF Inv, TypeOK
  <2> QED  BY <1>4, <2>1, <2>2, <2>3 DEF Inv, TypeOK, LedgersOK
<1>6. PendingIsExecuting'
  BY DEF PendingIsExecuting, Executing
<1>7. OutcomesFollow'
  <2>1. \A q \in Requests : phase'[q] \in {"new", "executing"} => outcome'[q] = None
    BY <1>1, <1>3 DEF Inv, OutcomesFollow
  <2>2. \A q \in Requests : phase'[q] = "executing" => q \in handlers'
    BY <1>1 DEF Inv, OutcomesFollow
  <2>3. \A q \in handlers' : phase'[q] = "executing" \/ outcome'[q] \in {"cancelled", "deadline"}
    BY <1>1, <1>3, <1>4 DEF Inv, OutcomesFollow
  <2> QED  BY <2>1, <2>2, <2>3 DEF OutcomesFollow
<1>8. OneExecutes'
  BY <1>1 DEF Inv, OneExecutes, SameCommand
<1>9. WaitsForOwn'
  BY <1>1 DEF Inv, WaitsForOwn, SameCommand
<1>10. AnswersAreOwn'
  <2> SUFFICES ASSUME NEW p \in Requests, answer'[p] \in {"ok", "failed", "refused"}
               PROVE  \E q \in Requests : /\ SameCommand(p, q) /\ Content[q] = Content[p]
                                          /\ outcome'[q] = answer'[p]
    BY DEF AnswersAreOwn, SameCommand
  <2>1. CASE p = r
    BY <1>2, <1>3, <2>1 DEF SameCommand
  <2>2. CASE p # r
    <3>1. answer'[p] = answer[p]
      BY <1>2, <2>2
    <3>2. PICK q \in Requests : SameCommand(p, q) /\ Content[q] = Content[p] /\ outcome[q] = answer[p]
      BY <3>1 DEF Inv, AnswersAreOwn
    <3>3. q # r
      <4>1. None \notin {"ok", "failed", "refused"}
        BY NoneAssumption DEF Results
      <4> QED  BY <1>4, <3>1, <3>2, <4>1
    <3> QED  BY <1>3, <3>1, <3>2, <3>3
  <2> QED  BY <2>1, <2>2
<1> QED  BY <1>5, <1>6, <1>7, <1>8, <1>9, <1>10 DEF Inv, LedgersOK

LEMMA ExecuteRefusedInv == ASSUME Inv, NEW r \in Requests, ExecuteRefused(r) PROVE Inv'
<1> DEFINE c == Connection[r]
<1>1. PICK result \in {"refused", "cancelled", "deadline"} :
         outcome' = [outcome EXCEPT ![r] = result] /\ Answered(r, result)
  BY DEF ExecuteRefused
<1>2. /\ phase[r] = "new" /\ ~AtLimit(c) /\ OpenLedger(r) /\ entries' = Recorded(r)
      /\ UNCHANGED <<pending, waitsOn, handlers>>
  BY DEF ExecuteRefused, OpenLedger
<1>3. c \in Connections /\ r \notin handlers
  BY <1>2, RequestsAssumption, NewIsNoHandler
<1>4. \A q \in Requests : phase'[q] = "executing" <=> phase[q] = "executing"
  BY <1>1, <1>2 DEF Inv, TypeOK, Answered
<1>5. ledgers' \in Seq(Connections) /\ Len(ledgers') <= MaxDispatchers
  BY <1>2, OpenLedgerOK
<1>6. /\ entries' \in [Connections -> Seq(Requests)]
      /\ \A d \in Connections :
            Len(entries'[d]) <= MaxOutcomes /\ (~HasLedger(d)' => entries'[d] = <<>>)
      /\ \A d \in Connections : \A q \in Owners(d)' : q \in Owners(d) \/ (q = r /\ d = c)
      /\ \A q \in Requests : phase[q] = "executing" =>
            HasLedger(Connection[q])' /\ q \in Owners(Connection[q])'
  BY <1>2, RecordedOK
<1>7. LedgersOK'
  <2>1. LedgerBounds'
    BY <1>2, <1>5, <1>6 DEF Inv, LedgerBounds
  <2>2. OwnersAreOwn'
    BY <1>6 DEF Inv, OwnersAreOwn
  <2>3. ExecutingRetained'
    BY <1>4, <1>6 DEF ExecutingRetained
  <2> QED  BY <1>5, <1>6, <2>1, <2>2, <2>3 DEF LedgersOK
<1>8. /\ pending' \in [Connections -> Nat]
      /\ \A d \in Connections : pending'[d] = Cardinality(Executing(d)')
  <2>1. \A d : Executing(d)' = Executing(d)
    BY <1>4 DEF Executing
  <2> QED  BY <1>2, <2>1 DEF Inv, TypeOK, PendingIsExecuting, Executing
<1>9. result \in Results
  BY DEF Results
<1> QED  BY <1>1, <1>2, <1>3, <1>7, <1>8, <1>9, SettledInv

\* The finally block of a handler that was being waited for.
LEMMA SettleInv ==
    ASSUME Inv, NEW r \in Requests, phase[r] = "executing", NEW result \in Results,
           Settle(r, result), UNCHANGED <<ledgers, entries, waitsOn>>,
           \/ handlers' = handlers \ {r}
           \/ handlers' = handlers /\ result \in {"cancelled", "deadline"}
    PROVE  Inv'
<1> DEFINE c == Connection[r]
<1>1. /\ outcome' = [outcome EXCEPT ![r] = result] /\ Answered(r, result)
      /\ pending' = [pending EXCEPT ![c] = @ - 1]
  BY DEF Settle
<1>2. c \in Connections /\ pending \in [Connections -> Nat] /\ pending[c] \in Nat \ {0}
  BY RequestsAssumption, ExecutingCounted DEF Inv, TypeOK
<1>3. pending' \in [Connections -> Nat]
  BY <1>1, <1>2
<1>4. \A d \in Connections : pending'[d] = IF d = c THEN pending[d] - 1 ELSE pending[d]
  BY <1>1, <1>2
<1>5. \A q \in Requests : phase'[q] = IF q = r THEN "answered" ELSE phase[q]
  BY <1>1 DEF Inv, TypeOK, Answered
<1>6. \A d \in Connections : pending'[d] = Cardinality(Executing(d)')
  <2>1. Executing(c)' = Executing(c) \ {r} /\ r \in Executing(c)
    BY <1>5 DEF Executing
  <2>2. \A d \in Connections : d # c => Executing(d)' = Executing(d)
    BY <1>5 DEF Executing
  <2>3. Cardinality(Executing(c)') = Cardinality(Executing(c)) - 1
    BY <2>1, ExecutingFinite, FS_RemoveElement
  <2>4. \A d \in Connections : pending[d] = Cardinality(Executing(d))
    BY DEF Inv, PendingIsExecuting, Executing
  <2> QED  BY <1>2, <1>4, <2>2, <2>3, <2>4
<1>7. LedgersOK'
  <2>1. \A d : HasLedger(d)' <=> HasLedger(d)
    BY DEF HasLedger
  <2>2. \A d : Owners(d)' = Owners(d)
    BY DEF Owners
  <2>3. \A d \in Connections : pending'[d] <= MaxPending
    <3>1. MaxPending \in Nat /\ \A d \in Connections : pending[d] <= MaxPending
      BY LimitsAssumption DEF Inv, LedgerBounds
    <3> QED  BY <1>2, <1>4, <3>1
  <2>4. LedgerBounds'
    BY <2>1, <2>3 DEF Inv, LedgerBounds
  <2>5. OwnersAreOwn'
    BY <2>2 DEF Inv, OwnersAreOwn
  <2>6. ExecutingRetained'
    BY <1>5, <2>1, <2>2 DEF Inv, ExecutingRetained
  <2> QED  BY <2>4, <2>5, <2>6 DEF Inv, TypeOK, LedgersOK
<1> QED  BY <1>1, <1>3, <1>6, <1>7, SettledInv

LEMMA HandlerReturnsInv == ASSUME Inv, NEW r \in Requests, HandlerReturns(r) PROVE Inv'
<1>1. handlers' = handlers \ {r} /\ UNCHANGED <<ledgers, entries, waitsOn>>
  BY DEF HandlerReturns
<1>2. CASE phase[r] = "executing"
  <2>1. PICK result \in {"ok", "failed"} : Settle(r, result)
    BY <1>2 DEF HandlerReturns
  <2>2. result \in Results
    BY <2>1 DEF Results
  <2> QED  BY <1>1, <1>2, <2>1, <2>2, SettleInv
<1>3. CASE phase[r] # "executing"
  <2>1. UNCHANGED <<outcome, pending, phase, answer>>
    BY <1>3 DEF HandlerReturns
  <2>2. LedgersOK'
    BY <1>1, <2>1, LedgersSame
  <2>3. TypeOK'
    BY <1>1, <2>1 DEF Inv, TypeOK
  <2>4. PendingIsExecuting'
    BY <2>1 DEF Inv, PendingIsExecuting
  <2>5. OutcomesFollow'
    BY <1>1, <1>3, <2>1 DEF Inv, OutcomesFollow
  <2>6. OneExecutes' /\ WaitsForOwn' /\ AnswersAreOwn'
    BY <1>1, <2>1 DEF Inv, OneExecutes, WaitsForOwn, AnswersAreOwn, SameCommand
  <2> QED  BY <2>2, <2>3, <2>4, <2>5, <2>6 DEF Inv, LedgersOK
<1> QED  BY <1>2, <1>3

LEMMA InterruptInv ==
    ASSUME Inv, NEW r \in Requests, NEW why \in {"cancelled", "deadline"}, Interrupt(r, why)
    PROVE  Inv'
<1>1. why \in Results
  BY DEF Results
<1> QED  BY <1>1, SettleInv DEF Interrupt

LEMMA SubmitInv == ASSUME Inv, NEW r \in Requests, Submit(r) PROVE Inv'
BY RefuseInv, ConflictInv, ReplayInv, WaitInv, RefuseAtLimitInv, ExecuteInv,
   ExecuteRefusedInv DEF Submit

LEMMA StutterInv == ASSUME Inv, UNCHANGED vars PROVE Inv'
<1>1. UNCHANGED <<ledgers, entries, pending, phase, outcome, waitsOn, answer, handlers>>
  BY DEF vars
<1>2. LedgersOK'
  BY <1>1, LedgersSame
<1>3. TypeOK' /\ PendingIsExecuting' /\ OutcomesFollow'
  BY <1>1 DEF Inv, TypeOK, PendingIsExecuting, OutcomesFollow
<1>4. OneExecutes' /\ WaitsForOwn' /\ AnswersAreOwn'
  BY <1>1 DEF Inv, OneExecutes, WaitsForOwn, AnswersAreOwn, SameCommand
<1> QED  BY <1>2, <1>3, <1>4 DEF Inv, LedgersOK

LEMMA NextInv == Inv /\ [Next]_vars => Inv'
<1> SUFFICES ASSUME Inv, [Next]_vars PROVE Inv'
  OBVIOUS
<1>1. ASSUME NEW r \in Requests, Submit(r) PROVE Inv'
  BY <1>1, SubmitInv
<1>2. ASSUME NEW r \in Requests, HandlerReturns(r) PROVE Inv'
  BY <1>2, HandlerReturnsInv
<1>3. ASSUME NEW r \in Requests, Cancel(r) PROVE Inv'
  BY <1>3, InterruptInv, WaitInterruptedInv DEF Cancel
<1>4. ASSUME NEW r \in Requests, DeadlinePasses(r) PROVE Inv'
  BY <1>4, InterruptInv, WaitInterruptedInv DEF DeadlinePasses
<1>5. ASSUME NEW r \in Requests, WaitEnds(r) PROVE Inv'
  BY <1>5, WaitEndsInv
<1> QED  BY <1>1, <1>2, <1>3, <1>4, <1>5, StutterInv DEF Next

-----------------------------------------------------------------------------
(* The theorems. *)

\* The inductive invariant: whatever commandWithOutcome, the handlers, the
\* abort signals and the deadlines do, in any order.
THEOREM LedgerInvariant == Spec => []Inv
<1> QED  BY InitInv, NextInv, PTL DEF Spec

\* ledger.pending, by which commands are admitted and ledgers retired, is the
\* number of commands whose handler has not been answered for.
THEOREM LedgerPendingIsExecuting == Spec => []PendingIsExecuting
<1>1. Inv => PendingIsExecuting
  BY DEF Inv
<1> QED  BY <1>1, LedgerInvariant, PTL

\* Neither loop that makes room forgets a command that is being executed.
THEOREM LedgerExecutingRetained == Spec => []ExecutingRetained
<1>1. Inv => ExecutingRetained
  BY DEF Inv
<1> QED  BY <1>1, LedgerInvariant, PTL

\* invoke() lets two handlers of one command overlap only after it answered for
\* one of them on a cancellation or a deadline.
THEOREM LedgerNoOverlap == Spec => []NoOverlap
<1>1. Inv => NoOverlap
  BY DEF Inv, OutcomesFollow, OneExecutes, NoOverlap, TypeOK
<1> QED  BY <1>1, LedgerInvariant, PTL

\* A caller is told the outcome of its own command with its own contents: the
\* fingerprint comparison of commandWithOutcome.
THEOREM LedgerAnswersAreOwn == Spec => []AnswersAreOwn
<1>1. Inv => AnswersAreOwn
  BY DEF Inv
<1> QED  BY <1>1, LedgerInvariant, PTL
=============================================================================
