---------------------------- MODULE LedgerProofs ----------------------------
(***************************************************************************)
(* Proofs about what the platform records, sends and counts, for every     *)
(* value of the constants: the pages of the list of sessions, the evidence *)
(* behind a run that is shown as verified, the windows and the accounts of *)
(* usage, and the outbox with its consumers.  History is SessionHistory,   *)
(* Shown is RunEvidence, Windows is UsageWindows, Accounts is              *)
(* UsageAccounts and Outboxes is MCOutbox, as MCPlatform has them.         *)
(***************************************************************************)
EXTENDS PlatformProofs

-----------------------------------------------------------------------------
(* The list of sessions *)

Told(r) == \E i \in DOMAIN history_listed : history_listed[i] = r
Emitted == history_ledger \cup history_spool

\* The ledger only grows, so a session starts at the latest where it did at the first
\* page.
HistoryShape ==
  /\ history_clock \in Nat \ {0}
  /\ IsFiniteSet(history_ledger)
  /\ Emitted \subseteq [run : KnownSessions, at : 1..history_clock]
  /\ history_cursor \in Nat \cup {None} /\ history_listed \in Seq(KnownSessions)
  /\ history_cursor = None => history_listed = <<>> /\ history_known = {}
  /\ \A k \in history_known :
       k.run \in History!Sessions /\ k.start \in Nat \ {0} /\ History!Start(k.run) <= k.start
  /\ \A i \in DOMAIN history_listed : history_listed[i] \notin Mocks

\* What the reader has been told of is what started at the cursor or later.
ReadSoFar ==
  \A k \in history_known : History!Start(k.run) = k.start /\ History!Alone(k) =>
    /\ Told(k.run) <=> history_cursor <= k.start
    /\ \A i, j \in DOMAIN history_listed :
         history_listed[i] = k.run /\ history_listed[j] = k.run => i = j

HistoryInv == HistoryShape /\ ReadSoFar

-----------------------------------------------------------------------------

\* A set of positive numbers that is not empty has a least one.
LEMMA LeastTime ==
  ASSUME NEW T, T \subseteq Nat, T # {}
  PROVE  \E m \in T : \A t \in T : m <= t
<1> DEFINE R == OpToRel(<, Nat)
<1>1. IsWellFoundedOn(R, Nat)
  BY NatLessThanWellFounded
<1>2. R = {ss \in Nat \X Nat : ss[1] < ss[2]}
  BY DEF OpToRel
<1> HIDE DEF R
<1>3. PICK m \in T : \A t \in T : <<t, m>> \notin R
  BY <1>1, WFMin
<1>4. ASSUME NEW t \in T PROVE m <= t
  <2>1. <<t, m>> \in Nat \X Nat /\ <<t, m>>[1] = t /\ <<t, m>>[2] = m
    OBVIOUS
  <2>2. ~(<<t, m>>[1] < <<t, m>>[2])
    BY <1>2, <1>3, <2>1, Zenon
  <2> QED BY <2>1, <2>2
<1> QED BY <1>4

\* What is assumed of the constants.
LEMMA HistoryConstants ==
  /\ Limit \in Nat \ {0} /\ None \notin Nat
  /\ \A S : History!Cardinality(S) = Cardinality(S)
<1>1. \A S : History!Cardinality(S) = Cardinality(S)
  BY Zenon DEF Cardinality, History!Cardinality
<1> QED BY <1>1, PlatformAssumption DEF History!HistoryAssumption

\* MIN(timestamp_utc): a session starts with the earliest of its events.
LEMMA StartIs ==
  ASSUME HistoryShape, NEW r \in History!Sessions
  PROVE  /\ History!Start(r) \in Nat \ {0}
         /\ \E e \in history_ledger : e.run = r /\ e.at = History!Start(r)
         /\ \A e \in history_ledger : e.run = r => History!Start(r) <= e.at
<1> DEFINE times == {e.at : e \in {f \in history_ledger : f.run = r}}
<1>1. times \subseteq Nat \ {0} /\ times # {}
  <2>1. history_ledger \subseteq [run : KnownSessions, at : 1..history_clock] /\ history_clock \in Nat
    BY DEF HistoryShape, Emitted
  <2>2. \E e \in history_ledger : e.run = r
    BY DEF History!Sessions
  <2> QED BY <2>1, <2>2
<1>2. \E m \in times : \A t \in times : m <= t
  BY <1>1, LeastTime
<1>3. History!Start(r) = CHOOSE t \in times : \A u \in times : t <= u
  BY DEF History!Start
<1>4. History!Start(r) \in times /\ \A t \in times : History!Start(r) <= t
  BY <1>2, <1>3
<1>5. \E e \in history_ledger : e.run = r /\ e.at = History!Start(r)
  BY <1>4
<1>6. \A e \in history_ledger : e.run = r => History!Start(r) <= e.at
  BY <1>4
<1> HIDE DEF times
<1> QED BY <1>1, <1>4, <1>5, <1>6

\* There are finitely many sessions.
LEMMA SessionsFinite ==
  ASSUME HistoryShape, NEW before
  PROVE  /\ IsFiniteSet(History!Matching(before)) /\ Cardinality(History!Matching(before)) \in Nat
         /\ History!HasMore(before) <=> Cardinality(History!Matching(before)) > Limit
<1> DEFINE f == [e \in history_ledger |-> e.run]
           T == {e.run : e \in history_ledger}
<1>1. f \in Surjection(history_ledger, T)
  BY DEF Surjection
<1>2. IsFiniteSet(T)
  BY <1>1, FS_Surjection DEF HistoryShape
<1>3. History!Matching(before) \in SUBSET T
  BY DEF History!Matching, History!Sessions
<1>4. IsFiniteSet(History!Matching(before))
  BY <1>2, <1>3, FS_Subset
<1>5. History!HasMore(before) <=> Cardinality(History!Matching(before)) > Limit
  BY HistoryConstants DEF History!HasMore
<1> QED BY <1>4, <1>5, FS_CardinalityType

\* A page has the latest of the sessions that match, each of them once.
LEMMA PageTells ==
  ASSUME HistoryShape, NEW before, NEW n \in 0..Limit, NEW page \in [1..n -> KnownSessions],
         History!IsPage(page, before)
  PROVE  /\ page \in Seq(KnownSessions) /\ Len(page) = n
         /\ \A i \in 1..n : page[i] \in History!Matching(before)
         /\ \A i, j \in 1..n : page[i] = page[j] => i = j
         /\ ~History!HasMore(before) =>
              \A r \in History!Matching(before) : \E i \in 1..n : page[i] = r
         /\ History!HasMore(before) =>
              /\ n # 0
              /\ \A r \in History!Matching(before) :
                   History!Start(r) > History!Start(page[n]) => \E i \in 1..n : page[i] = r
              /\ \A i \in 1..n : History!Start(page[i]) >= History!Start(page[n])
<1> DEFINE M == History!Matching(before)
<1>1. n \in Nat /\ Limit \in Nat \ {0}
  BY HistoryConstants
<1>2. page \in Seq(KnownSessions) /\ Len(page) = n /\ DOMAIN page = 1..n
  BY <1>1
<1>3. /\ n = IF History!HasMore(before) THEN Limit ELSE Cardinality(M)
      /\ \A i \in 1..n :
           /\ page[i] \in M /\ \A j \in 1..(i - 1) : page[j] # page[i]
           /\ \A r \in M : History!Start(r) > History!Start(page[i]) =>
                \E j \in 1..(i - 1) : page[j] = r
  <2>1. Len(page) = IF History!HasMore(before) THEN Limit ELSE History!Cardinality(M)
    BY DEF History!IsPage
  <2>2. Len(page) = IF History!HasMore(before) THEN Limit ELSE Cardinality(M)
    BY <2>1, HistoryConstants
  <2> QED BY <1>2, <2>2 DEF History!IsPage
<1>4. ASSUME NEW i \in 1..n, NEW j \in 1..n, page[i] = page[j]
      PROVE  i = j
  <2>1. CASE i < j
    <3>1. i \in 1..(j - 1)
      BY <1>1, <2>1
    <3> QED BY <1>3, <1>4, <3>1
  <2>2. CASE j < i
    <3>1. j \in 1..(i - 1)
      BY <1>1, <2>2
    <3> QED BY <1>3, <1>4, <3>1
  <2> QED BY <1>1, <2>1, <2>2
<1>5. ASSUME ~History!HasMore(before), NEW r \in M
      PROVE  \E i \in 1..n : page[i] = r
  <2>1. page \in Injection(1..n, M)
    <3>1. page \in [1..n -> M]
      BY <1>3
    <3> QED BY <1>2, <1>4, <3>1 DEF Injection, IsInjective
  <2>2. Cardinality(1..n) = Cardinality(M)
    <3>1. Cardinality(1..n) = n
      BY <1>1, FS_Interval
    <3> QED BY <1>3, <1>5, <3>1
  <2>3. page \in Surjection(1..n, M)
    BY <2>1, <2>2, SessionsFinite, FS_Injection
  <2> QED BY <2>3 DEF Surjection
<1>6. ASSUME History!HasMore(before)
      PROVE  /\ n # 0
             /\ \A r \in M : History!Start(r) > History!Start(page[n]) =>
                  \E i \in 1..n : page[i] = r
             /\ \A i \in 1..n : History!Start(page[i]) >= History!Start(page[n])
  <2>1. n # 0 /\ n \in 1..n
    BY <1>1, <1>3, <1>6
  <2>2. \A r \in M : History!Start(r) > History!Start(page[n]) =>
          \E i \in 1..(n - 1) : page[i] = r
    BY <1>3, <2>1
  <2>3. ASSUME NEW i \in 1..n, ~(History!Start(page[i]) >= History!Start(page[n]))
        PROVE  FALSE
    <3>1. page[i] \in History!Sessions /\ page[n] \in History!Sessions
      BY <1>3, <2>1 DEF History!Matching
    <3>2. History!Start(page[i]) \in Nat /\ History!Start(page[n]) \in Nat
      BY <3>1, StartIs
    <3>3. PICK j \in 1..(i - 1) : page[j] = page[n]
      BY <1>3, <2>1, <2>3, <3>2
    <3>4. j \in 1..n /\ j # n
      BY <1>1
    <3> QED BY <1>4, <2>1, <3>3, <3>4
  <2> QED BY <1>1, <2>1, <2>2, <2>3
<1> QED BY <1>2, <1>3, <1>4, <1>5, <1>6

\* The invariant holds at the start.
LEMMA HistoryInit == History!Init => HistoryInv
<1> SUFFICES ASSUME History!Init PROVE HistoryInv
  OBVIOUS
<1>1. /\ history_clock = 1 /\ history_ledger = {} /\ history_spool = {}
      /\ history_cursor = None /\ history_listed = <<>> /\ history_known = {}
  BY DEF History!Init
<1>2. <<>> \in Seq(KnownSessions) /\ DOMAIN <<>> = {}
  OBVIOUS
<1> QED BY <1>1, <1>2, FS_EmptySet DEF HistoryInv, HistoryShape, ReadSoFar, Emitted

\* Events are recorded or come out of the spool; nobody reads.
LEMMA LedgerGrows ==
  ASSUME HistoryInv, history_ledger \subseteq history_ledger', Emitted \subseteq Emitted',
         IsFiniteSet(history_ledger'),
         Emitted' \subseteq [run : KnownSessions, at : 1..history_clock'],
         history_clock' \in Nat \ {0},
         UNCHANGED <<history_cursor, history_listed, history_known>>
  PROVE  HistoryInv'
<1>1. \A k \in history_known :
        /\ k.run \in History!Sessions' /\ k.run \in History!Sessions /\ k.start \in Nat \ {0}
        /\ History!Start(k.run) <= k.start
  BY DEF HistoryInv, HistoryShape, History!Sessions
<1>2. ASSUME NEW r \in History!Sessions, r \in History!Sessions'
      PROVE  /\ History!Start(r)' \in Nat \ {0} /\ History!Start(r)' <= History!Start(r)
             /\ History!Start(r) \in Nat
  <2>1. HistoryShape
    BY DEF HistoryInv
  <2>2. History!Start(r) \in Nat /\ \E e \in history_ledger : e.run = r /\ e.at = History!Start(r)
    BY <2>1, StartIs
  <2> DEFINE times == {e.at : e \in {f \in history_ledger' : f.run = r}}
  <2>3. times \subseteq Nat \ {0} /\ times # {}
    <3>1. history_ledger' \subseteq [run : KnownSessions, at : 1..history_clock']
          /\ history_clock' \in Nat
      BY DEF Emitted
    <3>2. \E e \in history_ledger' : e.run = r
      BY <2>2
    <3> QED BY <3>1, <3>2
  <2>4. \E m \in times : \A t \in times : m <= t
    BY <2>3, LeastTime
  <2>5. History!Start(r)' = CHOOSE t \in times : \A u \in times : t <= u
    BY DEF History!Start
  <2>6. History!Start(r)' \in times /\ \A t \in times : History!Start(r)' <= t
    BY <2>4, <2>5
  <2>7. History!Start(r) \in times
    BY <2>2
  <2> HIDE DEF times
  <2> QED BY <2>2, <2>3, <2>6, <2>7
<1>3. ASSUME NEW k \in history_known
      PROVE  /\ History!Start(k.run)' <= k.start
             /\ History!Start(k.run)' = k.start => History!Start(k.run) = k.start
             /\ History!Alone(k)' => History!Alone(k)
  <2>1. /\ History!Start(k.run)' \in Nat /\ History!Start(k.run) \in Nat /\ k.start \in Nat
        /\ History!Start(k.run)' <= History!Start(k.run) /\ History!Start(k.run) <= k.start
    BY <1>1, <1>2
  <2>2. History!Alone(k)' => History!Alone(k)
    BY DEF History!Alone, Emitted
  <2> QED BY <2>1, <2>2
<1>4. HistoryShape'
  BY <1>1, <1>3 DEF HistoryInv, HistoryShape, Emitted
<1>5. ReadSoFar'
  <2>1. ASSUME NEW k \in history_known, History!Start(k.run)' = k.start, History!Alone(k)'
        PROVE  /\ Told(k.run) <=> history_cursor <= k.start
               /\ \A i, j \in DOMAIN history_listed :
                    history_listed[i] = k.run /\ history_listed[j] = k.run => i = j
    BY <1>3, <2>1 DEF HistoryInv, ReadSoFar
  <2> QED BY <2>1 DEF ReadSoFar, Told
<1> QED BY <1>4, <1>5 DEF HistoryInv

\* What is in two sequences behind one another.
LEMMA Appended ==
  ASSUME NEW S, NEW a \in Seq(S), NEW b \in Seq(S)
  PROVE  /\ a \o b \in Seq(S) /\ Len(a \o b) = Len(a) + Len(b)
         /\ \A i \in 1..(Len(a) + Len(b)) :
              (a \o b)[i] = IF i <= Len(a) THEN a[i] ELSE b[i - Len(a)]
BY ConcatProperties

\* A number behind the first l is as far behind them as it is among the others.
LEMMA BehindFirst ==
  ASSUME NEW l \in Nat, NEW n \in Nat, NEW i \in 1..(l + n), i \notin 1..l
  PROVE  i - l \in 1..n /\ i = l + (i - l)
OBVIOUS

\* A page is read.
LEMMA PageIsRead ==
  ASSUME HistoryInv, History!ReadPage
  PROVE  HistoryInv'
<1> DEFINE B == history_cursor
           M == History!Matching(B)
           L == Len(history_listed)
<1>1. PICK n \in 0..Limit : \E page \in [1..n -> KnownSessions] :
        /\ History!IsPage(page, B)
        /\ history_listed' = history_listed \o page
        /\ history_cursor' = IF History!HasMore(B) THEN History!Start(page[n]) ELSE 0
  BY DEF History!ReadPage
<1>2. PICK page \in [1..n -> KnownSessions] :
        /\ History!IsPage(page, B)
        /\ history_listed' = history_listed \o page
        /\ history_cursor' = IF History!HasMore(B) THEN History!Start(page[n]) ELSE 0
  BY <1>1
<1>3. /\ B # 0
      /\ history_known' = IF B = None THEN {[run |-> r, start |-> History!Start(r)] : r \in History!Sessions}
                                      ELSE history_known
      /\ UNCHANGED <<history_clock, history_ledger, history_spool>>
  BY DEF History!ReadPage
<1>4. HistoryShape
  BY DEF HistoryInv
<1>5. /\ page \in Seq(KnownSessions) /\ Len(page) = n
      /\ \A i \in 1..n : page[i] \in M
      /\ \A i, j \in 1..n : page[i] = page[j] => i = j
      /\ ~History!HasMore(B) => \A r \in M : \E i \in 1..n : page[i] = r
      /\ History!HasMore(B) =>
           /\ n # 0
           /\ \A r \in M : History!Start(r) > History!Start(page[n]) => \E i \in 1..n : page[i] = r
           /\ \A i \in 1..n : History!Start(page[i]) >= History!Start(page[n])
  BY <1>2, <1>4, PageTells
<1>6. M = {r \in History!Sessions : B = None \/ History!Start(r) < B}
  BY DEF History!Matching
<1>7. History!Sessions' = History!Sessions /\ \A r : History!Start(r)' = History!Start(r)
  BY <1>3 DEF History!Sessions, History!Start
<1>8. \A r \in History!Sessions : History!Start(r) \in Nat \ {0} /\ r \notin Mocks
  BY <1>4, StartIs DEF History!Sessions
<1>9. /\ history_listed' \in Seq(KnownSessions) /\ DOMAIN history_listed' = 1..(L + n)
      /\ L \in Nat /\ n \in Nat /\ DOMAIN history_listed = 1..L
      /\ \A i \in 1..L : history_listed'[i] = history_listed[i]
      /\ \A i \in 1..n : history_listed'[L + i] = page[i]
  <2>1. history_listed \in Seq(KnownSessions) /\ L \in Nat /\ n \in Nat /\ DOMAIN history_listed = 1..L
    BY <1>4, HistoryConstants DEF HistoryShape
  <2>2. /\ history_listed' \in Seq(KnownSessions) /\ Len(history_listed') = L + n
        /\ \A i \in 1..(L + n) :
             history_listed'[i] = IF i <= L THEN history_listed[i] ELSE page[i - L]
    <3>1. /\ history_listed \o page \in Seq(KnownSessions)
          /\ Len(history_listed \o page) = L + Len(page)
          /\ \A i \in 1..(L + Len(page)) :
               (history_listed \o page)[i] = IF i <= L THEN history_listed[i] ELSE page[i - L]
      <4>1. history_listed \in Seq(KnownSessions) /\ page \in Seq(KnownSessions)
        BY <1>5, <2>1
      <4> QED BY <4>1, Appended
    <3>2. history_listed' = history_listed \o page /\ Len(page) = n
      BY <1>2, <1>5
    <3> QED BY <3>1, <3>2, Zenon
  <2>3. \A i \in 1..L : i \in 1..(L + n) /\ i <= L
    BY <2>1
  <2>4. \A i \in 1..n : L + i \in 1..(L + n) /\ ~(L + i <= L) /\ (L + i) - L = i
    BY <2>1
  <2>5. DOMAIN history_listed' = 1..(L + n)
    BY <2>2
  <2> QED BY <2>1, <2>2, <2>3, <2>4, <2>5
<1>10. \A i \in DOMAIN history_listed' :
         i \in 1..L \/ \E j \in 1..n : i = L + j /\ history_listed'[i] = page[j]
  <2>1. ASSUME NEW i \in 1..(L + n), i \notin 1..L
        PROVE  \E j \in 1..n : i = L + j
    <3>1. n \in Nat /\ L \in Nat
      BY <1>9
    <3>2. i - L \in 1..n /\ i = L + (i - L)
      BY <2>1, <3>1, BehindFirst, Zenon
    <3> QED BY <3>2
  <2>2. DOMAIN history_listed' = 1..(L + n) /\ \A j \in 1..n : history_listed'[L + j] = page[j]
    BY <1>9
  <2> HIDE DEF L
  <2> QED BY <2>1, <2>2
<1>11. ASSUME NEW r
       PROVE  Told(r)' <=> Told(r) \/ \E i \in 1..n : page[i] = r
  <2>1. ASSUME NEW i \in 1..n, page[i] = r PROVE Told(r)'
    <3>1. L + i \in DOMAIN history_listed' /\ history_listed'[L + i] = r
      BY <1>9, <2>1
    <3> QED BY <3>1 DEF Told
  <2>2. ASSUME Told(r) PROVE Told(r)'
    <3>1. PICK i \in 1..L : history_listed[i] = r
      BY <1>9, <2>2 DEF Told
    <3>2. i \in DOMAIN history_listed' /\ history_listed'[i] = r
      BY <1>9, <3>1
    <3> QED BY <3>2 DEF Told
  <2>3. ASSUME Told(r)' PROVE Told(r) \/ \E i \in 1..n : page[i] = r
    BY <1>9, <1>10, <2>3 DEF Told
  <2> QED BY <2>1, <2>2, <2>3
<1>12. ASSUME NEW k \in history_known'
       PROVE  /\ k.run \in History!Sessions /\ k.start \in Nat \ {0}
              /\ History!Start(k.run) <= k.start
  BY <1>3, <1>4, <1>8 DEF HistoryShape
<1>13. history_cursor' \in Nat
  BY <1>2, <1>5, <1>6, <1>8, <1>9
<1>14. HistoryShape'
  <2>1. ASSUME NEW i \in DOMAIN history_listed' PROVE history_listed'[i] \notin Mocks
    <3>1. \A j \in 1..n : page[j] \notin Mocks
      BY <1>5, <1>6, <1>8
    <3> QED BY <1>4, <1>9, <1>10, <3>1 DEF HistoryShape
  <2> QED BY <1>3, <1>4, <1>7, <1>9, <1>12, <1>13, <2>1, HistoryConstants DEF HistoryShape, Emitted
<1>15. ASSUME NEW k \in history_known', History!Start(k.run) = k.start, History!Alone(k)
       PROVE  /\ B = None => ~Told(k.run)
              /\ Told(k.run) <=> k.run \notin M
              /\ \A i, j \in DOMAIN history_listed :
                   history_listed[i] = k.run /\ history_listed[j] = k.run => i = j
  <2>1. CASE B = None
    <3>1. history_listed = <<>>
      BY <1>4, <2>1 DEF HistoryShape
    <3> QED BY <1>6, <1>12, <2>1, <3>1 DEF Told
  <2>2. CASE B # None
    <3>1. B \in Nat /\ k \in history_known
      BY <1>3, <1>4, <2>2 DEF HistoryShape
    <3>2. /\ Told(k.run) <=> B <= k.start
          /\ \A i, j \in DOMAIN history_listed :
               history_listed[i] = k.run /\ history_listed[j] = k.run => i = j
      BY <1>15, <3>1 DEF HistoryInv, ReadSoFar
    <3> QED BY <1>6, <1>12, <1>15, <2>2, <3>1, <3>2
  <2> QED BY <2>1, <2>2
<1>16. ASSUME NEW k \in history_known', History!Start(k.run) = k.start, History!Alone(k)
       PROVE  Told(k.run)' <=> history_cursor' <= k.start
  <2>1. CASE ~History!HasMore(B)
    <3>1. history_cursor' = 0 /\ history_cursor' <= k.start
      BY <1>2, <1>12, <2>1
    <3>2. Told(k.run) \/ \E i \in 1..n : page[i] = k.run
      BY <1>5, <1>15, <1>16, <2>1
    <3> QED BY <1>11, <3>1, <3>2
  <2>2. CASE History!HasMore(B)
    <3>1. /\ history_cursor' = History!Start(page[n]) /\ n \in 1..n /\ page[n] \in M
          /\ page[n] \in History!Sessions /\ history_cursor' \in Nat /\ k.start \in Nat
      BY <1>2, <1>5, <1>6, <1>8, <1>9, <1>12, <2>2
    <3>2. CASE k.run \notin M
      <4>1. Told(k.run)'
        BY <1>11, <1>15, <1>16, <3>2
      <4>2. B # None /\ B \in Nat /\ ~(k.start < B)
        BY <1>4, <1>6, <1>12, <1>16, <3>2 DEF HistoryShape
      <4>3. history_cursor' < B
        BY <1>6, <3>1, <4>2
      <4> QED BY <3>1, <4>1, <4>2, <4>3
    <3>3. CASE k.run \in M
      <4>1. ~Told(k.run)
        BY <1>15, <1>16, <3>3
      <4>2. CASE k.start > history_cursor'
        <5>1. \E i \in 1..n : page[i] = k.run
          BY <1>5, <1>16, <2>2, <3>1, <3>3, <4>2
        <5> QED BY <1>11, <3>1, <4>2, <5>1
      <4>3. CASE k.start = history_cursor'
        <5>1. PICK e \in history_ledger : e.run = page[n] /\ e.at = history_cursor'
          BY <1>4, <3>1, StartIs
        <5>2. page[n] = k.run
          BY <1>16, <4>3, <5>1 DEF History!Alone
        <5> QED BY <1>11, <3>1, <4>3, <5>2
      <4>4. CASE k.start < history_cursor'
        <5>1. ~\E i \in 1..n : page[i] = k.run
          BY <1>5, <1>16, <2>2, <3>1, <4>4
        <5> QED BY <1>11, <3>1, <4>1, <4>4, <5>1
      <4> QED BY <3>1, <4>2, <4>3, <4>4
    <3> QED BY <3>2, <3>3
  <2> QED BY <2>1, <2>2
<1>17. ASSUME NEW k \in history_known', History!Start(k.run) = k.start, History!Alone(k),
              NEW i \in DOMAIN history_listed', NEW j \in DOMAIN history_listed',
              history_listed'[i] = k.run, history_listed'[j] = k.run
       PROVE  i = j
  <2>1. CASE Told(k.run)
    <3>1. \A m \in 1..n : page[m] # k.run
      BY <1>5, <1>15, <1>17, <2>1
    <3>2. i \in 1..L /\ j \in 1..L
      BY <1>10, <1>17, <3>1
    <3> QED BY <1>9, <1>15, <1>17, <3>2
  <2>2. CASE ~Told(k.run)
    <3>1. i \notin 1..L /\ j \notin 1..L
      BY <1>9, <1>17, <2>2 DEF Told
    <3>2. PICK a \in 1..n : i = L + a /\ page[a] = k.run
      BY <1>10, <1>17, <3>1
    <3>3. PICK b \in 1..n : j = L + b /\ page[b] = k.run
      BY <1>10, <1>17, <3>1
    <3> QED BY <1>5, <3>2, <3>3
  <2> QED BY <2>1, <2>2
<1>18. ReadSoFar'
  <2>1. \A k : History!Alone(k)' <=> History!Alone(k)
    BY <1>3 DEF History!Alone
  <2> QED BY <1>7, <1>16, <1>17, <2>1 DEF ReadSoFar
<1> QED BY <1>14, <1>18 DEF HistoryInv

\* So every step keeps the invariant of the pages.
LEMMA HistoryStep == HistoryInv /\ [History!Next]_history => HistoryInv'
<1> SUFFICES ASSUME HistoryInv, [History!Next]_history PROVE HistoryInv'
  OBVIOUS
<1>0. /\ history_clock \in Nat \ {0} /\ IsFiniteSet(history_ledger)
      /\ Emitted \subseteq [run : KnownSessions, at : 1..history_clock]
  BY DEF HistoryInv, HistoryShape
<1>1. CASE History!Tick
  <2>1. /\ history_clock' = history_clock + 1
        /\ UNCHANGED <<history_ledger, history_spool, history_cursor, history_listed, history_known>>
    BY <1>1 DEF History!Tick, History!reader
  <2>2. /\ history_clock' \in Nat \ {0} /\ Emitted' = Emitted
        /\ 1..history_clock \subseteq 1..history_clock'
    BY <1>0, <2>1 DEF Emitted
  <2>3. Emitted' \subseteq [run : KnownSessions, at : 1..history_clock']
    BY <1>0, <2>2
  <2> QED BY <1>0, <2>1, <2>2, <2>3, LedgerGrows
<1>2. ASSUME NEW r \in KnownSessions, History!Record(r) PROVE HistoryInv'
  <2> DEFINE e == [run |-> r, at |-> history_clock]
  <2>1. /\ \/ history_ledger' = history_ledger \cup {e} /\ history_spool' = history_spool
           \/ history_spool' = history_spool \cup {e} /\ history_ledger' = history_ledger
        /\ UNCHANGED <<history_clock, history_cursor, history_listed, history_known>>
    BY <1>2 DEF History!Record, History!reader
  <2>2. e \in [run : KnownSessions, at : 1..history_clock]
    BY <1>0
  <2>3. Emitted' = Emitted \cup {e} /\ history_ledger \subseteq history_ledger'
    BY <2>1 DEF Emitted
  <2>4. IsFiniteSet(history_ledger')
    BY <1>0, <2>1, FS_AddElement
  <2> HIDE DEF e
  <2> QED BY <1>0, <2>1, <2>2, <2>3, <2>4, LedgerGrows
<1>3. ASSUME NEW e \in history_spool, History!Sync(e) PROVE HistoryInv'
  <2>1. /\ history_spool' = history_spool \ {e} /\ history_ledger' = history_ledger \cup {e}
        /\ UNCHANGED <<history_clock, history_cursor, history_listed, history_known>>
    BY <1>3 DEF History!Sync, History!reader
  <2>2. Emitted' = Emitted /\ history_ledger \subseteq history_ledger'
    BY <2>1 DEF Emitted
  <2>3. IsFiniteSet(history_ledger')
    BY <1>0, <2>1, FS_AddElement
  <2> QED BY <1>0, <2>1, <2>2, <2>3, LedgerGrows
<1>4. CASE UNCHANGED history
  <2>1. UNCHANGED <<history_clock, history_ledger, history_spool, history_cursor, history_listed,
                    history_known>>
    BY <1>4 DEF history
  <2>2. Emitted' = Emitted
    BY <2>1 DEF Emitted
  <2> QED BY <1>0, <2>1, <2>2, LedgerGrows
<1> QED BY <1>1, <1>2, <1>3, <1>4, PageIsRead DEF History!Next

\* How often a session was listed.
LEMMA TimesIs ==
  ASSUME HistoryShape, NEW r
  PROVE  /\ ~Told(r) => History!Times(r) = 0
         /\ (\A i, j \in DOMAIN history_listed :
               history_listed[i] = r /\ history_listed[j] = r => i = j)
            => History!Times(r) <= 1 /\ (Told(r) => History!Times(r) = 1)
<1> DEFINE T == {i \in DOMAIN history_listed : history_listed[i] = r}
<1>1. History!Times(r) = Cardinality(T)
  <2>1. History!Times(r) = History!Cardinality(T)
    BY DEF History!Times
  <2> QED BY <2>1, HistoryConstants
<1>2. ~Told(r) => T = {}
  BY DEF Told
<1>3. ASSUME \A i, j \in DOMAIN history_listed :
               history_listed[i] = r /\ history_listed[j] = r => i = j,
             NEW m \in T
      PROVE  T = {m}
  BY <1>3
<1>4. Told(r) => \E m \in T : TRUE
  BY DEF Told
<1> HIDE DEF T
<1>5. Cardinality({}) = 0
  BY FS_EmptySet
<1>6. ASSUME NEW m PROVE Cardinality({m}) = 1
  BY FS_Singleton, Zenon
<1>7. T = {} => Cardinality(T) = 0
  BY <1>5
<1>8. \A m : T = {m} => Cardinality(T) = 1
  BY <1>6
<1>9. ~Told(r) => History!Times(r) = 0
  BY <1>1, <1>2, <1>7
<1>10. ASSUME \A i, j \in DOMAIN history_listed :
                history_listed[i] = r /\ history_listed[j] = r => i = j
       PROVE  Told(r) => History!Times(r) = 1
  BY <1>1, <1>3, <1>4, <1>8, <1>10
<1>11. 0 <= 1 /\ 1 <= 1
  OBVIOUS
<1> QED BY <1>9, <1>10, <1>11

\* The reader knows what started at the cursor or later, and nothing else.
THEOREM HistoryIsRead == Spec => []HistoryInv
<1>1. Init => HistoryInv
  BY HistoryInit DEF Init
<1>2. HistoryInv /\ [Next]_vars => HistoryInv'
  <2>1. [Next]_vars => [History!Next]_history
    BY DEF Next, vars, history
  <2> QED BY <2>1, HistoryStep
<1> QED BY <1>1, <1>2, PTL DEF Spec

\* THEOREM: a reader who follows next_cursor sees every session there was at the first page
\* exactly once and no mock, however many runs start and events surface between two pages,
\* unless a late event moved its start or another started at the same instant
\* (session_history.list_sessions).
THEOREM PagesStayComplete == Spec => []PagesComplete
<1>1. HistoryInv => PagesComplete
  <2> SUFFICES ASSUME HistoryInv PROVE History!PagesComplete
    BY DEF PagesComplete
  <2>1. HistoryShape
    BY DEF HistoryInv
  <2>2. ASSUME NEW m \in Mocks PROVE History!Times(m) = 0
    BY <2>1, TimesIs DEF HistoryShape, Told
  <2>3. ASSUME NEW k \in history_known, History!Start(k.run) = k.start, History!Alone(k)
        PROVE  History!Times(k.run) <= 1 /\ (history_cursor = 0 => History!Times(k.run) = 1)
    <3>1. /\ Told(k.run) <=> history_cursor <= k.start
          /\ \A i, j \in DOMAIN history_listed :
               history_listed[i] = k.run /\ history_listed[j] = k.run => i = j
      BY <2>3 DEF HistoryInv, ReadSoFar
    <3>2. k.start \in Nat
      BY <2>1 DEF HistoryShape
    <3>3. history_cursor = 0 => Told(k.run)
      BY <3>1, <3>2
    <3> QED BY <2>1, <3>1, <3>3, TimesIs
  <2> QED BY <2>2, <2>3 DEF History!PagesComplete
<1> QED BY <1>1, HistoryIsRead, PTL

-----------------------------------------------------------------------------
(* The evidence of a run *)

\* The events of run r in the order of its thread, and how many have been emitted.
CourseOf(r) == Shown!Working(run_way[r]) \o Shown!Ending(run_way[r])
SaidOf(r) == IF r = Shown!Run THEN run_said ELSE Len(CourseOf(r))
KindsIn(s) == {s[k] : k \in 1..Len(s)}
Recorded == run_ledger \cup run_spool

EvidenceShape ==
  /\ run_way \in Seq(Shown!Ways) /\ run_said \in Nat /\ run_clock \in Nat
  /\ run_said <= Len(Shown!Course)
  /\ run_reading \in (1..Shown!Run) \cup {None}
  /\ \A row \in Recorded : row.run \in 1..Shown!Run /\ row.at \in 1..run_clock

\* What is recorded of a run is its events and calls beside it, each at a time of its
\* own, and nothing that was emitted is missing from the ledger and the spool; after the
\* summary of its usage there are calls only.
EvidenceOrder ==
  /\ \A row \in Recorded : row.type = "model_usage" \/ row.type \in KindsIn(CourseOf(row.run))
  /\ \A row, other \in Recorded : row.at = other.at => row = other
  /\ \A r \in 1..Shown!Run : \A k \in 1..SaidOf(r) :
       \E row \in Recorded : row.run = r /\ row.type = CourseOf(r)[k]
  /\ \A r \in 1..Shown!Run : SaidOf(r) = Len(CourseOf(r)) =>
       \E row \in Recorded :
         /\ row.run = r /\ row.status = Shown!Outcome(run_way[r])
         /\ \A other \in Recorded : other.run = r /\ other.at > row.at => other.status = None

EvidenceInv == EvidenceShape /\ EvidenceOrder

-----------------------------------------------------------------------------

\* What is assumed of the constants.
LEMMA EvidenceConstants == MaxTrainerRuns \in Nat \ {0} /\ None \notin Nat
BY PlatformAssumption DEF Shown!EvidenceAssumption, History!HistoryAssumption

\* The types of the rows a run writes.
EventTypes == {"run_started", "risk_assessment", "diff", "testing", "commit_created", "push",
  "deployment_completed", "deployment_status", "stage_completed", "run_completed",
  "run_no_change", "error", "run_failed", "deployment_status_unknown", "run_usage_summary"}

\* The types in an event or two.
LEMMA KindsOfFew ==
  ASSUME NEW x, NEW y
  PROVE  KindsIn(<<>>) = {} /\ KindsIn(<<x>>) = {x} /\ KindsIn(<<x, y>>) = {x, y}
<1>1. KindsIn(<<x, y>>) = {x, y}
  <2> DEFINE s == <<x, y>>
  <2>1. Len(s) = 2 /\ s[1] = x /\ s[2] = y
    OBVIOUS
  <2>2. 1..Len(s) = {1, 2}
    BY <2>1
  <2> HIDE DEF s
  <2>3. {s[k] : k \in {1, 2}} = {x, y}
    BY <2>1
  <2>4. KindsIn(s) = {x, y}
    BY <2>2, <2>3 DEF KindsIn
  <2> QED BY <2>4 DEF s
<1>2. KindsIn(<<x>>) = {x}
  <2> DEFINE s == <<x>>
  <2>1. Len(s) = 1 /\ s[1] = x
    OBVIOUS
  <2>2. 1..Len(s) = {1}
    BY <2>1
  <2> HIDE DEF s
  <2>3. {s[k] : k \in {1}} = {x}
    BY <2>1
  <2>4. KindsIn(s) = {x}
    BY <2>2, <2>3 DEF KindsIn
  <2> QED BY <2>4 DEF s
<1>3. KindsIn(<<>>) = {}
  <2>1. 1..Len(<<>>) = {}
    OBVIOUS
  <2> QED BY <2>1, Zenon DEF KindsIn
<1> QED BY <1>1, <1>2, <1>3

\* An event or two are a sequence of typed ones.
LEMMA TypedFew ==
  ASSUME NEW x \in EventTypes, NEW y \in EventTypes
  PROVE  <<>> \in Seq(EventTypes) /\ <<x>> \in Seq(EventTypes) /\ <<x, y>> \in Seq(EventTypes)
OBVIOUS

\* What is in two sequences behind one another.
LEMMA KindsOfBoth ==
  ASSUME NEW a \in Seq(EventTypes), NEW b \in Seq(EventTypes)
  PROVE  /\ a \o b \in Seq(EventTypes) /\ Len(a \o b) = Len(a) + Len(b)
         /\ \A k \in 1..Len(a) : (a \o b)[k] = a[k]
         /\ \A k \in 1..Len(b) : (a \o b)[Len(a) + k] = b[k]
         /\ KindsIn(a \o b) = KindsIn(a) \cup KindsIn(b)
<1>1. /\ a \o b \in Seq(EventTypes) /\ Len(a \o b) = Len(a) + Len(b)
      /\ \A k \in 1..(Len(a) + Len(b)) : (a \o b)[k] = IF k <= Len(a) THEN a[k] ELSE b[k - Len(a)]
  BY ConcatProperties, Zenon
<1>2. Len(a) \in Nat /\ Len(b) \in Nat
  OBVIOUS
<1> DEFINE c == a \o b
<1> HIDE DEF c
<1>3. ASSUME NEW k \in 1..Len(a) PROVE c[k] = a[k]
  BY <1>1, <1>2 DEF c
<1>4. ASSUME NEW k \in 1..Len(b) PROVE c[Len(a) + k] = b[k]
  <2>1. Len(a) + k \in 1..(Len(a) + Len(b)) /\ ~(Len(a) + k <= Len(a)) /\ (Len(a) + k) - Len(a) = k
    BY <1>2
  <2> QED BY <1>1, <2>1 DEF c
<1>5. ASSUME NEW k \in 1..Len(c) PROVE c[k] \in KindsIn(a) \cup KindsIn(b)
  <2>1. CASE k <= Len(a)
    BY <1>1, <1>2, <1>3, <2>1 DEF KindsIn, c
  <2>2. CASE ~(k <= Len(a))
    <3>1. k - Len(a) \in 1..Len(b) /\ c[k] = b[k - Len(a)]
      BY <1>1, <1>2, <2>2 DEF c
    <3> QED BY <3>1 DEF KindsIn
  <2> QED BY <2>1, <2>2
<1>6. ASSUME NEW k \in 1..Len(a) PROVE a[k] \in KindsIn(c)
  <2>1. k \in 1..Len(c)
    BY <1>1, <1>2 DEF c
  <2> QED BY <1>3, <2>1 DEF KindsIn
<1>7. ASSUME NEW k \in 1..Len(b) PROVE b[k] \in KindsIn(c)
  <2>1. Len(a) + k \in 1..Len(c)
    BY <1>1, <1>2 DEF c
  <2> QED BY <1>4, <2>1 DEF KindsIn
<1>8. KindsIn(c) = KindsIn(a) \cup KindsIn(b)
  BY <1>5, <1>6, <1>7 DEF KindsIn
<1> QED BY <1>1, <1>3, <1>4, <1>8 DEF c

\* _canonical_event_type: what a run emits while it works, by its way.
LEMMA WorkingHas ==
  ASSUME NEW w \in Shown!Ways
  PROVE  /\ Shown!Working(w) \in Seq(EventTypes)
         /\ KindsIn(Shown!Working(w)) =
              {"run_started", "risk_assessment"}
              \cup (IF Shown!Changes(w) THEN {"diff"} ELSE {})
              \cup (IF Shown!Changes(w) \/ w = "redeployed" THEN {"testing"} ELSE {})
              \cup (IF Shown!Commits(w) THEN {"commit_created", "push"} ELSE {})
              \cup (IF Shown!Deploys(w)
                      THEN {IF Shown!Outcome(w) = "COMPLETED" THEN "deployment_completed"
                                                              ELSE "deployment_status"} ELSE {})
<1> DEFINE a == <<"run_started", "risk_assessment">>
           b == Shown!If(Shown!Changes(w), <<"diff">>)
           c == Shown!If(Shown!Changes(w) \/ w = "redeployed", <<"testing">>)
           d == Shown!If(Shown!Commits(w), <<"commit_created", "push">>)
           e == Shown!If(Shown!Deploys(w), <<IF Shown!Outcome(w) = "COMPLETED"
                  THEN "deployment_completed" ELSE "deployment_status">>)
<1>1. a \in Seq(EventTypes) /\ KindsIn(a) = {"run_started", "risk_assessment"}
  BY KindsOfFew, TypedFew DEF EventTypes
<1>2. b \in Seq(EventTypes) /\ KindsIn(b) = IF Shown!Changes(w) THEN {"diff"} ELSE {}
  BY KindsOfFew, TypedFew DEF Shown!If, EventTypes
<1>3. /\ c \in Seq(EventTypes)
      /\ KindsIn(c) = IF Shown!Changes(w) \/ w = "redeployed" THEN {"testing"} ELSE {}
  BY KindsOfFew, TypedFew DEF Shown!If, EventTypes
<1>4. d \in Seq(EventTypes) /\ KindsIn(d) = IF Shown!Commits(w) THEN {"commit_created", "push"} ELSE {}
  BY KindsOfFew, TypedFew DEF Shown!If, EventTypes
<1>5. /\ e \in Seq(EventTypes)
      /\ KindsIn(e) = IF Shown!Deploys(w)
                        THEN {IF Shown!Outcome(w) = "COMPLETED" THEN "deployment_completed"
                                                                ELSE "deployment_status"} ELSE {}
  <2> DEFINE x == IF Shown!Outcome(w) = "COMPLETED" THEN "deployment_completed"
                                                    ELSE "deployment_status"
  <2>1. x \in EventTypes
    BY DEF EventTypes
  <2> HIDE DEF x
  <2>2. <<x>> \in Seq(EventTypes) /\ KindsIn(<<x>>) = {x} /\ <<>> \in Seq(EventTypes) /\ KindsIn(<<>>) = {}
    BY <2>1, KindsOfFew, TypedFew
  <2>3. e = IF Shown!Deploys(w) THEN <<x>> ELSE <<>>
    BY DEF Shown!If, x
  <2>4. e \in Seq(EventTypes) /\ KindsIn(e) = IF Shown!Deploys(w) THEN {x} ELSE {}
    BY <2>2, <2>3
  <2> QED BY <2>4 DEF x
<1>6. Shown!Working(w) = a \o b \o c \o d \o e
  BY DEF Shown!Working
<1> HIDE DEF a, b, c, d, e
<1>7. a \o b \in Seq(EventTypes) /\ KindsIn(a \o b) = KindsIn(a) \cup KindsIn(b)
  BY <1>1, <1>2, KindsOfBoth
<1>8. a \o b \o c \in Seq(EventTypes) /\ KindsIn(a \o b \o c) = KindsIn(a \o b) \cup KindsIn(c)
  BY <1>3, <1>7, KindsOfBoth
<1>9. /\ a \o b \o c \o d \in Seq(EventTypes)
      /\ KindsIn(a \o b \o c \o d) = KindsIn(a \o b \o c) \cup KindsIn(d)
  BY <1>4, <1>8, KindsOfBoth
<1>10. /\ a \o b \o c \o d \o e \in Seq(EventTypes)
       /\ KindsIn(a \o b \o c \o d \o e) = KindsIn(a \o b \o c \o d) \cup KindsIn(e)
  BY <1>5, <1>9, KindsOfBoth
<1>11. KindsIn(a \o b \o c \o d \o e)
         = KindsIn(a) \cup KindsIn(b) \cup KindsIn(c) \cup KindsIn(d) \cup KindsIn(e)
  BY <1>7, <1>8, <1>9, <1>10
<1> QED BY <1>1, <1>2, <1>3, <1>4, <1>5, <1>6, <1>10, <1>11

\* ... and when it ends; the summary of its usage is the last.
LEMMA EndingHas ==
  ASSUME NEW w \in Shown!Ways
  PROVE  /\ Shown!Ending(w) \in Seq(EventTypes) /\ Len(Shown!Ending(w)) = 3
         /\ Shown!Ending(w)[3] = "run_usage_summary"
         /\ KindsIn(Shown!Ending(w)) \subseteq
              {"stage_completed", "run_completed", "run_no_change", "error", "run_failed",
               "deployment_status_unknown", "run_usage_summary"}
         /\ Shown!Outcome(w) = "COMPLETED" => "run_completed" \in KindsIn(Shown!Ending(w))
<1> DEFINE a == CASE Shown!Outcome(w) = "COMPLETED"  -> <<"stage_completed", "run_completed">>
                  [] Shown!Outcome(w) = "NO_CHANGE_NEEDED" -> <<"run_no_change", "run_completed">>
                  [] Shown!Outcome(w) = "FAILED"     -> <<"error", "run_failed">>
                  [] OTHER                           -> <<"error", "deployment_status_unknown">>
           b == <<"run_usage_summary">>
<1> HIDE DEF b
<1>1. /\ a \in Seq(EventTypes) /\ Len(a) = 2
      /\ KindsIn(a) \subseteq {"stage_completed", "run_completed", "run_no_change", "error",
                               "run_failed", "deployment_status_unknown"}
      /\ Shown!Outcome(w) = "COMPLETED" => "run_completed" \in KindsIn(a)
  <2>0. \A p, q \in EventTypes :
          <<p, q>> \in Seq(EventTypes) /\ Len(<<p, q>>) = 2 /\ KindsIn(<<p, q>>) = {p, q}
    BY KindsOfFew, TypedFew
  <2>1. CASE Shown!Outcome(w) = "COMPLETED"
    <3>1. a = <<"stage_completed", "run_completed">>
      BY <2>1
    <3>2. {"stage_completed", "run_completed"} \subseteq EventTypes
      BY DEF EventTypes
    <3> HIDE DEF a
    <3> QED BY <2>0, <3>1, <3>2
  <2>2. CASE Shown!Outcome(w) = "NO_CHANGE_NEEDED"
    <3>1. a = <<"run_no_change", "run_completed">>
      BY <2>2
    <3>2. {"run_no_change", "run_completed"} \subseteq EventTypes
      BY DEF EventTypes
    <3> HIDE DEF a
    <3> QED BY <2>0, <2>2, <3>1, <3>2
  <2>3. CASE Shown!Outcome(w) = "FAILED"
    <3>1. a = <<"error", "run_failed">>
      BY <2>3
    <3>2. {"error", "run_failed"} \subseteq EventTypes
      BY DEF EventTypes
    <3> HIDE DEF a
    <3> QED BY <2>0, <2>3, <3>1, <3>2
  <2>4. CASE Shown!Outcome(w) \notin {"COMPLETED", "NO_CHANGE_NEEDED", "FAILED"}
    <3>1. a = <<"error", "deployment_status_unknown">>
      BY <2>4
    <3>2. {"error", "deployment_status_unknown"} \subseteq EventTypes
      BY DEF EventTypes
    <3> HIDE DEF a
    <3> QED BY <2>0, <2>4, <3>1, <3>2
  <2> QED BY <2>1, <2>2, <2>3, <2>4
<1>2. b \in Seq(EventTypes) /\ Len(b) = 1 /\ b[1] = "run_usage_summary" /\ KindsIn(b) = {"run_usage_summary"}
  BY KindsOfFew, TypedFew DEF b, EventTypes
<1>3. Shown!Ending(w) = a \o b
  BY DEF Shown!Ending, b
<1> HIDE DEF a, b
<1>4. /\ a \o b \in Seq(EventTypes) /\ Len(a \o b) = Len(a) + Len(b)
      /\ \A k \in 1..Len(b) : (a \o b)[Len(a) + k] = b[k]
      /\ KindsIn(a \o b) = KindsIn(a) \cup KindsIn(b)
  <2>1. a \in Seq(EventTypes) /\ b \in Seq(EventTypes)
    BY <1>1, <1>2
  <2> QED BY <2>1, KindsOfBoth, Zenon
<1>5. Len(a \o b) = 3 /\ (a \o b)[3] = "run_usage_summary"
  BY <1>1, <1>2, <1>4
<1> QED BY <1>1, <1>2, <1>3, <1>4, <1>5

\* A course is never empty.
LEMMA CourseLen ==
  ASSUME NEW w \in Shown!Ways
  PROVE  Len(Shown!Working(w) \o Shown!Ending(w)) \in Nat \ {0}
<1>1. /\ Shown!Working(w) \in Seq(EventTypes) /\ Shown!Ending(w) \in Seq(EventTypes)
      /\ Len(Shown!Ending(w)) = 3
  BY WorkingHas, EndingHas
<1>2. Len(Shown!Working(w) \o Shown!Ending(w)) = Len(Shown!Working(w)) + Len(Shown!Ending(w))
  BY <1>1, KindsOfBoth
<1> QED BY <1>1, <1>2

\* A run has a deployment behind it if and only if it is COMPLETED.
LEMMA CourseHas ==
  ASSUME run_way \in Seq(Shown!Ways), NEW r \in 1..Shown!Run
  PROVE  /\ CourseOf(r) \in Seq(EventTypes) /\ Len(CourseOf(r)) \in Nat \ {0}
         /\ Len(CourseOf(r)) = Len(Shown!Working(run_way[r])) + 3
         /\ CourseOf(r)[Len(CourseOf(r))] = "run_usage_summary"
         /\ {"tool_call_completed", "model_usage"} \cap KindsIn(CourseOf(r)) = {}
         /\ "deployment_completed" \in KindsIn(CourseOf(r)) => Shown!Outcome(run_way[r]) = "COMPLETED"
         /\ Shown!Outcome(run_way[r]) = "COMPLETED" =>
              {"run_completed", "commit_created", "deployment_completed"} \subseteq KindsIn(CourseOf(r))
<1> DEFINE w == run_way[r]
           a == Shown!Working(w)
           b == Shown!Ending(w)
<1>1. w \in Shown!Ways
  BY DEF Shown!Run
<1>2. /\ CourseOf(r) = a \o b /\ a \in Seq(EventTypes) /\ b \in Seq(EventTypes)
      /\ Len(b) = 3 /\ b[3] = "run_usage_summary"
  BY <1>1, WorkingHas, EndingHas DEF CourseOf
<1>3. /\ a \o b \in Seq(EventTypes) /\ Len(a \o b) = Len(a) + Len(b)
      /\ \A k \in 1..Len(b) : (a \o b)[Len(a) + k] = b[k]
      /\ KindsIn(a \o b) = KindsIn(a) \cup KindsIn(b)
  BY <1>2, KindsOfBoth
<1>4. Len(a) \in Nat
  BY <1>2
<1>5. Shown!Outcome(w) = "COMPLETED" => Shown!Deploys(w) /\ Shown!Commits(w)
  BY <1>1 DEF Shown!Outcome, Shown!Deploys, Shown!Commits, Shown!Ways
<1>6. /\ {"tool_call_completed", "model_usage"} \cap (KindsIn(a) \cup KindsIn(b)) = {}
      /\ "deployment_completed" \in KindsIn(a) \cup KindsIn(b) => Shown!Outcome(w) = "COMPLETED"
  <2>1. /\ {"tool_call_completed", "model_usage"} \cap KindsIn(a) = {}
        /\ "deployment_completed" \in KindsIn(a) => Shown!Outcome(w) = "COMPLETED"
    <3>1. KindsIn(a) \subseteq
            {"run_started", "risk_assessment", "diff", "testing", "commit_created", "push"}
            \cup {IF Shown!Outcome(w) = "COMPLETED" THEN "deployment_completed"
                                                    ELSE "deployment_status"}
      <4> HIDE DEF w
      <4> QED BY <1>1, WorkingHas DEF a
    <3> HIDE DEF a
    <3> QED BY <3>1
  <2>2. {"tool_call_completed", "model_usage", "deployment_completed"} \cap KindsIn(b) = {}
    BY <1>1, EndingHas
  <2> QED BY <2>1, <2>2
<1>7. Shown!Outcome(w) = "COMPLETED" =>
        {"run_completed", "commit_created", "deployment_completed"} \subseteq KindsIn(a) \cup KindsIn(b)
  BY <1>1, <1>5, WorkingHas, EndingHas
<1> HIDE DEF a, b, w
<1>8. (a \o b)[Len(a) + 3] = "run_usage_summary"
  BY <1>2, <1>3
<1> QED BY <1>2, <1>3, <1>4, <1>6, <1>7, <1>8 DEF a, w

\* The course of the last run.
LEMMA CourseNow ==
  ASSUME run_way \in Seq(Shown!Ways), Shown!Run # 0
  PROVE  Shown!Course = CourseOf(Shown!Run) /\ Shown!Run \in 1..Shown!Run
BY DEF Shown!Course, CourseOf, Shown!Run

\* The invariant holds at the start.
LEMMA EvidenceInit == Shown!Init => EvidenceInv
<1> SUFFICES ASSUME Shown!Init PROVE EvidenceInv
  OBVIOUS
<1>1. run_way = <<>> /\ run_said = 0 /\ run_clock = 0 /\ Recorded = {} /\ run_reading = None
  BY DEF Shown!Init, Recorded
<1>2. Shown!Run = 0 /\ 1..Shown!Run = {} /\ Len(Shown!Course) = 0
  BY <1>1 DEF Shown!Run, Shown!Course
<1>3. EvidenceShape
  BY <1>1, <1>2 DEF EvidenceShape
<1>4. EvidenceOrder
  BY <1>1, <1>2 DEF EvidenceOrder
<1> QED BY <1>3, <1>4 DEF EvidenceInv

\* While nothing is recorded and no event emitted, what was recorded stays in order.
LEMMA EvidenceStays ==
  ASSUME EvidenceInv, Recorded' = Recorded, Shown!Run' = Shown!Run, run_way' = run_way,
         run_said' = run_said
  PROVE  EvidenceOrder'
<1>1. /\ \A r : CourseOf(r)' = CourseOf(r) /\ SaidOf(r)' = SaidOf(r)
  BY DEF CourseOf, SaidOf
<1> QED BY <1>1 DEF EvidenceInv, EvidenceOrder

\* A run begins when the one before it is over.
LEMMA RunBegins ==
  ASSUME EvidenceInv, NEW w \in Shown!Ways, Shown!Begin(w)
  PROVE  EvidenceInv'
<1>1. /\ run_said = Len(Shown!Course) /\ run_way' = Append(run_way, w) /\ run_said' = 0
      /\ run_clock' = run_clock /\ Recorded' = Recorded /\ run_reading' = run_reading
  BY DEF Shown!Begin, Shown!Over, Recorded
<1>2. /\ run_way \in Seq(Shown!Ways) /\ Shown!Run \in Nat /\ run_way' \in Seq(Shown!Ways)
      /\ Shown!Run' = Shown!Run + 1
      /\ \A r \in 1..Shown!Run : run_way'[r] = run_way[r]
  BY <1>1 DEF EvidenceInv, EvidenceShape, Shown!Run
<1>3. ASSUME NEW r \in 1..Shown!Run
      PROVE  /\ CourseOf(r)' = CourseOf(r) /\ SaidOf(r)' = SaidOf(r) /\ r \in 1..Shown!Run'
             /\ SaidOf(r) = Len(CourseOf(r))
  <2>1. CourseOf(r)' = CourseOf(r)
    BY <1>2 DEF CourseOf
  <2>2. r # Shown!Run' /\ r \in 1..Shown!Run'
    BY <1>2
  <2>3. SaidOf(r)' = Len(CourseOf(r)')
    BY <2>2 DEF SaidOf
  <2>4. r = Shown!Run => run_said = Len(CourseOf(r))
    BY <1>1, <1>2, CourseNow
  <2>5. SaidOf(r) = Len(CourseOf(r))
    BY <2>4 DEF SaidOf
  <2> QED BY <2>1, <2>2, <2>3, <2>5
<1>a. PICK R : R = Shown!Run + 1
  OBVIOUS
<1>4. SaidOf(R)' = 0 /\ 1..SaidOf(R)' = {} /\ Len(CourseOf(R)') \in Nat \ {0}
  <2>1. SaidOf(R)' = 0
    BY <1>1, <1>2, <1>a DEF SaidOf
  <2>2. R \in 1..Shown!Run'
    BY <1>2, <1>a
  <2>3. Len(CourseOf(R)') \in Nat \ {0}
    <3>1. run_way'[R] \in Shown!Ways
      BY <1>2, <2>2 DEF Shown!Run
    <3> QED BY <3>1, CourseLen DEF CourseOf
  <2> QED BY <2>1, <2>3
<1>5. 1..Shown!Run' = (1..Shown!Run) \cup {R}
  BY <1>2, <1>a
<1>6. EvidenceShape'
  <2>1. Len(Shown!Course') \in Nat
    <3>1. Shown!Course' = CourseOf(R)'
      BY <1>2, <1>a DEF Shown!Course, CourseOf, Shown!Run
    <3> QED BY <1>4, <3>1
  <2> QED BY <1>1, <1>2, <2>1 DEF EvidenceInv, EvidenceShape
<1>7. EvidenceOrder'
  <2>1. \A row \in Recorded : row.run \in 1..Shown!Run
    BY DEF EvidenceInv, EvidenceShape
  <2>2. \A row \in Recorded' : row.type = "model_usage" \/ row.type \in KindsIn(CourseOf(row.run)')
    BY <1>1, <1>3, <2>1 DEF EvidenceInv, EvidenceOrder
  <2>3. \A r \in 1..Shown!Run' : \A k \in 1..SaidOf(r)' :
          \E row \in Recorded' : row.run = r /\ row.type = CourseOf(r)'[k]
    BY <1>1, <1>3, <1>4, <1>5 DEF EvidenceInv, EvidenceOrder
  <2>4. \A r \in 1..Shown!Run' : SaidOf(r)' = Len(CourseOf(r)') =>
          \E row \in Recorded' :
            /\ row.run = r /\ row.status = Shown!Outcome(run_way'[r])
            /\ \A other \in Recorded' : other.run = r /\ other.at > row.at => other.status = None
    <3>1. ASSUME NEW r \in 1..Shown!Run
          PROVE  \E row \in Recorded :
                   /\ row.run = r /\ row.status = Shown!Outcome(run_way[r])
                   /\ \A other \in Recorded :
                        other.run = r /\ other.at > row.at => other.status = None
      BY <1>3 DEF EvidenceInv, EvidenceOrder
    <3>2. ASSUME NEW r \in 1..Shown!Run', SaidOf(r)' = Len(CourseOf(r)')
          PROVE  r \in 1..Shown!Run
      <4>1. CASE r = R
        <5>1. SaidOf(r)' = 0 /\ Len(CourseOf(r)') # 0
          BY <1>4, <4>1, Zenon
        <5> QED BY <3>2, <5>1
      <4> QED BY <1>5, <4>1
    <3>3. ASSUME NEW r \in 1..Shown!Run', SaidOf(r)' = Len(CourseOf(r)')
          PROVE  \E row \in Recorded' :
                   /\ row.run = r /\ row.status = Shown!Outcome(run_way'[r])
                   /\ \A other \in Recorded' :
                        other.run = r /\ other.at > row.at => other.status = None
      <4>1. r \in 1..Shown!Run
        BY <3>2, <3>3
      <4>2. run_way'[r] = run_way[r]
        BY <1>2, <4>1
      <4> QED BY <1>1, <3>1, <4>1, <4>2
    <3> QED BY <3>3
  <2>5. \A row, other \in Recorded' : row.at = other.at => row = other
    BY <1>1 DEF EvidenceInv, EvidenceOrder
  <2> QED BY <2>2, <2>3, <2>4, <2>5 DEF EvidenceOrder
<1> QED BY <1>6, <1>7 DEF EvidenceInv

\* A row that joins at a time of its own.
LEMMA RowJoins ==
  ASSUME EvidenceInv, NEW row, Shown!Record(row), row.at = run_clock + 1,
         run_clock' = run_clock + 1, row.run \in 1..Shown!Run, run_way' = run_way
  PROVE  /\ Recorded' = Recorded \cup {row}
         /\ \A r : CourseOf(r)' = CourseOf(r)
         /\ Shown!Run' = Shown!Run /\ Shown!Course' = Shown!Course
         /\ \A old \in Recorded : old.at < row.at
         /\ \A a, b \in Recorded' : a.at = b.at => a = b
         /\ \A a \in Recorded' : a.run \in 1..Shown!Run' /\ a.at \in 1..run_clock'
<1>1. Recorded' = Recorded \cup {row}
  BY DEF Shown!Record, Recorded
<1>2. Shown!Run' = Shown!Run /\ Shown!Course' = Shown!Course /\ \A r : CourseOf(r)' = CourseOf(r)
  BY DEF Shown!Run, Shown!Course, CourseOf
<1>3. run_clock \in Nat /\ \A old \in Recorded : old.at \in 1..run_clock /\ old.run \in 1..Shown!Run
  BY DEF EvidenceInv, EvidenceShape
<1>4. \A old \in Recorded : old.at < row.at
  BY <1>3
<1>5. \A a, b \in Recorded : a.at = b.at => a = b
  BY DEF EvidenceInv, EvidenceOrder
<1>6. \A a, b \in Recorded' : a.at = b.at => a = b
  BY <1>1, <1>3, <1>4, <1>5
<1> QED BY <1>1, <1>2, <1>3, <1>4, <1>6

\* An event is emitted.
LEMMA EventJoins ==
  ASSUME EvidenceInv, Shown!Emit
  PROVE  EvidenceInv'
<1> DEFINE R == Shown!Run
           type == Shown!Course[run_said + 1]
           status == IF run_said < Len(Shown!Working(run_way[R])) \/ type = "error"
                       THEN "working" ELSE Shown!Outcome(run_way[R])
           new == [run |-> R, at |-> run_clock + 1, type |-> type, status |-> status,
                   captured |-> type = "run_usage_summary" /\ run_heard]
<1>1. /\ run_said' = run_said + 1 /\ run_clock' = run_clock + 1 /\ Shown!Record(new)
      /\ run_way' = run_way /\ run_reading' = run_reading /\ run_said # Len(Shown!Course)
  BY DEF Shown!Emit, Shown!Over
<1>2. run_way \in Seq(Shown!Ways) /\ R \in Nat /\ run_said \in Nat /\ run_said <= Len(Shown!Course)
  BY DEF EvidenceInv, EvidenceShape, Shown!Run
<1>3. R # 0
  <2>1. R = 0 => Len(Shown!Course) = 0
    BY DEF Shown!Course
  <2> QED BY <1>1, <1>2, <2>1
<1>4. /\ Shown!Course = CourseOf(R) /\ R \in 1..Shown!Run
      /\ Len(CourseOf(R)) \in Nat \ {0} /\ Len(CourseOf(R)) = Len(Shown!Working(run_way[R])) + 3
      /\ CourseOf(R)[Len(CourseOf(R))] = "run_usage_summary" /\ Len(Shown!Working(run_way[R])) \in Nat
  BY <1>2, <1>3, CourseNow, CourseHas
<1>5. run_said + 1 \in 1..Len(CourseOf(R)) /\ type \in KindsIn(CourseOf(R))
  BY <1>1, <1>2, <1>4 DEF KindsIn
<1>6. SaidOf(R) = run_said /\ SaidOf(R)' = run_said + 1 /\ \A r \in 1..R : r # R => SaidOf(r)' = SaidOf(r)
  BY <1>1 DEF SaidOf, Shown!Run, CourseOf
<1>7. run_said + 1 = Len(CourseOf(R)) => status = Shown!Outcome(run_way[R])
  BY <1>1, <1>2, <1>4
<1> HIDE DEF type, status
<1>8. new.run = R /\ new.at = run_clock + 1 /\ new.type = type /\ new.status = status
  OBVIOUS
<1> HIDE DEF new
<1>9. /\ Recorded' = Recorded \cup {new}
      /\ \A r : CourseOf(r)' = CourseOf(r)
      /\ Shown!Run' = Shown!Run /\ Shown!Course' = Shown!Course
      /\ \A old \in Recorded : old.at < new.at
      /\ \A a, b \in Recorded' : a.at = b.at => a = b
      /\ \A a \in Recorded' : a.run \in 1..Shown!Run' /\ a.at \in 1..run_clock'
  BY <1>1, <1>4, <1>8, RowJoins
<1>10. EvidenceShape'
  BY <1>1, <1>2, <1>4, <1>5, <1>9 DEF EvidenceInv, EvidenceShape
<1>11. \A row \in Recorded' : row.type = "model_usage" \/ row.type \in KindsIn(CourseOf(row.run)')
  BY <1>5, <1>8, <1>9 DEF EvidenceInv, EvidenceOrder
<1>12. ASSUME NEW r \in 1..Shown!Run', NEW k \in 1..SaidOf(r)'
       PROVE  \E row \in Recorded' : row.run = r /\ row.type = CourseOf(r)'[k]
  <2>1. CASE r = R /\ k = run_said + 1
    BY <1>4, <1>8, <1>9, <2>1 DEF type
  <2>2. CASE ~(r = R /\ k = run_said + 1)
    <3>1. k \in 1..SaidOf(r) /\ r \in 1..Shown!Run
      BY <1>2, <1>6, <1>9, <2>2
    <3> QED BY <1>9, <3>1 DEF EvidenceInv, EvidenceOrder
  <2> QED BY <2>1, <2>2
<1>13. ASSUME NEW r \in 1..Shown!Run', SaidOf(r)' = Len(CourseOf(r)')
       PROVE  \E row \in Recorded' :
                /\ row.run = r /\ row.status = Shown!Outcome(run_way'[r])
                /\ \A other \in Recorded' : other.run = r /\ other.at > row.at => other.status = None
  <2>1. CASE r = R
    <3>1. new \in Recorded' /\ new.run = r /\ new.status = Shown!Outcome(run_way'[r])
      BY <1>1, <1>4, <1>6, <1>7, <1>8, <1>9, <1>13, <2>1
    <3>2. \A other \in Recorded' : ~(other.at > new.at)
      <4>1. \A other \in Recorded : other.at \in Nat
        BY DEF EvidenceInv, EvidenceShape
      <4>2. new.at \in Nat
        BY <1>8 DEF EvidenceInv, EvidenceShape
      <4> QED BY <1>9, <4>1, <4>2
    <3> QED BY <3>1, <3>2
  <2>2. CASE r # R
    <3>1. r \in 1..Shown!Run /\ SaidOf(r) = Len(CourseOf(r))
      BY <1>6, <1>9, <1>13, <2>2
    <3>2. PICK row \in Recorded :
            /\ row.run = r /\ row.status = Shown!Outcome(run_way[r])
            /\ \A other \in Recorded : other.run = r /\ other.at > row.at => other.status = None
      BY <3>1 DEF EvidenceInv, EvidenceOrder
    <3> QED BY <1>1, <1>8, <1>9, <2>2, <3>2
  <2> QED BY <2>1, <2>2
<1>14. EvidenceOrder'
  BY <1>9, <1>11, <1>12, <1>13 DEF EvidenceOrder
<1> QED BY <1>10, <1>14 DEF EvidenceInv

\* The row of a call beside the run.
LEMMA CallJoins ==
  ASSUME EvidenceInv, Shown!CallRow
  PROVE  EvidenceInv'
<1> DEFINE new == [run |-> run_reading, at |-> run_clock + 1, type |-> "model_usage",
                   status |-> None, captured |-> TRUE]
<1>1. /\ run_reading # None /\ run_reading' = None /\ run_clock' = run_clock + 1
      /\ Shown!Record(new) /\ run_way' = run_way /\ run_said' = run_said
  BY DEF Shown!CallRow
<1>2. /\ new.run \in 1..Shown!Run /\ new.at = run_clock + 1 /\ new.type = "model_usage"
      /\ new.status = None
  BY <1>1 DEF EvidenceInv, EvidenceShape
<1> HIDE DEF new
<1>3. /\ Recorded' = Recorded \cup {new}
      /\ \A r : CourseOf(r)' = CourseOf(r)
      /\ Shown!Run' = Shown!Run /\ Shown!Course' = Shown!Course
      /\ \A old \in Recorded : old.at < new.at
      /\ \A a, b \in Recorded' : a.at = b.at => a = b
      /\ \A a \in Recorded' : a.run \in 1..Shown!Run' /\ a.at \in 1..run_clock'
  BY <1>1, <1>2, RowJoins
<1>4. \A r : SaidOf(r)' = SaidOf(r)
  BY <1>1, <1>3 DEF SaidOf
<1>5. EvidenceShape'
  BY <1>1, <1>3 DEF EvidenceInv, EvidenceShape
<1>6. \A row \in Recorded' : row.type = "model_usage" \/ row.type \in KindsIn(CourseOf(row.run)')
  BY <1>2, <1>3 DEF EvidenceInv, EvidenceOrder
<1>7. \A r \in 1..Shown!Run' : \A k \in 1..SaidOf(r)' :
        \E row \in Recorded' : row.run = r /\ row.type = CourseOf(r)'[k]
  BY <1>3, <1>4 DEF EvidenceInv, EvidenceOrder
<1>8. \A r \in 1..Shown!Run' : SaidOf(r)' = Len(CourseOf(r)') =>
        \E row \in Recorded' :
          /\ row.run = r /\ row.status = Shown!Outcome(run_way'[r])
          /\ \A other \in Recorded' : other.run = r /\ other.at > row.at => other.status = None
  BY <1>1, <1>2, <1>3, <1>4 DEF EvidenceInv, EvidenceOrder
<1>9. EvidenceOrder'
  BY <1>3, <1>6, <1>7, <1>8 DEF EvidenceOrder
<1> QED BY <1>5, <1>9 DEF EvidenceInv

\* So every step keeps the invariant of the evidence.
LEMMA EvidenceStep == EvidenceInv /\ [Shown!Next]_evidence => EvidenceInv'
<1> SUFFICES ASSUME EvidenceInv, [Shown!Next]_evidence PROVE EvidenceInv'
  OBVIOUS
<1>1. ASSUME NEW w \in Shown!Ways, Shown!Begin(w) PROVE EvidenceInv'
  BY <1>1, RunBegins
<1>2. CASE Shown!Emit
  BY <1>2, EventJoins
<1>3. CASE Shown!CallRow
  BY <1>3, CallJoins
<1>4. CASE Shown!Call
  <2>1. run_way' = run_way /\ run_said' = run_said /\ run_clock' = run_clock /\ Recorded' = Recorded
        /\ run_reading' = Shown!Slot
    BY <1>4 DEF Shown!Call, Recorded
  <2>2. Shown!Run' = Shown!Run /\ Shown!Course' = Shown!Course
    BY <2>1 DEF Shown!Run, Shown!Course
  <2>3. Shown!Slot \in (1..Shown!Run) \cup {None}
    BY DEF Shown!Slot, EvidenceInv, EvidenceShape, Shown!Run
  <2>4. EvidenceShape'
    BY <2>1, <2>2, <2>3 DEF EvidenceInv, EvidenceShape
  <2> QED BY <2>1, <2>2, <2>4, EvidenceStays DEF EvidenceInv
<1>5. ASSUME run_way' = run_way, run_said' = run_said, run_clock' = run_clock,
             Recorded' = Recorded, run_reading' = run_reading
      PROVE  EvidenceInv'
  <2>1. Shown!Run' = Shown!Run /\ Shown!Course' = Shown!Course
    BY <1>5 DEF Shown!Run, Shown!Course
  <2>2. EvidenceShape'
    BY <1>5, <2>1 DEF EvidenceInv, EvidenceShape
  <2> QED BY <1>5, <2>1, <2>2, EvidenceStays DEF EvidenceInv
<1>6. ASSUME NEW row \in run_spool, Shown!Sync(row) PROVE EvidenceInv'
  BY <1>5, <1>6 DEF Shown!Sync, Recorded
<1>7. CASE UNCHANGED evidence
  BY <1>5, <1>7 DEF evidence, Recorded
<1> QED BY <1>1, <1>2, <1>3, <1>4, <1>6, <1>7 DEF Shown!Next

\* What the pages read of a run is in order.
THEOREM EvidenceInOrder == Spec => []EvidenceInv
<1>1. Init => EvidenceInv
  BY EvidenceInit DEF Init
<1>2. EvidenceInv /\ [Next]_vars => EvidenceInv'
  <2>1. [Next]_vars => [Shown!Next]_evidence
    BY DEF Next, vars, evidence
  <2> QED BY <2>1, EvidenceStep
<1> QED BY <1>1, <1>2, PTL DEF Spec

\* A run is told of a type if one of its rows has it.
LEMMA ShownTypes ==
  ASSUME EvidenceInv, NEW r \in 1..Shown!Run, NEW type, Shown!Has(r, type), type # "model_usage"
  PROVE  type \in KindsIn(CourseOf(r))
<1>1. PICK row \in run_ledger : row.run = r /\ row.type = type
  BY DEF Shown!Has, Shown!Rows
<1> QED BY <1>1 DEF EvidenceInv, EvidenceOrder, Recorded

\* The last row of a run is the one with the greatest time.
LEMMA LastRow ==
  ASSUME EvidenceInv, NEW r, Shown!Rows(r) # {}
  PROVE  \E row \in Shown!Rows(r) :
           /\ Shown!LastStatus(r) = row.status
           /\ \A other \in Shown!Rows(r) : other.at <= row.at
<1> DEFINE T == {row.at : row \in Shown!Rows(r)}
<1>1. T \subseteq 1..run_clock /\ T # {} /\ run_clock \in Nat
  BY DEF EvidenceInv, EvidenceShape, Shown!Rows, Recorded
<1>2. PICK m \in T : \A k \in T : k <= m
  BY <1>1, Greatest
<1>3. \E row \in Shown!Rows(r) : \A other \in Shown!Rows(r) : other.at <= row.at
  BY <1>2
<1> DEFINE last == CHOOSE row \in Shown!Rows(r) : \A other \in Shown!Rows(r) : other.at <= row.at
<1>4. last \in Shown!Rows(r) /\ \A other \in Shown!Rows(r) : other.at <= last.at
  BY <1>3
<1>5. Shown!LastStatus(r) = last.status
  BY DEF Shown!LastStatus
<1> HIDE DEF last
<1> QED BY <1>4, <1>5

\* The latest verified run is verified, and none after it is.
LEMMA LatestIs ==
  ASSUME EvidenceInv
  PROVE  /\ Shown!Latest # None => Shown!Latest \in 1..Shown!Run /\ Shown!Verified(Shown!Latest)
         /\ \A r \in 1..Shown!Run : Shown!Verified(r) => Shown!Latest # None /\ r <= Shown!Latest
<1> DEFINE T == {r \in 1..Shown!Run : Shown!Verified(r)}
<1>1. Shown!Run \in Nat /\ T \subseteq 1..Shown!Run
  BY DEF EvidenceInv, EvidenceShape, Shown!Run
<1>2. Shown!Latest = IF T = {} THEN None ELSE CHOOSE r \in T : \A other \in T : other <= r
  BY DEF Shown!Latest
<1> HIDE DEF T
<1>3. CASE T = {}
  BY <1>2, <1>3 DEF T
<1>4. CASE T # {}
  <2>1. \E m \in T : \A k \in T : k <= m
    BY <1>1, <1>4, Greatest
  <2>2. Shown!Latest \in T /\ \A k \in T : k <= Shown!Latest
    BY <1>2, <1>4, <2>1
  <2>3. Shown!Latest \in Nat
    BY <1>1, <2>2
  <2> QED BY <2>2, <2>3, EvidenceConstants DEF T
<1> QED BY <1>3, <1>4

\* Two of three dimensions are not of high confidence.
LEMMA NeverHigh ==
  ASSUME NEW r, ~Shown!Has(r, "tool_call_completed")
  PROVE  Shown!Confidence(r) # "HIGH_CONFIDENCE"
<1> DEFINE known == {d \in {"active", "tokens", "cost"} : Shown!Dimensions(r)[d]}
<1>1. known \subseteq {"tokens", "cost"}
  <2>1. Shown!Dimensions(r)["active"] = FALSE
    BY DEF Shown!Dimensions
  <2>2. known \subseteq {"active", "tokens", "cost"} \ {"active"}
    BY <2>1
  <2> QED BY <2>2
<1>2. Cardinality({"tokens", "cost"}) = 2 /\ IsFiniteSet({"tokens", "cost"})
  <2>1. IsFiniteSet({"tokens"}) /\ Cardinality({"tokens"}) = 1
    BY FS_Singleton
  <2>2. {"tokens", "cost"} = {"tokens"} \cup {"cost"} /\ "cost" \notin {"tokens"}
    OBVIOUS
  <2> QED BY <2>1, <2>2, FS_AddElement
<1>3. Shown!Known(r) = Cardinality(known)
  <2>1. Shown!Known(r) = Shown!Cardinality(known)
    BY DEF Shown!Known
  <2> QED BY <2>1, Zenon DEF Cardinality, Shown!Cardinality
<1> HIDE DEF known
<1>4. Cardinality(known) <= 2 /\ Cardinality(known) \in Nat
  BY <1>1, <1>2, FS_Subset, FS_CardinalityType
<1> QED BY <1>3, <1>4 DEF Shown!Confidence

\* A run that is over and COMPLETED, with nothing of it in the spool, is verified, unless
\* a call beside it wrote its last row.
LEMMA CompletedIsVerified ==
  ASSUME EvidenceInv, NEW r \in 1..Shown!Run, Shown!Outcome(run_way[r]) = "COMPLETED",
         r < Shown!Run \/ Shown!Over, \A row \in run_spool : row.run # r,
         Shown!LastStatus(r) # None
  PROVE  Shown!Verified(r)
<1>1. run_way \in Seq(Shown!Ways) /\ Shown!Run \in Nat
  BY DEF EvidenceInv, EvidenceShape, Shown!Run
<1>2. SaidOf(r) = Len(CourseOf(r))
  <2>1. CASE r < Shown!Run
    BY <1>1, <2>1 DEF SaidOf
  <2>2. CASE ~(r < Shown!Run)
    <3>1. r = Shown!Run /\ run_said = Len(Shown!Course) /\ Shown!Run # 0
      BY <1>1, <2>2 DEF Shown!Over
    <3> QED BY <1>1, <3>1, CourseNow DEF SaidOf
  <2> QED BY <2>1, <2>2
<1>3. \A row \in Recorded : row.run = r => row \in Shown!Rows(r)
  BY DEF Recorded, Shown!Rows
<1>4. ASSUME NEW type \in KindsIn(CourseOf(r)) PROVE Shown!Has(r, type)
  <2>1. PICK k \in 1..SaidOf(r) : type = CourseOf(r)[k]
    BY <1>2 DEF KindsIn
  <2>2. PICK row \in Recorded : row.run = r /\ row.type = type
    BY <2>1 DEF EvidenceInv, EvidenceOrder
  <2> QED BY <1>3, <2>2 DEF Shown!Has
<1>5. \A type \in {"run_completed", "commit_created", "deployment_completed"} : Shown!Has(r, type)
  BY <1>1, <1>4, CourseHas
<1>6. PICK row \in Recorded :
        /\ row.run = r /\ row.status = Shown!Outcome(run_way[r])
        /\ \A other \in Recorded : other.run = r /\ other.at > row.at => other.status = None
  BY <1>2 DEF EvidenceInv, EvidenceOrder
<1>7. row \in Shown!Rows(r)
  BY <1>3, <1>6
<1>8. PICK last \in Shown!Rows(r) :
        Shown!LastStatus(r) = last.status /\ \A other \in Shown!Rows(r) : other.at <= last.at
  BY <1>7, LastRow
<1>9. last \in Recorded /\ last.run = r /\ last.at \in Nat /\ row.at \in Nat /\ row.at <= last.at
  BY <1>6, <1>7, <1>8 DEF Shown!Rows, Recorded, EvidenceInv, EvidenceShape
<1>10. last = row
  <2>1. ~(last.at > row.at)
    BY <1>6, <1>8, <1>9
  <2>2. last.at = row.at
    BY <1>9, <2>1
  <2> QED BY <1>6, <1>9, <2>2 DEF EvidenceInv, EvidenceOrder
<1> QED BY <1>5, <1>6, <1>7, <1>8, <1>10 DEF Shown!Verified

\* The run behind "See a verified run" changed production, and a newer one that
\* did as well is passed over only while some of its events are missing or when a call
\* beside it wrote its last row (session_history.get_latest_verified_workbench_run_id).
THEOREM LinkedRunIsReal == Spec => []VerifiedIsReal
<1>1. EvidenceInv => VerifiedIsReal
  <2> SUFFICES ASSUME EvidenceInv PROVE Shown!VerifiedIsReal
    BY DEF VerifiedIsReal
  <2>1. ASSUME Shown!Latest # None
        PROVE  /\ Shown!Outcome(run_way[Shown!Latest]) = "COMPLETED"
               /\ Shown!Evidence(Shown!Latest).deployment /\ Shown!Evidence(Shown!Latest).result
               /\ Shown!Confidence(Shown!Latest) # "HIGH_CONFIDENCE"
    <3> DEFINE r == Shown!Latest
    <3>1. r \in 1..Shown!Run /\ Shown!Verified(r)
      BY <2>1, LatestIs
    <3>2. Shown!Has(r, "deployment_completed") /\ Shown!Has(r, "run_completed")
      BY <3>1 DEF Shown!Verified
    <3> HIDE DEF r
    <3>3. run_way \in Seq(Shown!Ways)
      BY DEF EvidenceInv, EvidenceShape
    <3>4. /\ "deployment_completed" \in KindsIn(CourseOf(r)) => Shown!Outcome(run_way[r]) = "COMPLETED"
          /\ "tool_call_completed" \notin KindsIn(CourseOf(r))
      BY <3>1, <3>3, CourseHas
    <3>5. Shown!Outcome(run_way[r]) = "COMPLETED"
      BY <3>1, <3>2, <3>4, ShownTypes
    <3>6. ~Shown!Has(r, "tool_call_completed")
      BY <3>1, <3>4, ShownTypes
    <3>7. Shown!Evidence(r).deployment /\ Shown!Evidence(r).result
      BY <3>2 DEF Shown!Evidence
    <3>8. Shown!Confidence(r) # "HIGH_CONFIDENCE"
      BY <3>6, NeverHigh
    <3> QED BY <3>5, <3>7, <3>8 DEF r
  <2>2. ASSUME NEW r \in 1..Shown!Run, Shown!Outcome(run_way[r]) = "COMPLETED",
               r < Shown!Run \/ Shown!Over, Shown!Latest = None \/ Shown!Latest < r
        PROVE  (\E row \in run_spool : row.run = r) \/ Shown!LastStatus(r) = None
    <3>1. CASE Shown!Verified(r)
      <4>1. Shown!Latest # None /\ r <= Shown!Latest
        BY <3>1, LatestIs
      <4>2. Shown!Latest \in Nat /\ r \in Nat
        BY <4>1, LatestIs DEF EvidenceInv, EvidenceShape, Shown!Run
      <4> QED BY <2>2, <4>1, <4>2
    <3>2. CASE ~Shown!Verified(r)
      BY <2>2, <3>2, CompletedIsVerified
    <3> QED BY <3>1, <3>2
  <2> QED BY <2>1, <2>2 DEF Shown!VerifiedIsReal
<1> QED BY <1>1, EvidenceInOrder, PTL

-----------------------------------------------------------------------------
(* The windows of the usage page *)

WindowsOK == /\ window_now \in 0..LastHour
             /\ \A r \in window_runs : r.at \in 0..window_now

\* What is assumed of the constants.
LEMMA WindowsConstants ==
  /\ Hours \in Nat /\ Hours > 0 /\ WeekDays \in Nat /\ WeekDays > 0
  /\ MonthDays \in Nat /\ MonthDays > 0 /\ LastHour \in Nat /\ Winter \in Nat
  /\ Spring \in Nat /\ Autumn \in Nat /\ Winter < Hours /\ (Spring + Winter) % Hours # 0
BY PlatformAssumption DEF Windows!WindowsAssumption

\* Local time never runs backwards, though it may stand.
LEMMA LocalTime ==
  /\ \A t \in Int : Windows!Local(t) \in Int /\ Windows!Local(t) - t \in {Winter, Winter + 1}
  /\ \A t, u \in Int : t <= u => Windows!Local(t) <= Windows!Local(u)
BY WindowsConstants DEF Windows!Local, Windows!Offset

\* A midnight that has passed is an instant, and what is not before it is what the clock
\* shows at or after it.
LEMMA MidnightIs ==
  ASSUME NEW m \in Nat, m % Hours = 0, NEW now \in 0..LastHour, m <= Windows!Local(now)
  PROVE  /\ Windows!Utc(m) \in Int
         /\ \A t \in Int : t >= Windows!Utc(m) <=> Windows!Local(t) >= m
<1> DEFINE low == -Hours * MonthDays
           high == LastHour + Hours
           T == {t \in low..high : Windows!Local(t) = m}
           u == Windows!Utc(m)
<1>1. low \in Int /\ high \in Int /\ low <= -(Winter + 1) /\ now + 1 <= high /\ now \in Nat
  <2>1. \A x, y \in Nat : x > 0 /\ y > 0 => x * y >= x /\ x * y \in Nat /\ -x * y = -(x * y)
    OBVIOUS
  <2>2. Hours * MonthDays >= Hours /\ Hours * MonthDays \in Nat /\ low = -(Hours * MonthDays)
    BY <2>1, WindowsConstants
  <2> QED BY <2>2, WindowsConstants
<1>2. u = CHOOSE x \in T : \A y \in T : x <= y
  BY DEF Windows!Utc, Windows!Min
<1> HIDE DEF low, high
<1>3. m # Spring + Winter
  BY WindowsConstants
<1>4. \A t \in Int : Windows!Local(t) = m <=>
        IF Spring <= t /\ t < Autumn THEN t = m - Winter - 1 ELSE t = m - Winter
  BY WindowsConstants DEF Windows!Local, Windows!Offset
<1>5. m - Winter - 1 \in low..high /\ m - Winter \in low..high
  <2>1. m <= now + Winter + 1
    BY LocalTime, WindowsConstants
  <2> QED BY <1>1, <2>1, WindowsConstants
<1>6. \E x \in T : \A y \in T : x <= y
  <2> DEFINE x == m - Winter - 1
             y == m - Winter
  <2>1. \A t \in T : t = x \/ t = y
    BY <1>1, <1>4
  <2>2. x \in Int /\ y \in Int /\ x < y /\ x <= x /\ x <= y /\ y <= y
    BY WindowsConstants
  <2>3. x \in T \/ y \in T
    <3>1. (Spring <= x /\ x < Autumn) \/ ~(Spring <= y /\ y < Autumn)
      BY <1>3, WindowsConstants
    <3> QED BY <1>4, <1>5, <2>2, <3>1
  <2> HIDE DEF T, x, y
  <2> QED BY <2>1, <2>2, <2>3
<1>7. u \in T /\ \A y \in T : u <= y
  BY <1>2, <1>6
<1>8. u \in Int /\ u \in low..high /\ Windows!Local(u) = m
  BY <1>1, <1>7
<1>9. ASSUME NEW t \in Int, t < u PROVE Windows!Local(t) < m
  <2>1. Windows!Local(t) <= m /\ Windows!Local(t) \in Int
    BY <1>8, <1>9, LocalTime
  <2>2. ASSUME Windows!Local(t) = m PROVE FALSE
    <3>1. t \in low..high
      <4>1. t >= m - Winter - 1
        BY <1>4, <2>2, WindowsConstants
      <4> QED BY <1>1, <1>5, <1>8, <1>9, <4>1, WindowsConstants
    <3>2. t \in T
      BY <2>2, <3>1
    <3> QED BY <1>7, <1>8, <1>9, <3>2
  <2> QED BY <2>1, <2>2
<1>10. ASSUME NEW t \in Int, t >= u PROVE Windows!Local(t) >= m
  BY <1>8, <1>10, LocalTime
<1> HIDE DEF u
<1>11. \A t \in Int : t >= u <=> Windows!Local(t) >= m
  <2>1. \A t \in Int : Windows!Local(t) \in Int
    BY LocalTime
  <2> QED BY <1>8, <1>9, <1>10, <2>1
<1> QED BY <1>8, <1>11 DEF u

\* Whole days, weeks and months, by division.
LEMMA Wholes ==
  ASSUME NEW l \in Nat, NEW k \in Nat, NEW s \in Nat, s > 0
  PROVE  /\ l \div s \in Nat
         /\ l >= s * k <=> l \div s >= k
         /\ l >= s * (l \div s) /\ l < s * (l \div s) + s
<1>1. PICK q \in Nat, r \in Nat : l \div s = q /\ r < s /\ l = s * q + r
  <2>1. l \div s \in Nat /\ l % s \in 0..(s - 1) /\ l = s * (l \div s) + (l % s)
    OBVIOUS
  <2>2. l % s \in Nat /\ l % s < s
    BY <2>1
  <2> QED BY <2>1, <2>2
<1>2. ASSUME q >= k PROVE s * q >= s * k
  BY <1>2
<1>3. ASSUME q < k PROVE s * k >= s * q + s
  <2>1. k >= q + 1
    BY <1>3
  <2>2. s * k >= s * (q + 1)
    BY <2>1
  <2> QED BY <2>2
<1>4. s * q \in Nat /\ s * k \in Nat
  OBVIOUS
<1>5. l >= s * k <=> q >= k
  BY <1>1, <1>2, <1>3, <1>4
<1> QED BY <1>1, <1>4, <1>5

\* So much local time belongs to whole days, in groups of any number of days.
LEMMA PeriodIs ==
  ASSUME NEW now \in 0..LastHour, NEW t \in 0..now, NEW w \in Nat, w > 0
  PROVE  LET day(x) == Windows!Day(Windows!Local(x))
             m == Windows!Midnight(Windows!Local(now)) - Hours * (day(now) % w)
         IN  t >= Windows!Utc(m) <=> day(t) \div w = day(now) \div w
<1> DEFINE L == Windows!Local(now)
           l == Windows!Local(t)
           D == L \div Hours
           d == l \div Hours
           m == D * Hours - Hours * (D % w)
<1>1. L \in Nat /\ l \in Nat /\ l <= L /\ t \in Int /\ now \in Int
  <2>1. now \in Nat /\ t \in Nat /\ t <= now
    BY WindowsConstants
  <2>2. L \in Int /\ l \in Int /\ l <= L /\ L >= now /\ l >= t
    BY <2>1, LocalTime, WindowsConstants
  <2> QED BY <2>1, <2>2
<1> HIDE DEF L, l
<1>2. Hours \in Nat /\ Hours > 0
  BY WindowsConstants
<1>3. D \in Nat /\ d \in Nat /\ L >= Hours * D
  BY <1>1, <1>2, Wholes
<1> HIDE DEF D, d
<1>4. PICK Q \in Nat, R \in Nat : D \div w = Q /\ D % w = R /\ D = w * Q + R
  <2>1. D \div w \in Nat /\ D % w \in Nat /\ D = w * (D \div w) + (D % w)
    BY <1>3
  <2> QED BY <2>1
<1>5. m = Hours * (w * Q) /\ m \in Nat /\ m <= L /\ m % Hours = 0
  <2>1. w * Q \in Nat
    BY <1>4
  <2>2. m = Hours * (w * Q) /\ Hours * (w * Q) <= Hours * D
    BY <1>2, <1>3, <1>4, <2>1
  <2>3. Hours * (w * Q) \in Nat /\ Hours * D \in Nat
    BY <1>2, <1>3, <2>1
  <2> HIDE DEF m
  <2>4. m \in Nat /\ m <= L
    BY <1>1, <1>3, <2>2, <2>3
  <2>5. m = Hours * (w * Q) + 0
    BY <2>2, <2>3
  <2>6. m % Hours = 0
    BY <1>2, <2>1, <2>5, Quotient
  <2> QED BY <2>2, <2>4, <2>6
<1> HIDE DEF m
<1>6. t >= Windows!Utc(m) <=> l >= m
  BY <1>1, <1>5, MidnightIs DEF L, l
<1>7. l >= m <=> d >= w * Q
  BY <1>1, <1>2, <1>4, <1>5, Wholes DEF d
<1>8. d >= w * Q <=> d \div w >= Q
  BY <1>3, <1>4, Wholes
<1>9. d \div w <= Q /\ d \div w \in Nat
  <2>1. d <= D
    <3>1. L >= Hours * d
      <4>1. l >= Hours * d /\ Hours * d \in Nat
        BY <1>1, <1>2, <1>3, Wholes DEF d
      <4> QED BY <1>1, <4>1
    <3> QED BY <1>1, <1>2, <1>3, <3>1, Wholes DEF D
  <2>2. d \div w \in Nat /\ w * (d \div w) <= d
    BY <1>3, Wholes
  <2>3. D >= w * (d \div w)
    <3>1. w * (d \div w) \in Nat
      BY <2>2
    <3> QED BY <1>3, <2>1, <2>2, <3>1
  <2>4. D \div w >= d \div w
    BY <1>3, <2>2, <2>3, Wholes
  <2> QED BY <1>4, <2>2, <2>4
<1>10. t >= Windows!Utc(m) <=> d \div w = Q
  BY <1>4, <1>6, <1>7, <1>8, <1>9
<1> QED BY <1>4, <1>10 DEF m, d, D, L, l, Windows!Midnight, Windows!Day

\* A day is a group of one day.
LEMMA TodayIs ==
  ASSUME NEW now \in 0..LastHour, NEW t \in 0..now
  PROVE  /\ t >= Windows!TodayStart(now) <=> Windows!SameDay(t, now)
         /\ Windows!SameDay(t, now) => t >= now - Hours
<1> DEFINE L == Windows!Local(now)
           l == Windows!Local(t)
           D == L \div Hours
           d == l \div Hours
<1>1. L \in Nat /\ l \in Nat /\ t \in Int /\ now \in Int /\ t <= now
  <2>1. now \in Nat /\ t \in Nat /\ t <= now
    BY WindowsConstants
  <2>2. L \in Int /\ l \in Int /\ L >= now /\ l >= t
    BY <2>1, LocalTime, WindowsConstants
  <2> QED BY <2>1, <2>2
<1>2. L - now <= Winter + 1 /\ l - t >= Winter /\ L - now >= Winter
      /\ l - t <= Winter + 1
  BY <1>1, LocalTime, WindowsConstants
<1> HIDE DEF L, l
<1>3. /\ D \in Nat /\ L >= Hours * D /\ L < Hours * D + Hours
      /\ d \in Nat /\ l >= Hours * d /\ l < Hours * d + Hours
      /\ Hours * D \in Nat /\ Hours * d \in Nat
  BY <1>1, WindowsConstants, Wholes
<1> HIDE DEF D, d
<1>4. t >= Windows!Utc(D * Hours) <=> d = D
  <2>1. D % 1 = 0 /\ D \div 1 = D /\ d \div 1 = d
    BY <1>3
  <2>2. D * Hours - Hours * (D % 1) = D * Hours
    BY <1>3, <2>1, WindowsConstants
  <2>3. t >= Windows!Utc(D * Hours - Hours * (D % 1)) <=> d \div 1 = D \div 1
    BY PeriodIs DEF D, d, L, l, Windows!Midnight, Windows!Day
  <2> QED BY <2>1, <2>2, <2>3
<1>5. t >= Windows!TodayStart(now) <=> Windows!SameDay(t, now)
  BY <1>4 DEF D, d, L, l, Windows!TodayStart, Windows!SameDay, Windows!Midnight, Windows!Day
<1>6. d = D => t >= now - Hours
  BY <1>1, <1>2, <1>3, WindowsConstants
<1> QED BY <1>5, <1>6 DEF D, d, L, l, Windows!SameDay, Windows!Day

\* The windows hold what they are said to hold.
LEMMA WindowsHold == WindowsOK => Windows!WindowsAreLocal
<1> SUFFICES ASSUME WindowsOK PROVE Windows!WindowsAreLocal
  OBVIOUS
<1>1. window_now \in 0..LastHour /\ \A r \in window_runs : r.at \in 0..window_now
  BY DEF WindowsOK
<1>2. Windows!Since(Windows!TodayStart(window_now)) = {r \in window_runs : Windows!SameDay(r.at, window_now)}
  BY <1>1, TodayIs DEF Windows!Since
<1>3. Windows!Since(Windows!WeekStart(window_now)) = {r \in window_runs : Windows!SameWeek(r.at, window_now)}
  BY <1>1, PeriodIs, WindowsConstants DEF Windows!Since, Windows!WeekStart, Windows!SameWeek
<1>4. Windows!Since(Windows!MonthStart(window_now)) = {r \in window_runs : Windows!SameMonth(r.at, window_now)}
  BY <1>1, PeriodIs, WindowsConstants DEF Windows!Since, Windows!MonthStart, Windows!SameMonth
<1>5. Windows!Since(Windows!HourStart(window_now)) \subseteq Windows!Since(Windows!DayStart(window_now))
  <2>1. \A r \in window_runs : r.at >= window_now - 1 => r.at >= window_now - Hours
    BY <1>1, WindowsConstants
  <2> QED BY <2>1 DEF Windows!Since, Windows!HourStart, Windows!DayStart
<1>6. Windows!Since(Windows!TodayStart(window_now)) \subseteq Windows!Since(Windows!DayStart(window_now))
  BY <1>1, TodayIs DEF Windows!Since, Windows!DayStart
<1>7. UNION {Windows!WithCost(Windows!InClass(class)) : class \in Windows!Classes} = Windows!WithCost(window_runs)
  BY DEF Windows!WithCost, Windows!InClass, Windows!Classes
<1> QED BY <1>2, <1>3, <1>4, <1>5, <1>6, <1>7 DEF Windows!WindowsAreLocal

\* The clock stays in the period that is modelled, and what has run has run before now.
THEOREM RunsArePast == Spec => []WindowsOK
<1>1. Init => WindowsOK
  BY WindowsConstants DEF Init, Windows!Init, WindowsOK
<1>2. WindowsOK /\ [Next]_vars => WindowsOK'
  <2> SUFFICES ASSUME WindowsOK, [Next]_vars PROVE WindowsOK'
    OBVIOUS
  <2>1. [Windows!Next]_window
    BY DEF Next, vars, window
  <2>2. window_now \in Nat /\ LastHour \in Nat
    BY WindowsConstants DEF WindowsOK
  <2>3. CASE Windows!Tick
    BY <2>2, <2>3 DEF Windows!Tick, WindowsOK
  <2>4. ASSUME NEW status, NEW priced, Windows!RunEnds(status, priced) PROVE WindowsOK'
    <3>1. window_now' = window_now
          /\ window_runs' = window_runs \cup {[at |-> window_now, status |-> status, priced |-> priced]}
      BY <2>4 DEF Windows!RunEnds
    <3>2. window_now \in 0..window_now
      BY <2>2
    <3> QED BY <3>1, <3>2 DEF WindowsOK
  <2>5. CASE UNCHANGED window
    BY <2>5 DEF window, WindowsOK
  <2> QED BY <2>1, <2>3, <2>4, <2>5 DEF Windows!Next
<1> QED BY <1>1, <1>2, PTL DEF Spec

\* A run counts for today, this week and this month exactly when its local date lies in
\* them, whenever in the year the two changes of the clock are, as long as none is at a
\* midnight (event_ledger.compute_display_windows).
THEOREM WindowsStayLocal == Spec => []WindowsAreLocal
BY RunsArePast, WindowsHold, PTL DEF WindowsAreLocal

-----------------------------------------------------------------------------
(* The accounts of usage *)

\* Every row that was made, sent or still spooled.
UsageRows == usage_ledger \cup usage_spool

\* The lines a session's hook has read, and the row of a session that has ended once.
Seen(s) == SubSeq(usage_transcript[s], 1, usage_read[s])
FirstRow(s) ==
  Accounts!Row(<<"hook", s, 0, None>>, "model_usage", "claude_code", s,
               Cardinality(Accounts!Turns(Seen(s))), Seen(s)[Accounts!Max(Accounts!Turns(Seen(s)))])

\* The rows of a run that has ended, and of a line that was imported.
RunsEnded == {k \in Reported : usage_past[k] # None}
RunRow(k) == Accounts!Row(<<"run", k>>, "run_usage_summary", "workbench", k,
                          usage_past[k].tokens, usage_past[k].model)
OutcomeRow(k) == Accounts!Row(<<"outcome", k>>, "run_completed", "workbench", k, 0, None)
ModelRow(k) == Accounts!Row(<<"model_usage", k>>, "model_usage", "workbench", k,
                            usage_past[k].tokens, usage_past[k].model)
LineOf(p) == usage_transcript[p[1]][p[2]]
EntryRow(p) ==
  Accounts!Row(<<"import", p[1], p[2]>>,
               IF LineOf(p) = "prompt" THEN "user_prompt_submitted" ELSE "tool_call_started",
               "claude_code", Label, 0, None)

UsageShapes ==
  /\ usage_transcript \in [HookSessions -> Seq({"prompt", "result"} \cup Accounts!KnownModels)]
  /\ usage_ends \in [HookSessions -> Nat] /\ usage_read \in [HookSessions -> Nat]
  /\ \A s \in HookSessions : usage_read[s] <= Len(usage_transcript[s])
  /\ usage_past \in [Reported -> Accounts!Used \cup {None}]
  /\ IsFiniteSet(RunsEnded) /\ IsFiniteSet(usage_imported)
  /\ \A p \in usage_imported :
       p \in HookSessions \X Nat /\ p[2] \in 1..Len(usage_transcript[p[1]])

\* An id is given to one row.
OneRowEach(rows) == \A q, r \in rows : q.id = r.id => q = r

\* What a row can have been made from.
FromHook(r) ==
  \E s \in HookSessions : \E e \in 0..(usage_ends[s] - 1) : \E x \in Subagents \cup {None} :
    /\ r.id = <<"hook", s, e, x>> /\ r.of = s
    /\ r.type = IF x = None THEN "model_usage" ELSE "claude_code_subagent_usage"
    /\ x = None /\ usage_ends[s] = 1 => Accounts!Turns(Seen(s)) # {} /\ r = FirstRow(s)
FromRun(r) == \E k \in RunsEnded : r \in {RunRow(k), OutcomeRow(k), ModelRow(k)}
FromEntry(r) == \E p \in usage_imported : LineOf(p) # "result" /\ r = EntryRow(p)
Made(r) == FromHook(r) \/ FromRun(r) \/ FromEntry(r)

\* Nothing of what is counted is missing.
AllRecorded ==
  /\ \A s \in HookSessions :
       usage_ends[s] = 1 /\ Accounts!Turns(Seen(s)) # {} => FirstRow(s) \in UsageRows
  /\ \A k \in RunsEnded : RunRow(k) \in UsageRows
  /\ \A p \in usage_imported : LineOf(p) = "prompt" => EntryRow(p) \in UsageRows

\* Every row that was made is told by its id from what it was made from, and there is a row
\* for all that is counted.
UsageInv ==
  /\ UsageShapes
  /\ OneRowEach(UsageRows)
  /\ \A r \in UsageRows : Made(r)
  /\ AllRecorded

\* The sum of the tokens of no row, and of one.
LEMMA SumOfNone == Accounts!Tokens({}) = 0
<1> DEFINE it[s \in SUBSET {}] ==
             IF s = {} THEN 0 ELSE LET x == CHOOSE y \in s : TRUE IN x.tokens + it[s \ {x}]
<1>1. Accounts!Tokens({}) = it[{}]
  BY DEF Accounts!Tokens, Accounts!MapThenSumSet, Accounts!MapThenFoldSet
<1> DEFINE w == [s \in SUBSET {} |-> 0]
<1>2. w = [s \in SUBSET {} |->
             IF s = {} THEN 0 ELSE LET x == CHOOSE y \in s : TRUE IN x.tokens + w[s \ {x}]]
  <2>1. \A s \in SUBSET {} : s = {}
    OBVIOUS
  <2> QED BY <2>1
<1> HIDE DEF w
<1>3. it = [s \in SUBSET {} |->
             IF s = {} THEN 0 ELSE LET x == CHOOSE y \in s : TRUE IN x.tokens + it[s \ {x}]]
  BY <1>2
<1> HIDE DEF it
<1>4. it[{}] = 0
  BY <1>3
<1> QED BY <1>1, <1>4

\* The tokens of one row.
LEMMA SumOfOne == ASSUME NEW r, r.tokens \in Nat PROVE Accounts!Tokens({r}) = r.tokens
<1> DEFINE it[s \in SUBSET {r}] ==
             IF s = {} THEN 0 ELSE LET x == CHOOSE y \in s : TRUE IN x.tokens + it[s \ {x}]
<1>1. Accounts!Tokens({r}) = it[{r}]
  BY DEF Accounts!Tokens, Accounts!MapThenSumSet, Accounts!MapThenFoldSet
<1> DEFINE w == [s \in SUBSET {r} |-> IF s = {} THEN 0 ELSE r.tokens]
           of(s) == CHOOSE y \in s : TRUE
<1>2. {} \in SUBSET {r} /\ {r} \in SUBSET {r} /\ {r} # {}
  OBVIOUS
<1>8. of({r}) = r /\ {r} \ {r} = {} /\ \A s \in SUBSET {r} : s = {} \/ s = {r}
  OBVIOUS
<1>3. w[{}] = 0 /\ w[{r}] = r.tokens
  OBVIOUS
<1>4. w = [s \in SUBSET {r} |-> IF s = {} THEN 0 ELSE of(s).tokens + w[s \ {of(s)}]]
  <2>1. ASSUME NEW s \in SUBSET {r}
        PROVE  w[s] = IF s = {} THEN 0 ELSE of(s).tokens + w[s \ {of(s)}]
    <3>1. CASE s = {}
      BY <1>3, <3>1
    <3>2. CASE s = {r}
      <4> HIDE DEF w, of
      <4> QED BY <1>2, <1>3, <1>8, <3>2
    <3> QED BY <1>8, <3>1, <3>2
  <2>2. w = [s \in SUBSET {r} |-> w[s]]
    OBVIOUS
  <2> HIDE DEF w, of
  <2> QED BY <2>1, <2>2
<1> HIDE DEF w
<1>5. it = [s \in SUBSET {r} |-> IF s = {} THEN 0 ELSE of(s).tokens + it[s \ {of(s)}]]
  BY <1>4
<1> HIDE DEF it, of
<1>6. it[{}] = 0
  BY <1>2, <1>5
<1>7. it[{r}] = r.tokens + it[{}]
  <2>1. it[{r}] = of({r}).tokens + it[{r} \ {of({r})}]
    BY <1>2, <1>5
  <2> QED BY <1>8, <2>1
<1> QED BY <1>1, <1>6, <1>7

\* What is assumed of the accounts.
LEMMA UsageConstants ==
  None \notin Accounts!KnownModels /\ None \notin Subagents /\ None \notin Accounts!Used
BY PlatformAssumption DEF Accounts!UsageAssumption

\* g names things in R by what they stand for in P, and tells them apart.
StandFor(g, P, R) ==
  (\A r \in R : \E p \in P : r = g[p]) /\ (\A p, q \in P : g[p] = g[q] => p = q)

\* Things told apart by what they stand for are no more than that, and as many when they
\* stand for all of it.
LEMMA AsManyAs ==
  ASSUME NEW P, IsFiniteSet(P), NEW R, NEW g, StandFor(g, P, R)
  PROVE  /\ IsFiniteSet(R) /\ Cardinality(R) \in Nat /\ Cardinality(P) \in Nat
         /\ Cardinality(R) <= Cardinality(P)
         /\ (\A p \in P : g[p] \in R) => Cardinality(R) = Cardinality(P)
<1> DEFINE f == [r \in R |-> CHOOSE p \in P : r = g[p]]
<1>1. f \in [R -> P] /\ \A r \in R : r = g[f[r]]
  BY DEF StandFor
<1> HIDE DEF f
<1>2. f \in Injection(R, P)
  BY <1>1 DEF Injection, IsInjective
<1>3. /\ IsFiniteSet(R) /\ Cardinality(R) <= Cardinality(P)
      /\ Cardinality(R) = Cardinality(P) <=> f \in Surjection(R, P)
  BY <1>2, FS_Injection
<1>4. (\A p \in P : g[p] \in R) => f \in Surjection(R, P)
  <2>1. ASSUME \A p \in P : g[p] \in R, NEW p \in P PROVE \E r \in R : f[r] = p
    <3>1. g[p] \in R /\ f[g[p]] \in P /\ g[p] = g[f[g[p]]]
      BY <1>1, <2>1
    <3>2. f[g[p]] = p
      BY <3>1 DEF StandFor
    <3> QED BY <3>1, <3>2
  <2> QED BY <1>1, <2>1 DEF Surjection
<1> QED BY <1>3, <1>4, FS_CardinalityType

\* Where an id stands for one row, sending rows again adds nothing and loses nothing.
LEMMA SentOnce ==
  ASSUME NEW N, OneRowEach(usage_ledger \cup N)
  PROVE  Accounts!Inserted(N) = usage_ledger \cup N
<1>1. ASSUME NEW r \in N, r \notin usage_ledger PROVE r \in Accounts!Inserted(N)
  BY <1>1 DEF OneRowEach, Accounts!Inserted
<1> QED BY <1>1 DEF Accounts!Inserted

\* Rows that are recorded are in the ledger or wait in the spool, once.
LEMMA RecordedRows ==
  ASSUME NEW N, OneRowEach(UsageRows \cup N), Accounts!Record(N)
  PROVE  UsageRows' = UsageRows \cup N
<1>1. OneRowEach(usage_ledger \cup N)
  BY DEF OneRowEach, UsageRows
<1>2. Accounts!Inserted(N) = usage_ledger \cup N
  BY <1>1, SentOnce
<1> QED BY <1>2 DEF Accounts!Record, UsageRows

\* Sending the spool adds no row and loses none.
LEMMA SyncedRows ==
  ASSUME OneRowEach(UsageRows), Accounts!Sync
  PROVE  UsageRows' = UsageRows
<1>1. Accounts!Inserted(usage_spool) = usage_ledger \cup usage_spool
  BY SentOnce DEF UsageRows
<1> QED BY <1>1 DEF Accounts!Sync, UsageRows

\* What a row of each kind is.
LEMMA RowsAre ==
  /\ \A id, type, source, of, tokens, model :
       LET r == Accounts!Row(id, type, source, of, tokens, model) IN
       /\ r.id = id /\ r.type = type /\ r.source = source /\ r.of = of /\ r.tokens = tokens
       /\ r.model = model
BY DEF Accounts!Row

\* The rows of a session that has ended once are its one row, or none.
LEMMA OneSessionRow ==
  ASSUME UsageInv, NEW s \in HookSessions, usage_ends[s] = 1
  PROVE  /\ Accounts!UsageRows(s) = {} \/ Accounts!UsageRows(s) = {FirstRow(s)}
         /\ Accounts!Turns(Seen(s)) = {} => Accounts!UsageRows(s) = {}
         /\ Accounts!Turns(Seen(s)) # {} /\ usage_spool = {}
              => Accounts!UsageRows(s) = {FirstRow(s)}
<1>1. ASSUME NEW r \in Accounts!UsageRows(s)
      PROVE  Accounts!Turns(Seen(s)) # {} /\ r = FirstRow(s)
  <2>1. r \in UsageRows /\ r.type = "model_usage" /\ r.source = "claude_code" /\ r.of = s
    BY DEF Accounts!UsageRows, UsageRows
  <2>2. ~FromRun(r)
    BY <2>1 DEF FromRun, RunRow, OutcomeRow, ModelRow, Accounts!Row
  <2>3. ~FromEntry(r)
    BY <2>1 DEF FromEntry, EntryRow, Accounts!Row
  <2>4. FromHook(r)
    BY <2>1, <2>2, <2>3 DEF UsageInv, Made
  <2> QED BY <2>1, <2>4 DEF FromHook
<1>2. Accounts!Turns(Seen(s)) # {} /\ usage_spool = {} => FirstRow(s) \in Accounts!UsageRows(s)
  <2>1. /\ FirstRow(s).type = "model_usage" /\ FirstRow(s).source = "claude_code"
        /\ FirstRow(s).of = s
    BY DEF FirstRow, Accounts!Row
  <2>2. Accounts!Turns(Seen(s)) # {} => FirstRow(s) \in UsageRows
    BY DEF UsageInv, AllRecorded
  <2> HIDE DEF FirstRow
  <2> QED BY <2>1, <2>2 DEF Accounts!UsageRows, UsageRows
<1> QED BY <1>1, <1>2

\* The lines a hook has read, as a text.
LEMMA SeenIs ==
  ASSUME UsageShapes, NEW s \in HookSessions
  PROVE  /\ Seen(s) \in Seq({"prompt", "result"} \cup Accounts!KnownModels)
         /\ IsFiniteSet(Accounts!Turns(Seen(s)))
         /\ Cardinality(Accounts!Turns(Seen(s))) \in Nat
<1>1. PICK t \in Seq({"prompt", "result"} \cup Accounts!KnownModels), n \in Nat :
        t = usage_transcript[s] /\ n = usage_read[s] /\ n <= Len(t)
  BY DEF UsageShapes
<1>2. SubSeq(t, 1, n) \in Seq({"prompt", "result"} \cup Accounts!KnownModels)
  <2>1. 1 \in 1..(Len(t) + 1) /\ n \in (1 - 1)..Len(t)
    BY <1>1
  <2> QED BY <2>1, SubSeqProperties
<1>3. Seen(s) \in Seq({"prompt", "result"} \cup Accounts!KnownModels)
  BY <1>1, <1>2 DEF Seen
<1>4. PICK m \in Nat : DOMAIN Seen(s) = 1..m
  BY <1>3
<1>5. Accounts!Turns(Seen(s)) \subseteq 1..m /\ IsFiniteSet(1..m)
  BY <1>4, FS_Interval DEF Accounts!Turns
<1>6. IsFiniteSet(Accounts!Turns(Seen(s)))
  BY <1>5, FS_Subset
<1> QED BY <1>3, <1>6, FS_CardinalityType

\* What happened once is counted once.
LEMMA CountsHold == UsageInv => Accounts!CountedOnce
<1> SUFFICES ASSUME UsageInv PROVE Accounts!CountedOnce
  OBVIOUS
<1> DEFINE Exactly(n, m) == n <= m /\ (usage_spool = {} => n = m)
<1>0. UsageShapes /\ AllRecorded /\ \A S : Accounts!Cardinality(S) = Cardinality(S)
  <2>1. \A S : Accounts!Cardinality(S) = Cardinality(S)
    BY Zenon DEF Cardinality, Accounts!Cardinality
  <2> QED BY <2>1 DEF UsageInv
<1>1. ASSUME NEW s \in HookSessions, usage_ends[s] = 1
      PROVE  Exactly(Accounts!SessionTokens(s),
                     Accounts!TurnsOf(SubSeq(usage_transcript[s], 1, usage_read[s])))
  <2>1. PICK c \in Nat : c = Cardinality(Accounts!Turns(Seen(s)))
    BY <1>0, SeenIs
  <2>2. Accounts!TurnsOf(SubSeq(usage_transcript[s], 1, usage_read[s])) = c
    BY <1>0, <2>1 DEF Accounts!TurnsOf, Seen
  <2>3. FirstRow(s).tokens = c
    BY <2>1 DEF FirstRow, Accounts!Row
  <2>4. Accounts!UsageRows(s) = {} => Accounts!SessionTokens(s) = 0
    BY SumOfNone DEF Accounts!SessionTokens
  <2>5. Accounts!UsageRows(s) = {FirstRow(s)} => Accounts!SessionTokens(s) = c
    BY <2>3, SumOfOne DEF Accounts!SessionTokens
  <2>6. Accounts!Turns(Seen(s)) = {} => c = 0
    BY <2>1, FS_EmptySet
  <2>7. /\ Accounts!UsageRows(s) = {} \/ Accounts!UsageRows(s) = {FirstRow(s)}
        /\ Accounts!Turns(Seen(s)) = {} => Accounts!UsageRows(s) = {}
        /\ Accounts!Turns(Seen(s)) # {} /\ usage_spool = {}
             => Accounts!UsageRows(s) = {FirstRow(s)}
    BY <1>1, OneSessionRow
  <2>8. Accounts!SessionTokens(s) <= c /\ (usage_spool = {} => Accounts!SessionTokens(s) = c)
    BY <2>4, <2>5, <2>6, <2>7
  <2> QED BY <2>2, <2>8
<1>2. Exactly(Accounts!Prompts(Label),
              Accounts!Cardinality({p \in usage_imported : usage_transcript[p[1]][p[2]] = "prompt"}))
  <2> DEFINE P == {p \in usage_imported : LineOf(p) = "prompt"}
             R == {r \in usage_ledger : r.type = "user_prompt_submitted" /\ r.of = Label}
             g == [p \in P |-> EntryRow(p)]
  <2>1. IsFiniteSet(P)
    <3>1. P \subseteq usage_imported /\ IsFiniteSet(usage_imported)
      BY <1>0 DEF UsageShapes
    <3> QED BY <3>1, FS_Subset
  <2>2. ASSUME NEW r \in R PROVE \E p \in P : r = g[p]
    <3>1. Made(r) /\ r.type = "user_prompt_submitted"
      BY DEF UsageInv, UsageRows
    <3>2. ~FromHook(r)
      BY <3>1 DEF FromHook
    <3>3. ~FromRun(r)
      BY <3>1 DEF FromRun, RunRow, OutcomeRow, ModelRow, Accounts!Row
    <3>4. PICK p \in usage_imported : r = EntryRow(p)
      BY <3>1, <3>2, <3>3 DEF Made, FromEntry
    <3>5. r.type = IF LineOf(p) = "prompt" THEN "user_prompt_submitted" ELSE "tool_call_started"
      BY <3>4, RowsAre DEF EntryRow
    <3>6. p \in P
      BY <3>1, <3>5
    <3> QED BY <3>4, <3>6
  <2>3. ASSUME NEW p \in P, NEW q \in P, g[p] = g[q] PROVE p = q
    <3>1. EntryRow(p).id = EntryRow(q).id
      BY <2>3
    <3>2. <<"import", p[1], p[2]>> = <<"import", q[1], q[2]>>
      BY <3>1, RowsAre DEF EntryRow
    <3>3. p[1] = q[1] /\ p[2] = q[2]
      BY <3>2
    <3>4. p \in HookSessions \X Nat /\ q \in HookSessions \X Nat
      BY <1>0 DEF UsageShapes
    <3> QED BY <3>3, <3>4
  <2>4. ASSUME usage_spool = {}, NEW p \in P PROVE g[p] \in R
    <3>1. EntryRow(p) \in usage_ledger
      BY <1>0, <2>4 DEF AllRecorded, UsageRows
    <3>2. EntryRow(p).type = "user_prompt_submitted" /\ EntryRow(p).of = Label
      BY RowsAre DEF EntryRow
    <3> QED BY <3>1, <3>2
  <2> HIDE DEF P, R, g
  <2>5. /\ Cardinality(R) \in Nat /\ Cardinality(P) \in Nat /\ Cardinality(R) <= Cardinality(P)
        /\ (\A p \in P : g[p] \in R) => Cardinality(R) = Cardinality(P)
    <3>1. StandFor(g, P, R)
      BY <2>2, <2>3 DEF StandFor
    <3> QED BY <2>1, <3>1, AsManyAs
  <2>6. Accounts!Prompts(Label) = Cardinality(R)
    BY <1>0 DEF Accounts!Prompts, R
  <2>7. Accounts!Cardinality({p \in usage_imported : usage_transcript[p[1]][p[2]] = "prompt"})
          = Cardinality(P)
    BY <1>0 DEF P, LineOf
  <2> QED BY <2>4, <2>5, <2>6, <2>7
<1>3. Exactly(Accounts!RunsTotal, Accounts!Cardinality({r \in Reported : usage_past[r] # None}))
      /\ Accounts!WorkbenchRuns \subseteq Reported
  <2> DEFINE R == Accounts!RunRows
             g == [k \in RunsEnded |-> RunRow(k)]
  <2>2. ASSUME NEW r \in R PROVE \E k \in RunsEnded : r = g[k]
    <3>1. Made(r) /\ r.type = "run_usage_summary"
      BY DEF UsageInv, UsageRows, Accounts!RunRows
    <3>2. ~FromHook(r)
      BY <3>1 DEF FromHook
    <3>3. ~FromEntry(r)
      BY <3>1 DEF FromEntry, EntryRow, Accounts!Row
    <3>4. PICK k \in RunsEnded : r \in {RunRow(k), OutcomeRow(k), ModelRow(k)}
      BY <3>1, <3>2, <3>3 DEF Made, FromRun
    <3>5. OutcomeRow(k).type = "run_completed" /\ ModelRow(k).type = "model_usage"
      BY RowsAre DEF OutcomeRow, ModelRow
    <3>6. r = RunRow(k)
      BY <3>1, <3>4, <3>5
    <3> QED BY <3>6
  <2>3. ASSUME NEW k \in RunsEnded, NEW j \in RunsEnded, g[k] = g[j] PROVE k = j
    <3>1. RunRow(k).of = RunRow(j).of
      BY <2>3
    <3> QED BY <3>1, RowsAre DEF RunRow
  <2>4. ASSUME usage_spool = {}, NEW k \in RunsEnded PROVE g[k] \in R
    <3>1. RunRow(k) \in usage_ledger
      BY <1>0, <2>4 DEF AllRecorded, UsageRows
    <3>2. RunRow(k).type = "run_usage_summary"
      BY RowsAre DEF RunRow
    <3> QED BY <3>1, <3>2 DEF Accounts!RunRows
  <2>5. \A r \in R : r.of \in Reported
    <3>1. \A k \in RunsEnded : RunRow(k).of = k /\ k \in Reported
      BY RowsAre DEF RunRow, RunsEnded
    <3> QED BY <2>2, <3>1
  <2> HIDE DEF R, g
  <2>6. IsFiniteSet(RunsEnded)
    BY <1>0 DEF UsageShapes
  <2>7. /\ Cardinality(R) \in Nat /\ Cardinality(RunsEnded) \in Nat /\ Cardinality(R) <= Cardinality(RunsEnded)
        /\ (\A k \in RunsEnded : g[k] \in R) => Cardinality(R) = Cardinality(RunsEnded)
    <3>1. StandFor(g, RunsEnded, R)
      BY <2>2, <2>3 DEF StandFor
    <3> QED BY <2>6, <3>1, AsManyAs
  <2>8. Accounts!RunsTotal = Cardinality(R)
        /\ Accounts!Cardinality({r \in Reported : usage_past[r] # None}) = Cardinality(RunsEnded)
    BY <1>0 DEF Accounts!RunsTotal, R, RunsEnded
  <2>9. Accounts!WorkbenchRuns \subseteq Reported
    BY <2>5 DEF Accounts!WorkbenchRuns, R
  <2> QED BY <2>4, <2>7, <2>8, <2>9
<1>4. Accounts!DirectSessions \subseteq HookSessions
  BY DEF Accounts!DirectSessions, Accounts!DevRows, Accounts!UsageRows
<1> QED BY <1>1, <1>2, <1>3, <1>4 DEF Accounts!CountedOnce

\* A row of a run, and one of an imported line, is the only one with its id.
LEMMA HeadsAre ==
  \A r : /\ FromHook(r) => r.id[1] = "hook"
         /\ FromRun(r) => r.id[1] \in {"run", "outcome", "model_usage"}
         /\ FromEntry(r) => r.id[1] = "import"
<1> TAKE r
<1>1. FromHook(r) => r.id[1] = "hook"
  BY DEF FromHook
<1>2. ASSUME NEW k PROVE /\ RunRow(k).id[1] = "run" /\ OutcomeRow(k).id[1] = "outcome"
                         /\ ModelRow(k).id[1] = "model_usage"
  BY RowsAre DEF RunRow, OutcomeRow, ModelRow
<1>3. FromRun(r) => r.id[1] \in {"run", "outcome", "model_usage"}
  BY <1>2 DEF FromRun
<1>4. ASSUME NEW p PROVE EntryRow(p).id[1] = "import"
  BY RowsAre DEF EntryRow
<1>5. FromEntry(r) => r.id[1] = "import"
  BY <1>4 DEF FromEntry
<1> QED BY <1>1, <1>3, <1>5

\* A row of a run has an id no other row has.
LEMMA RunIds == \A q, r : FromRun(q) /\ Made(r) /\ q.id = r.id => q = r
<1> SUFFICES ASSUME NEW q, NEW r, FromRun(q), Made(r), q.id = r.id PROVE q = r
  OBVIOUS
<1>1. q.id[1] \in {"run", "outcome", "model_usage"} /\ q.id[1] = r.id[1]
  BY HeadsAre
<1>2. FromRun(r)
  BY <1>1, HeadsAre DEF Made
<1>3. PICK k \in RunsEnded : q \in {RunRow(k), OutcomeRow(k), ModelRow(k)}
  BY DEF FromRun
<1>4. PICK j \in RunsEnded : r \in {RunRow(j), OutcomeRow(j), ModelRow(j)}
  BY <1>2 DEF FromRun
<1>5. \A i : RunRow(i).id = <<"run", i>> /\ OutcomeRow(i).id = <<"outcome", i>>
             /\ ModelRow(i).id = <<"model_usage", i>>
  BY RowsAre DEF RunRow, OutcomeRow, ModelRow
<1>6. k = j
  BY <1>3, <1>4, <1>5
<1>7. CASE q = RunRow(k)
  BY <1>4, <1>5, <1>6, <1>7
<1>8. CASE q = OutcomeRow(k)
  BY <1>4, <1>5, <1>6, <1>8
<1>9. CASE q = ModelRow(k)
  BY <1>4, <1>5, <1>6, <1>9
<1> QED BY <1>3, <1>7, <1>8, <1>9

\* So has a row of an imported prompt.
LEMMA EntryIds ==
  UsageShapes => \A q, r : FromEntry(q) /\ Made(r) /\ q.id = r.id => q = r
<1> SUFFICES ASSUME UsageShapes, NEW q, NEW r, FromEntry(q), Made(r), q.id = r.id PROVE q = r
  OBVIOUS
<1>1. q.id[1] = "import" /\ q.id[1] = r.id[1]
  BY HeadsAre
<1>2. FromEntry(r)
  BY <1>1, HeadsAre DEF Made
<1>3. PICK p \in usage_imported : q = EntryRow(p)
  BY DEF FromEntry
<1>4. PICK o \in usage_imported : r = EntryRow(o)
  BY <1>2 DEF FromEntry
<1>5. q.id = <<"import", p[1], p[2]>> /\ r.id = <<"import", o[1], o[2]>>
  <2>1. \A x : EntryRow(x).id = <<"import", x[1], x[2]>>
    BY RowsAre DEF EntryRow
  <2> QED BY <1>3, <1>4, <2>1
<1>6. p[1] = o[1] /\ p[2] = o[2]
  <2>1. <<"import", p[1], p[2]>> = <<"import", o[1], o[2]>>
    BY <1>5
  <2> QED BY <2>1
<1>7. p = o
  <2>1. p \in HookSessions \X Nat /\ o \in HookSessions \X Nat
    BY DEF UsageShapes
  <2> QED BY <1>6, <2>1
<1> QED BY <1>3, <1>4, <1>7

\* What was made stays made while a session's first end, a run's end and an imported line
\* stay what they are.
LEMMA StaysMade ==
  ASSUME UsageInv,
         \A s \in HookSessions : /\ usage_ends'[s] \in Nat /\ usage_ends[s] <= usage_ends'[s]
                                 /\ usage_ends[s] = 1 /\ usage_ends'[s] = 1 => Seen(s)' = Seen(s),
         \A k \in RunsEnded : usage_past'[k] = usage_past[k],
         usage_imported \subseteq usage_imported',
         \A p \in usage_imported : LineOf(p)' = LineOf(p)
  PROVE  \A r \in UsageRows : Made(r)'
<1> SUFFICES ASSUME NEW r \in UsageRows PROVE Made(r)'
  OBVIOUS
<1>1. Made(r)
  BY DEF UsageInv
<1>2. ASSUME FromHook(r) PROVE FromHook(r)'
  <2>1. PICK s, e, x :
          /\ s \in HookSessions /\ e \in 0..(usage_ends[s] - 1) /\ x \in Subagents \cup {None}
          /\ r.id = <<"hook", s, e, x>> /\ r.of = s
          /\ r.type = IF x = None THEN "model_usage" ELSE "claude_code_subagent_usage"
          /\ x = None /\ usage_ends[s] = 1 => Accounts!Turns(Seen(s)) # {} /\ r = FirstRow(s)
    BY <1>2, Zenon DEF FromHook
  <2>2. usage_ends[s] \in Nat /\ usage_ends'[s] \in Nat /\ usage_ends[s] <= usage_ends'[s]
    BY <2>1 DEF UsageInv, UsageShapes
  <2>3. e \in 0..(usage_ends'[s] - 1) /\ usage_ends[s] >= 1
    BY <2>1, <2>2
  <2>4. ASSUME x = None, usage_ends'[s] = 1 PROVE Accounts!Turns(Seen(s)') # {} /\ r = FirstRow(s)'
    <3>1. usage_ends[s] = 1
      BY <2>2, <2>3, <2>4
    <3>2. Seen(s)' = Seen(s)
      BY <2>1, <2>4, <3>1
    <3>3. FirstRow(s)' = FirstRow(s)
      BY <3>2 DEF FirstRow
    <3> QED BY <2>1, <2>4, <3>1, <3>2, <3>3
  <2> QED BY <2>1, <2>3, <2>4 DEF FromHook
<1>3. ASSUME FromRun(r) PROVE FromRun(r)'
  <2>1. PICK k \in RunsEnded : r \in {RunRow(k), OutcomeRow(k), ModelRow(k)}
    BY <1>3 DEF FromRun
  <2>2. k \in RunsEnded'
    BY <2>1 DEF RunsEnded
  <2>3. RunRow(k)' = RunRow(k) /\ OutcomeRow(k)' = OutcomeRow(k) /\ ModelRow(k)' = ModelRow(k)
    BY <2>1 DEF RunRow, OutcomeRow, ModelRow
  <2> QED BY <2>1, <2>2, <2>3 DEF FromRun
<1>4. ASSUME FromEntry(r) PROVE FromEntry(r)'
  <2>1. PICK p \in usage_imported : LineOf(p) # "result" /\ r = EntryRow(p)
    BY <1>4 DEF FromEntry
  <2>2. p \in usage_imported' /\ LineOf(p)' = LineOf(p)
    BY <2>1
  <2>3. EntryRow(p)' = EntryRow(p)
    BY <2>2 DEF EntryRow
  <2> QED BY <2>1, <2>2, <2>3 DEF FromEntry
<1> QED BY <1>1, <1>2, <1>3, <1>4 DEF Made

\* New rows of runs and of imported lines collide with no other row.
LEMMA NewIds ==
  ASSUME UsageInv, NEW N, UsageShapes', \A r \in UsageRows \cup N : Made(r)',
         \A r \in N : FromRun(r)' \/ FromEntry(r)'
  PROVE  OneRowEach(UsageRows \cup N)
<1>1. (\A q, r : FromRun(q) /\ Made(r) /\ q.id = r.id => q = r)'
  BY RunIds, PTL
<1>2. (UsageShapes => \A q, r : FromEntry(q) /\ Made(r) /\ q.id = r.id => q = r)'
  BY EntryIds, PTL
<1>3. \A q, r : FromRun(q)' /\ Made(r)' /\ q.id = r.id => q = r
  BY <1>1
<1>4. \A q, r : FromEntry(q)' /\ Made(r)' /\ q.id = r.id => q = r
  BY <1>2
<1>5. ASSUME NEW q \in UsageRows \cup N, NEW r \in UsageRows \cup N, q.id = r.id PROVE q = r
  <2>1. CASE q \in N
    BY <1>3, <1>4, <1>5, <2>1
  <2>2. CASE r \in N
    BY <1>3, <1>4, <1>5, <2>2
  <2>3. CASE q \in UsageRows /\ r \in UsageRows
    BY <1>5, <2>3 DEF UsageInv, OneRowEach
  <2> QED BY <2>1, <2>2, <2>3
<1> QED BY <1>5 DEF OneRowEach

\* A step that touches neither the transcripts, nor the ends, nor the runs, nor the imports,
\* and adds rows of runs that have ended.
LEMMA OnlyRows ==
  ASSUME UsageInv, NEW N, \A r \in N : FromRun(r), UsageRows' = UsageRows \cup N,
         UNCHANGED <<usage_transcript, usage_ends, usage_read, usage_past, usage_imported>>
  PROVE  UsageInv'
<1>1. UsageShapes'
  BY DEF UsageInv, UsageShapes, RunsEnded
<1>2. \A s \in HookSessions : Seen(s)' = Seen(s) /\ FirstRow(s)' = FirstRow(s)
  BY DEF Seen, FirstRow
<1>3. \A p : LineOf(p)' = LineOf(p) /\ EntryRow(p)' = EntryRow(p)
  BY DEF LineOf, EntryRow
<1>4. /\ RunsEnded' = RunsEnded
      /\ \A k : RunRow(k)' = RunRow(k) /\ OutcomeRow(k)' = OutcomeRow(k) /\ ModelRow(k)' = ModelRow(k)
  BY DEF RunsEnded, RunRow, OutcomeRow, ModelRow
<1>5. \A r \in UsageRows : Made(r)'
  <2>1. \A s \in HookSessions : /\ usage_ends'[s] \in Nat /\ usage_ends[s] <= usage_ends'[s]
                                /\ usage_ends[s] = 1 /\ usage_ends'[s] = 1 => Seen(s)' = Seen(s)
    BY <1>2 DEF UsageInv, UsageShapes
  <2> QED BY <1>3, <2>1, StaysMade
<1>6. \A r \in N : FromRun(r)'
  BY <1>4 DEF FromRun
<1>7. \A r \in UsageRows \cup N : Made(r)'
  BY <1>5, <1>6 DEF Made
<1>8. OneRowEach(UsageRows \cup N)
  BY <1>1, <1>6, <1>7, NewIds
<1>9. AllRecorded'
  <2>1. AllRecorded
    BY DEF UsageInv
  <2>2. UsageRows \subseteq UsageRows'
    OBVIOUS
  <2> QED BY <1>2, <1>3, <1>4, <2>1, <2>2 DEF AllRecorded
<1> QED BY <1>1, <1>7, <1>8, <1>9 DEF UsageInv

\* What is in a text stays in it when a line is written behind it.
LEMMA LineWritten ==
  ASSUME NEW S, NEW t \in Seq(S), NEW x \in S
  PROVE  /\ Append(t, x) \in Seq(S) /\ Len(Append(t, x)) = Len(t) + 1
         /\ \A i \in 1..Len(t) : Append(t, x)[i] = t[i]
         /\ \A n \in 0..Len(t) : SubSeq(Append(t, x), 1, n) = SubSeq(t, 1, n)
<1>1. PICK u \in Seq(S) : /\ u = Append(t, x) /\ Len(u) = Len(t) + 1 /\ Len(t) \in Nat
                          /\ \A i \in 1..Len(t) : u[i] = t[i]
  <2>1. /\ Append(t, x) \in Seq(S) /\ Len(Append(t, x)) = Len(t) + 1 /\ Len(t) \in Nat
        /\ \A i \in 1..Len(t) : Append(t, x)[i] = t[i]
    OBVIOUS
  <2> QED BY <2>1
<1>2. ASSUME NEW n \in 0..Len(t) PROVE SubSeq(u, 1, n) = SubSeq(t, 1, n)
  <2>1. /\ 1 \in 1..(Len(t) + 1) /\ n \in (1 - 1)..Len(t)
        /\ 1 \in 1..(Len(u) + 1) /\ n \in (1 - 1)..Len(u)
    BY <1>1
  <2>2. /\ SubSeq(t, 1, n) \in Seq(S) /\ Len(SubSeq(t, 1, n)) = IF 1 <= n THEN n - 1 + 1 ELSE 0
        /\ \A i \in 1..(n - 1 + 1) : SubSeq(t, 1, n)[i] = t[1 + i - 1]
    BY <2>1, SubSeqProperties
  <2>3. /\ SubSeq(u, 1, n) \in Seq(S) /\ Len(SubSeq(u, 1, n)) = IF 1 <= n THEN n - 1 + 1 ELSE 0
        /\ \A i \in 1..(n - 1 + 1) : SubSeq(u, 1, n)[i] = u[1 + i - 1]
    BY <2>1, SubSeqProperties
  <2>4. \A i \in 1..(n - 1 + 1) : u[1 + i - 1] = t[1 + i - 1]
    <3>1. \A i \in 1..(n - 1 + 1) : 1 + i - 1 \in 1..Len(t)
      BY <1>1
    <3> QED BY <1>1, <3>1
  <2>5. Len(SubSeq(t, 1, n)) = n /\ n - 1 + 1 = n
    BY <1>1, <2>2
  <2>6. \A i \in 1..Len(SubSeq(t, 1, n)) : SubSeq(u, 1, n)[i] = SubSeq(t, 1, n)[i]
    BY <2>2, <2>3, <2>4, <2>5
  <2>7. Len(SubSeq(u, 1, n)) = Len(SubSeq(t, 1, n))
    BY <2>2, <2>3
  <2> QED BY <2>2, <2>3, <2>6, <2>7, SeqEqual
<1> QED BY <1>1, <1>2

\* A line is written to a transcript.
LEMMA TranscriptStep ==
  ASSUME UsageInv, NEW s \in HookSessions,
         NEW l \in {"prompt", "result"} \cup Accounts!KnownModels, Accounts!Write(s, l)
  PROVE  UsageInv'
<1> DEFINE S == {"prompt", "result"} \cup Accounts!KnownModels
<1>1. /\ UNCHANGED <<usage_ends, usage_read, usage_past, usage_imported, usage_ledger, usage_spool>>
      /\ usage_transcript' = [usage_transcript EXCEPT ![s] = Append(@, l)]
  BY DEF Accounts!Write
<1>2. /\ usage_transcript \in [HookSessions -> Seq(S)] /\ usage_read \in [HookSessions -> Nat]
      /\ \A t \in HookSessions : usage_read[t] <= Len(usage_transcript[t])
  BY DEF UsageInv, UsageShapes
<1> HIDE DEF S
<1>3. l \in S
  BY DEF S
<1>4. \A t \in HookSessions :
        usage_transcript'[t] = IF t = s THEN Append(usage_transcript[t], l) ELSE usage_transcript[t]
  BY <1>1, <1>2
<1>5. ASSUME NEW t \in HookSessions
      PROVE  /\ usage_transcript'[t] \in Seq(S) /\ Len(usage_transcript[t]) \in Nat
             /\ Len(usage_transcript[t]) <= Len(usage_transcript'[t])
             /\ Len(usage_transcript'[t]) \in Nat
             /\ \A i \in 1..Len(usage_transcript[t]) : usage_transcript'[t][i] = usage_transcript[t][i]
             /\ \A n \in 0..Len(usage_transcript[t]) :
                  SubSeq(usage_transcript'[t], 1, n) = SubSeq(usage_transcript[t], 1, n)
  <2>1. PICK v \in Seq(S) : v = usage_transcript[t] /\ Len(v) \in Nat
    BY <1>2
  <2>2. /\ Append(v, l) \in Seq(S) /\ Len(Append(v, l)) = Len(v) + 1
        /\ \A i \in 1..Len(v) : Append(v, l)[i] = v[i]
        /\ \A n \in 0..Len(v) : SubSeq(Append(v, l), 1, n) = SubSeq(v, 1, n)
    BY <1>3, LineWritten
  <2>3. usage_transcript'[t] = v \/ usage_transcript'[t] = Append(v, l)
    BY <1>4, <2>1
  <2>4. CASE usage_transcript'[t] = v
    BY <2>1, <2>4
  <2>5. CASE usage_transcript'[t] = Append(v, l)
    BY <2>1, <2>2, <2>5
  <2> QED BY <2>3, <2>4, <2>5
<1>6. \A t \in HookSessions : Seen(t)' = Seen(t)
  <2>1. \A t \in HookSessions : usage_read[t] \in 0..Len(usage_transcript[t])
    BY <1>2, <1>5
  <2> QED BY <1>1, <1>5, <2>1 DEF Seen
<1>7. \A t \in HookSessions : FirstRow(t)' = FirstRow(t)
  BY <1>6 DEF FirstRow
<1>8. \A p \in usage_imported : /\ LineOf(p)' = LineOf(p) /\ EntryRow(p)' = EntryRow(p)
                                /\ p \in HookSessions \X Nat /\ p[2] \in 1..Len(usage_transcript'[p[1]])
  <2> TAKE p \in usage_imported
  <2>1. p \in HookSessions \X Nat /\ p[2] \in 1..Len(usage_transcript[p[1]])
    BY DEF UsageInv, UsageShapes
  <2>2. LineOf(p)' = LineOf(p)
    BY <1>5, <2>1 DEF LineOf
  <2>3. p[1] \in HookSessions
    BY <2>1
  <2>4. p[2] \in 1..Len(usage_transcript'[p[1]])
    <3>1. PICK a \in Nat, b \in Nat : a = Len(usage_transcript[p[1]]) /\ b = Len(usage_transcript'[p[1]])
                                      /\ a <= b
      BY <1>5, <2>3
    <3> QED BY <2>1, <3>1
  <2> QED BY <2>1, <2>2, <2>4 DEF EntryRow
<1>9. UsageShapes'
  <2>1. usage_transcript' \in [HookSessions -> Seq(S)]
    <3>1. usage_transcript' = [t \in HookSessions |-> usage_transcript'[t]]
      BY <1>1, <1>2
    <3> QED BY <1>5, <3>1
  <2>2. \A t \in HookSessions : usage_read'[t] <= Len(usage_transcript'[t])
    <3> TAKE t \in HookSessions
    <3>1. PICK r \in Nat, a \in Nat, b \in Nat :
            /\ r = usage_read[t] /\ a = Len(usage_transcript[t]) /\ b = Len(usage_transcript'[t])
            /\ r <= a /\ a <= b
      BY <1>2, <1>5
    <3> QED BY <1>1, <3>1
  <2>3. RunsEnded' = RunsEnded
    BY <1>1 DEF RunsEnded
  <2> QED BY <1>1, <1>2, <1>8, <2>1, <2>2, <2>3 DEF UsageInv, UsageShapes, S
<1>10. \A r \in UsageRows : Made(r)'
  <2>1. \A t \in HookSessions : /\ usage_ends'[t] \in Nat /\ usage_ends[t] <= usage_ends'[t]
                                /\ usage_ends[t] = 1 /\ usage_ends'[t] = 1 => Seen(t)' = Seen(t)
    BY <1>1, <1>6 DEF UsageInv, UsageShapes
  <2>2. \A k \in RunsEnded : usage_past'[k] = usage_past[k]
    BY <1>1
  <2> QED BY <1>1, <1>8, <2>1, <2>2, StaysMade
<1>11. UsageRows' = UsageRows
  BY <1>1 DEF UsageRows
<1>12. AllRecorded'
  <2>1. AllRecorded
    BY DEF UsageInv
  <2>2. RunsEnded' = RunsEnded /\ \A k : RunRow(k)' = RunRow(k)
    BY <1>1 DEF RunsEnded, RunRow
  <2> QED BY <1>1, <1>6, <1>7, <1>8, <1>11, <2>1, <2>2 DEF AllRecorded
<1> QED BY <1>9, <1>10, <1>11, <1>12 DEF UsageInv, OneRowEach

\* The hook at the end of a session: its rows have ids no other row has.
LEMMA EndStep ==
  ASSUME UsageInv, NEW s \in HookSessions, Accounts!End(s)
  PROVE  UsageInv'
<1> DEFINE N == Accounts!SessionRow(s) \cup Accounts!SubagentRows(s)
           S == {"prompt", "result"} \cup Accounts!KnownModels
<1>1. /\ UNCHANGED <<usage_transcript, usage_past, usage_imported, usage_ledger>>
      /\ usage_ends' = [usage_ends EXCEPT ![s] = @ + 1]
      /\ usage_read' = [usage_read EXCEPT ![s] = Len(usage_transcript[s])]
      /\ usage_spool' = usage_spool \cup N
  BY DEF Accounts!End
<1>2. /\ usage_transcript \in [HookSessions -> Seq(S)] /\ usage_ends \in [HookSessions -> Nat]
      /\ usage_read \in [HookSessions -> Nat]
      /\ \A t \in HookSessions : usage_read[t] <= Len(usage_transcript[t])
  BY DEF UsageInv, UsageShapes
<1>3. /\ \A t \in HookSessions \ {s} : usage_ends'[t] = usage_ends[t] /\ usage_read'[t] = usage_read[t]
      /\ usage_ends'[s] = usage_ends[s] + 1 /\ usage_read'[s] = Len(usage_transcript[s])
      /\ usage_ends[s] \in Nat /\ usage_transcript[s] \in Seq(S) /\ Len(usage_transcript[s]) \in Nat
  BY <1>1, <1>2
<1> HIDE DEF S
<1>4. Seen(s)' = usage_transcript[s]
  BY <1>1, <1>3, RestsAre DEF Seen
<1>5. \A t \in HookSessions \ {s} : Seen(t)' = Seen(t) /\ FirstRow(t)' = FirstRow(t)
  BY <1>1, <1>3 DEF Seen, FirstRow
<1>6. \A t \in HookSessions : /\ usage_ends'[t] \in Nat /\ usage_ends[t] <= usage_ends'[t]
                              /\ usage_ends[t] = 1 /\ usage_ends'[t] = 1 => Seen(t)' = Seen(t)
  <2> TAKE t \in HookSessions
  <2>1. CASE t = s
    BY <1>3, <2>1
  <2>2. CASE t # s
    BY <1>2, <1>3, <1>5, <2>2
  <2> QED BY <2>1, <2>2
<1>7. \A p : LineOf(p)' = LineOf(p) /\ EntryRow(p)' = EntryRow(p)
  BY <1>1 DEF LineOf, EntryRow
<1>8. RunsEnded' = RunsEnded /\ \A k : RunRow(k)' = RunRow(k)
  BY <1>1 DEF RunsEnded, RunRow
<1>9. UsageShapes'
  <2>1. usage_ends' \in [HookSessions -> Nat] /\ usage_read' \in [HookSessions -> Nat]
    BY <1>1, <1>2, <1>3
  <2>2. ASSUME NEW t \in HookSessions PROVE usage_read'[t] <= Len(usage_transcript[t])
    <3>1. CASE t = s
      <4>1. PICK n \in Nat : n = Len(usage_transcript[s]) /\ n <= n
        BY <1>3
      <4> QED BY <1>3, <3>1, <4>1
    <3>2. CASE t # s
      BY <1>2, <1>3, <3>2
    <3> QED BY <3>1, <3>2
  <2> QED BY <1>1, <1>8, <2>1, <2>2 DEF UsageInv, UsageShapes
<1>10. \A r \in UsageRows : Made(r)'
  BY <1>1, <1>6, <1>7, StaysMade
\* The rows of this end.
<1>11. usage_ends'[s] = 1 /\ Accounts!Turns(Seen(s)') # {} =>
         Accounts!SessionRow(s) = {FirstRow(s)'}
  <2> SUFFICES ASSUME usage_ends'[s] = 1, Accounts!Turns(Seen(s)') # {}
               PROVE  Accounts!SessionRow(s) = {FirstRow(s)'}
    OBVIOUS
  <2>1. usage_ends[s] = 0
    BY <1>3
  <2>2. FirstRow(s)' = Accounts!Row(<<"hook", s, 0, None>>, "model_usage", "claude_code", s,
               Cardinality(Accounts!Turns(usage_transcript[s])),
               usage_transcript[s][Accounts!Max(Accounts!Turns(usage_transcript[s]))])
    BY <1>4 DEF FirstRow
  <2>3. Accounts!Cardinality(Accounts!Turns(usage_transcript[s]))
          = Cardinality(Accounts!Turns(usage_transcript[s]))
    BY Zenon DEF Cardinality, Accounts!Cardinality
  <2> QED BY <1>4, <2>1, <2>2, <2>3 DEF Accounts!SessionRow
<1>12. ASSUME NEW r \in Accounts!SessionRow(s)
       PROVE  /\ r.id = <<"hook", s, usage_ends[s], None>> /\ r.of = s /\ r.type = "model_usage"
              /\ Accounts!SessionRow(s) = {r} /\ Accounts!Turns(usage_transcript[s]) # {}
  BY RowsAre DEF Accounts!SessionRow
<1>13. ASSUME NEW r \in Accounts!SubagentRows(s)
       PROVE  \E a \in Subagents :
                /\ r.id = <<"hook", s, usage_ends[s], a>> /\ r.of = s
                /\ r.type = "claude_code_subagent_usage"
                /\ r = Accounts!Row(<<"hook", s, usage_ends[s], a>>, "claude_code_subagent_usage",
                                    "claude_code", s, usage_work[s][a],
                                    CHOOSE m \in Accounts!KnownModels : TRUE)
  <2>1. PICK a \in Subagents :
          r = Accounts!Row(<<"hook", s, usage_ends[s], a>>, "claude_code_subagent_usage",
                           "claude_code", s, usage_work[s][a],
                           CHOOSE m \in Accounts!KnownModels : TRUE)
    BY DEF Accounts!SubagentRows
  <2>2. /\ r.id = <<"hook", s, usage_ends[s], a>> /\ r.of = s
        /\ r.type = "claude_code_subagent_usage"
    BY <2>1, RowsAre
  <2> QED BY <2>1, <2>2
<1>14. ASSUME NEW r \in N
       PROVE  \E x \in Subagents \cup {None} :
                /\ r.id = <<"hook", s, usage_ends[s], x>> /\ r.of = s
                /\ r.type = IF x = None THEN "model_usage" ELSE "claude_code_subagent_usage"
                /\ IF x = None THEN r \in Accounts!SessionRow(s)
                   ELSE r \in Accounts!SubagentRows(s)
  <2>1. CASE r \in Accounts!SessionRow(s)
    <3>1. None \in Subagents \cup {None}
      OBVIOUS
    <3>2. /\ r.id = <<"hook", s, usage_ends[s], None>> /\ r.of = s /\ r.type = "model_usage"
      BY <1>12, <2>1
    <3> QED BY <2>1, <3>1, <3>2
  <2>2. CASE r \in Accounts!SubagentRows(s)
    <3>1. PICK a \in Subagents : /\ r.id = <<"hook", s, usage_ends[s], a>> /\ r.of = s
                                 /\ r.type = "claude_code_subagent_usage"
      BY <1>13, <2>2
    <3>2. a # None
      BY UsageConstants
    <3> QED BY <2>2, <3>1, <3>2
  <2> QED BY <2>1, <2>2
<1>15. ASSUME NEW r \in N PROVE FromHook(r)'
  <2>1. PICK x \in Subagents \cup {None} :
          /\ r.id = <<"hook", s, usage_ends[s], x>> /\ r.of = s
          /\ r.type = IF x = None THEN "model_usage" ELSE "claude_code_subagent_usage"
          /\ IF x = None THEN r \in Accounts!SessionRow(s)
             ELSE r \in Accounts!SubagentRows(s)
    BY <1>14
  <2>2. usage_ends[s] \in 0..(usage_ends'[s] - 1)
    BY <1>3
  <2>3. x = None /\ usage_ends'[s] = 1 => Accounts!Turns(Seen(s)') # {} /\ r = FirstRow(s)'
    BY <1>4, <1>11, <1>12, <2>1
  <2> QED BY <2>1, <2>2, <2>3 DEF FromHook
<1>16. UsageRows' = UsageRows \cup N
  BY <1>1 DEF UsageRows
<1>17. OneRowEach(UsageRows \cup N)
  <2>1. ASSUME NEW q \in N, NEW r \in UsageRows PROVE q.id # r.id
    <3>1. PICK x : q.id = <<"hook", s, usage_ends[s], x>>
      BY <1>14
    <3>2. CASE FromHook(r)
      <4>1. PICK t, e, y : e \in 0..(usage_ends[t] - 1) /\ r.id = <<"hook", t, e, y>>
        BY <3>2 DEF FromHook
      <4>2. ASSUME q.id = r.id PROVE FALSE
        <5>1. <<"hook", s, usage_ends[s], x>> = <<"hook", t, e, y>>
          BY <3>1, <4>1, <4>2
        <5>2. s = t /\ usage_ends[s] = e
          BY <5>1
        <5> QED BY <1>3, <4>1, <5>2
      <4> QED BY <4>2
    <3>3. CASE ~FromHook(r)
      <4>1. r.id[1] # "hook"
        BY <3>3, HeadsAre DEF UsageInv, Made
      <4>2. q.id[1] = "hook"
        BY <3>1
      <4> QED BY <4>1, <4>2
    <3> QED BY <3>2, <3>3
  <2>2. ASSUME NEW q \in N, NEW r \in N, q.id = r.id PROVE q = r
    <3>1. PICK x : /\ q.id = <<"hook", s, usage_ends[s], x>>
                   /\ IF x = None THEN q \in Accounts!SessionRow(s)
                      ELSE q \in Accounts!SubagentRows(s)
      BY <1>14
    <3>2. PICK y : /\ r.id = <<"hook", s, usage_ends[s], y>>
                   /\ IF y = None THEN r \in Accounts!SessionRow(s)
                      ELSE r \in Accounts!SubagentRows(s)
      BY <1>14
    <3>3. x = y
      <4>1. <<"hook", s, usage_ends[s], x>> = <<"hook", s, usage_ends[s], y>>
        BY <2>2, <3>1, <3>2
      <4> QED BY <4>1
    <3>4. CASE x = None
      BY <1>12, <3>1, <3>2, <3>3, <3>4
    <3>5. CASE x # None
      <4>1. PICK a : /\ q.id = <<"hook", s, usage_ends[s], a>>
                     /\ q = Accounts!Row(<<"hook", s, usage_ends[s], a>>, "claude_code_subagent_usage",
                                    "claude_code", s, usage_work[s][a],
                                    CHOOSE m \in Accounts!KnownModels : TRUE)
        BY <1>13, <3>1, <3>5
      <4>2. PICK b : /\ r.id = <<"hook", s, usage_ends[s], b>>
                     /\ r = Accounts!Row(<<"hook", s, usage_ends[s], b>>, "claude_code_subagent_usage",
                                    "claude_code", s, usage_work[s][b],
                                    CHOOSE m \in Accounts!KnownModels : TRUE)
        BY <1>13, <3>2, <3>3, <3>5
      <4>3. <<"hook", s, usage_ends[s], a>> = <<"hook", s, usage_ends[s], b>>
        BY <2>2, <4>1, <4>2
      <4>4. a = b
        BY <4>3
      <4> QED BY <4>1, <4>2, <4>4
    <3> QED BY <3>4, <3>5
  <2>3. OneRowEach(UsageRows)
    BY DEF UsageInv
  <2> HIDE DEF N
  <2> QED BY <2>1, <2>2, <2>3 DEF OneRowEach
<1>18. AllRecorded'
  <2>1. AllRecorded
    BY DEF UsageInv
  <2>2. ASSUME NEW t \in HookSessions, usage_ends'[t] = 1, Accounts!Turns(Seen(t)') # {}
        PROVE  FirstRow(t)' \in UsageRows'
    <3>1. CASE t = s
      BY <1>11, <1>16, <2>2, <3>1
    <3>2. CASE t # s
      BY <1>3, <1>5, <1>16, <2>1, <2>2, <3>2 DEF AllRecorded
    <3> QED BY <3>1, <3>2
  <2>3. \A k \in RunsEnded' : RunRow(k)' \in UsageRows'
    BY <1>8, <1>16, <2>1 DEF AllRecorded
  <2>4. \A p \in usage_imported' : LineOf(p)' = "prompt" => EntryRow(p)' \in UsageRows'
    BY <1>1, <1>7, <1>16, <2>1 DEF AllRecorded
  <2> QED BY <2>2, <2>3, <2>4 DEF AllRecorded
<1>19. \A r \in UsageRows \cup N : Made(r)'
  BY <1>10, <1>15 DEF Made
<1> QED BY <1>9, <1>16, <1>17, <1>18, <1>19 DEF UsageInv

\* A workbench run ends, with what it used.
LEMMA RunEndsStep ==
  ASSUME UsageInv, NEW k \in Reported, NEW u \in Accounts!Used, Accounts!RunEnds(k, u)
  PROVE  UsageInv'
<1> DEFINE n == Accounts!Row(<<"run", k>>, "run_usage_summary", "workbench", k, u.tokens, u.model)
<1>1. /\ UNCHANGED <<usage_transcript, usage_ends, usage_read, usage_imported>>
      /\ usage_past[k] = None /\ usage_past' = [usage_past EXCEPT ![k] = u]
      /\ Accounts!Record({n})
  BY DEF Accounts!RunEnds, Accounts!sessions
<1>2. usage_past \in [Reported -> Accounts!Used \cup {None}] /\ u # None
  BY UsageConstants DEF UsageInv, UsageShapes
<1>3. /\ usage_past'[k] = u /\ k \notin RunsEnded
      /\ \A j \in Reported \ {k} : usage_past'[j] = usage_past[j]
  BY <1>1, <1>2 DEF RunsEnded
<1>4. RunsEnded' = RunsEnded \cup {k}
  BY <1>2, <1>3 DEF RunsEnded
<1>5. n = RunRow(k)'
  BY <1>3 DEF RunRow
<1>6. \A j \in RunsEnded : usage_past'[j] = usage_past[j] /\ RunRow(j)' = RunRow(j)
  BY <1>3 DEF RunsEnded, RunRow
<1> HIDE DEF n
<1>7. \A s \in HookSessions : Seen(s)' = Seen(s) /\ FirstRow(s)' = FirstRow(s)
  BY <1>1 DEF Seen, FirstRow
<1>8. \A p : LineOf(p)' = LineOf(p) /\ EntryRow(p)' = EntryRow(p)
  BY <1>1 DEF LineOf, EntryRow
<1>9. UsageShapes'
  <2>1. IsFiniteSet(RunsEnded')
    BY <1>4, FS_AddElement DEF UsageInv, UsageShapes
  <2>2. usage_past' \in [Reported -> Accounts!Used \cup {None}]
    BY <1>1, <1>2
  <2> QED BY <1>1, <2>1, <2>2 DEF UsageInv, UsageShapes
<1>10. \A r \in UsageRows : Made(r)'
  <2>1. \A s \in HookSessions : /\ usage_ends'[s] \in Nat /\ usage_ends[s] <= usage_ends'[s]
                                /\ usage_ends[s] = 1 /\ usage_ends'[s] = 1 => Seen(s)' = Seen(s)
    BY <1>1, <1>7 DEF UsageInv, UsageShapes
  <2> QED BY <1>1, <1>6, <1>8, <2>1, StaysMade
<1>11. FromRun(n)'
  <2>1. k \in RunsEnded' /\ n \in {RunRow(k)', OutcomeRow(k)', ModelRow(k)'}
    BY <1>4, <1>5
  <2>2. \E j \in RunsEnded' : n \in {RunRow(j)', OutcomeRow(j)', ModelRow(j)'}
    BY <2>1
  <2>3. n' = n
    BY DEF n
  <2> QED BY <2>2, <2>3 DEF FromRun
<1>12. \A r \in UsageRows \cup {n} : Made(r)'
  BY <1>10, <1>11 DEF Made
<1>13. OneRowEach(UsageRows \cup {n})
  BY <1>9, <1>11, <1>12, NewIds
<1>14. UsageRows' = UsageRows \cup {n}
  BY <1>1, <1>13, RecordedRows
<1>15. AllRecorded'
  <2>1. AllRecorded
    BY DEF UsageInv
  <2>2. \A s \in HookSessions :
          usage_ends'[s] = 1 /\ Accounts!Turns(Seen(s)') # {} => FirstRow(s)' \in UsageRows'
    BY <1>1, <1>7, <1>14, <2>1 DEF AllRecorded
  <2>3. \A j \in RunsEnded' : RunRow(j)' \in UsageRows'
    BY <1>4, <1>5, <1>6, <1>14, <2>1 DEF AllRecorded
  <2>4. \A p \in usage_imported' : LineOf(p)' = "prompt" => EntryRow(p)' \in UsageRows'
    BY <1>1, <1>8, <1>14, <2>1 DEF AllRecorded
  <2> QED BY <2>2, <2>3, <2>4 DEF AllRecorded
<1> QED BY <1>9, <1>12, <1>13, <1>14, <1>15 DEF UsageInv

\* The runs of the history file are imported.
LEMMA ImportRunsStep == ASSUME UsageInv, Accounts!ImportRuns PROVE UsageInv'
<1> DEFINE N == {Accounts!Row(<<"outcome", r>>, "run_completed", "workbench", r, 0, None) : r \in RunsEnded}
                \cup {Accounts!Row(<<"model_usage", r>>, "model_usage", "workbench", r,
                          usage_past[r].tokens, usage_past[r].model) :
                        r \in {q \in RunsEnded : usage_past[q].tokens > 0}}
<1>1. /\ UNCHANGED <<usage_transcript, usage_ends, usage_read, usage_past, usage_imported>>
      /\ Accounts!Record(N)
  BY DEF Accounts!ImportRuns, Accounts!sessions, RunsEnded
<1>2. \A r \in N : FromRun(r)
  BY DEF FromRun, OutcomeRow, ModelRow
<1> HIDE DEF N
<1>3. \A r \in UsageRows \cup N : Made(r)
  BY <1>2 DEF UsageInv, Made
<1>4. OneRowEach(UsageRows \cup N)
  <2>1. ASSUME NEW q \in UsageRows \cup N, NEW r \in UsageRows \cup N, q.id = r.id PROVE q = r
    <3>1. CASE q \in N
      BY <1>2, <1>3, <2>1, <3>1, RunIds
    <3>2. CASE r \in N
      BY <1>2, <1>3, <2>1, <3>2, RunIds
    <3>3. CASE q \in UsageRows /\ r \in UsageRows
      BY <2>1, <3>3 DEF UsageInv, OneRowEach
    <3> QED BY <3>1, <3>2, <3>3
  <2> QED BY <2>1 DEF OneRowEach
<1>5. UsageRows' = UsageRows \cup N
  BY <1>1, <1>4, RecordedRows
<1> QED BY <1>1, <1>2, <1>5, OnlyRows

\* A part of a transcript is imported.
LEMMA ImportTranscriptStep ==
  ASSUME UsageInv, NEW s \in HookSessions, NEW from \in 1..MaxTurns, NEW to \in 1..MaxTurns,
         Accounts!ImportTranscript(s, from, to)
  PROVE  UsageInv'
<1> DEFINE N == UNION {Accounts!Imported(s, i) : i \in from..to}
           M == {<<s, i>> : i \in from..to}
<1>1. /\ UNCHANGED <<usage_transcript, usage_ends, usage_read, usage_past>>
      /\ usage_imported' = usage_imported \cup M /\ Accounts!Record(N)
      /\ from <= to /\ to <= Len(usage_transcript[s])
  BY DEF Accounts!ImportTranscript, Accounts!sessions
<1>2. \A t \in HookSessions : Seen(t)' = Seen(t) /\ FirstRow(t)' = FirstRow(t)
  BY <1>1 DEF Seen, FirstRow
<1>3. \A p : LineOf(p)' = LineOf(p) /\ EntryRow(p)' = EntryRow(p)
  BY <1>1 DEF LineOf, EntryRow
<1>4. RunsEnded' = RunsEnded /\ \A k : RunRow(k)' = RunRow(k)
  BY <1>1 DEF RunsEnded, RunRow
<1>5. \A i \in from..to : i \in Nat /\ i \in 1..Len(usage_transcript[s])
  <2>1. Len(usage_transcript[s]) \in Nat
    BY DEF UsageInv, UsageShapes
  <2>2. PICK l \in Nat, a \in 1..MaxTurns, b \in 1..MaxTurns :
          l = Len(usage_transcript[s]) /\ a = from /\ b = to
    BY <2>1
  <2>3. a \in Int /\ a >= 1 /\ b \in Int /\ b <= l
    BY <1>1, <2>2
  <2>4. \A i \in a..b : i \in Nat /\ i \in 1..l
    BY <2>3
  <2> QED BY <2>2, <2>4
<1>6. IsFiniteSet(M)
  <2> DEFINE g == [i \in from..to |-> <<s, i>>]
             P == from..to
  <2>1. IsFiniteSet(P)
    BY FS_Interval
  <2>2. \A r \in M : \E p \in P : r = g[p]
    OBVIOUS
  <2>3. \A p, q \in P : g[p] = g[q] => p = q
    OBVIOUS
  <2> HIDE DEF P, M, g
  <2>4. StandFor(g, P, M)
    BY <2>2, <2>3 DEF StandFor
  <2> QED BY <2>1, <2>4, AsManyAs
<1>7. UsageShapes'
  <2>1. IsFiniteSet(usage_imported')
    BY <1>1, <1>6, FS_Union DEF UsageInv, UsageShapes
  <2>2. ASSUME NEW p \in usage_imported'
        PROVE  p \in HookSessions \X Nat /\ p[2] \in 1..Len(usage_transcript[p[1]])
    <3>1. CASE p \in usage_imported
      BY <3>1 DEF UsageInv, UsageShapes
    <3>2. CASE p \in M
      <4>1. PICK i \in from..to : p = <<s, i>>
        BY <3>2
      <4>2. p[1] = s /\ p[2] = i
        BY <4>1
      <4> QED BY <1>5, <4>1, <4>2
    <3> QED BY <1>1, <3>1, <3>2
  <2> QED BY <1>1, <1>4, <2>1, <2>2 DEF UsageInv, UsageShapes
<1>8. \A r \in UsageRows : Made(r)'
  <2>1. \A t \in HookSessions : /\ usage_ends'[t] \in Nat /\ usage_ends[t] <= usage_ends'[t]
                                /\ usage_ends[t] = 1 /\ usage_ends'[t] = 1 => Seen(t)' = Seen(t)
    BY <1>1, <1>2 DEF UsageInv, UsageShapes
  <2> QED BY <1>1, <1>3, <2>1, StaysMade
<1>9. ASSUME NEW i \in from..to
      PROVE  Accounts!Imported(s, i) = IF LineOf(<<s, i>>) = "result" THEN {} ELSE {EntryRow(<<s, i>>)}
  <2>1. <<s, i>>[1] = s /\ <<s, i>>[2] = i
    OBVIOUS
  <2> QED BY <2>1 DEF Accounts!Imported, Accounts!EntryId, EntryRow, LineOf
<1>10. ASSUME NEW r \in N PROVE FromEntry(r)'
  <2>1. PICK i \in from..to : r \in Accounts!Imported(s, i)
    OBVIOUS
  <2>2. LineOf(<<s, i>>) # "result" /\ r = EntryRow(<<s, i>>)
    BY <1>9, <2>1
  <2>3. <<s, i>> \in usage_imported'
    BY <1>1
  <2>4. \E p \in usage_imported' : LineOf(p)' # "result" /\ r = EntryRow(p)'
    BY <1>3, <2>2, <2>3
  <2> QED BY <2>4 DEF FromEntry
<1>11. \A i \in from..to : LineOf(<<s, i>>) = "prompt" => EntryRow(<<s, i>>) \in N
  <2> TAKE i \in from..to
  <2>1. Accounts!Imported(s, i) \subseteq N
    OBVIOUS
  <2> HIDE DEF N
  <2> QED BY <1>9, <2>1
<1> HIDE DEF N
<1>12. \A r \in UsageRows \cup N : Made(r)'
  BY <1>8, <1>10 DEF Made
<1>13. OneRowEach(UsageRows \cup N)
  BY <1>7, <1>10, <1>12, NewIds
<1>14. UsageRows' = UsageRows \cup N
  BY <1>1, <1>13, RecordedRows
<1>15. AllRecorded'
  <2>1. AllRecorded
    BY DEF UsageInv
  <2>2. \A t \in HookSessions :
          usage_ends'[t] = 1 /\ Accounts!Turns(Seen(t)') # {} => FirstRow(t)' \in UsageRows'
    BY <1>1, <1>2, <1>14, <2>1 DEF AllRecorded
  <2>3. \A k \in RunsEnded' : RunRow(k)' \in UsageRows'
    BY <1>4, <1>14, <2>1 DEF AllRecorded
  <2>4. ASSUME NEW p \in usage_imported', LineOf(p)' = "prompt" PROVE EntryRow(p)' \in UsageRows'
    <3>1. LineOf(p) = "prompt" /\ EntryRow(p)' = EntryRow(p)
      BY <1>3, <2>4
    <3>2. CASE p \in usage_imported
      BY <1>14, <2>1, <3>1, <3>2 DEF AllRecorded
    <3>3. CASE p \in M
      BY <1>11, <1>14, <3>1, <3>3
    <3> QED BY <1>1, <3>2, <3>3
  <2> QED BY <2>2, <2>3, <2>4 DEF AllRecorded
<1> QED BY <1>7, <1>12, <1>13, <1>14, <1>15 DEF UsageInv

\* Every row has an id of its own, is told by what it was made from, and nothing that is
\* counted is without one.
THEOREM UsageIsInOrder == Spec => []UsageInv
<1>1. Init => UsageInv
  <2> SUFFICES ASSUME Init PROVE UsageInv
    OBVIOUS
  <2>1. Accounts!Init
    BY DEF Init
  <2>2. UsageRows = {} /\ usage_imported = {} /\ RunsEnded = {}
    BY <2>1 DEF Accounts!Init, UsageRows, RunsEnded
  <2>3. UsageShapes
    <3>1. \A S : <<>> \in Seq(S) /\ Len(<<>>) = 0
      OBVIOUS
    <3>2. IsFiniteSet({})
      BY FS_EmptySet
    <3> QED BY <2>1, <2>2, <3>1, <3>2 DEF Accounts!Init, UsageShapes
  <2>4. \A s \in HookSessions : usage_ends[s] # 1
    BY <2>1 DEF Accounts!Init
  <2> QED BY <2>2, <2>3, <2>4 DEF UsageInv, OneRowEach, AllRecorded
<1>2. UsageInv /\ [Next]_vars => UsageInv'
  <2> SUFFICES ASSUME UsageInv, [Next]_vars PROVE UsageInv'
    OBVIOUS
  <2>1. [Accounts!Next]_usage
    BY DEF Next, vars, usage
  <2>2. ASSUME UNCHANGED <<usage_transcript, usage_ends, usage_read, usage_past, usage_imported>>,
               UsageRows' = UsageRows
        PROVE  UsageInv'
    <3>1. UsageRows' = UsageRows \cup {}
      BY <2>2
    <3>2. PICK N : N = {}
      OBVIOUS
    <3>3. UsageRows' = UsageRows \cup N /\ \A r \in N : FromRun(r)
      BY <3>1, <3>2
    <3> QED BY <2>2, <3>3, OnlyRows
  <2>3. ASSUME NEW s \in HookSessions, Accounts!Start(s) \/ Accounts!Break(s) PROVE UsageInv'
    BY <2>2, <2>3 DEF Accounts!Start, Accounts!Break, UsageRows
  <2>4. ASSUME NEW s \in HookSessions, NEW a \in Subagents, Accounts!Delegate(s, a) PROVE UsageInv'
    BY <2>2, <2>4 DEF Accounts!Delegate, UsageRows
  <2>5. CASE Accounts!Sync
    <3>1. UsageRows' = UsageRows
      BY <2>5, SyncedRows DEF UsageInv
    <3> QED BY <2>2, <2>5, <3>1 DEF Accounts!Sync, Accounts!sessions
  <2>6. CASE UNCHANGED usage
    BY <2>2, <2>6 DEF usage, UsageRows
  <2>7. ASSUME NEW m \in Accounts!KnownModels PROVE [tokens |-> 1, model |-> m] \in Accounts!Used
    BY DEF Accounts!Used
  <2>8. [tokens |-> 0, model |-> None] \in Accounts!Used
    BY DEF Accounts!Used
  <2> QED BY <2>1, <2>3, <2>4, <2>5, <2>6, <2>7, <2>8, EndStep, TranscriptStep, RunEndsStep,
             ImportRunsStep, ImportTranscriptStep DEF Accounts!Next
<1> QED BY <1>1, <1>2, PTL DEF Spec

\* A session that ended once, an imported prompt and a run are counted once, however often
\* the spool is sent and an import repeated.
THEOREM UsageCountedOnce == Spec => []CountedOnce
BY UsageIsInOrder, CountsHold, PTL DEF CountedOnce

-----------------------------------------------------------------------------
(* The outbox and its consumers *)

InFlight(w) == outbox_job[w] # Outboxes!Idle
OnTopic(e) == e \in ToSet(outbox_topic)

\* A row of a later stage is one of the stage before it.
OutboxShape ==
  /\ Outboxes!TypeOK
  /\ DOMAIN outbox_job = Outboxes!Workers /\ DOMAIN outbox_owner = Outboxes!Groups
  /\ \A k, m \in DOMAIN outbox_created : outbox_created[k] = outbox_created[m] => k = m
  /\ \A k, m \in DOMAIN outbox_committed : outbox_committed[k] = outbox_committed[m] => k = m
  /\ \A e \in ToSet(outbox_committed) : e \in ToSet(outbox_created)
  /\ \A r \in Relays : \A k \in DOMAIN outbox_batch[r] :
       outbox_batch[r][k] \in ToSet(outbox_committed)
  /\ \A e \in ToSet(outbox_topic) : e \in ToSet(outbox_committed)

\* What a relay has still to send is in order too: an older row is in front of it or on
\* the topic.
RelayOrder ==
  /\ Outboxes!PublishedIsOnTopic /\ Outboxes!InOrderUnlessFailed
  /\ \A r \in Relays : outbox_acked[r] => OnTopic(outbox_batch[r][1])
  /\ \A r \in Relays, e \in Events : \A k \in DOMAIN outbox_batch[r] :
       /\ Outboxes!Before(outbox_created, e, outbox_batch[r][k])
       /\ Outboxes!Before(outbox_committed, e, outbox_batch[r][k]) /\ e \notin outbox_failed
       => OnTopic(e) \/ \E m \in 1..(k - 1) : outbox_batch[r][m] = e

\* The owner of the partition is in the record it has to handle next, and what a group
\* has processed had its effect.
ConsumerOrder ==
  /\ Outboxes!NothingSkipped
  /\ \A g \in Outboxes!Groups : outbox_offset[g] <= outbox_position[g]
  /\ \A g \in Outboxes!Groups : InFlight(outbox_owner[g]) =>
       /\ outbox_position[g] < Len(outbox_topic)
       /\ outbox_topic[outbox_position[g] + 1] = outbox_job[outbox_owner[g]].event
  /\ \A g \in Outboxes!Groups, e \in Events :
       <<g, e>> \in outbox_processed => outbox_effects[g][e] > 0
  /\ \A w \in NotificationListeners :
       Outboxes!Working(w) => outbox_effects["notification"][outbox_job[w].event] > 0

\* A listener that lost the partition works on an event that was handed over; any other
\* event has one row at most, and none while its listener is in it.
BilledOnceSoFar ==
  LET b == "billing-sync"
  IN  /\ \A w \in BillingSyncListeners :
           InFlight(w) /\ outbox_owner[b] # w => <<b, outbox_job[w].event>> \in outbox_overlapped
      /\ \A e \in Events : <<b, e>> \notin outbox_overlapped =>
           /\ outbox_effects[b][e] <= 1
           /\ <<b, e>> \notin outbox_processed => outbox_effects[b][e] = 0
           /\ \A w \in BillingSyncListeners : InFlight(w) /\ outbox_job[w].event = e =>
                <<b, e>> \notin outbox_processed /\ outbox_job[w].at # "update"

OutboxInv == OutboxShape /\ RelayOrder /\ ConsumerOrder /\ BilledOnceSoFar

-----------------------------------------------------------------------------

\* A sequence with one more element.
LEMMA OneMore ==
  ASSUME NEW S, NEW s \in Seq(S), NEW x \in S
  PROVE  /\ Append(s, x) \in Seq(S) /\ Len(Append(s, x)) = Len(s) + 1 /\ Len(s) \in Nat
         /\ DOMAIN s = 1..Len(s) /\ DOMAIN Append(s, x) = 1..(Len(s) + 1)
         /\ \A k \in 1..Len(s) : Append(s, x)[k] = s[k]
         /\ Append(s, x)[Len(s) + 1] = x
         /\ ToSet(Append(s, x)) = ToSet(s) \cup {x}
<1>1. /\ Append(s, x) \in Seq(S) /\ Len(Append(s, x)) = Len(s) + 1 /\ Len(s) \in Nat
      /\ DOMAIN s = 1..Len(s) /\ DOMAIN Append(s, x) = 1..(Len(s) + 1)
      /\ \A k \in 1..Len(s) : Append(s, x)[k] = s[k]
      /\ Append(s, x)[Len(s) + 1] = x
  OBVIOUS
<1> DEFINE t == Append(s, x)
<1> HIDE DEF t
<1>2. 1..(Len(s) + 1) = (1..Len(s)) \cup {Len(s) + 1}
  BY <1>1
<1>3. ToSet(t) = ToSet(s) \cup {x}
  BY <1>1, <1>2 DEF ToSet, t
<1> QED BY <1>1, <1>3 DEF t

\* ... and with one less.
LEMMA OneLess ==
  ASSUME NEW S, NEW s \in Seq(S), s # <<>>
  PROVE  /\ Tail(s) \in Seq(S) /\ DOMAIN Tail(s) = 1..(Len(s) - 1) /\ Len(s) \in Nat \ {0}
         /\ DOMAIN s = 1..Len(s) /\ Head(s) = s[1] /\ 1 \in DOMAIN s
         /\ \A k \in 1..(Len(s) - 1) : Tail(s)[k] = s[k + 1]
OBVIOUS

\* What is in a sequence stands somewhere in it.
LEMMA InSet ==
  ASSUME NEW s
  PROVE  Outboxes!ToSet(s) = ToSet(s) /\ \A e : e \in ToSet(s) <=> \E k \in DOMAIN s : s[k] = e
BY DEF ToSet, Outboxes!ToSet

\* A listener belongs to one group.
LEMMA ListenersApart ==
  ASSUME NEW g \in Outboxes!Groups, NEW h \in Outboxes!Groups,
         NEW w \in Outboxes!Listeners(g), w \in Outboxes!Listeners(h)
  PROVE  g = h /\ w \in Outboxes!Workers
BY PlatformAssumption DEF Outboxes!OutboxAssumption, Outboxes!Groups, Outboxes!Listeners,
   Outboxes!Workers

\* What comes to the end of a table is behind the rows that were there.
LEMMA BeforeStays ==
  ASSUME NEW S, NEW s \in Seq(S), NEW x \in S, x \notin ToSet(s), NEW e, NEW f \in ToSet(s),
         Outboxes!Before(Append(s, x), e, f)
  PROVE  Outboxes!Before(s, e, f)
<1>1. PICK i, j \in DOMAIN Append(s, x) : i < j /\ Append(s, x)[i] = e /\ Append(s, x)[j] = f
  BY DEF Outboxes!Before
<1>2. j # Len(s) + 1
  BY <1>1, OneMore
<1>3. i \in 1..Len(s) /\ j \in 1..Len(s)
  BY <1>1, <1>2, OneMore
<1> QED BY <1>1, <1>3, OneMore DEF Outboxes!Before

\* What stands in front of something is in the sequence.
LEMMA BeforeIn ==
  ASSUME NEW s, NEW e, NEW f, Outboxes!Before(s, e, f)
  PROVE  e \in ToSet(s)
BY DEF Outboxes!Before, ToSet

\* A step that neither writes nor relays.
LEMMA RelayFrame ==
  ASSUME RelayOrder,
         UNCHANGED <<outbox_created, outbox_committed, outbox_published, outbox_batch,
                     outbox_acked, outbox_failed, outbox_topic>>
  PROVE  RelayOrder'
BY DEF RelayOrder, OnTopic, Outboxes!PublishedIsOnTopic, Outboxes!InOrderUnlessFailed,
   Outboxes!Before, Outboxes!ToSet, ToSet

\* A step no consumer takes; the partition may have grown.
LEMMA ConsumerFrame ==
  ASSUME OutboxShape, ConsumerOrder, outbox_topic' \in Seq(Events),
         Len(outbox_topic) <= Len(outbox_topic'),
         \A k \in 1..Len(outbox_topic) : outbox_topic'[k] = outbox_topic[k],
         UNCHANGED <<outbox_offset, outbox_owner, outbox_position, outbox_job,
                     outbox_processed, outbox_effects, outbox_dead>>
  PROVE  ConsumerOrder'
<1>1. /\ Len(outbox_topic) \in Nat /\ Len(outbox_topic') \in Nat
      /\ \A g \in Outboxes!Groups : outbox_position[g] \in 0..Len(outbox_topic)
  BY DEF OutboxShape, Outboxes!TypeOK
<1>2. Outboxes!NothingSkipped'
  <2>1. ASSUME NEW g \in Outboxes!Groups, NEW i \in 1..outbox_position[g]
        PROVE  Outboxes!Handled(g, outbox_topic[i]) /\ outbox_topic'[i] = outbox_topic[i]
    BY <1>1 DEF ConsumerOrder, Outboxes!NothingSkipped
  <2> QED BY <2>1 DEF Outboxes!NothingSkipped, Outboxes!Handled
<1>3. ASSUME NEW g \in Outboxes!Groups, InFlight(outbox_owner[g])
      PROVE  /\ outbox_position[g] < Len(outbox_topic')
             /\ outbox_topic'[outbox_position[g] + 1] = outbox_job[outbox_owner[g]].event
  BY <1>1, <1>3 DEF ConsumerOrder
<1> QED BY <1>2, <1>3 DEF ConsumerOrder, InFlight, Outboxes!Working

\* A step that no listener takes part in.
LEMMA BilledFrame ==
  ASSUME BilledOnceSoFar,
         UNCHANGED <<outbox_owner, outbox_job, outbox_overlapped, outbox_processed,
                     outbox_effects>>
  PROVE  BilledOnceSoFar'
BY DEF BilledOnceSoFar, InFlight

\* A row is written.
LEMMA WriteStep ==
  ASSUME OutboxInv, NEW e \in Events, Outboxes!Write(e)
  PROVE  OutboxInv'
<1> DEFINE s == outbox_created
<1>1. /\ e \notin ToSet(s) /\ outbox_created' = Append(s, e)
      /\ UNCHANGED <<outbox_committed, outbox_published, outbox_batch, outbox_acked,
           outbox_failed, outbox_topic, outbox_offset, outbox_owner, outbox_position,
           outbox_tries, outbox_job, outbox_overlapped, outbox_processed, outbox_effects,
           outbox_dead, outbox_faults>>
  BY InSet DEF Outboxes!Write, Outboxes!relay, Outboxes!cursor, Outboxes!results
<1>2. s \in Seq(Events)
  BY DEF OutboxInv, OutboxShape, Outboxes!TypeOK
<1>3. ToSet(outbox_created') = ToSet(s) \cup {e} /\ outbox_created' \in Seq(Events)
  BY <1>1, <1>2, OneMore
<1>4. ASSUME NEW k \in DOMAIN outbox_created', NEW m \in DOMAIN outbox_created',
             outbox_created'[k] = outbox_created'[m]
      PROVE  k = m
  <2>1. \A i \in 1..Len(s) : s[i] # e
    BY <1>1, <1>2, OneMore, InSet
  <2> QED BY <1>1, <1>2, <1>4, <2>1, OneMore DEF OutboxInv, OutboxShape
<1>5. OutboxShape'
  <2>1. Outboxes!TypeOK'
    BY <1>1, <1>3 DEF OutboxInv, OutboxShape, Outboxes!TypeOK, Outboxes!Listeners
  <2> QED BY <1>1, <1>3, <1>4, <2>1 DEF OutboxInv, OutboxShape
<1>6. ASSUME NEW d, NEW f \in ToSet(s), Outboxes!Before(outbox_created', d, f)
      PROVE  Outboxes!Before(s, d, f)
  BY <1>1, <1>2, <1>6, BeforeStays
<1>7. RelayOrder'
  <2>1. ASSUME NEW i \in DOMAIN outbox_topic, NEW d \in Events,
               Outboxes!Before(outbox_created', d, outbox_topic[i]),
               Outboxes!Before(outbox_committed, d, outbox_topic[i]), d \notin outbox_failed
        PROVE  \E j \in 1..(i - 1) : outbox_topic[j] = d
    <3>1. outbox_topic[i] \in ToSet(s)
      BY InSet DEF OutboxInv, OutboxShape
    <3> QED BY <1>6, <2>1, <3>1 DEF OutboxInv, RelayOrder, Outboxes!InOrderUnlessFailed
  <2>2. ASSUME NEW r \in Relays, NEW d \in Events, NEW k \in DOMAIN outbox_batch[r],
               Outboxes!Before(outbox_created', d, outbox_batch[r][k]),
               Outboxes!Before(outbox_committed, d, outbox_batch[r][k]), d \notin outbox_failed
        PROVE  OnTopic(d) \/ \E m \in 1..(k - 1) : outbox_batch[r][m] = d
    <3>1. outbox_batch[r][k] \in ToSet(s)
      BY InSet DEF OutboxInv, OutboxShape
    <3> QED BY <1>6, <2>2, <3>1 DEF OutboxInv, RelayOrder
  <2>3. Outboxes!InOrderUnlessFailed'
    BY <1>1, <2>1 DEF Outboxes!InOrderUnlessFailed, Outboxes!Before
  <2>4. Outboxes!PublishedIsOnTopic'
    BY <1>1 DEF OutboxInv, RelayOrder, Outboxes!PublishedIsOnTopic
  <2> QED BY <1>1, <2>2, <2>3, <2>4 DEF OutboxInv, RelayOrder, OnTopic, Outboxes!Before
<1>8. ConsumerOrder' /\ BilledOnceSoFar'
  <2>1. ConsumerOrder'
    <3>1. outbox_topic \in Seq(Events) /\ Len(outbox_topic) \in Nat
      BY DEF OutboxInv, OutboxShape, Outboxes!TypeOK
    <3> QED BY <1>1, <3>1, ConsumerFrame DEF OutboxInv
  <2> QED BY <1>1, <2>1, BilledFrame DEF OutboxInv
<1> QED BY <1>5, <1>7, <1>8 DEF OutboxInv

\* A row is committed.
LEMMA CommitStep ==
  ASSUME OutboxInv, NEW e \in Events, Outboxes!Commit(e)
  PROVE  OutboxInv'
<1> DEFINE s == outbox_committed
<1>1. /\ e \notin ToSet(s) /\ e \in ToSet(outbox_created) /\ outbox_committed' = Append(s, e)
      /\ UNCHANGED <<outbox_created, outbox_published, outbox_batch, outbox_acked,
           outbox_failed, outbox_topic, outbox_offset, outbox_owner, outbox_position,
           outbox_tries, outbox_job, outbox_overlapped, outbox_processed, outbox_effects,
           outbox_dead, outbox_faults>>
  BY InSet DEF Outboxes!Commit, Outboxes!relay, Outboxes!cursor, Outboxes!results
<1>2. s \in Seq(Events)
  BY DEF OutboxInv, OutboxShape, Outboxes!TypeOK
<1>3. ToSet(outbox_committed') = ToSet(s) \cup {e} /\ outbox_committed' \in Seq(Events)
  BY <1>1, <1>2, OneMore
<1>4. ASSUME NEW k \in DOMAIN outbox_committed', NEW m \in DOMAIN outbox_committed',
             outbox_committed'[k] = outbox_committed'[m]
      PROVE  k = m
  <2>1. \A i \in 1..Len(s) : s[i] # e
    BY <1>1, <1>2, OneMore, InSet
  <2> QED BY <1>1, <1>2, <1>4, <2>1, OneMore DEF OutboxInv, OutboxShape
<1>5. OutboxShape'
  <2>1. Outboxes!TypeOK'
    BY <1>1, <1>3 DEF OutboxInv, OutboxShape, Outboxes!TypeOK, Outboxes!Listeners
  <2> QED BY <1>1, <1>3, <1>4, <2>1 DEF OutboxInv, OutboxShape
<1>6. ASSUME NEW d, NEW f \in ToSet(s), Outboxes!Before(outbox_committed', d, f)
      PROVE  Outboxes!Before(s, d, f)
  BY <1>1, <1>2, <1>6, BeforeStays
<1>7. RelayOrder'
  <2>1. ASSUME NEW i \in DOMAIN outbox_topic, NEW d \in Events,
               Outboxes!Before(outbox_created, d, outbox_topic[i]),
               Outboxes!Before(outbox_committed', d, outbox_topic[i]), d \notin outbox_failed
        PROVE  \E j \in 1..(i - 1) : outbox_topic[j] = d
    <3>1. outbox_topic[i] \in ToSet(s)
      BY InSet DEF OutboxInv, OutboxShape
    <3> QED BY <1>6, <2>1, <3>1 DEF OutboxInv, RelayOrder, Outboxes!InOrderUnlessFailed
  <2>2. ASSUME NEW r \in Relays, NEW d \in Events, NEW k \in DOMAIN outbox_batch[r],
               Outboxes!Before(outbox_created, d, outbox_batch[r][k]),
               Outboxes!Before(outbox_committed', d, outbox_batch[r][k]), d \notin outbox_failed
        PROVE  OnTopic(d) \/ \E m \in 1..(k - 1) : outbox_batch[r][m] = d
    <3>1. outbox_batch[r][k] \in ToSet(s)
      BY InSet DEF OutboxInv, OutboxShape
    <3> QED BY <1>6, <2>2, <3>1 DEF OutboxInv, RelayOrder
  <2>3. Outboxes!InOrderUnlessFailed'
    BY <1>1, <2>1 DEF Outboxes!InOrderUnlessFailed, Outboxes!Before
  <2>4. Outboxes!PublishedIsOnTopic'
    BY <1>1 DEF OutboxInv, RelayOrder, Outboxes!PublishedIsOnTopic
  <2> QED BY <1>1, <2>2, <2>3, <2>4 DEF OutboxInv, RelayOrder, OnTopic, Outboxes!Before
<1>8. ConsumerOrder' /\ BilledOnceSoFar'
  <2>1. ConsumerOrder'
    <3>1. outbox_topic \in Seq(Events) /\ Len(outbox_topic) \in Nat
      BY DEF OutboxInv, OutboxShape, Outboxes!TypeOK
    <3> QED BY <1>1, <3>1, ConsumerFrame DEF OutboxInv
  <2> QED BY <1>1, <2>1, BilledFrame DEF OutboxInv
<1> QED BY <1>5, <1>7, <1>8 DEF OutboxInv

\* A relay that moves no record: it polls, saves what was acknowledged, or dies.
LEMMA RelayKeeps ==
  ASSUME OutboxInv, NEW r \in Relays, NEW page \in Seq(Events), NEW ack \in BOOLEAN,
         outbox_batch' = [outbox_batch EXCEPT ![r] = page],
         outbox_acked' = [outbox_acked EXCEPT ![r] = ack], ~ack,
         outbox_published' \subseteq ToSet(outbox_topic), outbox_published' \subseteq Events,
         outbox_faults' \in 0..MaxFaults,
         UNCHANGED <<outbox_created, outbox_committed, outbox_failed, outbox_topic,
           outbox_offset, outbox_owner, outbox_position, outbox_tries, outbox_job,
           outbox_overlapped, outbox_processed, outbox_effects, outbox_dead>>,
         \A k \in DOMAIN page : page[k] \in ToSet(outbox_committed),
         \A e \in Events : \A k \in DOMAIN page :
           /\ Outboxes!Before(outbox_created, e, page[k])
           /\ Outboxes!Before(outbox_committed, e, page[k]) /\ e \notin outbox_failed
           => OnTopic(e) \/ \E m \in 1..(k - 1) : page[m] = e
  PROVE  OutboxInv'
<1>1. /\ outbox_batch \in [Relays -> Seq(Events)] /\ outbox_acked \in [Relays -> BOOLEAN]
      /\ \A o \in Relays : outbox_acked[o] => outbox_batch[o] # <<>>
  BY DEF OutboxInv, OutboxShape, Outboxes!TypeOK
<1>2. /\ outbox_batch' \in [Relays -> Seq(Events)] /\ outbox_acked' \in [Relays -> BOOLEAN]
      /\ outbox_batch'[r] = page /\ outbox_acked'[r] = FALSE
      /\ \A o \in Relays \ {r} : /\ outbox_batch'[o] = outbox_batch[o]
                                 /\ outbox_acked'[o] = outbox_acked[o]
  BY <1>1
<1>3. OutboxShape'
  <2>1. Outboxes!TypeOK'
    BY <1>1, <1>2 DEF OutboxInv, OutboxShape, Outboxes!TypeOK, Outboxes!Listeners
  <2> QED BY <1>2, <2>1 DEF OutboxInv, OutboxShape
<1>4. RelayOrder'
  <2>1. Outboxes!PublishedIsOnTopic' /\ Outboxes!InOrderUnlessFailed'
    BY InSet DEF OutboxInv, RelayOrder, Outboxes!PublishedIsOnTopic,
       Outboxes!InOrderUnlessFailed, Outboxes!Before
  <2>2. \A o \in Relays : outbox_acked'[o] => OnTopic(outbox_batch'[o][1])
    BY <1>2 DEF OutboxInv, RelayOrder
  <2>3. \A o \in Relays, e \in Events : \A k \in DOMAIN outbox_batch'[o] :
          /\ Outboxes!Before(outbox_created, e, outbox_batch'[o][k])
          /\ Outboxes!Before(outbox_committed, e, outbox_batch'[o][k]) /\ e \notin outbox_failed
          => OnTopic(e) \/ \E m \in 1..(k - 1) : outbox_batch'[o][m] = e
    BY <1>2 DEF OutboxInv, RelayOrder
  <2> QED BY <2>1, <2>2, <2>3 DEF RelayOrder, OnTopic, Outboxes!Before
<1>5. ConsumerOrder' /\ BilledOnceSoFar'
  <2>1. ConsumerOrder'
    <3>1. outbox_topic \in Seq(Events) /\ Len(outbox_topic) \in Nat
      BY DEF OutboxInv, OutboxShape, Outboxes!TypeOK
    <3> QED BY <3>1, ConsumerFrame DEF OutboxInv
  <2> QED BY <2>1, BilledFrame DEF OutboxInv
<1> QED BY <1>3, <1>4, <1>5 DEF OutboxInv

\* A relay reads a page of the table.
LEMMA PollStep ==
  ASSUME OutboxInv, NEW r \in Relays, Outboxes!Poll(r)
  PROVE  OutboxInv'
<1>1. PICK n \in 1..BatchSize : \E page \in [1..n -> Outboxes!Unpublished] :
        Outboxes!IsPage(page) /\ outbox_batch' = [outbox_batch EXCEPT ![r] = page]
  BY DEF Outboxes!Poll
<1>2. PICK page \in [1..n -> Outboxes!Unpublished] :
        Outboxes!IsPage(page) /\ outbox_batch' = [outbox_batch EXCEPT ![r] = page]
  BY <1>1
<1>3. UNCHANGED <<outbox_created, outbox_committed, outbox_published, outbox_acked,
           outbox_failed, outbox_topic, outbox_offset, outbox_owner, outbox_position,
           outbox_tries, outbox_job, outbox_overlapped, outbox_processed, outbox_effects,
           outbox_dead, outbox_faults>> /\ outbox_batch[r] = <<>>
  BY DEF Outboxes!Poll, Outboxes!table, Outboxes!cursor, Outboxes!results
<1>4. /\ outbox_acked \in [Relays -> BOOLEAN] /\ ~outbox_acked[r]
      /\ outbox_published \subseteq Events /\ outbox_committed \in Seq(Events)
      /\ outbox_faults \in 0..MaxFaults
  BY <1>3 DEF OutboxInv, OutboxShape, Outboxes!TypeOK
<1>5. Outboxes!Unpublished = ToSet(outbox_committed) \ outbox_published
  BY InSet DEF Outboxes!Unpublished
<1>6. n \in Nat /\ page \in Seq(Events) /\ DOMAIN page = 1..n
      /\ \A k \in DOMAIN page : page[k] \in ToSet(outbox_committed)
  <2>1. BatchSize \in Nat
    BY PlatformAssumption DEF Outboxes!OutboxAssumption
  <2>2. ToSet(outbox_committed) \subseteq Events
    BY <1>4 DEF ToSet
  <2> QED BY <1>2, <1>5, <2>1, <2>2
<1>7. outbox_published \subseteq ToSet(outbox_topic)
  BY InSet DEF OutboxInv, RelayOrder, Outboxes!PublishedIsOnTopic
<1>8. ASSUME NEW e \in Events, NEW k \in DOMAIN page,
             Outboxes!Before(outbox_created, e, page[k]),
             Outboxes!Before(outbox_committed, e, page[k]), e \notin outbox_failed
      PROVE  OnTopic(e) \/ \E m \in 1..(k - 1) : page[m] = e
  <2>1. e \in ToSet(outbox_committed)
    BY <1>8, BeforeIn
  <2>2. CASE e \in outbox_published
    BY <1>7, <2>2 DEF OnTopic
  <2>3. CASE e \in Outboxes!Unpublished
    BY <1>2, <1>8, <2>3 DEF Outboxes!IsPage
  <2> QED BY <1>5, <2>1, <2>2, <2>3
<1>9. outbox_acked' = [outbox_acked EXCEPT ![r] = FALSE]
  BY <1>3, <1>4
<1>10. /\ outbox_published' \subseteq ToSet(outbox_topic) /\ outbox_published' \subseteq Events
       /\ outbox_faults' \in 0..MaxFaults
  BY <1>3, <1>4, <1>7
<1> QED BY <1>2, <1>3, <1>6, <1>8, <1>9, <1>10, RelayKeeps

\* A relay marks what it sent.
LEMMA SaveStep ==
  ASSUME OutboxInv, NEW r \in Relays, Outboxes!Save(r)
  PROVE  OutboxInv'
<1> DEFINE s == outbox_batch[r]
<1>1. /\ outbox_acked[r] /\ outbox_acked' = [outbox_acked EXCEPT ![r] = FALSE]
      /\ \/ outbox_published' = outbox_published \cup {Head(s)} /\ outbox_faults' = outbox_faults
         \/ Outboxes!Fault /\ outbox_published' = outbox_published
      /\ outbox_batch' = [outbox_batch EXCEPT ![r] = Tail(s)]
      /\ UNCHANGED <<outbox_created, outbox_committed, outbox_failed, outbox_topic,
           outbox_offset, outbox_owner, outbox_position, outbox_tries, outbox_job,
           outbox_overlapped, outbox_processed, outbox_effects, outbox_dead>>
  BY DEF Outboxes!Save, Outboxes!NextRow, Outboxes!table, Outboxes!cursor, Outboxes!results
<1>2. /\ outbox_faults \in 0..MaxFaults /\ outbox_published \subseteq Events
      /\ s \in Seq(Events) /\ s # <<>> /\ MaxFaults \in Nat /\ outbox_topic \in Seq(Events)
  BY <1>1, PlatformAssumption DEF OutboxInv, OutboxShape, Outboxes!TypeOK, Outboxes!OutboxAssumption
<1>3. outbox_faults' \in 0..MaxFaults
  BY <1>1, <1>2 DEF Outboxes!Fault
<1>4. /\ Tail(s) \in Seq(Events) /\ DOMAIN Tail(s) = 1..(Len(s) - 1) /\ Len(s) \in Nat \ {0}
      /\ DOMAIN s = 1..Len(s) /\ Head(s) = s[1]
      /\ \A k \in 1..(Len(s) - 1) : Tail(s)[k] = s[k + 1]
  BY <1>2, OneLess
<1>5. Head(s) \in ToSet(outbox_topic) /\ Head(s) \in Events
  <2>1. Head(s) \in ToSet(outbox_topic)
    BY <1>1, <1>4 DEF OutboxInv, RelayOrder, OnTopic
  <2> QED BY <1>2, <2>1 DEF ToSet
<1>6. outbox_published' \subseteq ToSet(outbox_topic) /\ outbox_published' \subseteq Events
  <2>1. outbox_published \subseteq ToSet(outbox_topic)
    BY InSet DEF OutboxInv, RelayOrder, Outboxes!PublishedIsOnTopic
  <2> QED BY <1>1, <1>2, <1>5, <2>1
<1>7. \A k \in DOMAIN Tail(s) : Tail(s)[k] \in ToSet(outbox_committed)
  <2>1. \A k \in DOMAIN s : s[k] \in ToSet(outbox_committed)
    BY InSet DEF OutboxInv, OutboxShape
  <2> HIDE DEF s
  <2> QED BY <1>4, <2>1
<1>8. ASSUME NEW e \in Events, NEW k \in DOMAIN Tail(s),
             Outboxes!Before(outbox_created, e, Tail(s)[k]),
             Outboxes!Before(outbox_committed, e, Tail(s)[k]), e \notin outbox_failed
      PROVE  OnTopic(e) \/ \E m \in 1..(k - 1) : Tail(s)[m] = e
  <2>1. k + 1 \in DOMAIN s /\ Tail(s)[k] = s[k + 1] /\ k \in Nat /\ k <= Len(s) - 1
    BY <1>4
  <2>2. OnTopic(e) \/ \E m \in 1..k : s[m] = e
    BY <1>8, <2>1 DEF OutboxInv, RelayOrder
  <2>3. ASSUME NEW m \in 1..k, s[m] = e
        PROVE  OnTopic(e) \/ \E j \in 1..(k - 1) : Tail(s)[j] = e
    <3>1. CASE m = 1
      BY <1>4, <1>5, <2>3, <3>1 DEF OnTopic
    <3>2. CASE m # 1
      <4>1. m - 1 \in 1..(k - 1) /\ m - 1 \in 1..(Len(s) - 1) /\ (m - 1) + 1 = m
        BY <1>4, <2>1, <3>2
      <4> QED BY <1>4, <2>3, <4>1
    <3> QED BY <3>1, <3>2
  <2> QED BY <2>2, <2>3
<1> QED BY <1>1, <1>3, <1>4, <1>6, <1>7, <1>8, RelayKeeps

\* A relay dies.
LEMMA RelayDiesStep ==
  ASSUME OutboxInv, NEW r \in Relays, Outboxes!RelayDies(r)
  PROVE  OutboxInv'
<1>1. /\ Outboxes!Fault /\ outbox_batch' = [outbox_batch EXCEPT ![r] = <<>>]
      /\ outbox_acked' = [outbox_acked EXCEPT ![r] = FALSE]
      /\ UNCHANGED <<outbox_created, outbox_committed, outbox_published, outbox_failed,
           outbox_topic, outbox_offset, outbox_owner, outbox_position, outbox_tries,
           outbox_job, outbox_overlapped, outbox_processed, outbox_effects, outbox_dead>>
  BY DEF Outboxes!RelayDies, Outboxes!table, Outboxes!cursor, Outboxes!results
<1>2. outbox_faults' \in 0..MaxFaults /\ outbox_published \subseteq Events
  BY <1>1, PlatformAssumption DEF OutboxInv, OutboxShape, Outboxes!TypeOK,
     Outboxes!OutboxAssumption, Outboxes!Fault
<1>3. outbox_published \subseteq ToSet(outbox_topic)
  BY InSet DEF OutboxInv, RelayOrder, Outboxes!PublishedIsOnTopic
<1>4. <<>> \in Seq(Events) /\ DOMAIN <<>> = {}
  OBVIOUS
<1> QED BY <1>1, <1>2, <1>3, <1>4, RelayKeeps

\* A record comes to the topic.
LEMMA TopicGrows ==
  ASSUME OutboxInv, NEW r \in Relays, outbox_batch[r] # <<>>,
         outbox_topic' = Append(outbox_topic, outbox_batch[r][1]),
         outbox_failed \subseteq outbox_failed',
         UNCHANGED <<outbox_created, outbox_committed>>
  PROVE  /\ outbox_topic' \in Seq(Events)
         /\ ToSet(outbox_topic') = ToSet(outbox_topic) \cup {outbox_batch[r][1]}
         /\ Len(outbox_topic) <= Len(outbox_topic') /\ Len(outbox_topic) \in Nat
         /\ Len(outbox_topic') \in Nat
         /\ \A k \in 1..Len(outbox_topic) : outbox_topic'[k] = outbox_topic[k]
         /\ Outboxes!InOrderUnlessFailed'
<1> DEFINE s == outbox_topic
           h == outbox_batch[r][1]
<1>1. s \in Seq(Events) /\ outbox_batch[r] \in Seq(Events) /\ h \in Events /\ 1 \in DOMAIN outbox_batch[r]
  <2>1. s \in Seq(Events) /\ outbox_batch[r] \in Seq(Events)
    BY DEF OutboxInv, OutboxShape, Outboxes!TypeOK
  <2> QED BY <2>1
<1>2. /\ outbox_topic' \in Seq(Events) /\ Len(outbox_topic') = Len(s) + 1 /\ Len(s) \in Nat
      /\ DOMAIN s = 1..Len(s) /\ DOMAIN outbox_topic' = 1..(Len(s) + 1)
      /\ \A k \in 1..Len(s) : outbox_topic'[k] = s[k]
      /\ outbox_topic'[Len(s) + 1] = h
      /\ ToSet(outbox_topic') = ToSet(s) \cup {h}
  BY <1>1, OneMore
<1>3. ASSUME NEW i \in DOMAIN outbox_topic', NEW e \in Events,
             Outboxes!Before(outbox_created, e, outbox_topic'[i]),
             Outboxes!Before(outbox_committed, e, outbox_topic'[i]), e \notin outbox_failed'
      PROVE  \E j \in 1..(i - 1) : outbox_topic'[j] = e
  <2>0. e \notin outbox_failed
    BY <1>3
  <2>1. CASE i \in 1..Len(s)
    <3>1. \E j \in 1..(i - 1) : s[j] = e
      BY <1>2, <1>3, <2>0, <2>1 DEF OutboxInv, RelayOrder, Outboxes!InOrderUnlessFailed
    <3> QED BY <1>2, <2>1, <3>1
  <2>2. CASE i = Len(s) + 1
    <3>1. OnTopic(e) \/ \E m \in 1..(1 - 1) : outbox_batch[r][m] = e
      BY <1>1, <1>2, <1>3, <2>0, <2>2 DEF OutboxInv, RelayOrder
    <3>2. \E j \in DOMAIN s : s[j] = e
      BY <3>1, InSet DEF OnTopic
    <3> QED BY <1>2, <2>2, <3>2
  <2> QED BY <1>2, <2>1, <2>2
<1>4. Outboxes!InOrderUnlessFailed'
  BY <1>3 DEF Outboxes!InOrderUnlessFailed, Outboxes!Before
<1> QED BY <1>2, <1>4

\* A relay sends, and the broker confirms.
LEMMA SendStep ==
  ASSUME OutboxInv, NEW r \in Relays, Outboxes!Send(r)
  PROVE  OutboxInv'
<1> DEFINE h == outbox_batch[r][1]
<1>1. /\ outbox_batch[r] # <<>> /\ outbox_topic' = Append(outbox_topic, Head(outbox_batch[r]))
      /\ outbox_acked' = [outbox_acked EXCEPT ![r] = TRUE]
      /\ UNCHANGED <<outbox_created, outbox_committed, outbox_published, outbox_batch,
           outbox_failed, outbox_offset, outbox_owner, outbox_position, outbox_tries,
           outbox_job, outbox_overlapped, outbox_processed, outbox_effects, outbox_dead,
           outbox_faults>>
  BY DEF Outboxes!Send, Outboxes!Arrives, Outboxes!table, Outboxes!cursor, Outboxes!results
<1>2. /\ outbox_batch \in [Relays -> Seq(Events)] /\ outbox_acked \in [Relays -> BOOLEAN]
      /\ \A o \in Relays : outbox_acked[o] => outbox_batch[o] # <<>>
  BY DEF OutboxInv, OutboxShape, Outboxes!TypeOK
<1>3. Head(outbox_batch[r]) = h /\ 1 \in DOMAIN outbox_batch[r]
  BY <1>1, <1>2, OneLess
<1>4. /\ outbox_topic' \in Seq(Events)
      /\ ToSet(outbox_topic') = ToSet(outbox_topic) \cup {h}
      /\ Len(outbox_topic) <= Len(outbox_topic') /\ Len(outbox_topic) \in Nat
      /\ Len(outbox_topic') \in Nat
      /\ \A k \in 1..Len(outbox_topic) : outbox_topic'[k] = outbox_topic[k]
      /\ Outboxes!InOrderUnlessFailed'
  BY <1>1, <1>3, TopicGrows
<1>5. /\ outbox_acked' \in [Relays -> BOOLEAN] /\ outbox_acked'[r] = TRUE
      /\ \A o \in Relays \ {r} : outbox_acked'[o] = outbox_acked[o]
  BY <1>1, <1>2
<1>6. OutboxShape'
  <2>1. Outboxes!TypeOK'
    <3>1. /\ outbox_offset \in [Outboxes!Groups -> 0..Len(outbox_topic')]
          /\ outbox_position \in [Outboxes!Groups -> 0..Len(outbox_topic')]
      BY <1>4 DEF OutboxInv, OutboxShape, Outboxes!TypeOK
    <3>2. \A o \in Relays : outbox_acked'[o] => outbox_batch[o] # <<>>
      BY <1>1, <1>2, <1>5
    <3> QED BY <1>1, <1>4, <1>5, <3>1, <3>2 DEF OutboxInv, OutboxShape, Outboxes!TypeOK, Outboxes!Listeners
  <2>2. h \in ToSet(outbox_committed)
    BY <1>3 DEF OutboxInv, OutboxShape
  <2>3. \A e \in ToSet(outbox_topic') : e \in ToSet(outbox_committed)
    BY <1>4, <2>2 DEF OutboxInv, OutboxShape
  <2> QED BY <1>1, <2>1, <2>3 DEF OutboxInv, OutboxShape
<1>7. RelayOrder'
  <2>1. Outboxes!PublishedIsOnTopic'
    <3>1. outbox_published \subseteq ToSet(outbox_topic)
      BY InSet DEF OutboxInv, RelayOrder, Outboxes!PublishedIsOnTopic
    <3>2. outbox_published' \subseteq ToSet(outbox_topic')
      BY <1>1, <1>4, <3>1
    <3> QED BY <3>2 DEF Outboxes!PublishedIsOnTopic, Outboxes!ToSet, ToSet
  <2>2. \A o \in Relays : outbox_acked'[o] => outbox_batch[o][1] \in ToSet(outbox_topic')
    BY <1>4, <1>5 DEF OutboxInv, RelayOrder, OnTopic
  <2>3. \A o \in Relays, e \in Events : \A k \in DOMAIN outbox_batch[o] :
          /\ Outboxes!Before(outbox_created, e, outbox_batch[o][k])
          /\ Outboxes!Before(outbox_committed, e, outbox_batch[o][k]) /\ e \notin outbox_failed
          => e \in ToSet(outbox_topic') \/ \E m \in 1..(k - 1) : outbox_batch[o][m] = e
    BY <1>4 DEF OutboxInv, RelayOrder, OnTopic
  <2>4. \A o \in Relays : (outbox_acked[o] => OnTopic(outbox_batch[o][1]))'
    BY <1>1, <2>2 DEF OnTopic
  <2>5. \A o \in Relays, e \in Events : \A k \in DOMAIN outbox_batch'[o] :
          (/\ Outboxes!Before(outbox_created, e, outbox_batch[o][k])
           /\ Outboxes!Before(outbox_committed, e, outbox_batch[o][k]) /\ e \notin outbox_failed
           => OnTopic(e) \/ \E m \in 1..(k - 1) : outbox_batch[o][m] = e)'
    BY <1>1, <2>3 DEF Outboxes!Before, OnTopic
  <2> QED BY <1>4, <2>1, <2>4, <2>5 DEF RelayOrder
<1>8. ConsumerOrder' /\ BilledOnceSoFar'
  BY <1>1, <1>4, ConsumerFrame, BilledFrame DEF OutboxInv
<1> QED BY <1>6, <1>7, <1>8 DEF OutboxInv

\* A relay sends, and nothing is confirmed.
LEMMA SendFailsStep ==
  ASSUME OutboxInv, NEW r \in Relays, Outboxes!SendFails(r)
  PROVE  OutboxInv'
<1> DEFINE s == outbox_batch[r]
           h == s[1]
<1>1. /\ s # <<>> /\ ~outbox_acked[r] /\ Outboxes!Fault
      /\ outbox_topic' = outbox_topic \/ outbox_topic' = Append(outbox_topic, Head(s))
      /\ outbox_failed' = outbox_failed \cup {Head(s)}
      /\ outbox_batch' = [outbox_batch EXCEPT ![r] = Tail(s)]
      /\ UNCHANGED <<outbox_created, outbox_committed, outbox_published, outbox_acked,
           outbox_offset, outbox_owner, outbox_position, outbox_tries, outbox_job,
           outbox_overlapped, outbox_processed, outbox_effects, outbox_dead>>
  BY DEF Outboxes!SendFails, Outboxes!NextRow, Outboxes!table, Outboxes!cursor, Outboxes!results
<1>2. /\ outbox_batch \in [Relays -> Seq(Events)] /\ outbox_acked \in [Relays -> BOOLEAN]
      /\ \A o \in Relays : outbox_acked[o] => outbox_batch[o] # <<>>
      /\ outbox_topic \in Seq(Events) /\ outbox_failed \subseteq Events
  BY DEF OutboxInv, OutboxShape, Outboxes!TypeOK
<1>3. /\ Tail(s) \in Seq(Events) /\ DOMAIN Tail(s) = 1..(Len(s) - 1) /\ Len(s) \in Nat \ {0}
      /\ DOMAIN s = 1..Len(s) /\ Head(s) = h /\ 1 \in DOMAIN s
      /\ \A k \in 1..(Len(s) - 1) : Tail(s)[k] = s[k + 1]
  BY <1>1, <1>2, OneLess
<1>4. /\ outbox_topic' \in Seq(Events)
      /\ ToSet(outbox_topic) \subseteq ToSet(outbox_topic')
      /\ ToSet(outbox_topic') \subseteq ToSet(outbox_topic) \cup {h}
      /\ Len(outbox_topic) <= Len(outbox_topic') /\ Len(outbox_topic) \in Nat
      /\ Len(outbox_topic') \in Nat
      /\ \A k \in 1..Len(outbox_topic) : outbox_topic'[k] = outbox_topic[k]
      /\ Outboxes!InOrderUnlessFailed'
  <2>1. CASE outbox_topic' = outbox_topic
    <3>1. Outboxes!InOrderUnlessFailed'
      BY <1>1, <2>1 DEF OutboxInv, RelayOrder, Outboxes!InOrderUnlessFailed, Outboxes!Before
    <3>2. Len(outbox_topic) \in Nat
      BY <1>2
    <3> QED BY <1>2, <2>1, <3>1, <3>2
  <2>2. CASE outbox_topic' = Append(outbox_topic, Head(s))
    BY <1>1, <1>3, <2>2, TopicGrows
  <2> QED BY <1>1, <2>1, <2>2
<1>5. /\ outbox_batch' \in [Relays -> Seq(Events)] /\ outbox_batch'[r] = Tail(s)
      /\ \A o \in Relays \ {r} : outbox_batch'[o] = outbox_batch[o]
  BY <1>1, <1>2, <1>3
<1>6. h \in Events /\ h \in ToSet(outbox_committed)
      /\ \A k \in DOMAIN s : s[k] \in ToSet(outbox_committed)
  <2>1. \A k \in DOMAIN s : s[k] \in ToSet(outbox_committed)
    BY DEF OutboxInv, OutboxShape
  <2> QED BY <1>2, <1>3, <2>1
<1>7. OutboxShape'
  <2>1. Outboxes!TypeOK'
    <3>1. /\ outbox_offset \in [Outboxes!Groups -> 0..Len(outbox_topic')]
          /\ outbox_position \in [Outboxes!Groups -> 0..Len(outbox_topic')]
      BY <1>4 DEF OutboxInv, OutboxShape, Outboxes!TypeOK
    <3>2. \A o \in Relays : outbox_acked[o] => outbox_batch'[o] # <<>>
      BY <1>1, <1>2, <1>5
    <3>3. outbox_faults' \in 0..MaxFaults /\ outbox_failed' \subseteq Events
      BY <1>1, <1>2, <1>3, <1>6, PlatformAssumption DEF OutboxInv, OutboxShape, Outboxes!TypeOK,
         Outboxes!OutboxAssumption, Outboxes!Fault
    <3> HIDE DEF s, h
    <3> QED BY <1>1, <1>4, <1>5, <3>1, <3>2, <3>3
            DEF OutboxInv, OutboxShape, Outboxes!TypeOK, Outboxes!Listeners
  <2>2. \A e \in ToSet(outbox_topic') : e \in ToSet(outbox_committed)
    BY <1>4, <1>6 DEF OutboxInv, OutboxShape
  <2>3. \A o \in Relays : \A k \in DOMAIN outbox_batch'[o] :
          outbox_batch'[o][k] \in ToSet(outbox_committed)
    <3>1. \A k \in DOMAIN Tail(s) : Tail(s)[k] \in ToSet(outbox_committed)
      <4> HIDE DEF s
      <4> QED BY <1>3, <1>6
    <3> QED BY <1>5, <3>1 DEF OutboxInv, OutboxShape
  <2> QED BY <1>1, <2>1, <2>2, <2>3 DEF OutboxInv, OutboxShape
<1>8. RelayOrder'
  <2>1. Outboxes!PublishedIsOnTopic'
    <3>1. outbox_published \subseteq ToSet(outbox_topic)
      BY InSet DEF OutboxInv, RelayOrder, Outboxes!PublishedIsOnTopic
    <3>2. outbox_published' \subseteq ToSet(outbox_topic')
      BY <1>1, <1>4, <3>1
    <3> QED BY <3>2 DEF Outboxes!PublishedIsOnTopic, Outboxes!ToSet, ToSet
  <2>2. \A o \in Relays : outbox_acked[o] => outbox_batch'[o][1] \in ToSet(outbox_topic')
    BY <1>1, <1>4, <1>5 DEF OutboxInv, RelayOrder, OnTopic
  <2>3. ASSUME NEW o \in Relays, NEW e \in Events, NEW k \in DOMAIN outbox_batch'[o],
               Outboxes!Before(outbox_created, e, outbox_batch'[o][k]),
               Outboxes!Before(outbox_committed, e, outbox_batch'[o][k]), e \notin outbox_failed'
        PROVE  e \in ToSet(outbox_topic') \/ \E m \in 1..(k - 1) : outbox_batch'[o][m] = e
    <3>1. e \notin outbox_failed /\ e # h
      BY <1>1, <1>3, <2>3
    <3>2. CASE o # r
      <4>1. outbox_batch'[o] = outbox_batch[o]
        BY <1>5, <3>2
      <4>2. /\ k \in DOMAIN outbox_batch[o]
            /\ Outboxes!Before(outbox_created, e, outbox_batch[o][k])
            /\ Outboxes!Before(outbox_committed, e, outbox_batch[o][k])
        BY <2>3, <4>1
      <4>3. OnTopic(e) \/ \E m \in 1..(k - 1) : outbox_batch[o][m] = e
        BY <3>1, <4>2 DEF OutboxInv, RelayOrder
      <4> QED BY <1>4, <4>1, <4>3 DEF OnTopic
    <3>3. CASE o = r
      <4>1. k + 1 \in DOMAIN s /\ outbox_batch'[r][k] = s[k + 1] /\ k \in Nat /\ k <= Len(s) - 1
        BY <1>3, <1>5, <2>3, <3>3
      <4>2. OnTopic(e) \/ \E m \in 1..k : s[m] = e
        BY <2>3, <3>1, <3>3, <4>1 DEF OutboxInv, RelayOrder
      <4>3. ASSUME NEW m \in 1..k, s[m] = e
            PROVE  \E j \in 1..(k - 1) : outbox_batch'[r][j] = e
        <5>1. m # 1
          BY <3>1, <4>3
        <5>2. m - 1 \in 1..(k - 1) /\ m - 1 \in 1..(Len(s) - 1) /\ (m - 1) + 1 = m
          BY <1>3, <4>1, <5>1
        <5> QED BY <1>3, <1>5, <4>3, <5>2
      <4>4. CASE OnTopic(e)
        BY <1>4, <4>4 DEF OnTopic
      <4>5. CASE \E m \in 1..k : s[m] = e
        <5>1. \E j \in 1..(k - 1) : outbox_batch'[r][j] = e
          BY <4>3, <4>5
        <5> QED BY <3>3, <5>1
      <4> QED BY <4>2, <4>4, <4>5
    <3> QED BY <3>2, <3>3
  <2> HIDE DEF s, h
  <2>4. \A o \in Relays : (outbox_acked[o] => OnTopic(outbox_batch[o][1]))'
    BY <1>1, <2>2 DEF OnTopic
  <2>5. \A o \in Relays, e \in Events : \A k \in DOMAIN outbox_batch'[o] :
          (/\ Outboxes!Before(outbox_created, e, outbox_batch[o][k])
           /\ Outboxes!Before(outbox_committed, e, outbox_batch[o][k]) /\ e \notin outbox_failed
           => OnTopic(e) \/ \E m \in 1..(k - 1) : outbox_batch[o][m] = e)'
    BY <1>1, <2>3 DEF OnTopic
  <2> QED BY <1>4, <2>1, <2>4, <2>5 DEF RelayOrder
<1>9. ConsumerOrder' /\ BilledOnceSoFar'
  BY <1>1, <1>4, ConsumerFrame, BilledFrame DEF OutboxInv
<1> QED BY <1>7, <1>8, <1>9 DEF OutboxInv

\* What the consumers leave alone.
LEMMA ConsumerShape ==
  ASSUME OutboxInv, outbox_offset' \in [Outboxes!Groups -> 0..Len(outbox_topic)],
         outbox_position' \in [Outboxes!Groups -> 0..Len(outbox_topic)],
         \A g \in Outboxes!Groups : outbox_owner'[g] \in Outboxes!Listeners(g),
         outbox_tries' \in [Outboxes!Groups -> 0..(MaxAttempts - 1)],
         DOMAIN outbox_job' = Outboxes!Workers, DOMAIN outbox_owner' = Outboxes!Groups,
         \A w \in Outboxes!Workers : outbox_job'[w] \in
           {Outboxes!Idle} \cup [at : {"checked", "insert", "update"}, event : Events],
         outbox_overlapped' \cup outbox_processed' \cup outbox_dead'
           \subseteq Outboxes!Groups \X Events,
         outbox_effects' \in [Outboxes!Groups -> [Events -> Nat]],
         outbox_faults' \in 0..MaxFaults,
         UNCHANGED <<outbox_created, outbox_committed, outbox_published, outbox_batch,
                     outbox_acked, outbox_failed, outbox_topic>>
  PROVE  OutboxShape' /\ RelayOrder'
<1>1. Outboxes!TypeOK'
  BY DEF OutboxInv, OutboxShape, Outboxes!TypeOK, Outboxes!Listeners
<1>2. OutboxShape'
  BY <1>1 DEF OutboxInv, OutboxShape
<1> QED BY <1>2, RelayFrame DEF OutboxInv

\* What the steps of the listeners need of the shape.
LEMMA OutboxFacts ==
  ASSUME OutboxInv
  PROVE  /\ outbox_topic \in Seq(Events) /\ Len(outbox_topic) \in Nat
         /\ DOMAIN outbox_job = Outboxes!Workers /\ DOMAIN outbox_owner = Outboxes!Groups
         /\ \A k \in 1..Len(outbox_topic) : outbox_topic[k] \in Events
         /\ outbox_offset \in [Outboxes!Groups -> 0..Len(outbox_topic)]
         /\ outbox_position \in [Outboxes!Groups -> 0..Len(outbox_topic)]
         /\ \A g \in Outboxes!Groups : outbox_owner[g] \in Outboxes!Listeners(g)
         /\ outbox_tries \in [Outboxes!Groups -> 0..(MaxAttempts - 1)]
         /\ \A w \in Outboxes!Workers : outbox_job[w] \in
              {Outboxes!Idle} \cup [at : {"checked", "insert", "update"}, event : Events]
         /\ \A w \in Outboxes!Workers :
              /\ InFlight(w) => /\ outbox_job[w].event \in Events
                                /\ outbox_job[w].at \in {"checked", "insert", "update"}
              /\ ~InFlight(w) => outbox_job[w].at = "idle"
         /\ outbox_overlapped \cup outbox_processed \cup outbox_dead
              \subseteq Outboxes!Groups \X Events
         /\ outbox_effects \in [Outboxes!Groups -> [Events -> Nat]]
         /\ outbox_faults \in 0..MaxFaults /\ MaxAttempts \in Nat \ {0} /\ MaxFaults \in Nat
         /\ Outboxes!Fault => outbox_faults' \in 0..MaxFaults
<1>1. MaxAttempts \in Nat \ {0} /\ MaxFaults \in Nat
  BY PlatformAssumption DEF Outboxes!OutboxAssumption
<1> QED BY <1>1 DEF OutboxInv, OutboxShape, Outboxes!TypeOK, Outboxes!Listeners, InFlight, Outboxes!Idle,
   Outboxes!Fault

\* A listener goes on, or settles.
LEMMA JobChanges ==
  ASSUME OutboxInv, NEW g \in Outboxes!Groups, NEW w \in Outboxes!Listeners(g), NEW v,
         v \in {Outboxes!Idle} \cup [at : {"checked", "insert", "update"}, event : Events],
         outbox_job' = [outbox_job EXCEPT ![w] = v]
  PROVE  /\ DOMAIN outbox_job' = Outboxes!Workers /\ outbox_job'[w] = v
         /\ \A o \in Outboxes!Workers \ {w} : outbox_job'[o] = outbox_job[o]
         /\ \A o \in Outboxes!Workers : outbox_job'[o] \in
              {Outboxes!Idle} \cup [at : {"checked", "insert", "update"}, event : Events]
         /\ w \in Outboxes!Workers
<1>1. w \in Outboxes!Workers
  BY ListenersApart
<1> QED BY <1>1, OutboxFacts

\* An event has passed a group.
LEMMA PassedMore ==
  ASSUME OutboxInv, NEW g \in Outboxes!Groups, outbox_position[g] < Len(outbox_topic),
         Outboxes!Advance(g)
  PROVE  /\ outbox_position' \in [Outboxes!Groups -> 0..Len(outbox_topic)]
         /\ outbox_tries' \in [Outboxes!Groups -> 0..(MaxAttempts - 1)]
         /\ outbox_position'[g] = outbox_position[g] + 1 /\ outbox_position[g] \in Nat
         /\ \A h \in Outboxes!Groups \ {g} : outbox_position'[h] = outbox_position[h]
         /\ outbox_topic[outbox_position[g] + 1] \in Events
         /\ \A i \in 1..outbox_position'[g] : i \in 1..outbox_position[g] \/ i = outbox_position[g] + 1
<1>1. /\ Len(outbox_topic) \in Nat /\ outbox_position \in [Outboxes!Groups -> 0..Len(outbox_topic)]
      /\ outbox_tries \in [Outboxes!Groups -> 0..(MaxAttempts - 1)] /\ MaxAttempts \in Nat \ {0}
      /\ \A k \in 1..Len(outbox_topic) : outbox_topic[k] \in Events
  BY OutboxFacts
<1>2. /\ outbox_position' = [outbox_position EXCEPT ![g] = @ + 1]
      /\ outbox_tries' = [outbox_tries EXCEPT ![g] = 0]
  BY DEF Outboxes!Advance
<1>3. outbox_position[g] \in Nat /\ outbox_position[g] + 1 \in 1..Len(outbox_topic)
  BY <1>1
<1> QED BY <1>1, <1>2, <1>3

\* What a group has handled stays handled.
LEMMA HandledStays ==
  ASSUME OutboxInv, outbox_topic' = outbox_topic,
         outbox_processed \subseteq outbox_processed', outbox_dead \subseteq outbox_dead',
         \A g \in Outboxes!Groups, e \in Events : outbox_effects'[g][e] >= outbox_effects[g][e],
         outbox_effects' \in [Outboxes!Groups -> [Events -> Nat]]
  PROVE  \A g \in Outboxes!Groups : \A i \in 1..outbox_position[g] :
           Outboxes!Handled(g, outbox_topic[i])'
<1>1. ASSUME NEW g \in Outboxes!Groups, NEW i \in 1..outbox_position[g]
      PROVE  Outboxes!Handled(g, outbox_topic[i])'
  <2>1. Outboxes!Handled(g, outbox_topic[i])
    BY DEF OutboxInv, ConsumerOrder, Outboxes!NothingSkipped
  <2>2. outbox_topic[i] \in Events
    BY OutboxFacts
  <2>3. PICK e \in Events : e = outbox_topic[i]
    BY <2>2
  <2>4. /\ outbox_effects[g][e] \in Nat /\ outbox_effects'[g][e] \in Nat
        /\ outbox_effects'[g][e] >= outbox_effects[g][e]
    BY OutboxFacts
  <2>5. \/ <<g, e>> \in outbox_dead'
        \/ <<g, e>> \in outbox_processed' /\ outbox_effects'[g][e] > 0
    BY <2>1, <2>3, <2>4 DEF Outboxes!Handled
  <2> QED BY <2>3, <2>5 DEF Outboxes!Handled
<1> QED BY <1>1

\* A record is handed to the owner's listener, or passed over when it was processed.
LEMMA DeliverStep ==
  ASSUME OutboxInv, NEW g \in Outboxes!Groups, NEW w \in Outboxes!Listeners(g),
         Outboxes!Deliver(g, w)
  PROVE  OutboxInv'
<1>0. PICK e : e = outbox_topic[outbox_position[g] + 1]
  OBVIOUS
<1>1. /\ outbox_owner[g] = w /\ ~InFlight(w) /\ outbox_position[g] < Len(outbox_topic)
      /\ UNCHANGED <<outbox_created, outbox_committed, outbox_published, outbox_batch,
           outbox_acked, outbox_failed, outbox_topic, outbox_offset, outbox_owner,
           outbox_overlapped, outbox_processed, outbox_effects, outbox_dead, outbox_faults>>
  BY DEF Outboxes!Deliver, InFlight, Outboxes!table, Outboxes!relay, Outboxes!results
<1>2. e \in Events /\ outbox_position[g] \in Nat /\ w \in Outboxes!Workers
  BY <1>0, <1>1, OutboxFacts, ListenersApart
<1>3. \A h \in Outboxes!Groups : \A i \in 1..outbox_position[h] :
        Outboxes!Handled(h, outbox_topic[i])'
  <2>1. ASSUME NEW h \in Outboxes!Groups, NEW d \in Events
       PROVE  outbox_effects[h][d] >= outbox_effects[h][d]
    <3>1. outbox_effects[h][d] \in Nat
      BY OutboxFacts
    <3> QED BY <3>1
  <2> QED BY <1>1, <2>1, OutboxFacts, HandledStays
<1>4. CASE <<g, e>> \in outbox_processed
  <2>1. Outboxes!Advance(g) /\ outbox_job' = outbox_job
    BY <1>0, <1>4 DEF Outboxes!Deliver, Outboxes!Seen
  <2>2. /\ outbox_position' \in [Outboxes!Groups -> 0..Len(outbox_topic)]
        /\ outbox_tries' \in [Outboxes!Groups -> 0..(MaxAttempts - 1)]
        /\ outbox_position'[g] = outbox_position[g] + 1 /\ outbox_position[g] \in Nat
        /\ \A h \in Outboxes!Groups \ {g} : outbox_position'[h] = outbox_position[h]
        /\ \A i \in 1..outbox_position'[g] : i \in 1..outbox_position[g] \/ i = outbox_position[g] + 1
    BY <1>1, <2>1, PassedMore
  <2>3. OutboxShape' /\ RelayOrder'
    BY <1>1, <2>1, <2>2, OutboxFacts, ConsumerShape
  <2>4. Outboxes!Handled(g, e)'
    BY <1>1, <1>2, <1>4 DEF OutboxInv, ConsumerOrder, Outboxes!Handled
  <2>5. Outboxes!NothingSkipped'
    <3>1. ASSUME NEW h \in Outboxes!Groups, NEW i \in 1..outbox_position'[h]
          PROVE  Outboxes!Handled(h, outbox_topic[i])'
      <4>1. CASE h # g
        BY <1>3, <2>2, <4>1
      <4>2. CASE h = g /\ i \in 1..outbox_position[g]
        BY <1>3, <4>2
      <4>3. CASE h = g /\ i = outbox_position[g] + 1
        BY <1>0, <1>1, <2>4, <4>3 DEF Outboxes!Handled
      <4> QED BY <2>2, <4>1, <4>2, <4>3
    <3> QED BY <1>1, <3>1 DEF Outboxes!NothingSkipped
  <2>6. ConsumerOrder'
    <3>1. \A h \in Outboxes!Groups : outbox_offset[h] <= outbox_position'[h]
      <4>1. \A h \in Outboxes!Groups : outbox_offset[h] \in Nat /\ outbox_position[h] \in Nat
                                       /\ outbox_offset[h] <= outbox_position[h]
        BY OutboxFacts DEF OutboxInv, ConsumerOrder
      <4> QED BY <2>2, <4>1
    <3>2. ASSUME NEW h \in Outboxes!Groups, InFlight(outbox_owner[h])
          PROVE  /\ outbox_position'[h] < Len(outbox_topic)
                 /\ outbox_topic[outbox_position'[h] + 1] = outbox_job[outbox_owner[h]].event
      BY <1>1, <2>2, <3>2 DEF OutboxInv, ConsumerOrder
    <3> QED BY <1>1, <2>1, <2>5, <3>1, <3>2
            DEF OutboxInv, ConsumerOrder, InFlight, Outboxes!Working
  <2>7. BilledOnceSoFar'
    BY <1>1, <2>1, BilledFrame DEF OutboxInv
  <2> QED BY <2>3, <2>6, <2>7 DEF OutboxInv
<1>5. CASE <<g, e>> \notin outbox_processed
  <2> DEFINE v == [at |-> "checked", event |-> e]
  <2>1. /\ outbox_job' = [outbox_job EXCEPT ![w] = v]
        /\ outbox_position' = outbox_position /\ outbox_tries' = outbox_tries
    BY <1>0, <1>5 DEF Outboxes!Deliver, Outboxes!Seen
  <2>2. /\ DOMAIN outbox_job' = Outboxes!Workers /\ outbox_job'[w] = v
        /\ \A o \in Outboxes!Workers \ {w} : outbox_job'[o] = outbox_job[o]
        /\ \A o \in Outboxes!Workers : outbox_job'[o] \in
             {Outboxes!Idle} \cup [at : {"checked", "insert", "update"}, event : Events]
    BY <1>2, <2>1, JobChanges
  <2>3. OutboxShape' /\ RelayOrder'
    BY <1>1, <2>1, <2>2, OutboxFacts, ConsumerShape
  <2>4. outbox_job'[w].event = e /\ outbox_job'[w].at = "checked" /\ ~Outboxes!Working(w)'
    BY <2>2 DEF Outboxes!Working
  <2>5. ConsumerOrder'
    <3>1. Outboxes!NothingSkipped'
      BY <1>1, <1>3, <2>1 DEF Outboxes!NothingSkipped
    <3>2. ASSUME NEW h \in Outboxes!Groups, InFlight(outbox_owner[h])'
          PROVE  /\ outbox_position[h] < Len(outbox_topic)
                 /\ outbox_topic[outbox_position[h] + 1] = outbox_job'[outbox_owner[h]].event
      <4>1. CASE h = g
        BY <1>0, <1>1, <2>4, <4>1
      <4>2. CASE h # g
        <5>1. outbox_owner[h] \in Outboxes!Workers \ {w}
          BY <4>2, OutboxFacts, ListenersApart
        <5>2. outbox_job'[outbox_owner[h]] = outbox_job[outbox_owner[h]] /\ InFlight(outbox_owner[h])
          BY <1>1, <2>2, <3>2, <5>1 DEF InFlight
        <5> QED BY <5>2 DEF OutboxInv, ConsumerOrder
      <4> QED BY <4>1, <4>2
    <3>3. ASSUME NEW o \in NotificationListeners, Outboxes!Working(o)'
          PROVE  outbox_effects["notification"][outbox_job'[o].event] > 0
      <4>1. o \in Outboxes!Workers \ {w}
        BY <2>4, <3>3 DEF Outboxes!Workers
      <4>2. outbox_job'[o] = outbox_job[o] /\ Outboxes!Working(o)
        BY <2>2, <3>3, <4>1 DEF Outboxes!Working
      <4> QED BY <4>2 DEF OutboxInv, ConsumerOrder
    <3> QED BY <1>1, <2>1, <3>1, <3>2, <3>3 DEF OutboxInv, ConsumerOrder, InFlight
  <2>6. BilledOnceSoFar'
    <3>1. ASSUME NEW o \in BillingSyncListeners, InFlight(o)', outbox_owner["billing-sync"] # o
          PROVE  <<"billing-sync", outbox_job'[o].event>> \in outbox_overlapped
      <4>1. o # w
        <5>1. "billing-sync" \in Outboxes!Groups /\ o \in Outboxes!Listeners("billing-sync")
          BY DEF Outboxes!Groups, Outboxes!Listeners
        <5> QED BY <1>1, <3>1, <5>1, ListenersApart
      <4>2. outbox_job'[o] = outbox_job[o] /\ InFlight(o)
        BY <2>2, <3>1, <4>1 DEF InFlight, Outboxes!Workers
      <4> QED BY <3>1, <4>2 DEF OutboxInv, BilledOnceSoFar
    <3>2. ASSUME NEW d \in Events, <<"billing-sync", d>> \notin outbox_overlapped,
                 NEW o \in BillingSyncListeners, InFlight(o)', outbox_job'[o].event = d
          PROVE  <<"billing-sync", d>> \notin outbox_processed /\ outbox_job'[o].at # "update"
      <4>1. CASE o = w
        <5>1. "billing-sync" \in Outboxes!Groups /\ o \in Outboxes!Listeners("billing-sync")
          BY DEF Outboxes!Groups, Outboxes!Listeners
        <5>2. g = "billing-sync"
          BY <4>1, <5>1, ListenersApart
        <5> QED BY <1>5, <2>4, <3>2, <4>1, <5>2
      <4>2. CASE o # w
        <5>1. outbox_job'[o] = outbox_job[o] /\ InFlight(o)
          BY <2>2, <3>2, <4>2 DEF InFlight, Outboxes!Workers
        <5> QED BY <3>2, <5>1 DEF OutboxInv, BilledOnceSoFar
      <4> QED BY <4>1, <4>2
    <3> QED BY <1>1, <3>1, <3>2 DEF OutboxInv, BilledOnceSoFar, InFlight
  <2> QED BY <2>3, <2>5, <2>6 DEF OutboxInv
<1> QED BY <1>4, <1>5

\* A listener begins to work: it looks for the row of its event once more.
LEMMA WorkStep ==
  ASSUME OutboxInv, NEW g \in Outboxes!Groups, NEW w \in Outboxes!Listeners(g),
         Outboxes!Work(g, w)
  PROVE  OutboxInv'
<1>0. PICK e : e = outbox_job[w].event
  OBVIOUS
<1>1. /\ outbox_job[w].at = "checked"
      /\ outbox_job' = [outbox_job EXCEPT ![w].at =
                          IF <<g, e>> \in outbox_processed THEN "update" ELSE "insert"]
      /\ outbox_effects' = IF g = "notification" THEN [outbox_effects EXCEPT ![g][e] = @ + 1]
                                                 ELSE outbox_effects
      /\ UNCHANGED <<outbox_created, outbox_committed, outbox_published, outbox_batch,
           outbox_acked, outbox_failed, outbox_topic, outbox_offset, outbox_owner,
           outbox_position, outbox_tries, outbox_overlapped, outbox_processed, outbox_dead,
           outbox_faults>>
  BY <1>0 DEF Outboxes!Work, Outboxes!table, Outboxes!relay, Outboxes!cursor
<1>2. w \in Outboxes!Workers /\ InFlight(w) /\ e \in Events
  <2>1. w \in Outboxes!Workers
    BY ListenersApart
  <2>2. InFlight(w)
    BY <1>1 DEF InFlight, Outboxes!Idle
  <2> QED BY <1>0, <2>1, <2>2, OutboxFacts
<1> DEFINE v == [at |-> IF <<g, e>> \in outbox_processed THEN "update" ELSE "insert", event |-> e]
<1>3. outbox_job' = [outbox_job EXCEPT ![w] = v]
  <2>1. outbox_job[w] \in [at : {"checked", "insert", "update"}, event : Events]
    BY <1>2, OutboxFacts DEF InFlight
  <2>2. [outbox_job[w] EXCEPT !.at =
            IF <<g, e>> \in outbox_processed THEN "update" ELSE "insert"] = v
    BY <1>0, <2>1
  <2> QED BY <1>1, <2>2
<1>4. /\ DOMAIN outbox_job' = Outboxes!Workers /\ outbox_job'[w] = v
      /\ \A o \in Outboxes!Workers \ {w} : outbox_job'[o] = outbox_job[o]
      /\ \A o \in Outboxes!Workers : outbox_job'[o] \in
           {Outboxes!Idle} \cup [at : {"checked", "insert", "update"}, event : Events]
  BY <1>2, <1>3, JobChanges
<1>5. /\ outbox_effects' \in [Outboxes!Groups -> [Events -> Nat]]
      /\ \A h \in Outboxes!Groups, d \in Events : outbox_effects'[h][d] >= outbox_effects[h][d]
      /\ g = "notification" => outbox_effects'["notification"][e] > 0
      /\ outbox_effects'["billing-sync"] = outbox_effects["billing-sync"]
  <2>1. outbox_effects \in [Outboxes!Groups -> [Events -> Nat]]
    BY OutboxFacts
  <2>2. "billing-sync" \in Outboxes!Groups /\ "notification" \in Outboxes!Groups
    BY DEF Outboxes!Groups
  <2>3. outbox_effects[g][e] \in Nat
    BY <1>2, <2>1
  <2> QED BY <1>1, <1>2, <2>1, <2>2, <2>3
<1>6. OutboxShape' /\ RelayOrder'
  BY <1>1, <1>4, <1>5, OutboxFacts, ConsumerShape
<1>7. \A o \in Outboxes!Workers :
        /\ InFlight(o)' => InFlight(o) /\ outbox_job'[o].event = outbox_job[o].event
        /\ o # w /\ Outboxes!Working(o)' => Outboxes!Working(o)
  BY <1>0, <1>2, <1>4 DEF InFlight, Outboxes!Working
<1>8. ConsumerOrder'
  <2>1. Outboxes!NothingSkipped'
    BY <1>1, <1>5, HandledStays DEF Outboxes!NothingSkipped
  <2>2. ASSUME NEW h \in Outboxes!Groups, InFlight(outbox_owner[h])'
        PROVE  /\ outbox_position[h] < Len(outbox_topic)
               /\ outbox_topic[outbox_position[h] + 1] = outbox_job'[outbox_owner[h]].event
    <3>1. outbox_owner[h] \in Outboxes!Workers
      BY OutboxFacts, ListenersApart
    <3>2. InFlight(outbox_owner[h]) /\ outbox_job'[outbox_owner[h]].event = outbox_job[outbox_owner[h]].event
      BY <1>1, <1>7, <2>2, <3>1 DEF InFlight
    <3> QED BY <3>2 DEF OutboxInv, ConsumerOrder
  <2>3. ASSUME NEW o \in NotificationListeners, Outboxes!Working(o)'
        PROVE  outbox_effects'["notification"][outbox_job'[o].event] > 0
    <3>0. "notification" \in Outboxes!Groups /\ o \in Outboxes!Listeners("notification")
          /\ o \in Outboxes!Workers
      BY DEF Outboxes!Groups, Outboxes!Listeners, Outboxes!Workers
    <3>1. CASE o = w
      <4>1. g = "notification"
        BY <3>0, <3>1, ListenersApart
      <4> QED BY <1>4, <1>5, <3>1, <4>1
    <3>2. CASE o # w
      <4>1. outbox_job'[o] = outbox_job[o] /\ Outboxes!Working(o) /\ outbox_job[o].event \in Events
        <5>1. outbox_job'[o] = outbox_job[o] /\ Outboxes!Working(o)
          BY <1>4, <1>7, <2>3, <3>0, <3>2
        <5>2. InFlight(o)
          BY <5>1 DEF InFlight, Outboxes!Working, Outboxes!Idle
        <5> QED BY <3>0, <5>1, <5>2, OutboxFacts
      <4>2. outbox_effects["notification"][outbox_job[o].event] > 0
        BY <4>1 DEF OutboxInv, ConsumerOrder
      <4>3. PICK d \in Events : d = outbox_job[o].event
        BY <4>1
      <4>4. /\ outbox_effects["notification"][d] \in Nat /\ outbox_effects'["notification"][d] \in Nat
            /\ outbox_effects'["notification"][d] >= outbox_effects["notification"][d]
        BY <1>5, <3>0, OutboxFacts
      <4> QED BY <4>1, <4>2, <4>3, <4>4
    <3> QED BY <3>1, <3>2
  <2>4. ASSUME NEW h \in Outboxes!Groups, NEW d \in Events, <<h, d>> \in outbox_processed
        PROVE  outbox_effects'[h][d] > 0
    <3>1. outbox_effects[h][d] > 0
      BY <2>4 DEF OutboxInv, ConsumerOrder
    <3>2. outbox_effects[h][d] \in Nat /\ outbox_effects'[h][d] \in Nat
      BY <1>5, OutboxFacts
    <3>3. outbox_effects'[h][d] >= outbox_effects[h][d]
      BY <1>5
    <3> QED BY <3>1, <3>2, <3>3
  <2> QED BY <1>1, <2>1, <2>2, <2>3, <2>4 DEF OutboxInv, ConsumerOrder, InFlight
<1>9. BilledOnceSoFar'
  <2>0. \A o \in BillingSyncListeners : o \in Outboxes!Workers /\ o \in Outboxes!Listeners("billing-sync")
        /\ "billing-sync" \in Outboxes!Groups
    BY DEF Outboxes!Workers, Outboxes!Groups, Outboxes!Listeners
  <2>1. ASSUME NEW o \in BillingSyncListeners, InFlight(o)', outbox_owner["billing-sync"] # o
        PROVE  <<"billing-sync", outbox_job'[o].event>> \in outbox_overlapped
    BY <1>7, <2>0, <2>1 DEF OutboxInv, BilledOnceSoFar
  <2>2. ASSUME NEW d \in Events, <<"billing-sync", d>> \notin outbox_overlapped,
               NEW o \in BillingSyncListeners, InFlight(o)', outbox_job'[o].event = d
        PROVE  <<"billing-sync", d>> \notin outbox_processed /\ outbox_job'[o].at # "update"
    <3>1. InFlight(o) /\ outbox_job[o].event = d
      BY <1>7, <2>0, <2>2
    <3>2. <<"billing-sync", d>> \notin outbox_processed /\ outbox_job[o].at # "update"
      BY <2>2, <3>1 DEF OutboxInv, BilledOnceSoFar
    <3>3. CASE o = w
      <4>1. g = "billing-sync"
        BY <2>0, <3>3, ListenersApart
      <4> QED BY <1>0, <1>4, <3>1, <3>2, <3>3, <4>1
    <3>4. CASE o # w
      BY <1>4, <2>0, <3>2, <3>4
    <3> QED BY <3>3, <3>4
  <2> QED BY <1>1, <1>5, <2>1, <2>2 DEF OutboxInv, BilledOnceSoFar, InFlight
<1> QED BY <1>6, <1>8, <1>9 DEF OutboxInv

\* The listener that commits did the work for its event.
LEMMA DoneStep ==
  ASSUME OutboxInv, NEW g \in Outboxes!Groups, NEW w \in Outboxes!Listeners(g),
         Outboxes!Done(g, w)
  PROVE  OutboxInv'
<1>0. PICK e : e = outbox_job[w].event
  OBVIOUS
<1>1. /\ Outboxes!Working(w)
      /\ outbox_job' = [outbox_job EXCEPT ![w] = Outboxes!Idle]
      /\ outbox_processed' = outbox_processed \cup {<<g, e>>}
      /\ outbox_effects' = IF g = "billing-sync" THEN [outbox_effects EXCEPT ![g][e] = @ + 1]
                                                 ELSE outbox_effects
      /\ IF outbox_owner[g] = w THEN Outboxes!Advance(g)
                                ELSE UNCHANGED <<outbox_position, outbox_tries>>
      /\ UNCHANGED <<outbox_created, outbox_committed, outbox_published, outbox_batch,
           outbox_acked, outbox_failed, outbox_topic, outbox_offset, outbox_owner,
           outbox_overlapped, outbox_dead, outbox_faults>>
  BY <1>0 DEF Outboxes!Done, Outboxes!Settle, Outboxes!table, Outboxes!relay
<1>2. w \in Outboxes!Workers /\ InFlight(w) /\ e \in Events
  <2>1. w \in Outboxes!Workers
    BY ListenersApart
  <2>2. InFlight(w)
    BY <1>1 DEF InFlight, Outboxes!Working, Outboxes!Idle
  <2> QED BY <1>0, <2>1, <2>2, OutboxFacts
<1>3. /\ DOMAIN outbox_job' = Outboxes!Workers /\ outbox_job'[w] = Outboxes!Idle
      /\ \A o \in Outboxes!Workers \ {w} : outbox_job'[o] = outbox_job[o]
      /\ \A o \in Outboxes!Workers : outbox_job'[o] \in
           {Outboxes!Idle} \cup [at : {"checked", "insert", "update"}, event : Events]
  BY <1>1, JobChanges
<1>4. \A o \in Outboxes!Workers : InFlight(o)' => o # w /\ InFlight(o) /\ outbox_job'[o] = outbox_job[o]
  BY <1>3 DEF InFlight
<1>5. /\ outbox_effects' \in [Outboxes!Groups -> [Events -> Nat]]
      /\ \A h \in Outboxes!Groups, d \in Events : outbox_effects'[h][d] >= outbox_effects[h][d]
      /\ g = "billing-sync" => outbox_effects'["billing-sync"][e] = outbox_effects["billing-sync"][e] + 1
      /\ \A d \in Events : d # e \/ g # "billing-sync" =>
           outbox_effects'["billing-sync"][d] = outbox_effects["billing-sync"][d]
      /\ outbox_effects'[g][e] > 0
  <2>1. outbox_effects \in [Outboxes!Groups -> [Events -> Nat]]
    BY OutboxFacts
  <2>2. "billing-sync" \in Outboxes!Groups /\ "notification" \in Outboxes!Groups
    BY DEF Outboxes!Groups
  <2>3. outbox_effects[g][e] \in Nat
    BY <1>2, <2>1
  <2>4. CASE g = "billing-sync"
    BY <1>1, <1>2, <2>1, <2>2, <2>3, <2>4
  <2>5. CASE g = "notification"
    <3>1. w \in NotificationListeners
      BY <2>5 DEF Outboxes!Listeners
    <3>2. outbox_effects[g][e] > 0
      BY <1>0, <1>1, <2>5, <3>1 DEF OutboxInv, ConsumerOrder
    <3> QED BY <1>1, <2>1, <2>5, <3>2
  <2> QED BY <2>4, <2>5 DEF Outboxes!Groups
<1>6. outbox_owner[g] = w => /\ outbox_position[g] < Len(outbox_topic)
                             /\ outbox_topic[outbox_position[g] + 1] = e
  BY <1>0, <1>2 DEF OutboxInv, ConsumerOrder
<1>7. /\ outbox_position' \in [Outboxes!Groups -> 0..Len(outbox_topic)]
      /\ outbox_tries' \in [Outboxes!Groups -> 0..(MaxAttempts - 1)]
      /\ \A h \in Outboxes!Groups : outbox_position[h] <= outbox_position'[h]
      /\ \A h \in Outboxes!Groups :
           \/ outbox_position'[h] = outbox_position[h]
           \/ /\ h = g /\ outbox_owner[g] = w
              /\ \A i \in 1..outbox_position'[g] :
                   i \in 1..outbox_position[g] \/ i = outbox_position[g] + 1
  <2>1. CASE outbox_owner[g] = w
    <3>1. /\ outbox_position' \in [Outboxes!Groups -> 0..Len(outbox_topic)]
          /\ outbox_tries' \in [Outboxes!Groups -> 0..(MaxAttempts - 1)]
          /\ outbox_position'[g] = outbox_position[g] + 1 /\ outbox_position[g] \in Nat
          /\ \A h \in Outboxes!Groups \ {g} : outbox_position'[h] = outbox_position[h]
          /\ \A i \in 1..outbox_position'[g] : i \in 1..outbox_position[g] \/ i = outbox_position[g] + 1
      BY <1>1, <1>6, <2>1, PassedMore
    <3>2. \A h \in Outboxes!Groups : outbox_position[h] \in Nat
      BY OutboxFacts
    <3>3. \A h \in Outboxes!Groups : outbox_position[h] <= outbox_position'[h]
      BY <3>1, <3>2
    <3> QED BY <2>1, <3>1, <3>3
  <2>2. CASE outbox_owner[g] # w
    <3>1. outbox_position' = outbox_position /\ outbox_tries' = outbox_tries
      BY <1>1, <2>2
    <3>2. \A h \in Outboxes!Groups : outbox_position[h] \in Nat
      BY OutboxFacts
    <3> QED BY <3>1, <3>2, OutboxFacts
  <2> QED BY <2>1, <2>2
<1>8. outbox_processed' \subseteq Outboxes!Groups \X Events
  BY <1>1, <1>2, OutboxFacts
<1>9. OutboxShape' /\ RelayOrder'
  <2>1. outbox_overlapped \cup outbox_processed' \cup outbox_dead \subseteq Outboxes!Groups \X Events
    BY <1>8, OutboxFacts
  <2> QED BY <1>1, <1>3, <1>5, <1>7, <2>1, OutboxFacts, ConsumerShape
<1>10. ConsumerOrder'
  <2>1. Outboxes!NothingSkipped'
    <3>1. Outboxes!Handled(g, e)'
      BY <1>1, <1>5 DEF Outboxes!Handled
    <3>2. \A h \in Outboxes!Groups : \A i \in 1..outbox_position[h] :
            Outboxes!Handled(h, outbox_topic[i])'
      BY <1>1, <1>5, HandledStays
    <3>3. ASSUME NEW h \in Outboxes!Groups, NEW i \in 1..outbox_position'[h]
          PROVE  Outboxes!Handled(h, outbox_topic[i])'
      <4>1. CASE outbox_position'[h] = outbox_position[h]
        BY <3>2, <4>1
      <4>2. CASE h = g /\ outbox_owner[g] = w /\ i \in 1..outbox_position[g]
        BY <3>2, <4>2
      <4>3. CASE h = g /\ outbox_owner[g] = w /\ i = outbox_position[g] + 1
        BY <1>1, <1>6, <3>1, <4>3 DEF Outboxes!Handled
      <4> QED BY <1>7, <4>1, <4>2, <4>3
    <3> QED BY <3>3 DEF Outboxes!NothingSkipped
  <2>2. ASSUME NEW h \in Outboxes!Groups, InFlight(outbox_owner[h])'
        PROVE  /\ outbox_position'[h] < Len(outbox_topic)
               /\ outbox_topic[outbox_position'[h] + 1] = outbox_job'[outbox_owner[h]].event
    <3>1. outbox_owner[h] \in Outboxes!Workers
      BY OutboxFacts, ListenersApart
    <3>2. outbox_owner[h] # w /\ InFlight(outbox_owner[h])
          /\ outbox_job'[outbox_owner[h]] = outbox_job[outbox_owner[h]]
      BY <1>1, <1>4, <2>2, <3>1 DEF InFlight
    <3>3. outbox_position'[h] = outbox_position[h]
      BY <1>7, <3>2
    <3> QED BY <3>2, <3>3 DEF OutboxInv, ConsumerOrder
  <2>3. ASSUME NEW o \in NotificationListeners, Outboxes!Working(o)'
        PROVE  outbox_effects'["notification"][outbox_job'[o].event] > 0
    <3>0. o \in Outboxes!Workers /\ "notification" \in Outboxes!Groups
      BY DEF Outboxes!Workers, Outboxes!Groups
    <3>1. InFlight(o)'
      BY <2>3 DEF InFlight, Outboxes!Working, Outboxes!Idle
    <3>2. InFlight(o) /\ outbox_job'[o] = outbox_job[o]
      BY <1>4, <3>0, <3>1
    <3>3. Outboxes!Working(o)
      BY <2>3, <3>2 DEF Outboxes!Working
    <3>4. outbox_job[o].event \in Events
      BY <3>0, <3>2, OutboxFacts
    <3>5. outbox_effects["notification"][outbox_job[o].event] > 0
      BY <3>3 DEF OutboxInv, ConsumerOrder
    <3>6. PICK d \in Events : d = outbox_job[o].event
      BY <3>4
    <3>7. /\ outbox_effects["notification"][d] \in Nat /\ outbox_effects'["notification"][d] \in Nat
          /\ outbox_effects'["notification"][d] >= outbox_effects["notification"][d]
      BY <1>5, <3>0, OutboxFacts
    <3> QED BY <3>2, <3>5, <3>6, <3>7
  <2>4. ASSUME NEW h \in Outboxes!Groups, NEW d \in Events, <<h, d>> \in outbox_processed'
        PROVE  outbox_effects'[h][d] > 0
    <3>1. CASE h = g /\ d = e
      BY <1>5, <3>1
    <3>2. CASE ~(h = g /\ d = e)
      <4>1. outbox_effects[h][d] > 0
        BY <1>1, <2>4, <3>2 DEF OutboxInv, ConsumerOrder
      <4>2. /\ outbox_effects[h][d] \in Nat /\ outbox_effects'[h][d] \in Nat
            /\ outbox_effects'[h][d] >= outbox_effects[h][d]
        BY <1>5, OutboxFacts
      <4> QED BY <4>1, <4>2
    <3> QED BY <3>1, <3>2
  <2>5. \A h \in Outboxes!Groups : outbox_offset[h] <= outbox_position'[h]
    <3>1. \A h \in Outboxes!Groups : outbox_offset[h] \in Nat /\ outbox_position[h] \in Nat
            /\ outbox_position'[h] \in Nat /\ outbox_offset[h] <= outbox_position[h]
      BY <1>7, OutboxFacts DEF OutboxInv, ConsumerOrder
    <3> QED BY <1>7, <3>1
  <2> QED BY <1>1, <2>1, <2>2, <2>3, <2>4, <2>5 DEF ConsumerOrder, InFlight
<1>11. BilledOnceSoFar'
  <2>0. \A o \in BillingSyncListeners : o \in Outboxes!Workers
    BY DEF Outboxes!Workers
  <2>1. ASSUME NEW o \in BillingSyncListeners, InFlight(o)', outbox_owner["billing-sync"] # o
        PROVE  <<"billing-sync", outbox_job'[o].event>> \in outbox_overlapped
    BY <1>4, <2>0, <2>1 DEF OutboxInv, BilledOnceSoFar
  <2>2. ASSUME NEW d \in Events, <<"billing-sync", d>> \notin outbox_overlapped
        PROVE  /\ outbox_effects'["billing-sync"][d] <= 1
               /\ <<"billing-sync", d>> \notin outbox_processed' =>
                    outbox_effects'["billing-sync"][d] = 0
               /\ \A o \in BillingSyncListeners : InFlight(o)' /\ outbox_job'[o].event = d =>
                    <<"billing-sync", d>> \notin outbox_processed' /\ outbox_job'[o].at # "update"
    <3>1. CASE g = "billing-sync" /\ d = e
      <4>1. w \in BillingSyncListeners
        BY <3>1 DEF Outboxes!Listeners
      <4>2. outbox_effects["billing-sync"][e] = 0
        BY <1>0, <1>2, <2>2, <3>1, <4>1 DEF OutboxInv, BilledOnceSoFar
      <4>3. \A o \in BillingSyncListeners : ~(InFlight(o)' /\ outbox_job'[o].event = d)
        BY <1>0, <1>2, <1>4, <2>0, <2>2, <3>1, <4>1 DEF OutboxInv, BilledOnceSoFar
      <4> QED BY <1>1, <1>5, <3>1, <4>2, <4>3
    <3>2. CASE ~(g = "billing-sync" /\ d = e)
      <4>1. outbox_effects'["billing-sync"][d] = outbox_effects["billing-sync"][d]
        BY <1>5, <3>2
      <4>2. <<"billing-sync", d>> \in outbox_processed' <=> <<"billing-sync", d>> \in outbox_processed
        BY <1>1, <3>2
      <4> QED BY <1>4, <2>0, <2>2, <4>1, <4>2 DEF OutboxInv, BilledOnceSoFar
    <3> QED BY <3>1, <3>2
  <2>3. outbox_owner' = outbox_owner /\ outbox_overlapped' = outbox_overlapped
    BY <1>1
  <2> QED BY <2>1, <2>2, <2>3 DEF BilledOnceSoFar, InFlight
<1> QED BY <1>9, <1>10, <1>11 DEF OutboxInv

\* A step that gives the work of one listener up, and writes nothing.
LEMMA GivenUp ==
  ASSUME OutboxInv, NEW g \in Outboxes!Groups, NEW w \in Outboxes!Listeners(g),
         outbox_job' = [outbox_job EXCEPT ![w] = Outboxes!Idle],
         outbox_position' \in [Outboxes!Groups -> 0..Len(outbox_topic)],
         outbox_offset' \in [Outboxes!Groups -> 0..Len(outbox_topic)],
         outbox_tries' \in [Outboxes!Groups -> 0..(MaxAttempts - 1)],
         \A h \in Outboxes!Groups : outbox_offset'[h] <= outbox_position'[h],
         \A h \in Outboxes!Groups :
           outbox_position'[h] = outbox_position[h] \/ (h = g /\ outbox_owner[g] = w),
         outbox_dead' \subseteq Outboxes!Groups \X Events, outbox_dead \subseteq outbox_dead',
         \A h \in Outboxes!Groups : \A i \in 1..outbox_position'[h] :
           i \in 1..outbox_position[h] \/ <<h, outbox_topic[i]>> \in outbox_dead',
         outbox_faults' \in 0..MaxFaults,
         UNCHANGED <<outbox_created, outbox_committed, outbox_published, outbox_batch,
           outbox_acked, outbox_failed, outbox_topic, outbox_owner, outbox_overlapped,
           outbox_processed, outbox_effects>>
  PROVE  OutboxInv'
<1>3. /\ DOMAIN outbox_job' = Outboxes!Workers /\ outbox_job'[w] = Outboxes!Idle
      /\ \A o \in Outboxes!Workers \ {w} : outbox_job'[o] = outbox_job[o]
      /\ \A o \in Outboxes!Workers : outbox_job'[o] \in
           {Outboxes!Idle} \cup [at : {"checked", "insert", "update"}, event : Events]
  BY JobChanges
<1>4. \A o \in Outboxes!Workers :
        /\ InFlight(o)' => o # w /\ InFlight(o) /\ outbox_job'[o] = outbox_job[o]
        /\ Outboxes!Working(o)' => Outboxes!Working(o) /\ outbox_job'[o] = outbox_job[o]
  BY <1>3 DEF InFlight, Outboxes!Working, Outboxes!Idle
<1>9. OutboxShape' /\ RelayOrder'
  <2>1. outbox_overlapped \cup outbox_processed \cup outbox_dead' \subseteq Outboxes!Groups \X Events
    BY OutboxFacts
  <2> QED BY <1>3, <2>1, OutboxFacts, ConsumerShape
<1>10. ConsumerOrder'
  <2>1. Outboxes!NothingSkipped'
    <3>1. ASSUME NEW h \in Outboxes!Groups, NEW d \in Events
         PROVE  outbox_effects[h][d] >= outbox_effects[h][d]
      <4>1. outbox_effects[h][d] \in Nat
        BY OutboxFacts
      <4> QED BY <4>1
    <3>2. \A h \in Outboxes!Groups : \A i \in 1..outbox_position[h] :
            Outboxes!Handled(h, outbox_topic[i])'
      BY <3>1, OutboxFacts, HandledStays
    <3> QED BY <3>2 DEF Outboxes!NothingSkipped, Outboxes!Handled
  <2>2. ASSUME NEW h \in Outboxes!Groups, InFlight(outbox_owner[h])'
        PROVE  /\ outbox_position'[h] < Len(outbox_topic)
               /\ outbox_topic[outbox_position'[h] + 1] = outbox_job'[outbox_owner[h]].event
    <3>1. outbox_owner[h] \in Outboxes!Workers
      BY OutboxFacts, ListenersApart
    <3>2. outbox_owner[h] # w /\ InFlight(outbox_owner[h])
          /\ outbox_job'[outbox_owner[h]] = outbox_job[outbox_owner[h]]
      BY <1>4, <2>2, <3>1 DEF InFlight
    <3>3. outbox_position'[h] = outbox_position[h]
      BY <3>2
    <3> QED BY <3>2, <3>3 DEF OutboxInv, ConsumerOrder
  <2>3. ASSUME NEW o \in NotificationListeners, Outboxes!Working(o)'
        PROVE  outbox_effects["notification"][outbox_job'[o].event] > 0
    <3>0. o \in Outboxes!Workers
      BY DEF Outboxes!Workers
    <3> QED BY <1>4, <2>3, <3>0 DEF OutboxInv, ConsumerOrder
  <2> QED BY <2>1, <2>2, <2>3 DEF OutboxInv, ConsumerOrder, InFlight
<1>11. BilledOnceSoFar'
  <2>0. \A o \in BillingSyncListeners : o \in Outboxes!Workers
    BY DEF Outboxes!Workers
  <2>1. ASSUME NEW o \in BillingSyncListeners, InFlight(o)', outbox_owner["billing-sync"] # o
        PROVE  <<"billing-sync", outbox_job'[o].event>> \in outbox_overlapped
    BY <1>4, <2>0, <2>1 DEF OutboxInv, BilledOnceSoFar
  <2>2. ASSUME NEW d \in Events, <<"billing-sync", d>> \notin outbox_overlapped
        PROVE  \A o \in BillingSyncListeners : InFlight(o)' /\ outbox_job'[o].event = d =>
                 <<"billing-sync", d>> \notin outbox_processed /\ outbox_job'[o].at # "update"
    BY <1>4, <2>0, <2>2 DEF OutboxInv, BilledOnceSoFar
  <2> QED BY <2>1, <2>2 DEF OutboxInv, BilledOnceSoFar, InFlight
<1> QED BY <1>9, <1>10, <1>11 DEF OutboxInv

\* A listener that fails moves on only with a dead letter.
LEMMA FailsStep ==
  ASSUME OutboxInv, NEW g \in Outboxes!Groups, NEW w \in Outboxes!Listeners(g),
         Outboxes!Fails(g, w)
  PROVE  OutboxInv'
<1>0. PICK e : e = outbox_job[w].event
  OBVIOUS
<1>1. /\ InFlight(w)
      /\ outbox_faults' = outbox_faults \/ Outboxes!Fault
      /\ outbox_job' = [outbox_job EXCEPT ![w] = Outboxes!Idle]
      /\ IF outbox_owner[g] # w
           THEN UNCHANGED <<outbox_position, outbox_tries, outbox_dead>>
         ELSE IF outbox_tries[g] + 1 = MaxAttempts
           THEN outbox_dead' = outbox_dead \cup {<<g, e>>} /\ Outboxes!Advance(g)
         ELSE /\ outbox_tries' = [outbox_tries EXCEPT ![g] = @ + 1]
              /\ UNCHANGED <<outbox_position, outbox_dead>>
      /\ UNCHANGED <<outbox_created, outbox_committed, outbox_published, outbox_batch,
           outbox_acked, outbox_failed, outbox_topic, outbox_offset, outbox_owner,
           outbox_overlapped, outbox_processed, outbox_effects>>
  BY <1>0 DEF Outboxes!Fails, Outboxes!Settle, Outboxes!LastTry, Outboxes!DeadLetter, InFlight,
     Outboxes!table, Outboxes!relay
<1>2. w \in Outboxes!Workers /\ e \in Events
  BY <1>0, <1>1, ListenersApart, OutboxFacts
<1>3. outbox_faults' \in 0..MaxFaults
  BY <1>1, OutboxFacts
<1>4. \A h \in Outboxes!Groups : /\ outbox_offset[h] \in Nat /\ outbox_position[h] \in Nat
                                 /\ outbox_offset[h] <= outbox_position[h]
  BY OutboxFacts DEF OutboxInv, ConsumerOrder
<1>5. CASE outbox_owner[g] # w
  <2>1. /\ outbox_position' = outbox_position /\ outbox_offset' = outbox_offset
        /\ outbox_tries' = outbox_tries /\ outbox_dead' = outbox_dead
    BY <1>1, <1>5
  <2>3. /\ outbox_offset \in [Outboxes!Groups -> 0..Len(outbox_topic)]
        /\ outbox_position \in [Outboxes!Groups -> 0..Len(outbox_topic)]
        /\ outbox_tries \in [Outboxes!Groups -> 0..(MaxAttempts - 1)]
        /\ outbox_dead \subseteq Outboxes!Groups \X Events
    BY OutboxFacts
  <2>2. /\ outbox_position' \in [Outboxes!Groups -> 0..Len(outbox_topic)]
        /\ outbox_offset' \in [Outboxes!Groups -> 0..Len(outbox_topic)]
        /\ outbox_tries' \in [Outboxes!Groups -> 0..(MaxAttempts - 1)]
        /\ \A h \in Outboxes!Groups : outbox_offset'[h] <= outbox_position'[h]
        /\ \A h \in Outboxes!Groups :
             outbox_position'[h] = outbox_position[h] \/ (h = g /\ outbox_owner[g] = w)
        /\ outbox_dead' \subseteq Outboxes!Groups \X Events /\ outbox_dead \subseteq outbox_dead'
    BY <1>4, <2>1, <2>3
  <2>4. ASSUME NEW h \in Outboxes!Groups, NEW i \in 1..outbox_position'[h]
        PROVE  i \in 1..outbox_position[h]
    BY <2>1
  <2> QED BY <1>1, <1>3, <2>2, <2>4, GivenUp
<1>6. CASE outbox_owner[g] = w /\ outbox_tries[g] + 1 = MaxAttempts
  <2>1. outbox_position[g] < Len(outbox_topic) /\ outbox_topic[outbox_position[g] + 1] = e
    BY <1>0, <1>1, <1>6 DEF OutboxInv, ConsumerOrder
  <2>2. Outboxes!Advance(g) /\ outbox_dead' = outbox_dead \cup {<<g, e>>}
    BY <1>1, <1>6
  <2>3. /\ outbox_position' \in [Outboxes!Groups -> 0..Len(outbox_topic)]
        /\ outbox_tries' \in [Outboxes!Groups -> 0..(MaxAttempts - 1)]
        /\ outbox_position'[g] = outbox_position[g] + 1 /\ outbox_position[g] \in Nat
        /\ \A h \in Outboxes!Groups \ {g} : outbox_position'[h] = outbox_position[h]
        /\ \A i \in 1..outbox_position'[g] : i \in 1..outbox_position[g] \/ i = outbox_position[g] + 1
    BY <2>1, <2>2, PassedMore
  <2>4. outbox_dead' \subseteq Outboxes!Groups \X Events /\ outbox_dead \subseteq outbox_dead'
    BY <1>2, <2>2, OutboxFacts
  <2>5. \A h \in Outboxes!Groups : outbox_offset[h] <= outbox_position'[h]
    BY <1>4, <2>3
  <2>6. \A h \in Outboxes!Groups : \A i \in 1..outbox_position'[h] :
          i \in 1..outbox_position[h] \/ <<h, outbox_topic[i]>> \in outbox_dead'
    BY <2>1, <2>2, <2>3
  <2>7. \A h \in Outboxes!Groups :
          outbox_position'[h] = outbox_position[h] \/ (h = g /\ outbox_owner[g] = w)
    BY <1>6, <2>3
  <2>8. outbox_offset' \in [Outboxes!Groups -> 0..Len(outbox_topic)] /\ outbox_offset' = outbox_offset
    BY <1>1, OutboxFacts
  <2> QED BY <1>1, <1>3, <2>3, <2>4, <2>5, <2>6, <2>7, <2>8, GivenUp
<1>7. CASE outbox_owner[g] = w /\ outbox_tries[g] + 1 # MaxAttempts
  <2>1. /\ outbox_tries' = [outbox_tries EXCEPT ![g] = @ + 1]
        /\ UNCHANGED <<outbox_position, outbox_dead>>
    BY <1>1, <1>7
  <2>2. outbox_tries' \in [Outboxes!Groups -> 0..(MaxAttempts - 1)]
    <3>1. outbox_tries[g] \in 0..(MaxAttempts - 1) /\ MaxAttempts \in Nat \ {0}
      BY OutboxFacts
    <3>2. outbox_tries[g] + 1 \in 0..(MaxAttempts - 1)
      BY <1>7, <3>1
    <3> QED BY <2>1, <3>2, OutboxFacts
  <2>3. /\ outbox_position' \in [Outboxes!Groups -> 0..Len(outbox_topic)]
        /\ outbox_offset' \in [Outboxes!Groups -> 0..Len(outbox_topic)]
        /\ outbox_tries' \in [Outboxes!Groups -> 0..(MaxAttempts - 1)]
        /\ \A h \in Outboxes!Groups : outbox_offset'[h] <= outbox_position'[h]
        /\ \A h \in Outboxes!Groups :
             outbox_position'[h] = outbox_position[h] \/ (h = g /\ outbox_owner[g] = w)
        /\ \A h \in Outboxes!Groups : \A i \in 1..outbox_position'[h] :
             i \in 1..outbox_position[h] \/ <<h, outbox_topic[i]>> \in outbox_dead'
        /\ outbox_dead' \subseteq Outboxes!Groups \X Events /\ outbox_dead \subseteq outbox_dead'
    BY <1>1, <1>4, <2>1, <2>2, OutboxFacts
  <2> QED BY <1>1, <1>3, <2>3, GivenUp
<1> QED BY <1>5, <1>6, <1>7

\* Whoever takes the partition goes back, never on.
LEMMA ResumeFacts ==
  ASSUME OutboxInv, NEW g \in Outboxes!Groups, Outboxes!Resume(g)
  PROVE  /\ outbox_position' \in [Outboxes!Groups -> 0..Len(outbox_topic)]
         /\ outbox_offset' \in [Outboxes!Groups -> 0..Len(outbox_topic)]
         /\ outbox_tries' \in [Outboxes!Groups -> 0..(MaxAttempts - 1)]
         /\ \A h \in Outboxes!Groups : outbox_offset'[h] <= outbox_position'[h]
         /\ \A h \in Outboxes!Groups \ {g} : outbox_position'[h] = outbox_position[h]
         /\ \A h \in Outboxes!Groups : \A i \in 1..outbox_position'[h] : i \in 1..outbox_position[h]
<1>1. PICK n \in outbox_offset[g]..outbox_position[g] :
        /\ outbox_offset' = [outbox_offset EXCEPT ![g] = n]
        /\ outbox_position' = [outbox_position EXCEPT ![g] = n]
        /\ outbox_tries' = [outbox_tries EXCEPT ![g] = 0]
  BY DEF Outboxes!Resume
<1>2. /\ outbox_offset \in [Outboxes!Groups -> 0..Len(outbox_topic)]
      /\ outbox_position \in [Outboxes!Groups -> 0..Len(outbox_topic)]
      /\ outbox_tries \in [Outboxes!Groups -> 0..(MaxAttempts - 1)]
      /\ Len(outbox_topic) \in Nat /\ MaxAttempts \in Nat \ {0}
  BY OutboxFacts
<1>3. \A h \in Outboxes!Groups : /\ outbox_offset[h] \in Nat /\ outbox_position[h] \in Nat
                                 /\ outbox_offset[h] <= outbox_position[h]
  BY <1>2 DEF OutboxInv, ConsumerOrder
<1>4. n \in 0..Len(outbox_topic) /\ n <= outbox_position[g]
  BY <1>2, <1>3
<1> QED BY <1>1, <1>2, <1>3, <1>4

\* A listener dies.
LEMMA WorkerDiesStep ==
  ASSUME OutboxInv, NEW g \in Outboxes!Groups, NEW w \in Outboxes!Listeners(g),
         Outboxes!WorkerDies(g, w)
  PROVE  OutboxInv'
<1>1. /\ Outboxes!Fault /\ outbox_job' = [outbox_job EXCEPT ![w] = Outboxes!Idle]
      /\ IF outbox_owner[g] = w THEN Outboxes!Resume(g)
         ELSE UNCHANGED <<outbox_offset, outbox_position, outbox_tries>>
      /\ UNCHANGED <<outbox_created, outbox_committed, outbox_published, outbox_batch,
           outbox_acked, outbox_failed, outbox_topic, outbox_owner, outbox_overlapped,
           outbox_processed, outbox_effects, outbox_dead>>
  BY DEF Outboxes!WorkerDies, Outboxes!Settle, Outboxes!table, Outboxes!relay, Outboxes!results
<1>2. outbox_faults' \in 0..MaxFaults /\ outbox_dead \subseteq Outboxes!Groups \X Events
  BY <1>1, OutboxFacts
<1>3. CASE outbox_owner[g] = w
  <2>1. Outboxes!Resume(g)
    BY <1>1, <1>3
  <2>2. /\ outbox_position' \in [Outboxes!Groups -> 0..Len(outbox_topic)]
        /\ outbox_offset' \in [Outboxes!Groups -> 0..Len(outbox_topic)]
        /\ outbox_tries' \in [Outboxes!Groups -> 0..(MaxAttempts - 1)]
        /\ \A h \in Outboxes!Groups : outbox_offset'[h] <= outbox_position'[h]
        /\ \A h \in Outboxes!Groups \ {g} : outbox_position'[h] = outbox_position[h]
        /\ \A h \in Outboxes!Groups : \A i \in 1..outbox_position'[h] : i \in 1..outbox_position[h]
    BY <2>1, ResumeFacts
  <2>3. \A h \in Outboxes!Groups :
          outbox_position'[h] = outbox_position[h] \/ (h = g /\ outbox_owner[g] = w)
    BY <1>3, <2>2
  <2> QED BY <1>1, <1>2, <2>2, <2>3, GivenUp
<1>4. CASE outbox_owner[g] # w
  <2>1. /\ outbox_position' = outbox_position /\ outbox_offset' = outbox_offset
        /\ outbox_tries' = outbox_tries /\ outbox_dead' = outbox_dead
    BY <1>1, <1>4
  <2>2. \A h \in Outboxes!Groups : outbox_offset[h] <= outbox_position[h]
    BY DEF OutboxInv, ConsumerOrder
  <2>4. /\ outbox_offset \in [Outboxes!Groups -> 0..Len(outbox_topic)]
        /\ outbox_position \in [Outboxes!Groups -> 0..Len(outbox_topic)]
        /\ outbox_tries \in [Outboxes!Groups -> 0..(MaxAttempts - 1)]
        /\ outbox_dead \subseteq Outboxes!Groups \X Events
    BY OutboxFacts
  <2>3. /\ outbox_position' \in [Outboxes!Groups -> 0..Len(outbox_topic)]
        /\ outbox_offset' \in [Outboxes!Groups -> 0..Len(outbox_topic)]
        /\ outbox_tries' \in [Outboxes!Groups -> 0..(MaxAttempts - 1)]
        /\ \A h \in Outboxes!Groups : outbox_offset'[h] <= outbox_position'[h]
        /\ \A h \in Outboxes!Groups :
             outbox_position'[h] = outbox_position[h] \/ (h = g /\ outbox_owner[g] = w)
        /\ outbox_dead' \subseteq Outboxes!Groups \X Events /\ outbox_dead \subseteq outbox_dead'
    BY <2>1, <2>2, <2>4
  <2>5. ASSUME NEW h \in Outboxes!Groups, NEW i \in 1..outbox_position'[h]
        PROVE  i \in 1..outbox_position[h]
    BY <2>1
  <2> QED BY <1>1, <1>2, <2>3, <2>5, GivenUp
<1> QED BY <1>3, <1>4

\* The partition changes hands: what its owner was in the middle of is remembered.
LEMMA RebalanceStep ==
  ASSUME OutboxInv, NEW g \in Outboxes!Groups, NEW w \in Outboxes!Listeners(g),
         Outboxes!Rebalance(g, w)
  PROVE  OutboxInv'
<1> DEFINE old == outbox_owner[g]
<1>1. /\ Outboxes!Fault /\ old # w /\ ~InFlight(w)
      /\ outbox_owner' = [outbox_owner EXCEPT ![g] = w]
      /\ Outboxes!Resume(g)
      /\ outbox_overlapped' = IF ~InFlight(old) THEN outbox_overlapped
                              ELSE outbox_overlapped \cup {<<g, outbox_job[old].event>>}
      /\ UNCHANGED <<outbox_created, outbox_committed, outbox_published, outbox_batch,
           outbox_acked, outbox_failed, outbox_topic, outbox_job, outbox_processed,
           outbox_effects, outbox_dead>>
  BY DEF Outboxes!Rebalance, InFlight, Outboxes!table, Outboxes!relay, Outboxes!results
<1>2. /\ outbox_position' \in [Outboxes!Groups -> 0..Len(outbox_topic)]
      /\ outbox_offset' \in [Outboxes!Groups -> 0..Len(outbox_topic)]
      /\ outbox_tries' \in [Outboxes!Groups -> 0..(MaxAttempts - 1)]
      /\ \A h \in Outboxes!Groups : outbox_offset'[h] <= outbox_position'[h]
      /\ \A h \in Outboxes!Groups \ {g} : outbox_position'[h] = outbox_position[h]
      /\ \A h \in Outboxes!Groups : \A i \in 1..outbox_position'[h] : i \in 1..outbox_position[h]
  BY <1>1, ResumeFacts
<1>3. /\ DOMAIN outbox_owner' = Outboxes!Groups /\ outbox_owner'[g] = w
      /\ \A h \in Outboxes!Groups \ {g} : outbox_owner'[h] = outbox_owner[h]
      /\ \A h \in Outboxes!Groups : outbox_owner'[h] \in Outboxes!Listeners(h)
  BY <1>1, OutboxFacts
<1>4. outbox_overlapped \subseteq outbox_overlapped' /\ outbox_overlapped' \subseteq Outboxes!Groups \X Events
  <2>1. old \in Outboxes!Workers
    BY OutboxFacts, ListenersApart
  <2>2. InFlight(old) => outbox_job[old].event \in Events
    BY <2>1, OutboxFacts
  <2> QED BY <1>1, <2>2, OutboxFacts
<1>5. OutboxShape' /\ RelayOrder'
  <2>1. outbox_overlapped' \cup outbox_processed \cup outbox_dead \subseteq Outboxes!Groups \X Events
    BY <1>4, OutboxFacts
  <2>2. outbox_faults' \in 0..MaxFaults
    BY <1>1, OutboxFacts
  <2> QED BY <1>1, <1>2, <1>3, <2>1, <2>2, OutboxFacts, ConsumerShape
<1>6. ConsumerOrder'
  <2>1. Outboxes!NothingSkipped'
    <3>1. ASSUME NEW h \in Outboxes!Groups, NEW d \in Events
         PROVE  outbox_effects[h][d] >= outbox_effects[h][d]
      <4>1. outbox_effects[h][d] \in Nat
        BY OutboxFacts
      <4> QED BY <4>1
    <3>2. \A h \in Outboxes!Groups : \A i \in 1..outbox_position[h] :
            Outboxes!Handled(h, outbox_topic[i])'
      BY <1>1, <3>1, OutboxFacts, HandledStays
    <3> QED BY <1>2, <3>2 DEF Outboxes!NothingSkipped
  <2>2. ASSUME NEW h \in Outboxes!Groups, outbox_job[outbox_owner'[h]] # Outboxes!Idle
        PROVE  /\ outbox_position'[h] < Len(outbox_topic)
               /\ outbox_topic[outbox_position'[h] + 1] = outbox_job[outbox_owner'[h]].event
    <3>1. h # g
      BY <1>1, <1>3, <2>2 DEF InFlight
    <3>2. outbox_owner'[h] = outbox_owner[h] /\ outbox_position'[h] = outbox_position[h]
      BY <1>2, <1>3, <3>1
    <3> QED BY <2>2, <3>2 DEF OutboxInv, ConsumerOrder, InFlight
  <2>3. \A o \in NotificationListeners :
          Outboxes!Working(o)' => outbox_effects'["notification"][outbox_job'[o].event] > 0
    BY <1>1 DEF OutboxInv, ConsumerOrder, Outboxes!Working
  <2> QED BY <1>1, <1>2, <2>1, <2>2, <2>3 DEF OutboxInv, ConsumerOrder, InFlight
<1>7. BilledOnceSoFar'
  <2>1. ASSUME NEW o \in BillingSyncListeners, InFlight(o), outbox_owner'["billing-sync"] # o
        PROVE  <<"billing-sync", outbox_job[o].event>> \in outbox_overlapped'
    <3>1. CASE outbox_owner["billing-sync"] = o
      <4>1. g = "billing-sync" /\ old = o
        BY <1>3, <2>1, <3>1 DEF Outboxes!Groups
      <4> QED BY <1>1, <2>1, <4>1
    <3>2. CASE outbox_owner["billing-sync"] # o
      BY <1>4, <2>1, <3>2 DEF OutboxInv, BilledOnceSoFar
    <3> QED BY <3>1, <3>2
  <2>2. ASSUME NEW d \in Events, <<"billing-sync", d>> \notin outbox_overlapped'
        PROVE  <<"billing-sync", d>> \notin outbox_overlapped
    BY <1>4, <2>2
  <2> QED BY <1>1, <2>1, <2>2 DEF OutboxInv, BilledOnceSoFar, InFlight
<1> QED BY <1>5, <1>6, <1>7 DEF OutboxInv

\* The invariant holds at the start.
LEMMA OutboxInit == Outboxes!Init => OutboxInv
<1> SUFFICES ASSUME Outboxes!Init PROVE OutboxInv
  OBVIOUS
<1>1. /\ outbox_created = <<>> /\ outbox_committed = <<>>
      /\ outbox_published = {} /\ outbox_failed = {} /\ outbox_topic = <<>>
      /\ outbox_batch = [r \in Relays |-> <<>>] /\ outbox_acked = [r \in Relays |-> FALSE]
      /\ outbox_offset = [g \in Outboxes!Groups |-> 0]
      /\ outbox_position = [g \in Outboxes!Groups |-> 0]
      /\ DOMAIN outbox_owner = Outboxes!Groups
      /\ \A g \in Outboxes!Groups : outbox_owner[g] \in Outboxes!Listeners(g)
      /\ outbox_tries = [g \in Outboxes!Groups |-> 0]
      /\ outbox_job = [w \in Outboxes!Workers |-> Outboxes!Idle]
      /\ outbox_overlapped = {} /\ outbox_processed = {} /\ outbox_dead = {}
      /\ outbox_effects = [g \in Outboxes!Groups |-> [e \in Events |-> 0]]
      /\ outbox_faults = 0
  BY DEF Outboxes!Init
<1>2. MaxAttempts \in Nat \ {0} /\ MaxFaults \in Nat
  BY PlatformAssumption DEF Outboxes!OutboxAssumption
<1>3. <<>> \in Seq(Events) /\ DOMAIN <<>> = {} /\ Len(<<>>) = 0 /\ ToSet(<<>>) = {}
  BY DEF ToSet
<1>4. OutboxShape
  <2>1. Outboxes!TypeOK
    BY <1>1, <1>2, <1>3 DEF Outboxes!TypeOK
  <2> QED BY <1>1, <1>3, <2>1 DEF OutboxShape
<1>5. RelayOrder
  BY <1>1, <1>3 DEF RelayOrder, Outboxes!PublishedIsOnTopic, Outboxes!InOrderUnlessFailed
<1>6. \A w \in Outboxes!Workers : ~InFlight(w) /\ ~Outboxes!Working(w)
  BY <1>1 DEF InFlight, Outboxes!Working, Outboxes!Idle
<1>7. ConsumerOrder
  <2>1. Outboxes!NothingSkipped
    BY <1>1 DEF Outboxes!NothingSkipped
  <2>2. \A g \in Outboxes!Groups : ~InFlight(outbox_owner[g])
    BY <1>1, <1>6, ListenersApart
  <2>3. \A w \in NotificationListeners : ~Outboxes!Working(w)
    BY <1>6 DEF Outboxes!Workers
  <2> QED BY <1>1, <2>1, <2>2, <2>3 DEF ConsumerOrder
<1>8. BilledOnceSoFar
  <2>1. \A w \in BillingSyncListeners : ~InFlight(w)
    BY <1>6 DEF Outboxes!Workers
  <2>2. \A e \in Events : outbox_effects["billing-sync"][e] = 0
    BY <1>1 DEF Outboxes!Groups
  <2> QED BY <1>1, <2>1, <2>2 DEF BilledOnceSoFar
<1> QED BY <1>4, <1>5, <1>7, <1>8 DEF OutboxInv

\* So every step keeps the invariant of the outbox.
LEMMA OutboxStep == OutboxInv /\ [Outboxes!Next]_outbox => OutboxInv'
<1> SUFFICES ASSUME OutboxInv, [Outboxes!Next]_outbox PROVE OutboxInv'
  OBVIOUS
<1>1. ASSUME NEW e \in Events, Outboxes!Write(e) \/ Outboxes!Commit(e)
      PROVE  OutboxInv'
  BY <1>1, WriteStep, CommitStep
<1>2. ASSUME NEW r \in Relays,
             Outboxes!RelayStep(r) \/ Outboxes!SendFails(r) \/ Outboxes!RelayDies(r)
      PROVE  OutboxInv'
  BY <1>2, PollStep, SendStep, SaveStep, SendFailsStep, RelayDiesStep DEF Outboxes!RelayStep
<1>3. ASSUME NEW g \in Outboxes!Groups, NEW w \in Outboxes!Listeners(g),
             \/ Outboxes!ListenerStep(g, w) \/ Outboxes!Fails(g, w)
             \/ Outboxes!Rebalance(g, w) \/ Outboxes!WorkerDies(g, w)
      PROVE  OutboxInv'
  BY <1>3, DeliverStep, WorkStep, DoneStep, FailsStep, RebalanceStep, WorkerDiesStep
     DEF Outboxes!ListenerStep
<1>4. ASSUME UNCHANGED outbox PROVE OutboxInv'
  <2>1. UNCHANGED <<outbox_created, outbox_committed, outbox_published, outbox_batch,
           outbox_acked, outbox_failed, outbox_topic, outbox_offset, outbox_owner,
           outbox_position, outbox_tries, outbox_job, outbox_overlapped, outbox_processed,
           outbox_effects, outbox_dead, outbox_faults>>
    BY <1>4 DEF outbox
  <2>2. OutboxShape' /\ RelayOrder'
    BY <2>1, OutboxFacts, ConsumerShape
  <2>3. ConsumerOrder'
    <3>1. outbox_topic \in Seq(Events) /\ Len(outbox_topic) \in Nat
      BY OutboxFacts
    <3> QED BY <2>1, <3>1, ConsumerFrame DEF OutboxInv
  <2> QED BY <2>1, <2>2, <2>3, BilledFrame DEF OutboxInv
<1> QED BY <1>1, <1>2, <1>3, <1>4 DEF Outboxes!Next

\* What the tables, the relays, the topic and the listeners hold of an event fits together.
THEOREM OutboxIsInOrder == Spec => []OutboxInv
<1>1. Init => OutboxInv
  BY OutboxInit DEF Init
<1>2. OutboxInv /\ [Next]_vars => OutboxInv'
  <2>1. [Next]_vars => [Outboxes!Next]_outbox
    BY DEF Next, vars, outbox
  <2> QED BY <2>1, OutboxStep
<1> QED BY <1>1, <1>2, PTL DEF Spec

\* THEOREM: a row marked published is on the topic, what could be sent comes there in the
\* order it was written, no group moves past an event it has not handled, and a plan is
\* billed once unless its delivery was handed over (OutboxPublisher,
\* ContractPlanBillingSyncConsumer, ProcessedEvent).
THEOREM BillsStayRight == Spec => []BillsAreRight
<1>1. OutboxInv => BillsAreRight
  BY DEF OutboxInv, RelayOrder, ConsumerOrder, BilledOnceSoFar, BillsAreRight,
     Outboxes!BilledOnceUnlessOverlapped
<1> QED BY <1>1, OutboxIsInOrder, PTL
=============================================================================
