--------------------------- MODULE PresenceProofs ---------------------------
(***************************************************************************)
(* Proofs about Presence, for any number of handlers, any period of the    *)
(* monitor, any deadline up to the threshold and any number of faults.     *)
(***************************************************************************)
EXTENDS Presence, TLAPS

(***************************************************************************)
(* Arithmetic of the bounds.                                               *)
(***************************************************************************)

\* The age up to which a device may be online right after a tick that found
\* nothing to do, with n faults.
Expected(n) == Threshold + Period * n

LEMMA Bounds ==
    /\ Half \in Nat /\ Half >= 1
    /\ Deadline \in Nat /\ Threshold \in Nat /\ Deadline <= Threshold
    /\ Period \in Nat /\ Period = Half + 2 * Deadline
BY HalfAssumption, DeadlineAssumption DEF Threshold, Period

LEMMA NonNegativeProduct ==
    ASSUME NEW a \in Nat, NEW b \in Nat
    PROVE  a * b \in Nat
OBVIOUS

LEMMA SuccessorProduct ==
    ASSUME NEW a \in Nat, NEW b \in Nat
    PROVE  a * (b + 1) = a * b + a
OBVIOUS

LEMMA ExpectedGrows ==
    ASSUME NEW n \in Nat
    PROVE  /\ Expected(n) \in Nat
           /\ Threshold <= Expected(n)
           /\ Expected(n + 1) = Expected(n) + Period
           /\ Limit(n) = Expected(n) + Period
<1>1. Period * n \in Nat
  BY Bounds, NonNegativeProduct
<1>2. Period * (n + 1) = Period * n + Period
  BY Bounds, SuccessorProduct
<1> QED BY <1>1, <1>2, Bounds DEF Expected, Limit

LEMMA OldIsOld == Old \in Nat /\ Threshold < Old
<1>1. Limit(MaxFaults) = Expected(MaxFaults) + Period /\ Threshold <= Expected(MaxFaults)
      /\ Expected(MaxFaults) \in Nat
  BY ExpectedGrows, MaxFaultsAssumption
<1> QED BY <1>1, Bounds DEF Old

LEMMA OlderIsOlder ==
    ASSUME NEW age \in Age
    PROVE  /\ Older(age) \in Age
           /\ age <= Older(age) /\ Older(age) <= age + 1
           /\ age < Old => Older(age) = age + 1
BY OldIsOld DEF Age, Older

LEMMA TickerTurns ==
    ASSUME NEW t \in 0..(Half - 1)
    PROVE  /\ (t + 1) % Half \in 0..(Half - 1)
           /\ (t + 1) % Half # 0 => (t + 1) % Half = t + 1
<1>1. Half \in Nat /\ Half >= 1
  BY Bounds
<1>2. CASE t + 1 = Half
  <2>1. (t + 1) % Half = 0
    BY <1>1, <1>2
  <2> QED BY <2>1, <1>1
<1>3. CASE t + 1 < Half
  <2>1. (t + 1) % Half = t + 1
    BY <1>1, <1>3
  <2> QED BY <2>1, <1>1, <1>3
<1> QED BY <1>1, <1>2, <1>3

(***************************************************************************)
(* Type correctness.                                                       *)
(***************************************************************************)

\* The ages that commands and ticks carry are those of moments of the past.
THEOREM TypeCorrect == Spec => []TypeOK
<1> USE Bounds, OldIsOld
<1>1. Init => TypeOK
  <2> SUFFICES ASSUME Init PROVE TypeOK
    OBVIOUS
  <2>1. last \in Age /\ newest \in Age
    BY DEF Init, Age
  <2>2. ticker \in 0..(Half - 1) /\ faults \in 0..MaxFaults
    BY MaxFaultsAssumption DEF Init
  <2>3. upsert \in [Handler -> {Never} \cup 0..Deadline]
    BY DEF Init
  <2> QED BY <2>1, <2>2, <2>3 DEF Init, TypeOK
<1>2. TypeOK /\ [Next]_vars => TypeOK'
  <2> SUFFICES ASSUME TypeOK, [Next]_vars
               PROVE  TypeOK'
    OBVIOUS
  <2> USE DEF TypeOK
  <2>1. ASSUME NEW h \in Handler, Inform(h)
        PROVE  TypeOK'
    BY <2>1 DEF Inform
  <2>2. ASSUME NEW h \in Handler, Store(h)
        PROVE  TypeOK'
    <3>1. upsert[h] \in Age
      BY <2>2 DEF Store, Age
    <3>2. upsert' \in [Handler -> {Never} \cup 0..Deadline]
      BY <2>2 DEF Store
    <3> QED BY <2>2, <3>1, <3>2 DEF Store
  <2>3. ASSUME NEW h \in Handler, StoreFails(h)
        PROVE  TypeOK'
    BY <2>3, MaxFaultsAssumption DEF StoreFails
  <2>4. CASE Wake
    <3>1. cutoff' \in Threshold..(Threshold + Deadline)
      BY <2>4 DEF Wake
    <3> QED BY <2>4, <3>1 DEF Wake
  <2>5. CASE MarkStaleOffline
    BY <2>5 DEF MarkStaleOffline
  <2>6. CASE MarkFails
    BY <2>6, MaxFaultsAssumption DEF MarkFails
  <2>7. CASE Delete
    <3>1. last' \in Age
      BY <2>7 DEF Delete, Age
    <3> QED BY <2>7, <3>1 DEF Delete
  <2>8. CASE Restart
    <3>1. ticker' \in 0..(Half - 1) /\ faults' \in 0..MaxFaults
      BY <2>8, MaxFaultsAssumption DEF Restart
    <3>2. upsert' \in [Handler -> {Never} \cup 0..Deadline]
      BY <2>8 DEF Restart
    <3> QED BY <2>8, <3>1, <3>2 DEF Restart
  <2>9. CASE Tick
    <3>1. upsert' \in [Handler -> {Never} \cup 0..Deadline]
      <4> SUFFICES ASSUME NEW h \in Handler
                   PROVE  (IF upsert[h] = Never THEN Never ELSE upsert[h] + 1)
                            \in {Never} \cup 0..Deadline
        BY <2>9 DEF Tick
      <4>1. upsert[h] < Deadline
        BY <2>9 DEF Tick
      <4> QED BY <4>1 DEF Never
    <3>2. cutoff' \in {Never} \cup Threshold..(Threshold + Deadline)
      BY <2>9 DEF Tick, Never
    <3>3. last' \in Age /\ newest' \in Age
      BY <2>9, OlderIsOlder DEF Tick
    <3>4. ticker' \in 0..(Half - 1) /\ fired' \in BOOLEAN
      BY <2>9, TickerTurns DEF Tick
    <3> QED BY <2>9, <3>1, <3>2, <3>3, <3>4 DEF Tick
  <2>10. CASE UNCHANGED vars
    BY <2>10 DEF vars
  <2> QED BY <2>1, <2>2, <2>3, <2>4, <2>5, <2>6, <2>7, <2>8, <2>9, <2>10 DEF Next
<1> QED BY <1>1, <1>2, PTL DEF Spec

(***************************************************************************)
(* A device that is offline has been silent.                               *)
(***************************************************************************)

\* An older Upsert that ends last may set last_inform back, by the time it took
\* at most; so what the monitor sees is that much older than the newest Inform.
SilentInv ==
    /\ exists => last <= newest + Deadline
    /\ OfflineMeansSilent

LEMMA SilentStep ==
    ASSUME TypeOK, SilentInv, [Next]_vars
    PROVE  SilentInv'
<1> USE Bounds, OldIsOld DEF SilentInv, OfflineMeansSilent
<1>1. ASSUME NEW h \in Handler, Inform(h) \/ StoreFails(h)
      PROVE  SilentInv'
  BY <1>1 DEF Inform, StoreFails
<1>2. ASSUME NEW h \in Handler, Store(h)
      PROVE  SilentInv'
  <2>1. upsert[h] \in 0..Deadline /\ newest \in Nat
    BY <1>2 DEF Store, TypeOK, Age
  <2>2. newest' \in Nat /\ last' <= Deadline /\ online'
    BY <1>2, <2>1 DEF Store
  <2> QED BY <1>2, <2>1, <2>2 DEF Store
<1>3. CASE Wake \/ MarkFails \/ Restart
  BY <1>3 DEF Wake, MarkFails, Restart
<1>4. CASE MarkStaleOffline
  BY <1>4 DEF MarkStaleOffline, TypeOK, Age
<1>5. CASE Delete
  BY <1>5 DEF Delete
<1>6. CASE Tick
  <2>1. last' = Older(last) /\ newest' = Older(newest) /\ UNCHANGED <<exists, online>>
    BY <1>6 DEF Tick
  <2>2. /\ last \in Age /\ newest \in Age
        /\ last' \in Age /\ newest' \in Age
        /\ last' <= last + 1 /\ newest <= newest'
        /\ newest < Old => newest' = newest + 1
    BY <2>1, OlderIsOlder DEF TypeOK
  <2>3. exists' => last' <= newest' + Deadline
    BY <2>1, <2>2 DEF Age
  <2>4. OfflineMeansSilent'
    BY <2>1, <2>2 DEF Age
  <2> QED BY <2>3, <2>4
<1>7. CASE UNCHANGED vars
  BY <1>7 DEF vars
<1> QED BY <1>1, <1>2, <1>3, <1>4, <1>5, <1>6, <1>7 DEF Next

\* Whatever Upserts and UpdateMany overlap, the monitor never takes a device
\* for absent that was heard of lately (Upsert, MarkStaleOffline).
THEOREM OfflineDevicesAreSilent == Spec => []OfflineMeansSilent
<1>1. Init => SilentInv
  BY DEF Init, SilentInv, OfflineMeansSilent
<1>2. SilentInv => OfflineMeansSilent
  BY DEF SilentInv
<1> QED BY <1>1, <1>2, SilentStep, TypeCorrect, PTL DEF Spec

(***************************************************************************)
(* A device that went silent goes offline.                                 *)
(***************************************************************************)

\* How old an online device may be while the monitor waits for the ticker, has
\* a tick to take, or an UpdateMany under way.  A tick is taken as soon as no
\* UpdateMany is, so one that is under way, and during which the ticker has not
\* fired, began after the ticker last did.
RecentInv ==
    /\ online /\ cutoff = Never /\ ~fired => last <= Expected(faults) + ticker
    /\ online /\ cutoff = Never /\ fired => last <= Expected(faults) + Half + Deadline
    /\ online /\ cutoff # Never =>
         last <= Expected(faults) + Half + Deadline + (cutoff - Threshold)
    /\ cutoff # Never /\ ~fired => cutoff - Threshold <= ticker

LEMMA RecentStep ==
    ASSUME TypeOK, RecentInv, [Next]_vars
    PROVE  RecentInv'
<1> DEFINE E == Expected(faults)
<1>0. /\ E \in Nat /\ Threshold <= E
      /\ Expected(faults + 1) = E + Period
      /\ faults \in Nat
  BY ExpectedGrows, MaxFaultsAssumption DEF TypeOK
<1> HIDE DEF E
<1>a. /\ last \in Nat /\ ticker \in 0..(Half - 1)
      /\ cutoff \in {Never} \cup Threshold..(Threshold + Deadline)
      /\ online \in BOOLEAN /\ fired \in BOOLEAN
  BY OldIsOld DEF TypeOK, Age
<1>b. /\ online /\ cutoff = Never /\ ~fired => last <= E + ticker
      /\ online /\ cutoff = Never /\ fired => last <= E + Half + Deadline
      /\ online /\ cutoff # Never => last <= E + Half + Deadline + (cutoff - Threshold)
      /\ cutoff # Never /\ ~fired => cutoff - Threshold <= ticker
  BY DEF RecentInv, E
<1>c. faults' = faults => Expected(faults)' = E
  BY DEF E, Expected, Threshold, Period
<1>d. faults' = faults + 1 => Expected(faults)' = E + Period
  BY <1>0 DEF Expected, Threshold, Period
<1>e. online => last <= E + Period
  BY <1>0, <1>a, <1>b, Bounds DEF Never
<1> USE Bounds DEF RecentInv
<1>1. ASSUME NEW h \in Handler, Inform(h)
      PROVE  RecentInv'
  BY <1>1, <1>b, <1>c DEF Inform
<1>2. ASSUME NEW h \in Handler, Store(h)
      PROVE  RecentInv'
  <2>1. upsert[h] \in 0..Deadline
    BY <1>2 DEF Store, TypeOK
  <2>2. last' \in Nat /\ last' <= E
    BY <1>2, <2>1, <1>0 DEF Store
  <2>3. UNCHANGED <<cutoff, ticker, fired, faults>>
    BY <1>2 DEF Store
  <2> QED BY <2>2, <2>3, <1>0, <1>a, <1>b, <1>c
<1>3. ASSUME NEW h \in Handler, StoreFails(h)
      PROVE  RecentInv'
  <2>1. faults' = faults + 1 /\ UNCHANGED <<online, last, cutoff, ticker, fired>>
    BY <1>3 DEF StoreFails
  <2> QED BY <2>1, <1>0, <1>a, <1>b, <1>d
<1>4. CASE Wake
  <2>1. /\ fired /\ cutoff = Never /\ ~fired' /\ cutoff' = Threshold
        /\ UNCHANGED <<online, last, ticker, faults>>
    BY <1>4 DEF Wake
  <2> QED BY <2>1, <1>0, <1>a, <1>b, <1>c DEF Never
<1>5. CASE MarkStaleOffline
  <2>1. /\ cutoff # Never /\ cutoff' = Never
        /\ online' => online /\ last <= cutoff
        /\ UNCHANGED <<last, ticker, fired, faults>>
    BY <1>5 DEF MarkStaleOffline
  <2>2. CASE fired
    <3>1. online' => last <= E + Half + Deadline
      BY <2>1, <1>0, <1>a
    <3> QED BY <2>1, <2>2, <3>1, <1>c
  <2>3. CASE ~fired
    <3>1. online' => last <= E + ticker
      BY <2>1, <2>3, <1>0, <1>a, <1>b
    <3> QED BY <2>1, <2>3, <3>1, <1>c
  <2> QED BY <2>2, <2>3
<1>6. CASE MarkFails
  <2>1. /\ cutoff' = Never /\ faults' = faults + 1
        /\ UNCHANGED <<online, last, ticker, fired>>
    BY <1>6 DEF MarkFails
  <2> QED BY <2>1, <1>0, <1>a, <1>d, <1>e
<1>7. CASE Delete
  <2>1. ~online' /\ UNCHANGED <<cutoff, ticker, fired, faults>>
    BY <1>7 DEF Delete
  <2> QED BY <2>1, <1>b
<1>8. CASE Restart
  <2>1. /\ cutoff' = Never /\ ~fired' /\ ticker' = 0 /\ faults' = faults + 1
        /\ UNCHANGED <<online, last>>
    BY <1>8 DEF Restart
  <2> QED BY <2>1, <1>0, <1>a, <1>d, <1>e
<1>9. CASE Tick
  <2>1. /\ ticker' = (ticker + 1) % Half
        /\ fired' = (fired \/ ticker' = 0)
        /\ fired => cutoff # Never
        /\ cutoff' = IF cutoff = Never THEN Never ELSE cutoff + 1
        /\ last' = Older(last)
        /\ UNCHANGED <<online, faults>>
    BY <1>9 DEF Tick
  <2>2. last' \in Nat /\ last' <= last + 1
    BY <2>1, OlderIsOlder, OldIsOld DEF TypeOK, Age
  <2>3. /\ ticker' \in 0..(Half - 1)
        /\ ~fired' => ~fired /\ ticker' = ticker + 1
    BY <2>1, <1>a, TickerTurns
  <2>4. CASE cutoff = Never
    BY <2>1, <2>2, <2>3, <2>4, <1>0, <1>a, <1>b, <1>c
  <2>5. CASE cutoff # Never
    <3>1. cutoff' = cutoff + 1 /\ cutoff' # Never
      BY <2>1, <2>5, <1>a DEF Never
    <3> QED BY <2>1, <2>2, <2>3, <2>5, <3>1, <1>0, <1>a, <1>b, <1>c
  <2> QED BY <2>4, <2>5
<1>10. CASE UNCHANGED vars
  BY <1>10, <1>b, <1>c DEF vars
<1> QED BY <1>1, <1>2, <1>3, <1>4, <1>5, <1>6, <1>7, <1>8, <1>9, <1>10 DEF Next

\* A silent device is online for the threshold, a period of the monitor and two
\* deadlines at most, and as much again, without the threshold, per fault
\* (runPresenceMonitor, MarkStaleOffline).
THEOREM OnlineDevicesAreRecent == Spec => []OnlineIsRecent
<1>1. Init => RecentInv
  BY DEF Init, RecentInv, Never
<1>2. TypeOK /\ RecentInv => OnlineIsRecent
  <2> SUFFICES ASSUME TypeOK, RecentInv, online
               PROVE  last <= Limit(faults)
    BY DEF OnlineIsRecent
  <2>1. /\ faults \in Nat /\ last \in Nat /\ ticker \in 0..(Half - 1)
        /\ cutoff \in {Never} \cup Threshold..(Threshold + Deadline)
    BY OldIsOld, MaxFaultsAssumption DEF TypeOK, Age
  <2>2. Expected(faults) \in Nat /\ Limit(faults) = Expected(faults) + Period
    BY <2>1, ExpectedGrows
  <2>3. last <= Expected(faults) + Period
    BY <2>1, <2>2, Bounds DEF RecentInv, TypeOK, Never
  <2> QED BY <2>2, <2>3
<1> QED BY <1>1, <1>2, RecentStep, TypeCorrect, PTL DEF Spec
=============================================================================
