------------------------------ MODULE Presence ------------------------------
(***************************************************************************)
(* The online flag of one device.  Upsert sets it, with the time at which  *)
(* it was called as last_inform; the presence monitor wakes up twice an    *)
(* Inform interval and clears it where last_inform is more than three      *)
(* intervals ago; the API may delete the document.  Upserts of sessions    *)
(* that overlap, and the monitor's UpdateMany, end in any order, within    *)
(* their deadlines, or fail.                                               *)
(*                                                                         *)
(* A moment is kept as its age in ticks.  Ages stop at Old, beyond which   *)
(* they make no difference.                                                *)
(***************************************************************************)
EXTENDS Integers

CONSTANTS
    Handler,    \* session handlers
    Half,       \* the monitor's period, informInterval / 2
    Deadline,   \* the ticks an Upsert or an UpdateMany may take
    MaxFaults   \* bound: failed commands and restarts

ASSUME HalfAssumption == Half \in Nat \ {0}
ASSUME MaxFaultsAssumption == MaxFaults \in Nat

Threshold == 6 * Half             \* informInterval * 3

ASSUME DeadlineAssumption == Deadline \in 0..Threshold

\* The age an online device may reach, with n faults.
Period == Half + 2 * Deadline
Limit(n) == Threshold + Period * (n + 1)
Old == Limit(MaxFaults) + 1

Age == 0..Old
Older(age) == IF age = Old THEN Old ELSE age + 1
Never == -1     \* no document, no command under way

VARIABLES
    exists,     \* the device has a document
    online,     \* its flag
    last,       \* age of last_inform
    upsert,     \* the Upsert of each handler: the age of its `now`, or Never
    cutoff,     \* the age MarkStaleOffline asks for, or Never
    ticker,     \* time since the ticker last fired
    fired,      \* a tick is in the ticker's channel
    newest,     \* history: age of the newest Inform that was stored
    faults      \* history: faults so far

vars == <<exists, online, last, upsert, cutoff, ticker, fired, newest, faults>>

Init ==
    /\ exists = FALSE
    /\ online = FALSE
    /\ last = Old
    /\ upsert = [h \in Handler |-> Never]
    /\ cutoff = Never
    /\ ticker = 0
    /\ fired = FALSE
    /\ newest = Old
    /\ faults = 0

-----------------------------------------------------------------------------
\* handleInform calls Upsert, which notes the time.
Inform(h) ==
    /\ upsert[h] = Never
    /\ upsert' = [upsert EXCEPT ![h] = 0]
    /\ UNCHANGED <<exists, online, last, cutoff, ticker, fired, newest, faults>>

\* Mutant: the flag is among the fields that are set on insertion only.
StoreFlagOnInsert(h) ==
    /\ upsert[h] # Never
    /\ exists' = TRUE
    /\ online' = (online \/ ~exists)
    /\ last' = upsert[h]
    /\ newest' = IF upsert[h] < newest THEN upsert[h] ELSE newest
    /\ upsert' = [upsert EXCEPT ![h] = Never]
    /\ UNCHANGED <<cutoff, ticker, fired, faults>>

\* FindOneAndUpdate: the document is there and online, with that time, even
\* when a later one was stored meanwhile.
Store(h) ==
    /\ upsert[h] # Never
    /\ exists' = TRUE
    /\ online' = TRUE
    /\ last' = upsert[h]
    /\ newest' = IF upsert[h] < newest THEN upsert[h] ELSE newest
    /\ upsert' = [upsert EXCEPT ![h] = Never]
    /\ UNCHANGED <<cutoff, ticker, fired, faults>>

\* Mutant: the threshold is added to now.
WakeInTheFuture ==
    /\ fired
    /\ cutoff = Never
    /\ fired' = FALSE
    /\ cutoff' = -Threshold
    /\ UNCHANGED <<exists, online, last, upsert, ticker, newest, faults>>

\* The monitor receives a tick: now less three intervals is the cutoff.
Wake ==
    /\ fired
    /\ cutoff = Never
    /\ fired' = FALSE
    /\ cutoff' = Threshold
    /\ UNCHANGED <<exists, online, last, upsert, ticker, newest, faults>>

\* Mutant: the filter asks for the documents that are offline already.
MarkOfflineOffline ==
    /\ cutoff # Never
    /\ cutoff' = Never
    /\ UNCHANGED <<exists, online, last, upsert, ticker, fired, newest, faults>>

\* UpdateMany{online: true, last_inform < cutoff}, one command.
MarkStaleOffline ==
    /\ cutoff # Never
    /\ cutoff' = Never
    /\ online' = (online /\ last <= cutoff)
    /\ UNCHANGED <<exists, last, upsert, ticker, fired, newest, faults>>

\* DELETE of the device.
Delete ==
    /\ exists
    /\ exists' = FALSE
    /\ online' = FALSE
    /\ last' = Old
    /\ UNCHANGED <<upsert, cutoff, ticker, fired, newest, faults>>

\* Upsert fails and the session ends with a fault.
StoreFails(h) ==
    /\ upsert[h] # Never
    /\ faults < MaxFaults
    /\ faults' = faults + 1
    /\ upsert' = [upsert EXCEPT ![h] = Never]
    /\ UNCHANGED <<exists, online, last, cutoff, ticker, fired, newest>>

\* MarkStaleOffline fails: the monitor logs it and waits for the next tick.
MarkFails ==
    /\ cutoff # Never
    /\ faults < MaxFaults
    /\ faults' = faults + 1
    /\ cutoff' = Never
    /\ UNCHANGED <<exists, online, last, upsert, ticker, fired, newest>>

\* The process starts again, with a new ticker.
Restart ==
    /\ faults < MaxFaults
    /\ faults' = faults + 1
    /\ upsert' = [h \in Handler |-> Never]
    /\ cutoff' = Never
    /\ ticker' = 0
    /\ fired' = FALSE
    /\ UNCHANGED <<exists, online, last, newest>>

\* Time passes.  Commands end before their deadlines, and the monitor takes a
\* tick from the channel, which holds one, when no UpdateMany keeps it.
Tick ==
    /\ \A h \in Handler : upsert[h] < Deadline
    /\ cutoff < Threshold + Deadline
    /\ fired => cutoff # Never
    /\ upsert' = [h \in Handler |-> IF upsert[h] = Never THEN Never ELSE upsert[h] + 1]
    /\ cutoff' = IF cutoff = Never THEN Never ELSE cutoff + 1
    /\ ticker' = (ticker + 1) % Half
    /\ fired' = (fired \/ ticker' = 0)
    /\ last' = Older(last)
    /\ newest' = Older(newest)
    /\ UNCHANGED <<exists, online, faults>>

Next ==
    \/ \E h \in Handler : Inform(h) \/ Store(h) \/ StoreFails(h)
    \/ Wake \/ MarkStaleOffline \/ MarkFails
    \/ Delete \/ Restart \/ Tick

Spec == Init /\ [][Next]_vars

-----------------------------------------------------------------------------
TypeOK ==
    /\ exists \in BOOLEAN
    /\ online \in BOOLEAN
    /\ last \in Age
    /\ upsert \in [Handler -> {Never} \cup 0..Deadline]
    /\ cutoff \in {Never} \cup Threshold..(Threshold + Deadline)
    /\ ticker \in 0..(Half - 1)
    /\ fired \in BOOLEAN
    /\ newest \in Age
    /\ faults \in 0..MaxFaults

\* A device is offline only if no Inform of the last three intervals, less the
\* time an Upsert may take, was stored: neither a monitor that computed its
\* cutoff before an Inform came, nor an older Upsert that ends after a newer
\* one, takes a device that is there for an absent one.
OfflineMeansSilent ==
    exists /\ ~online => newest > Threshold - Deadline

\* A device that went silent is not shown online for long: the threshold, one
\* period of the monitor and two deadlines, and a period and two deadlines more
\* for every failed UpdateMany or restart.
OnlineIsRecent ==
    online => last <= Limit(faults)

=============================================================================
