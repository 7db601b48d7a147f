------------------------------- MODULE Monitor -------------------------------
(***************************************************************************)
(* What threads/synch.h promises of Lock and Condition, with no scheduler, *)
(* no semaphore and no queue: a lock is held by at most one thread, only   *)
(* its holder gives it up, Wait gives up the lock and starts waiting in    *)
(* one step, and a waiter stops waiting only because somebody who holds    *)
(* the lock signalled it (Mesa style: it then competes for the lock).      *)
(*                                                                         *)
(* holder[l] is {} when l is FREE and {t} when t holds it, so that Synch   *)
(* can map it straight from lockOwner.                                     *)
(***************************************************************************)
CONSTANTS Threads, Locks, Conditions, conditionLock

VARIABLES holder, waiting

vars == <<holder, waiting>>

Init ==
    /\ holder  = [l \in Locks |-> {}]
    /\ waiting = [c \in Conditions |-> {}]

Acquire(t, l) ==
    /\ holder[l] = {}
    /\ \A c \in Conditions : t \notin waiting[c]
    /\ holder' = [holder EXCEPT ![l] = {t}]
    /\ UNCHANGED waiting

Release(t, l) ==
    /\ holder[l] = {t}
    /\ holder' = [holder EXCEPT ![l] = {}]
    /\ UNCHANGED waiting

Wait(t, c) ==
    /\ holder[conditionLock[c]] = {t}
    /\ holder'  = [holder EXCEPT ![conditionLock[c]] = {}]
    /\ waiting' = [waiting EXCEPT ![c] = @ \cup {t}]

Signal(t, c) ==
    /\ holder[conditionLock[c]] = {t}
    /\ \E w \in waiting[c] : waiting' = [waiting EXCEPT ![c] = @ \ {w}]
    /\ UNCHANGED holder

Broadcast(t, c) ==
    /\ holder[conditionLock[c]] = {t}
    /\ waiting' = [waiting EXCEPT ![c] = {}]
    /\ UNCHANGED holder

Next ==
    \E t \in Threads :
        \/ \E l \in Locks : Acquire(t, l) \/ Release(t, l)
        \/ \E c \in Conditions : Wait(t, c) \/ Signal(t, c) \/ Broadcast(t, c)

Spec == Init /\ [][Next]_vars
==============================================================================
