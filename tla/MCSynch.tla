------------------------------- MODULE MCSynch -------------------------------
(* Synch on three threads, for TLC. *)
EXTENDS Synch, TLC

CONSTANTS t1, t2, t3, lock, cond, sem

MCThreads == {t1, t2, t3}
MCTid == t1 :> 0 @@ t2 :> 1 @@ t3 :> 2
MCInitialValue == sem :> 0
MCConditionLock == cond :> lock
==============================================================================
