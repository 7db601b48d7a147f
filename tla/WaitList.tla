------------------------------ MODULE WaitList ------------------------------
(***************************************************************************)
(* threads/list.cc as the kernel uses it: a FIFO of threads.  Append puts  *)
(* an element at the end (Sequences' Append); Remove takes the first one,  *)
(* or returns NULL when there is none.                                     *)
(***************************************************************************)
EXTENDS Integers, Sequences, Functions

\* What List::Remove takes off q, as a sequence of at most one element.
Removed(q) == IF q = <<>> THEN <<>> ELSE <<Head(q)>>

\* What it leaves on q.
Remaining(q) == IF q = <<>> THEN <<>> ELSE Tail(q)

NoDuplicates(q) == \A i, j \in 1 .. Len(q) : q[i] = q[j] => i = j
==============================================================================
