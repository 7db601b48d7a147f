------------------------------- MODULE Channel -------------------------------
(***************************************************************************)
(* What the post office promises for one direction of a connection, with   *)
(* no packets, identifiers, timers or retransmissions: the segments given  *)
(* to it are put into the receiver's mailbox in order and once each, and   *)
(* the sender is told so only afterwards.  The promise ends when the       *)
(* sender gives up on a segment or the receiver leaves.                    *)
(***************************************************************************)
EXTENDS Naturals, Sequences

VARIABLES
    offered,    \* the segments the sender has started to send
    acked,      \* how many of them it believes to be delivered
    accepted,   \* the segments put into the receiver's mailbox
    failed      \* the sender has given up or the receiver has left

vars == <<offered, acked, accepted, failed>>

Init == offered = <<>> /\ acked = 0 /\ accepted = <<>> /\ failed = FALSE

\* Stop and wait: the next segment is offered when the last one is known to
\* be delivered; the step that learns it may also offer the next one.
Offer ==
    /\ acked' = Len(offered)
    /\ acked' <= Len(accepted)
    /\ Len(offered') = Len(offered) + 1
    /\ SubSeq(offered', 1, Len(offered)) = offered
    /\ UNCHANGED <<accepted, failed>>

Ack ==
    /\ Len(accepted) = Len(offered)
    /\ acked' = Len(offered)
    /\ UNCHANGED <<offered, accepted, failed>>

Accept ==
    /\ Len(accepted) < Len(offered)
    /\ accepted' = Append(accepted, offered[Len(accepted) + 1])
    /\ UNCHANGED <<offered, acked, failed>>

\* From then on anything may happen.
GiveUp == failed' = TRUE

Next == Offer \/ Ack \/ Accept \/ GiveUp

Spec == Init /\ [][Next]_vars
==============================================================================
