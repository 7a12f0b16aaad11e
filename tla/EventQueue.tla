----------------------------- MODULE EventQueue -----------------------------
(***************************************************************************)
(* What the ingester's Store promises to the poll loop: a queue of deploy  *)
(* events without duplicates.  An event enters it when a webhook brings an *)
(* ID not known before, and leaves it, in order of arrival, when it is     *)
(* handed over for analysis.  A crash empties everything; a new process    *)
(* learns the IDs of stored events before the queue opens, and those never *)
(* enter it.                                                               *)
(***************************************************************************)
EXTENDS Naturals, Sequences

VARIABLES
  known,   \* the IDs of this process's events
  queue,   \* events accepted and not yet handed over
  handed   \* events handed over by this process, in order

vars == <<known, queue, handed>>

Init == known = {} /\ queue = <<>> /\ handed = <<>>

\* The event that enters is whatever the last element of the queue then is.
Accept ==
  /\ \E i \in 1 .. Len(queue') :
       /\ queue' = Append(queue, queue'[i])
       /\ queue'[i].id \notin known
       /\ known' = known \cup {queue'[i].id}
  /\ UNCHANGED handed

HandOver ==
  /\ queue # <<>>
  /\ handed' = Append(handed, Head(queue))
  /\ queue' = Tail(queue)
  /\ UNCHANGED known

Learn ==
  /\ queue = <<>> /\ handed = <<>>
  /\ known \subseteq known'
  /\ UNCHANGED <<queue, handed>>

Lose == known' = {} /\ queue' = <<>> /\ handed' = <<>>

Next == Accept \/ HandOver \/ Learn \/ Lose

Spec == Init /\ [][Next]_vars
=============================================================================
