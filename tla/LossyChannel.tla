---------------------------- MODULE LossyChannel ----------------------------
(***************************************************************************)
(* What one subscriber of a dispatcher is promised: a bounded FIFO fed     *)
(* with ever newer events, which may only lose the oldest event it holds,  *)
(* keeps what it holds when it is closed and takes nothing in afterwards.  *)
(***************************************************************************)
EXTENDS Naturals, Sequences

VARIABLES
  queue,     \* events held, oldest first
  taken,     \* events handed to the consumer, oldest first
  newest,    \* largest event put so far
  capacity,  \* 0 until the subscriber exists
  phase      \* none | open | closed

vars == <<queue, taken, newest, capacity, phase>>

Init ==
  /\ queue = <<>>
  /\ taken = <<>>
  /\ newest = 0
  /\ capacity = 0
  /\ phase = "none"

Open ==
  /\ phase = "none"
  /\ \/ phase' = "open" /\ capacity' \in Nat \ {0}
     \/ phase' = "closed" /\ capacity' = 0
  /\ UNCHANGED <<queue, taken, newest>>

Put ==
  /\ phase = "open"
  /\ Len(queue) < capacity
  /\ newest' \in Nat
  /\ newest' > newest
  /\ queue' = Append(queue, newest')
  /\ UNCHANGED <<taken, capacity, phase>>

Lose ==
  /\ phase = "open"
  /\ queue # <<>>
  /\ queue' = Tail(queue)
  /\ UNCHANGED <<taken, newest, capacity, phase>>

Take ==
  /\ queue # <<>>
  /\ taken' = Append(taken, Head(queue))
  /\ queue' = Tail(queue)
  /\ UNCHANGED <<newest, capacity, phase>>

Shut ==
  /\ phase = "open"
  /\ phase' = "closed"
  /\ UNCHANGED <<queue, taken, newest, capacity>>

Next == Open \/ Put \/ Lose \/ Take \/ Shut

Spec == Init /\ [][Next]_vars
=============================================================================
