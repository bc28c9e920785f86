----------------------------- MODULE FlushFifo -----------------------------
(***************************************************************************)
(* What MessageQueue (src/radioDiags/src_diags/MessageQueue.cc) promises    *)
(* its callers, with no ring, no lock and no condition variable: a FIFO of  *)
(* at most Capacity entries.  enqueueEntry never refuses an entry and never *)
(* looks for room, so an entry put into a full FIFO leaves it EMPTY: the    *)
(* entries waiting and the new one are forgotten together.                  *)
(***************************************************************************)
EXTENDS Naturals, Sequences

CONSTANTS Capacity,    \* entries that can wait
          Consumers,   \* threads that call dequeueEntry
          Entries,     \* what can be queued
          NULL         \* what dequeueEntry returns when nothing arrived

VARIABLES fifo,        \* the waiting entries, oldest first
          returned     \* consumer -> result of its last dequeueEntry

vars == <<fifo, returned>>

Init == /\ fifo = << >>
        /\ returned = [c \in Consumers |-> NULL]

Put(e) == /\ fifo' = IF Len(fifo) < Capacity THEN Append(fifo, e) ELSE << >>
          /\ UNCHANGED returned

Get(c) == /\ fifo # << >>
          /\ returned' = [returned EXCEPT ![c] = Head(fifo)]
          /\ fifo' = Tail(fifo)

\* A caller is told "nothing" only when nothing waits.
GetNothing(c) == /\ fifo = << >>
                 /\ returned' = [returned EXCEPT ![c] = NULL]
                 /\ UNCHANGED fifo

Next == \/ \E e \in Entries : Put(e)
        \/ \E c \in Consumers : Get(c) \/ GetNothing(c)

Spec == Init /\ [][Next]_vars
=============================================================================
