---------------------------- MODULE AbstractLock ----------------------------
(***************************************************************************)
(* What the mutex family promises its clients (spec section 4.3): at most  *)
(* one holder, a nesting depth for the recursive variants, and strictly    *)
(* FIFO handoff: a blocked locker joins the back of the queue, a release   *)
(* passes the lock to the front of the queue, and nobody takes a free lock *)
(* ahead of queued waiters.  Timed waiters may give up and leave the       *)
(* queue from any position.                                                *)
(***************************************************************************)
EXTENDS Naturals, Sequences, SequencesExt

CONSTANTS
    Clients,    \* the lockers
    None,       \* no holder
    Reentrant,  \* the holder may lock again
    Abandoning  \* queued lockers may give up (timed variants)

VARIABLES holder, depth, waiting

Queued(c) == c \in ToSet(waiting)

Init == holder = None /\ depth = 0 /\ waiting = <<>>

\* A free lock with nobody queued is taken at once.
Acquire(c) ==
    /\ holder = None /\ waiting = <<>>
    /\ holder' = c /\ depth' = 1
    /\ UNCHANGED waiting

Reenter(c) ==
    /\ Reentrant /\ holder = c
    /\ depth' = depth + 1
    /\ UNCHANGED <<holder, waiting>>

\* A locker finding the lock held by someone else queues at the back.
Enqueue(c) ==
    /\ holder \notin {None, c} /\ ~Queued(c)
    /\ waiting' = Append(waiting, c)
    /\ UNCHANGED <<holder, depth>>

\* The holder releases one level; the last release frees the lock or hands
\* it to the front of the queue.
Release ==
    /\ holder # None
    /\ \/ depth > 1 /\ depth' = depth - 1 /\ UNCHANGED <<holder, waiting>>
       \/ depth = 1 /\ waiting = <<>> /\ holder' = None /\ depth' = 0 /\ UNCHANGED waiting
       \/ depth = 1 /\ waiting # <<>> /\ holder' = Head(waiting) /\ waiting' = Tail(waiting)
          /\ UNCHANGED depth

Abandon(c) ==
    /\ Abandoning /\ Queued(c)
    /\ waiting' = RemoveFirst(waiting, c)
    /\ UNCHANGED <<holder, depth>>

Next ==
    \/ Release
    \/ \E c \in Clients : Acquire(c) \/ Reenter(c) \/ Enqueue(c) \/ Abandon(c)

Spec == Init /\ [][Next]_<<holder, depth, waiting>>

=============================================================================
