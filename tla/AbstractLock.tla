---------------------------- MODULE AbstractLock ----------------------------
(***************************************************************************)
(* What the kernel's callers rely on when they use an mtx_t: a lock has at *)
(* most one holder, a caller of mtx_lock waits until it holds the lock,    *)
(* and when the lock is free while somebody waits, some waiter gets it     *)
(* (or a trylock slips in).  No waiter in particular is promised the lock: *)
(* the spin lock of libc/threads.c keeps no queue.                         *)
(***************************************************************************)
CONSTANTS Threads,   \* the processors that use the lock
          Free       \* the value of holder when nobody does; not in Threads

VARIABLES holder,    \* who is between a successful lock and its unlock
          waiting    \* who has called mtx_lock and not returned yet

vars == <<holder, waiting>>

TypeOK == /\ holder \in Threads \cup {Free}
          /\ waiting \subseteq Threads

Init == holder = Free /\ waiting = {}

Request(t) == /\ t \notin waiting /\ holder # t
              /\ waiting' = waiting \cup {t}
              /\ UNCHANGED holder

Acquire(t) == /\ t \in waiting /\ holder = Free
              /\ holder' = t
              /\ waiting' = waiting \ {t}

TryAcquire(t) == /\ t \notin waiting /\ holder = Free
                 /\ holder' = t
                 /\ UNCHANGED waiting

Release(t) == /\ holder = t
              /\ holder' = Free
              /\ UNCHANGED waiting

Next == \E t \in Threads : Request(t) \/ Acquire(t) \/ TryAcquire(t) \/ Release(t)

\* The safety part: what may happen.
Safety == Init /\ [][Next]_vars

\* The promise of progress: a free lock with a waiter does not stay free.
Spec == Safety /\ WF_vars(\E t \in Threads : Acquire(t))
=============================================================================
