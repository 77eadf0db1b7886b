------------------------------ MODULE SpinLock ------------------------------
(***************************************************************************)
(* The mutex of libc/threads.c: a test-and-test-and-set spin lock over one *)
(* atomic Boolean.  Every atomic access of the code is a step of its own,  *)
(* so processors interleave between the load of mtx_lock and its exchange. *)
(*                                                                         *)
(* The boot processor initialises a mutex before another one can use it    *)
(* (init_memory_management, init_graphics, send_init_sipi_sipi): until smp *)
(* is set only Boot takes steps.  ap_mut is initialised after the start-up *)
(* IPIs have been sent (tls.c:45), which is safe only because the others   *)
(* wait for ap_tls first (tls.c:50); for ap_mut, smp stands for that.      *)
(* Static mutexes are zeroed memory, so `locked' starts FALSE, and one of  *)
(* them, ipcall_mutex, is used before its mtx_init.                        *)
(***************************************************************************)
EXTENDS Naturals

CONSTANTS Threads,   \* processors
          Boot,      \* the boot processor
          Free       \* "nobody", for the abstract lock

ASSUME BootAssumption == Boot \in Threads
ASSUME FreeAssumption == Free \notin Threads

VARIABLES locked,    \* mtx_t.locked
          smp,       \* the other processors have been started
          pc,        \* pc[t]: where t is in the lock's code
          ret        \* ret[t]: what t's last call returned

vars == <<locked, smp, pc, ret>>

\* threads.h: the return codes in use and the mutex types (a bit set).
Codes == {"none", "thrd_success", "thrd_busy", "thrd_error"}
mtx_recursive == 1
mtx_timed == 2
Types == 0 .. 3

HasBit(type, bit) == (type \div bit) % 2 = 1

PCs == {"idle", "load", "xchg", "held"}

TypeOK == /\ locked \in BOOLEAN
          /\ smp \in BOOLEAN
          /\ pc \in [Threads -> PCs]
          /\ ret \in [Threads -> Codes]

Init == /\ locked = FALSE
        /\ smp = FALSE
        /\ pc = [t \in Threads |-> "idle"]
        /\ ret = [t \in Threads |-> "none"]

Running(t) == t = Boot \/ smp

Return(t, code) == ret' = [ret EXCEPT ![t] = code]
Goto(t, label) == pc' = [pc EXCEPT ![t] = label]

\* The mutants of this module's runs: plausible slips in threads.c.
XchgIgnoresOldValue(t) ==
    pc[t] = "xchg" /\ locked' = TRUE /\ Goto(t, "held")
    /\ Return(t, "thrd_success") /\ UNCHANGED smp
XchgGivesUp(t) ==
    pc[t] = "xchg" /\ locked' = TRUE
    /\ Goto(t, IF locked THEN "idle" ELSE "held")
    /\ Return(t, "thrd_success") /\ UNCHANGED smp
UnlockForgetsStore(t) ==
    pc[t] = "held" /\ Goto(t, "idle") /\ Return(t, "thrd_success")
    /\ UNCHANGED <<locked, smp>>

-----------------------------------------------------------------------------
(* mtx_init refuses recursive and timed mutexes and leaves them alone.     *)
mtx_init(t, type) ==
    /\ t = Boot /\ ~smp /\ pc[t] = "idle"
    /\ \/ /\ HasBit(type, mtx_recursive) \/ HasBit(type, mtx_timed)
          /\ Return(t, "thrd_error")
          /\ UNCHANGED locked
       \/ /\ ~HasBit(type, mtx_recursive) /\ ~HasBit(type, mtx_timed)
          /\ locked' = FALSE
          /\ Return(t, "thrd_success")
    /\ UNCHANGED <<smp, pc>>

(* The boot processor starts the others (apic.c, send_init_sipi_sipi).     *)
StartAps == /\ ~smp /\ pc[Boot] = "idle"
            /\ smp' = TRUE
            /\ UNCHANGED <<locked, pc, ret>>

(* mtx_lock, in its two atomic accesses.  A load that sees the lock taken  *)
(* pauses and loads again: it changes nothing, and is a stuttering step.   *)
mtx_lock(t) == /\ Running(t) /\ pc[t] = "idle"
               /\ Goto(t, "load")
               /\ UNCHANGED <<locked, smp, ret>>

LoadFree(t) == /\ pc[t] = "load" /\ ~locked
               /\ Goto(t, "xchg")
               /\ UNCHANGED <<locked, smp, ret>>

Xchg(t) == /\ pc[t] = "xchg"
           /\ locked' = TRUE
           /\ \/ /\ locked
                 /\ Goto(t, "load") /\ UNCHANGED ret
              \/ /\ ~locked
                 /\ Goto(t, "held") /\ Return(t, "thrd_success")
           /\ UNCHANGED smp

mtx_trylock(t) == /\ Running(t) /\ pc[t] = "idle"
                  /\ locked' = TRUE
                  /\ \/ /\ locked
                        /\ Return(t, "thrd_busy") /\ UNCHANGED pc
                     \/ /\ ~locked
                        /\ Return(t, "thrd_success") /\ Goto(t, "held")
                  /\ UNCHANGED smp

mtx_unlock(t) == /\ pc[t] = "held"
                 /\ locked' = FALSE
                 /\ Goto(t, "idle") /\ Return(t, "thrd_success")
                 /\ UNCHANGED smp

Step(t) == \/ \E type \in Types : mtx_init(t, type)
           \/ mtx_lock(t)
           \/ LoadFree(t)
           \/ Xchg(t)
           \/ mtx_trylock(t)
           \/ mtx_unlock(t)

Next == StartAps \/ \E t \in Threads : Step(t)

Safety == Init /\ [][Next]_vars

(* A processor spinning in mtx_lock keeps executing it.  Nothing makes a   *)
(* holder unlock or an idle processor call: those stay unfair.             *)
Spec == Safety /\ \A t \in Threads : WF_vars(LoadFree(t)) /\ WF_vars(Xchg(t))

-----------------------------------------------------------------------------
Holds(t) == pc[t] = "held"
Waits(t) == pc[t] \in {"load", "xchg"}

(* At most one processor is between a successful mtx_lock or mtx_trylock   *)
(* and its mtx_unlock (threads.c:13-35).                                   *)
MutualExclusion == \A t, u \in Threads : Holds(t) /\ Holds(u) => t = u

(* The Boolean says exactly whether somebody holds the lock: an exchange   *)
(* by a loser, which stores TRUE again, or a refused mtx_init, never       *)
(* leaves the lock taken with no holder left to release it.                *)
LockedIffHeld == locked <=> \E t \in Threads : Holds(t)

(* Before the other processors are started they have not touched the lock; *)
(* with LockedIffHeld this is why mtx_init can never free a held mutex.    *)
QuietBeforeSmp == ~smp => \A t \in Threads \ {Boot} : pc[t] = "idle"

(* The inductive invariant of the proofs.  MutualExclusion alone is not    *)
(* inductive: that the winner of an exchange is alone follows from the     *)
(* meaning of the Boolean, and that mtx_init keeps this meaning from the   *)
(* order in which the kernel boots.                                        *)
LockInv == TypeOK /\ MutualExclusion /\ LockedIffHeld /\ QuietBeforeSmp

AL == INSTANCE AbstractLock
        WITH holder <- IF \E t \in Threads : Holds(t)
                       THEN CHOOSE t \in Threads : Holds(t) ELSE Free,
             waiting <- {t \in Threads : Waits(t)}

(* The spin lock implements the abstract lock, its progress included: a    *)
(* free lock that somebody waits for is eventually taken, although every   *)
(* waiter may lose the exchange any number of times (threads.c:13-23).     *)
ImplementsAbstractLock == AL!Spec
=============================================================================
