------------------------------- MODULE SmpBoot -------------------------------
(***************************************************************************)
(* How the application processors come up: boot_aps (kernel/ap_boot.c),    *)
(* the trampoline (ap_boot/boot.s), the stacks that _kernel_start hands    *)
(* out under its own spin lock (kernel_start.s), the TLS areas of tls.c,   *)
(* and the barrier at the end of __kernel_init (kernel_start.c).           *)
(*                                                                         *)
(* Every access to shared memory is a step.  An application processor      *)
(* takes the start-up IPI when it likes after it is sent, or never: the    *)
(* boot processor waits a fixed time and then counts who is there.         *)
(* Stacks and TLS areas are counted in units of one.                       *)
(***************************************************************************)
EXTENDS Integers, FiniteSets

CONSTANTS Aps,    \* application processors
          Boot,   \* the boot processor
          Base,   \* where kmalloc puts the stacks
          None,   \* no stack, no TLS area, no holder
          MaxCalls \* bound: pages that printing maps (inter-processor calls)

ASSUME ApsAssumption == IsFiniteSet(Aps) /\ Boot \notin Aps /\ None \notin Aps \cup Nat
ASSUME BaseAssumption == Base \in Nat \ {0} /\ MaxCalls \in Nat

VARIABLES count, done,     \* ap_count and ap_count_done of the trampoline
          seenDone,        \* the value of *done_ptr the boot processor has read
          apCount,         \* ap_count of the kernel
          tls, tlsUsed,    \* ap_tls has been set, ap_tls_used
          lock,            \* __ap_init_stack_mutex
          ptr, limit, size, \* __ap_init_stack_ptr, _limit, _size
          working,         \* working_processor_count
          asked, calls,    \* how many the boot processor's call goes to, and its calls so far
          pc,              \* per processor: where it is
          reg,             \* per AP: the stack pointer it has read
          sp, slot         \* per AP: its stack, its TLS area

tramp == <<count, done>>
counted == <<seenDone, apCount>>
area == <<tls, tlsUsed>>
stacks == <<ptr, limit, size>>
own == <<reg, sp, slot>>
call == <<asked, calls>>
vars == <<count, done, seenDone, apCount, tls, tlsUsed, lock, ptr, limit, size,
          working, asked, calls, pc, reg, sp, slot>>

BootPCs == {"ipi", "done", "count", "assign", "tls", "limit", "size", "ptr", "print",
            "call", "join", "barrier", "kmain", "panic", "halted"}
ApPCs == {"off", "tramp", "entered", "lock", "wait", "check", "take", "unlock",
          "tls", "init", "join", "barrier", "kmain", "panic"}

TypeOK == /\ {count, done, seenDone, apCount, tlsUsed, ptr, limit, size, working,
              asked, calls} \subseteq Nat
          /\ tls \in BOOLEAN
          /\ lock \in Aps \cup {None}
          /\ pc \in [Aps \cup {Boot} -> BootPCs \cup ApPCs]
          /\ pc[Boot] \in BootPCs /\ \A a \in Aps : pc[a] \in ApPCs
          /\ reg \in [Aps -> Nat]
          /\ sp \in [Aps -> Nat \cup {None}]
          /\ slot \in [Aps -> Nat \cup {None}]

Init == /\ count = 0 /\ done = 0 /\ seenDone = 0 /\ apCount = 0
        /\ tls = FALSE /\ tlsUsed = 0
        /\ lock = None /\ ptr = 0 /\ limit = 0 /\ size = 0
        /\ working = 0 /\ asked = 0 /\ calls = 0
        /\ pc = [p \in Aps \cup {Boot} |-> IF p = Boot THEN "ipi" ELSE "off"]
        /\ reg = [a \in Aps |-> 0]
        /\ sp = [a \in Aps |-> None]
        /\ slot = [a \in Aps |-> None]

Goto(p, label) == pc' = [pc EXCEPT ![p] = label]
At(p, label) == pc[p] = label

\* Plausible slips, for the mutants.
TakeUnlocked(a) ==
    /\ At(a, "lock") /\ lock' = a /\ Goto(a, "wait")
    /\ UNCHANGED <<call, tramp, counted, area, stacks, own, working>>
UnlockForgotten(a) ==
    /\ At(a, "unlock") /\ Goto(a, "tls")
    /\ UNCHANGED <<call, tramp, counted, area, stacks, own, lock, working>>
BarrierWithoutBoot(p) ==
    /\ At(p, "barrier") /\ working >= apCount
    /\ Goto(p, "kmain")
    /\ UNCHANGED <<call, tramp, counted, area, stacks, own, lock, working>>

-----------------------------------------------------------------------------
(* boot_aps: the IPIs and the waits of send_init_sipi_sipi, then the       *)
(* trampoline's counters until everybody who came has left the trampoline. *)
SendIpi ==
    /\ At(Boot, "ipi") /\ Goto(Boot, "done")
    /\ UNCHANGED <<call, tramp, counted, area, stacks, own, lock, working>>

ReadDone ==
    /\ At(Boot, "done")
    /\ seenDone' = done
    /\ Goto(Boot, "count")
    /\ UNCHANGED <<call, tramp, area, stacks, own, apCount, lock, working>>

ReadCount ==
    /\ At(Boot, "count")
    /\ Goto(Boot, IF seenDone < count THEN "done" ELSE "assign")
    /\ UNCHANGED <<call, tramp, counted, area, stacks, own, lock, working>>

AssignCount ==
    /\ At(Boot, "assign")
    /\ apCount' = count
    /\ Goto(Boot, "tls")
    /\ UNCHANGED <<call, tramp, area, stacks, own, seenDone, lock, working>>

(* tls_reserve_ap_space and reserve_ap_init_stack; either kmalloc may fail.*)
tls_reserve_ap_space ==
    /\ At(Boot, "tls")
    /\ tls' = TRUE
    /\ Goto(Boot, "limit")
    /\ UNCHANGED <<call, tramp, counted, stacks, own, tlsUsed, lock, working>>

ReserveFails ==
    /\ pc[Boot] \in {"tls", "limit"}
    /\ Goto(Boot, "panic")
    /\ UNCHANGED <<call, tramp, counted, area, stacks, own, lock, working>>

(* set_ap_init_stack stores the limit, the size and last the pointer.      *)
SetLimit ==
    /\ At(Boot, "limit")
    /\ limit' = Base + apCount
    /\ Goto(Boot, "size")
    /\ UNCHANGED <<call, tramp, counted, area, own, lock, ptr, size, working>>

SetSize ==
    /\ At(Boot, "size")
    /\ size' = 1
    /\ Goto(Boot, "ptr")
    /\ UNCHANGED <<call, tramp, counted, area, own, lock, ptr, limit, working>>

SetPtr ==
    /\ At(Boot, "ptr")
    /\ ptr' = Base
    /\ Goto(Boot, "print")
    /\ UNCHANGED <<call, tramp, counted, area, own, lock, limit, size, working>>

(* print_str, once for each processor counted.  Printing may need memory,  *)
(* and kmalloc a new page: map_page makes an inter-processor call, which   *)
(* is sent if others are working (apic.c:175) and waits for the answers of *)
(* as many as are working then (apic.c:204): those it was sent to answer,  *)
(* those that have joined since may.  map_page panics without a frame.     *)
PrintBooted ==
    /\ At(Boot, "print") /\ Goto(Boot, "join")
    /\ UNCHANGED <<call, tramp, counted, area, stacks, own, lock, working>>

CallOthers ==
    /\ At(Boot, "print") /\ calls < MaxCalls
    /\ asked' = IF working > 1 THEN working ELSE 0
    /\ calls' = calls + 1
    /\ Goto(Boot, "call")
    /\ UNCHANGED <<tramp, counted, area, stacks, own, lock, working>>

Answered == asked >= working - 1
CallReturns ==
    /\ At(Boot, "call") /\ Answered /\ Goto(Boot, "print")
    /\ UNCHANGED <<call, tramp, counted, area, stacks, own, lock, working>>

OthersAnswer ==
    /\ At(Boot, "call") /\ asked > 0 /\ Goto(Boot, "print")
    /\ UNCHANGED <<call, tramp, counted, area, stacks, own, lock, working>>

PrintPanics ==
    /\ At(Boot, "print") /\ Goto(Boot, "halted")
    /\ UNCHANGED <<call, tramp, counted, area, stacks, own, lock, working>>

-----------------------------------------------------------------------------
(* The trampoline, from the start-up IPI to the kernel's page tables.      *)
Arrive(a) ==
    /\ At(a, "off") /\ pc[Boot] # "ipi"
    /\ count' = count + 1
    /\ Goto(a, "tramp")
    /\ UNCHANGED <<call, counted, area, stacks, own, done, lock, working>>

Leave(a) ==
    /\ At(a, "tramp")
    /\ done' = done + 1
    /\ Goto(a, "lock")
    /\ UNCHANGED <<call, counted, area, stacks, own, count, lock, working>>

(* __ap_load_init_stack: the spin lock, the wait for a stack, the check    *)
(* against the limit, and the stack.  Who finds no stack left panics with  *)
(* the lock kept.  It is taken to stop there: kernel_panic is entered      *)
(* before the processor has a stack, a TLS area or interrupt gates, and    *)
(* what its printing then does to the machine is not modelled.             *)
TakeLock(a) ==
    /\ At(a, "lock") /\ lock = None
    /\ lock' = a
    /\ Goto(a, "wait")
    /\ UNCHANGED <<call, tramp, counted, area, stacks, own, working>>

ReadPtr(a) ==
    /\ At(a, "wait") /\ ptr # 0
    /\ reg' = [reg EXCEPT ![a] = ptr]
    /\ Goto(a, "check")
    /\ UNCHANGED <<call, tramp, counted, area, stacks, lock, working, sp, slot>>

CheckLimit(a) ==
    /\ At(a, "check")
    /\ Goto(a, IF reg[a] >= limit THEN "panic" ELSE "take")
    /\ UNCHANGED <<call, tramp, counted, area, stacks, own, lock, working>>

TakeStack(a) ==
    /\ At(a, "take")
    /\ sp' = [sp EXCEPT ![a] = reg[a] + size]
    /\ ptr' = reg[a] + size
    /\ Goto(a, "unlock")
    /\ UNCHANGED <<call, tramp, counted, area, lock, limit, size, working, reg, slot>>

DropLock(a) ==
    /\ At(a, "unlock")
    /\ lock' = None
    /\ Goto(a, "tls")
    /\ UNCHANGED <<call, tramp, counted, area, stacks, own, working>>

(* tls_create: ap_mut makes the fetch and the increment one step.          *)
tls_create(a) ==
    /\ At(a, "tls") /\ tls
    /\ slot' = [slot EXCEPT ![a] = tlsUsed]
    /\ tlsUsed' = tlsUsed + 1
    /\ Goto(a, "init")
    /\ UNCHANGED <<call, tramp, counted, stacks, tls, lock, working, reg, sp>>

\* init_gdt, init_idt, init_apic: its own, in its TLS area.
InitOwn(a) ==
    /\ At(a, "init") /\ Goto(a, "join")
    /\ UNCHANGED <<call, tramp, counted, area, stacks, own, lock, working>>

(* The end of __kernel_init, for everybody.                                *)
Join(p) ==
    /\ At(p, "join")
    /\ working' = working + 1
    /\ Goto(p, "barrier")
    /\ UNCHANGED <<call, tramp, counted, area, stacks, own, lock>>

PassBarrier(p) ==
    /\ At(p, "barrier") /\ working >= apCount + 1
    /\ Goto(p, "kmain")
    /\ UNCHANGED <<call, tramp, counted, area, stacks, own, lock, working>>

BootStep == \/ SendIpi \/ ReadDone \/ ReadCount \/ AssignCount \/ tls_reserve_ap_space
            \/ SetLimit \/ SetSize \/ SetPtr \/ PrintBooted \/ CallOthers \/ CallReturns
            \/ Join(Boot) \/ PassBarrier(Boot)
ApStep(a) == \/ Leave(a) \/ TakeLock(a) \/ ReadPtr(a) \/ CheckLimit(a) \/ TakeStack(a)
             \/ DropLock(a) \/ tls_create(a) \/ InitOwn(a) \/ Join(a) \/ PassBarrier(a)

Next == \/ BootStep \/ ReserveFails \/ OthersAnswer \/ PrintPanics
        \/ \E a \in Aps : Arrive(a) \/ ApStep(a)

(* Processors that run keep running; nothing is assumed of Arrive.         *)
Spec == Init /\ [][Next]_vars /\ WF_vars(BootStep) /\ \A a \in Aps : WF_vars(ApStep(a))

-----------------------------------------------------------------------------
(* Every stack handed out lies in the reserved area, and no two processors *)
(* have the same, late arrivals included.                                  *)
StacksApart ==
    \A a \in Aps : sp[a] # None =>
      /\ Base < sp[a] /\ sp[a] <= Base + apCount
      /\ \A b \in Aps \ {a} : sp[b] # sp[a]

(* The TLS areas were reserved for apCount processors, and tls_create does *)
(* not check: the check of the stack before it is what keeps the index in  *)
(* bounds.                                                                 *)
TlsApart ==
    \A a \in Aps : slot[a] # None =>
      /\ slot[a] < apCount
      /\ \A b \in Aps \ {a} : slot[b] # slot[a]

(* ap_count is final before any application processor can read it, and     *)
(* when somebody passes the barrier everybody it counts has arrived there. *)
InKmain == {p \in Aps \cup {Boot} : pc[p] = "kmain"}
PastJoin == {p \in Aps \cup {Boot} : pc[p] \in {"barrier", "kmain"}}
BarrierHolds ==
    InKmain # {} => /\ Boot \in PastJoin
                    /\ Cardinality(PastJoin) = apCount + 1
                    /\ \A a \in Aps : sp[a] # None => a \in PastJoin

(* A processor panics for want of a stack only after all the reserved ones *)
(* are taken: whoever was counted is not robbed of more than its turn.     *)
PanicOnlyLate ==
    (\E a \in Aps : pc[a] = "panic") => Cardinality({a \in Aps : sp[a] # None}) = apCount

(* What an application processor gets is its own, and lasts for those that *)
(* were counted.                                                           *)
OwnAreas == StacksApart /\ TlsApart /\ PanicOnlyLate

(* As many processors as were counted, and the boot processor, get into    *)
(* kmain, whoever comes late, unless the boot processor panics for want of *)
(* memory, or prints while others join: a call that was sent to fewer than *)
(* it waits for can keep everybody waiting for ever (apic.c:175, 204).     *)
Unanswered == At(Boot, "call") /\ ~Answered
AllStart == \/ <>(pc[Boot] \in {"panic", "halted"} \/ (Boot \in InKmain /\ Cardinality(InKmain) = apCount + 1))
            \/ <>[]Unanswered
=============================================================================
