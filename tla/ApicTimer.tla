------------------------------ MODULE ApicTimer ------------------------------
(***************************************************************************)
(* Interrupt vectors (kernel/interrupt.c) and the timer of the local APIC  *)
(* (kernel/apic.c, kernel/isr/apic_timer.c) of one processor.  All of it   *)
(* is thread-local, so the only concurrency is between the processor's     *)
(* code and the interrupts it takes: between any two accesses to the APIC  *)
(* the countdown may run out and a handler may run.                        *)
(*                                                                         *)
(* The kernel has no caller of start_apic_timer yet: callers are anybody   *)
(* who follows the interface, and callbacks do nothing or stop the timer.  *)
(* A duration is a number of ticks, seconds * timer_freq.                  *)
(***************************************************************************)
EXTENDS Integers, FiniteSets

CONSTANTS FirstVec, LastVec,  \* 32 and 255
          Callbacks,
          MaxCount,           \* 0xFFFFFFFF
          Ticks,              \* durations callers ask for
          None                \* no gate, no callback

INT_VEC_INTER_PROCESSOR_CALL == FirstVec
INT_VEC_SPURIOUS == LastVec
Vectors == FirstVec .. LastVec
Isrs == {"isr_inter_processor_call", "isr_spurious_int", "isr_timer", "isr_timer_rdtsc", "isr_other"}

ASSUME VectorsAssumption == {FirstVec, LastVec} \subseteq Nat /\ LastVec >= FirstVec + 3
ASSUME TicksAssumption == MaxCount \in Nat /\ Ticks \subseteq Nat
ASSUME NoneAssumption == None \notin Callbacks \cup Isrs

VARIABLES idt, used,   \* the gates, by vector, and int_used
          lvt, conf,   \* APIC_LVT_TIMER and APIC_DIV_CONF
          count,       \* APIC_INIT_CNT; 0 when the timer is stopped
          running,     \* the countdown is going on
          irr,         \* vectors the APIC has accepted and not delivered
          handler,     \* the handler that runs, or None
          callback,    \* __apic_timer_callback
          tsc_end,     \* __apic_tsc_end is not 0
          timer_int,
          at, req,     \* where the processor's code is, and the call it executes
          owner, due,  \* ghosts: the callback the countdown, the last expiry belongs to
          clean        \* ghost: the last start found the timer at rest

hw == <<lvt, conf, count, running>>
timerVars == <<idt, used, hw, irr, handler, callback, tsc_end, timer_int, at, req, owner, due, clean>>

NoReq == [ticks |-> 0, count |-> 0, power |-> 0, periodic |-> FALSE, cb |-> None, vec |-> 0]
Masked == [vec |-> 0, masked |-> TRUE, periodic |-> FALSE]

TimerInit ==
    /\ idt = [v \in Vectors |-> None] /\ used = {}
    /\ lvt = Masked /\ conf = 0 /\ count = 0 /\ running = FALSE
    /\ irr = {} /\ handler = None /\ callback = None /\ tsc_end = FALSE
    /\ timer_int = 0 /\ at = "idt" /\ req = NoReq
    /\ owner = None /\ due = None /\ clean = TRUE

-----------------------------------------------------------------------------
(* alloc_interrupt_vector takes the first free vector, or answers 0.       *)
FreeVectors == Vectors \ used
FirstFree == CHOOSE v \in FreeVectors : \A u \in FreeVectors : v <= u

alloc_interrupt_vector(isr, vec) ==
    IF FreeVectors = {} THEN vec = 0 /\ UNCHANGED <<idt, used>>
    ELSE /\ vec = FirstFree
         /\ idt' = [idt EXCEPT ![vec] = isr]
         /\ used' = used \cup {vec}

free_interrupt_vector(vec) == /\ idt' = [idt EXCEPT ![vec] = None]
                              /\ used' = used \ {vec}

\* The processor's own code runs while no handler does.
At(label) == at = label /\ handler = None
Goto(label) == at' = label

init_idt ==
    /\ At("idt") /\ Goto("apic")
    /\ idt' = [v \in Vectors |-> CASE v = INT_VEC_INTER_PROCESSOR_CALL -> "isr_inter_processor_call"
                                   [] v = INT_VEC_SPURIOUS -> "isr_spurious_int"
                                   [] OTHER -> None]
    /\ used' = {INT_VEC_INTER_PROCESSOR_CALL, INT_VEC_SPURIOUS}
    /\ UNCHANGED <<hw, irr, handler, callback, tsc_end, timer_int, req, owner, due, clean>>

\* Plausible slips, for the mutants.
CalPeriodic ==
    /\ At("lvt") /\ Goto("count")
    /\ lvt' = [vec |-> req.vec, masked |-> FALSE, periodic |-> TRUE] /\ conf' = 11
    /\ UNCHANGED <<idt, used, count, running, irr, handler, callback, tsc_end, timer_int, req, owner, due, clean>>
CalStaysMasked ==
    /\ At("lvt") /\ Goto("count")
    /\ lvt' = [Masked EXCEPT !.vec = req.vec] /\ conf' = 11
    /\ UNCHANGED <<idt, used, count, running, irr, handler, callback, tsc_end, timer_int, req, owner, due, clean>>
KeepsPower(power) == 8 * ((power \div 8) % 2) + (power % 4)
FirstCallbackStays(ticks, n, power, periodic, cb) ==
    /\ At("ready") /\ Goto("set_lvt")
    /\ req' = [ticks |-> ticks, count |-> n, power |-> power, periodic |-> periodic, cb |-> cb, vec |-> timer_int]
    /\ callback' = IF callback = None THEN cb ELSE callback
    /\ clean' = (~running /\ timer_int \notin irr)
    /\ UNCHANGED <<idt, used, hw, irr, handler, tsc_end, timer_int, owner, due>>

-----------------------------------------------------------------------------
(* init_apic and the calibration of set_timer_freq.                        *)
init_apic ==
    /\ At("apic") /\ Goto("vector")
    /\ \E vec \in Vectors \cup {0} : alloc_interrupt_vector("isr_timer", vec) /\ timer_int' = vec
    /\ UNCHANGED <<hw, irr, handler, callback, tsc_end, req, owner, due, clean>>

CalVector ==
    /\ At("vector") /\ Goto("lvt")
    /\ \E vec \in Vectors \cup {0} :
         alloc_interrupt_vector("isr_timer_rdtsc", vec) /\ req' = [NoReq EXCEPT !.vec = vec]
    /\ UNCHANGED <<hw, irr, handler, callback, tsc_end, timer_int, owner, due, clean>>

CalLvt ==
    /\ At("lvt") /\ Goto("count")
    /\ lvt' = [vec |-> req.vec, masked |-> FALSE, periodic |-> FALSE] /\ conf' = 11
    /\ UNCHANGED <<idt, used, count, running, irr, handler, callback, tsc_end, timer_int, req, owner, due, clean>>

CalCount ==
    /\ At("count") /\ Goto("wait")
    /\ count' = MaxCount /\ running' = TRUE
    /\ UNCHANGED <<idt, used, lvt, conf, irr, handler, callback, tsc_end, timer_int, req, owner, due, clean>>

CalWait ==
    /\ At("wait") /\ tsc_end /\ Goto("free")
    /\ lvt' = Masked
    /\ UNCHANGED <<idt, used, conf, count, running, irr, handler, callback, tsc_end, timer_int, req, owner, due, clean>>

CalFree ==
    /\ At("free") /\ Goto("ready")
    /\ free_interrupt_vector(req.vec) /\ req' = NoReq
    /\ UNCHANGED <<hw, irr, handler, callback, tsc_end, timer_int, owner, due, clean>>

-----------------------------------------------------------------------------
(* start_apic_timer_rt: the smallest power of two at which the count fits. *)
\* A count that does not fit at 2^7 either is converted from a double to a
\* uint32_t all the same, and may become anything.
Twos == <<1, 2, 4, 8, 16, 32, 64, 128>>
Powers(ticks) == {p \in 0 .. 7 : ticks < MaxCount * Twos[p + 1]}
Power(ticks) == IF Powers(ticks) = {} THEN 7
                ELSE CHOOSE p \in Powers(ticks) : \A q \in Powers(ticks) : p <= q
Counts(ticks) == IF Powers(ticks) = {} THEN 0 .. MaxCount ELSE {ticks \div Twos[Power(ticks) + 1]}

\* (div_pow&4 << 1) | (div_pow&3), where & binds weaker than <<; div_pow is
\* a uint8_t that has been decremented.
DivConf(power) == LET d == (power - 1) % 256 IN 8 * ((d \div 8) % 2) + (d % 4)

\* What the APIC makes of the register: bits 3, 1 and 0.
Divider(c) == LET bits == 4 * (c \div 8) + (c % 4) IN IF bits = 7 THEN 1 ELSE Twos[bits + 2]

(* start_apic_timer, one access at a time.                                 *)
start_apic_timer(ticks, n, power, periodic, cb) ==
    /\ At("ready") /\ Goto("set_lvt")
    /\ req' = [ticks |-> ticks, count |-> n, power |-> power, periodic |-> periodic, cb |-> cb, vec |-> timer_int]
    /\ callback' = cb
    /\ clean' = (~running /\ timer_int \notin irr)
    /\ UNCHANGED <<idt, used, hw, irr, handler, tsc_end, timer_int, owner, due>>

start_apic_timer_rt(ticks, periodic, cb) ==
    \E n \in Counts(ticks) : start_apic_timer(ticks, n, Power(ticks), periodic, cb)

SetLvt == /\ At("set_lvt") /\ Goto("set_div")
          /\ lvt' = [vec |-> timer_int, masked |-> FALSE, periodic |-> req.periodic]
          /\ UNCHANGED <<idt, used, conf, count, running, irr, handler, callback, tsc_end, timer_int, req, owner, due, clean>>

SetDiv == /\ At("set_div") /\ Goto("set_count")
          /\ conf' = DivConf(req.power)
          /\ UNCHANGED <<idt, used, lvt, count, running, irr, handler, callback, tsc_end, timer_int, req, owner, due, clean>>

SetCount == /\ At("set_count") /\ Goto("ready")
            /\ count' = req.count /\ running' = (req.count # 0)
            /\ owner' = req.cb
            /\ UNCHANGED <<idt, used, lvt, conf, irr, handler, callback, tsc_end, timer_int, req, due, clean>>

stop_apic_timer == count' = 0 /\ running' = FALSE

Stop == /\ At("ready") /\ stop_apic_timer
        /\ UNCHANGED <<idt, used, lvt, conf, irr, handler, callback, tsc_end, timer_int, at, req, owner, due, clean>>

\* Somebody else on this processor wants a vector, or gives one back.
OtherAlloc == /\ At("ready")
              /\ \E vec \in Vectors \cup {0} : alloc_interrupt_vector("isr_other", vec)
              /\ UNCHANGED <<hw, irr, handler, callback, tsc_end, timer_int, at, req, owner, due, clean>>
OtherFree == /\ At("ready")
             /\ \E vec \in used : idt[vec] = "isr_other" /\ free_interrupt_vector(vec)
             /\ UNCHANGED <<hw, irr, handler, callback, tsc_end, timer_int, at, req, owner, due, clean>>

-----------------------------------------------------------------------------
(* The APIC: the countdown ends; a vector is delivered.                    *)
Expire == /\ running /\ at # "halted"
          /\ running' = lvt.periodic
          /\ irr' = IF lvt.masked THEN irr ELSE irr \cup {lvt.vec}
          /\ due' = owner
          /\ UNCHANGED <<idt, used, lvt, conf, count, handler, callback, tsc_end, timer_int, at, req, owner, clean>>

Deliver(v) == /\ handler = None /\ at # "halted" /\ v \in irr
              /\ irr' = irr \ {v}
              /\ IF idt[v] = None THEN Goto("halted") /\ UNCHANGED handler
                 ELSE handler' = idt[v] /\ UNCHANGED at
              /\ UNCHANGED <<idt, used, hw, callback, tsc_end, timer_int, req, owner, due, clean>>

isr_timer == /\ handler = "isr_timer" /\ handler' = None
             /\ UNCHANGED hw \/ (stop_apic_timer /\ UNCHANGED <<lvt, conf>>)
             /\ UNCHANGED <<idt, used, irr, callback, tsc_end, timer_int, at, req, owner, due, clean>>

isr_timer_rdtsc == /\ handler = "isr_timer_rdtsc" /\ handler' = None
                   /\ tsc_end' = TRUE
                   /\ UNCHANGED <<idt, used, hw, irr, callback, timer_int, at, req, owner, due, clean>>

\* An NMI or a machine check: the stubs of interrupt.s panic.
Exception == /\ at \notin {"idt", "halted"} /\ Goto("halted")
             /\ UNCHANGED <<idt, used, hw, irr, handler, callback, tsc_end, timer_int, req, owner, due, clean>>

Code == \/ init_idt \/ init_apic
        \/ CalVector \/ CalLvt \/ CalCount \/ CalWait \/ CalFree
        \/ SetLvt \/ SetDiv \/ SetCount
Handlers == at # "halted" /\ (isr_timer \/ isr_timer_rdtsc)
Interrupts == (\E v \in Vectors : Deliver(v)) \/ Handlers
Calls == \/ \E ticks \in Ticks, periodic \in BOOLEAN, cb \in Callbacks : start_apic_timer_rt(ticks, periodic, cb)
         \/ Stop \/ OtherAlloc \/ OtherFree

TimerNext == Code \/ Interrupts \/ Calls \/ Expire \/ Exception

(* The processor executes, the countdown ends, the APIC delivers.          *)
TimerSpec == TimerInit /\ [][TimerNext]_timerVars /\ WF_timerVars(Code) /\ WF_timerVars(Interrupts) /\ WF_timerVars(Expire)

-----------------------------------------------------------------------------
TimerTypeOK ==
    /\ idt \in [Vectors -> Isrs \cup {None}]
    /\ used \subseteq Vectors /\ irr \subseteq Vectors
    /\ conf \in 0 .. 11 /\ count \in 0 .. MaxCount /\ running \in BOOLEAN
    /\ {callback, owner, due} \subseteq Callbacks \cup {None}

(* An interrupt on its way finds its handler: set_timer_freq gives the     *)
(* calibration's vector back (apic.c:157) only when nothing can arrive at  *)
(* it any more, and nobody else is ever given the timer's vector.          *)
InterruptsHaveGates ==
    at # "halted" =>
      \A v \in irr : idt[v] = IF v = timer_int THEN "isr_timer" ELSE "isr_timer_rdtsc"

(* An expiry calls the callback of the start it belongs to, whatever       *)
(* handlers ran between the four stores of start_apic_timer (apic.c:107-   *)
(* 117), provided that start found the timer at rest: a start over a       *)
(* running timer can have the old expiry call the new callback.            *)
OwnCallback == InterruptsHaveGates /\ (handler = "isr_timer" /\ clean => callback = due)

(* The timer runs for the time asked for, but for the rounding of the      *)
(* count, up to a division by 16.  For more, apic.c:115 loses a bit of the *)
(* divider and the timer is faster than asked.                             *)
RightDuration ==
    at = "ready" /\ running /\ req.cb # None /\ req.power <= 4 =>
      LET d == count * Divider(conf) IN d <= req.ticks /\ req.ticks < d + Twos[req.power + 1]

(* The calibration ends (apic.c:154): the handler that stores the time is  *)
(* in the gate, unmasked and fired, before the loop can wait for it.       *)
CalibrationEnds == <>(at \in {"ready", "halted"})
=============================================================================
