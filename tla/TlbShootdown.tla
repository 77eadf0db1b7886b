---------------------------- MODULE TlbShootdown ----------------------------
(***************************************************************************)
(* Changes of the page tables and their way into every processor's TLB:    *)
(* map_page, unmap_page, unmap_page_fix_size and invalidate_tlbs_for of    *)
(* kernel/memory.c, inter_processor_call and broadcast_ipi of              *)
(* kernel/apic.c, the interrupt handler isr_inter_processor_call, and the  *)
(* processors' way into working_processor_count (kernel_start.c).          *)
(*                                                                         *)
(* pt is the translation the page tables give; the levels above a page's   *)
(* entry, which map_page fills in, are not told apart.  A TLB may load any *)
(* translation at any time and keeps it until it is invalidated.  A        *)
(* processor runs its code and, between two steps of it, the handler, with *)
(* interrupts off; an interrupt that arrives meanwhile stays pending, and  *)
(* one vector is pending at most once.                                     *)
(***************************************************************************)
EXTENDS Integers, Sequences, FiniteSets

CONSTANTS Cpus, Boot,   \* processors, and the one that boots
          Pages,        \* virtual pages
          Frames,       \* physical pages
          LargeRegion,  \* the pages one large page of the firmware maps, in order
          InitStages,   \* how far the processors have come at the start
          MayHalt,      \* processors that may panic
          None          \* no translation, no holder, no page

ASSUME BootAssumption == Boot \in Cpus
ASSUME CpusAssumption == IsFiniteSet(Cpus)
ASSUME NoneAssumption == None \notin Cpus \cup Pages \cup Frames
ASSUME LargeRegionAssumption == LargeRegion \in Seq(Pages)
ASSUME StagesAssumption == InitStages \subseteq [Cpus -> {"off", "up", "enabled", "joined"}]

VARIABLES pt,      \* what the page tables say
          large,   \* LargeRegion is still mapped by one large page
          tlb,     \* tlb[c][v]: the translation of v processor c has cached
          paging,  \* holder of paging_mutex
          ipcall,  \* holder of ipcall_mutex
          invld,   \* __invld_tlbs_addr
          count,   \* __ip_call_count
          irr,     \* the inter-processor call is pending at a processor
          isr,     \* where a processor is in the handler
          stage,   \* how far a processor has come in its start
          pc, op,  \* per processor: where it is, and the change it makes
          todo,    \* per processor: changes it makes after this one
          raced    \* ghost: a change overlapped the start of a processor

vars == <<pt, large, tlb, paging, ipcall, invld, count, irr, isr, stage, pc, op, todo, raced>>

Stages == {"off",       \* not started
           "up",        \* runs on the kernel's page tables, local APIC still disabled
           "enabled",   \* local APIC and interrupts enabled, not counted as working
           "joined"}    \* counted in working_processor_count

PCs == {"idle", "write", "flush", "lock", "reset", "send", "wait", "unlock", "halted"}
Handler == {"off", "call", "ack"}
Changes == [page : Pages, to : Frames \cup {None}]
NoChange == [page |-> None, to |-> None]

TypeOK == /\ pt \in [Pages -> Frames \cup {None}]
          /\ large \in BOOLEAN
          /\ tlb \in [Cpus -> [Pages -> Frames \cup {None}]]
          /\ paging \in Cpus \cup {None}
          /\ ipcall \in Cpus \cup {None}
          /\ invld \in Pages \cup {None}
          /\ count \in Nat
          /\ irr \in [Cpus -> BOOLEAN]
          /\ isr \in [Cpus -> Handler]
          /\ stage \in [Cpus -> Stages]
          /\ pc \in [Cpus -> PCs]
          /\ op \in [Cpus -> Changes \cup {NoChange}]
          /\ todo \in [Cpus -> Seq(Changes)]
          /\ raced \in BOOLEAN

Init == /\ pt \in [Pages -> Frames \cup {None}]
        /\ stage \in InitStages
        /\ large = \A c \in Cpus \ {Boot} : stage[c] = "off"
        /\ tlb = [c \in Cpus |-> [v \in Pages |-> None]]
        /\ paging = None /\ ipcall = None /\ invld = None /\ count = 0
        /\ irr = [c \in Cpus |-> FALSE]
        /\ isr = [c \in Cpus |-> "off"]
        /\ pc = [c \in Cpus |-> "idle"]
        /\ op = [c \in Cpus |-> NoChange]
        /\ todo = [c \in Cpus |-> << >>]
        /\ raced = FALSE

-----------------------------------------------------------------------------
Goto(c, label) == pc' = [pc EXCEPT ![c] = label]

\* A processor runs its own code: started, not halted, not in the handler.
Runs(c) == stage[c] # "off" /\ isr[c] = "off"
At(c, label) == Runs(c) /\ pc[c] = label

Joined == {c \in Cpus : stage[c] = "joined"}
get_working_processor_count == Cardinality(Joined)
AllJoined == Joined = Cpus
Alone(c) == \A d \in Cpus \ {c} : stage[d] = "off"

\* Processors whose local APIC accepts interrupts.
Listening == {c \in Cpus : stage[c] \in {"enabled", "joined"}}

Busy == \E c \in Cpus : pc[c] \notin {"idle", "halted"}
Starting == \E c \in Cpus : stage[c] \in {"up", "enabled"} /\ ~Alone(c)
Observe == raced' = (raced \/ (Busy' /\ Starting') \/ (Busy /\ stage' # stage))

Invalidate(c, S) == tlb' = [tlb EXCEPT ![c] = [v \in Pages |-> IF v \in S THEN None ELSE @[v]]]

\* Plausible slips, for the mutants.
KeepsIpcall(c) ==
    /\ At(c, "wait") /\ count >= get_working_processor_count - 1
    /\ Goto(c, "unlock")
    /\ UNCHANGED <<pt, large, tlb, paging, ipcall, invld, count, irr, isr, stage, op, todo>> /\ Observe
WaitForOneLess(c) ==
    /\ At(c, "wait") /\ count >= get_working_processor_count - 2
    /\ ipcall' = None /\ Goto(c, "unlock")
    /\ UNCHANGED <<pt, large, tlb, paging, invld, count, irr, isr, stage, op, todo>> /\ Observe
AckBeforeCall(c) ==
    /\ irr[c] /\ isr[c] = "off" /\ c \in Listening /\ pc[c] # "halted"
    /\ irr' = [irr EXCEPT ![c] = FALSE] /\ isr' = [isr EXCEPT ![c] = "call"]
    /\ count' = count + 1
    /\ UNCHANGED <<pt, large, tlb, paging, ipcall, invld, stage, pc, op, todo>> /\ Observe
FlushForgetsOwn(c) ==
    /\ At(c, "flush") /\ invld' = op[c].page /\ Goto(c, "lock")
    /\ UNCHANGED <<pt, large, tlb, paging, ipcall, count, irr, isr, stage, op, todo>> /\ Observe
ClearsWithoutFlush(c, k) ==
    /\ c = Boot /\ Alone(c) /\ large /\ At(c, "idle") /\ op[c] = NoChange /\ todo[c] = << >>
    /\ large' = FALSE
    /\ pt' = [v \in Pages |-> IF \E i \in DOMAIN LargeRegion : v = LargeRegion[i] THEN None ELSE pt[v]]
    /\ todo' = [todo EXCEPT ![c] = <<[page |-> LargeRegion[k], to |-> None]>>]
    /\ UNCHANGED <<tlb, paging, ipcall, invld, count, irr, isr, stage, pc, op>> /\ Observe

-----------------------------------------------------------------------------
(* A caller enters map_page(v, f) or unmap_page(v).  Until every processor *)
(* has passed the barrier at the end of __kernel_init only the boot        *)
(* processor calls them.  Pages under the large page are changed only by   *)
(* unmap_page_fix_size.                                                    *)
MayCall(c) == AllJoined \/ c = Boot

Call(c, change) ==
    /\ At(c, "idle") /\ op[c] = NoChange /\ MayCall(c)
    /\ \/ /\ todo[c] # << >> /\ change = Head(todo[c])
          /\ todo' = [todo EXCEPT ![c] = Tail(@)]
       \/ /\ todo[c] = << >> /\ UNCHANGED todo
          /\ \A i \in DOMAIN LargeRegion : large => change.page # LargeRegion[i]
    /\ op' = [op EXCEPT ![c] = change]
    /\ UNCHANGED <<pt, large, tlb, paging, ipcall, invld, count, irr, isr, stage, pc>> /\ Observe

LockPaging(c) ==
    /\ At(c, "idle") /\ op[c] # NoChange /\ paging = None
    /\ paging' = c
    /\ Goto(c, "write")
    /\ UNCHANGED <<pt, large, tlb, ipcall, invld, count, irr, isr, stage, op, todo>> /\ Observe

(* The entry is stored.                                                    *)
WriteEntry(c) ==
    /\ At(c, "write")
    /\ pt' = [pt EXCEPT ![op[c].page] = op[c].to]
    /\ Goto(c, "flush")
    /\ UNCHANGED <<large, tlb, paging, ipcall, invld, count, irr, isr, stage, op, todo>> /\ Observe

(* map_page finds no page for a page table, or the code panics elsewhere:  *)
(* the processor stops with interrupts off and keeps what it holds.        *)
Panic(c) ==
    /\ c \in MayHalt /\ Runs(c) /\ pc[c] \in {"idle", "write"}
    /\ Goto(c, "halted")
    /\ UNCHANGED <<pt, large, tlb, paging, ipcall, invld, count, irr, isr, stage, op, todo>> /\ Observe

(* unmap_page_fix_size on a page under a large page, called by init_mmap   *)
(* on the boot processor before any other runs: the large entry is cleared *)
(* and invalidated, every page it covered is mapped again by map_page, and *)
(* the one page is unmapped.  paging_mutex is not taken for the first part.*)
unmap_page_fix_size(c, k) ==
    LET again(i) == [page |-> LargeRegion[i], to |-> pt[LargeRegion[i]]]
        covered == {LargeRegion[i] : i \in DOMAIN LargeRegion}
    IN  /\ c = Boot /\ Alone(c) /\ large
        /\ At(c, "idle") /\ op[c] = NoChange /\ todo[c] = << >>
        /\ large' = FALSE
        /\ pt' = [v \in Pages |-> IF v \in covered THEN None ELSE pt[v]]
        /\ op' = [op EXCEPT ![c] = [page |-> LargeRegion[k], to |-> None]]
        /\ todo' = [todo EXCEPT ![c] = Append([i \in DOMAIN LargeRegion |-> again(i)],
                                              [page |-> LargeRegion[k], to |-> None])]
        /\ Goto(c, "flush")
        /\ UNCHANGED <<tlb, paging, ipcall, invld, count, irr, isr, stage>> /\ Observe

(* invalidate_tlbs_for: the address for everybody, then the own TLB.  An   *)
(* address under a large page takes the whole large translation with it.   *)
Flushed(c) == IF paging = c THEN {op[c].page}
              ELSE {LargeRegion[i] : i \in DOMAIN LargeRegion}

FlushOwn(c) ==
    /\ At(c, "flush")
    /\ invld' = op[c].page
    /\ Invalidate(c, Flushed(c))
    /\ Goto(c, "lock")
    /\ UNCHANGED <<pt, large, paging, ipcall, count, irr, isr, stage, op, todo>> /\ Observe

(* inter_processor_call.                                                   *)
LockIpcall(c) ==
    /\ At(c, "lock") /\ ipcall = None
    /\ ipcall' = c
    /\ Goto(c, "reset")
    /\ UNCHANGED <<pt, large, tlb, paging, invld, count, irr, isr, stage, op, todo>> /\ Observe

ResetCount(c) ==
    /\ At(c, "reset")
    /\ count' = 0
    /\ Goto(c, "send")
    /\ UNCHANGED <<pt, large, tlb, paging, ipcall, invld, irr, isr, stage, op, todo>> /\ Observe

broadcast_ipi(c) ==
    /\ At(c, "send")
    /\ irr' = [d \in Cpus |-> irr[d] \/ (get_working_processor_count > 1
                                         /\ d # c /\ d \in Listening)]
    /\ Goto(c, "wait")
    /\ UNCHANGED <<pt, large, tlb, paging, ipcall, invld, count, isr, stage, op, todo>> /\ Observe

EndWait(c) ==
    /\ At(c, "wait") /\ count >= get_working_processor_count - 1
    /\ ipcall' = None
    /\ Goto(c, "unlock")
    /\ UNCHANGED <<pt, large, tlb, paging, invld, count, irr, isr, stage, op, todo>> /\ Observe

(* map_page and unmap_page release paging_mutex; unmap_page_fix_size, who  *)
(* does not hold it, goes on.                                              *)
Finish(c) ==
    /\ At(c, "unlock")
    /\ paging' = IF paging = c THEN None ELSE paging
    /\ op' = [op EXCEPT ![c] = NoChange]
    /\ Goto(c, "idle")
    /\ UNCHANGED <<pt, large, tlb, ipcall, invld, count, irr, isr, stage, todo>> /\ Observe

-----------------------------------------------------------------------------
(* isr_inter_processor_call: accept, call __invalidate_tlbs, count.        *)
IsrEnter(c) ==
    /\ irr[c] /\ isr[c] = "off" /\ c \in Listening /\ pc[c] # "halted"
    /\ irr' = [irr EXCEPT ![c] = FALSE]
    /\ isr' = [isr EXCEPT ![c] = "call"]
    /\ UNCHANGED <<pt, large, tlb, paging, ipcall, invld, count, stage, pc, op, todo>> /\ Observe

IsrCall(c) ==
    /\ isr[c] = "call"
    /\ Invalidate(c, {invld})
    /\ isr' = [isr EXCEPT ![c] = "ack"]
    /\ UNCHANGED <<pt, large, paging, ipcall, invld, count, irr, stage, pc, op, todo>> /\ Observe

IsrAck(c) ==
    /\ isr[c] = "ack"
    /\ count' = count + 1
    /\ isr' = [isr EXCEPT ![c] = "off"]
    /\ UNCHANGED <<pt, large, tlb, paging, ipcall, invld, irr, stage, pc, op, todo>> /\ Observe

(* The hardware caches a translation.                                      *)
Load(c, v) ==
    /\ stage[c] # "off" /\ pt[v] # None /\ tlb[c][v] = None
    /\ tlb' = [tlb EXCEPT ![c][v] = pt[v]]
    /\ UNCHANGED <<pt, large, paging, ipcall, invld, count, irr, isr, stage, pc, op, todo>> /\ Observe

(* A processor starts, enables its local APIC (init_apic) and is counted   *)
(* (kernel_start.c:77).  The boot processor starts the others, and is      *)
(* itself counted only when it is done with __kernel_bsp_init.             *)
NextStage(c) ==
    /\ stage[c] # "joined" /\ isr[c] = "off" /\ pc[c] # "halted"
    /\ c = Boot => At(c, "idle") /\ op[c] = NoChange /\ todo[c] = << >> /\ ~Alone(c)
    /\ stage[c] = "off" => ~large /\ todo[Boot] = << >>
    /\ stage' = [stage EXCEPT ![c] = CASE @ = "off" -> "up"
                                       [] @ = "up" -> "enabled"
                                       [] @ = "enabled" -> "joined"]
    /\ UNCHANGED <<pt, large, tlb, paging, ipcall, invld, count, irr, isr, pc, op, todo>> /\ Observe

Shootdown(c) == \/ LockPaging(c) \/ WriteEntry(c) \/ FlushOwn(c) \/ LockIpcall(c)
                \/ ResetCount(c) \/ broadcast_ipi(c) \/ EndWait(c) \/ Finish(c)
Interrupt(c) == IsrEnter(c) \/ IsrCall(c) \/ IsrAck(c)

Step(c) == \/ \E change \in Changes : Call(c, change)
           \/ \E k \in DOMAIN LargeRegion : unmap_page_fix_size(c, k)
           \/ Shootdown(c)
           \/ Interrupt(c)
           \/ Panic(c)
           \/ \E v \in Pages : Load(c, v)
           \/ NextStage(c)

Next == \E c \in Cpus : Step(c)

Safety == Init /\ [][Next]_vars

(* A running processor keeps executing, and takes a pending interrupt.     *)
(* paging_mutex is a spin lock without a queue, so no fairness for         *)
(* LockPaging beyond weak fairness.                                        *)
Spec == Safety /\ \A c \in Cpus : WF_vars(Shootdown(c)) /\ WF_vars(Interrupt(c))

-----------------------------------------------------------------------------
(* When nobody is changing the page tables, no processor has a translation *)
(* cached that they no longer give: when map_page or unmap_page returns,   *)
(* the change is in force everywhere.                                      *)
Stale(c, v) == tlb[c][v] # None /\ tlb[c][v] # pt[v]

Coherent == ~raced /\ ~Busy /\ (\A c \in Cpus : pc[c] # "halted") =>
              \A c \in Cpus, v \in Pages : ~Stale(c, v)

(* The stronger statement behind it: a stale translation belongs to the    *)
(* page that is being changed, and its processor is the one that has not   *)
(* flushed yet, or has the call before it, pending or entered.             *)
StaleExplained ==
    ~raced => \A c \in Cpus, v \in Pages : Stale(c, v) =>
      \E h \in Cpus :
        \/ /\ pc[h] = "flush" /\ v \in Flushed(h)
        \/ /\ pc[h] \in {"lock", "reset", "send"} /\ op[h].page = v /\ c # h
        \/ /\ pc[h] = "wait" /\ op[h].page = v /\ c # h
           /\ irr[c] \/ isr[c] = "call"

(* While a call is waited for, the counter is the number of processors     *)
(* that have run the function: nobody counts twice, and no answer of an    *)
(* earlier call is taken for one of this call.                             *)
Answered(h) == {c \in Cpus \ {h} : ~irr[c] /\ isr[c] = "off"}

CountTrue ==
    ~raced => \A h \in Cpus :
      /\ pc[h] = "wait" /\ AllJoined => count = Cardinality(Answered(h))
      /\ pc[h] = "wait" => ~irr[h] /\ isr[h] = "off"

(* __invld_tlbs_addr is not overwritten while a processor may still read   *)
(* it for an earlier call.                                                 *)
AddressStable ==
    ~raced => \A c, h \in Cpus :
      irr[c] \/ isr[c] = "call" => (pc[h] = "wait" => invld = op[h].page)

(* A change that has been started is finished, although processors wait    *)
(* for each other with two mutexes and an interrupt, unless a processor    *)
(* has panicked or the change overlapped the start of one.                 *)
Halted == \E c \in Cpus : pc[c] = "halted"
ChangeFinishes ==
    \A c \in Cpus : (pc[c] = "write") ~> (pc[c] = "idle" \/ Halted \/ raced)

=============================================================================
