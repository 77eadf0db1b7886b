------------------------------ MODULE SmpProofs ------------------------------
(***************************************************************************)
(* Proofs about the start of the application processors, for any finite    *)
(* set of them and any place of the stacks.                                *)
(***************************************************************************)
EXTENDS SmpBoot, FiniteSetTheorems, TLAPS

Stacked == {a \in Aps : sp[a] # None}
Slotted == {a \in Aps : slot[a] # None}

\* Where a processor holds the stack lock (a panic keeps it), where it has a
\* stack, a TLS area; where the boot processor has published the stacks.
Holding == {"wait", "check", "take", "unlock", "panic"}
WithStack == {"unlock", "tls", "init", "join", "barrier", "kmain"}
WithSlot == {"init", "join", "barrier", "kmain"}
Published == {"print", "call", "halted", "join", "barrier", "kmain"}

LockInv == \A a \in Aps : (pc[a] \in Holding) <=> (lock = a)

OwnInv == \A a \in Aps : /\ (sp[a] # None) <=> (pc[a] \in WithStack)
                         /\ (slot[a] # None) <=> (pc[a] \in WithSlot)

(* The pointer comes last, after limit and size.                           *)
PublishInv ==
    /\ (ptr # 0) <=> (pc[Boot] \in Published)
    /\ pc[Boot] \in {"size", "ptr"} \cup Published => limit = Base + apCount
    /\ pc[Boot] \in {"ptr"} \cup Published => size = 1

(* The pointer counts the stacks handed out, and what the holder of the    *)
(* lock has read of it is not outdated.                                    *)
PtrInv ==
    /\ ptr = 0 => \A a \in Aps : pc[a] \notin {"check", "take", "panic"} \cup WithStack
    /\ ptr # 0 => ptr = Base + Cardinality(Stacked) /\ ptr <= limit
    /\ \A a \in Aps : /\ pc[a] \in {"check", "take"} => reg[a] = ptr
                      /\ pc[a] = "take" => ptr < limit
                      /\ pc[a] = "panic" => ptr = limit

StackInv == \A a \in Aps : sp[a] # None => /\ Base < sp[a] /\ sp[a] <= ptr
                                           /\ \A b \in Aps \ {a} : sp[b] # sp[a]

SlotInv == /\ tlsUsed = Cardinality(Slotted)
           /\ \A a \in Aps : slot[a] # None => /\ slot[a] < tlsUsed
                                               /\ \A b \in Aps \ {a} : slot[b] # slot[a]

JoinInv == /\ working = Cardinality(PastJoin)
           /\ InKmain # {} => working >= apCount + 1

SmpInv == TypeOK /\ LockInv /\ OwnInv /\ PublishInv /\ PtrInv /\ StackInv /\ SlotInv /\ JoinInv

(* All sets of processors are finite.                                      *)
LEMMA ProcessorsFinite ==
  /\ IsFiniteSet(Stacked) /\ Cardinality(Stacked) \in Nat
  /\ IsFiniteSet(Slotted) /\ Cardinality(Slotted) \in Nat
  /\ IsFiniteSet(PastJoin) /\ Cardinality(PastJoin) \in Nat
<1>1. IsFiniteSet(Aps) /\ IsFiniteSet(Aps \cup {Boot})
  BY ApsAssumption, FS_AddElement
<1>2. Stacked \subseteq Aps /\ Slotted \subseteq Aps /\ PastJoin \subseteq Aps \cup {Boot}
  BY DEF Stacked, Slotted, PastJoin
<1>3. IsFiniteSet(Stacked) /\ IsFiniteSet(Slotted) /\ IsFiniteSet(PastJoin)
  BY <1>1, <1>2, FS_Subset
<1>4. QED
  BY <1>3, FS_CardinalityType

(* Before boot_aps nobody has a stack.                                     *)
LEMMA SmpInit == Init => SmpInv
<1> SUFFICES ASSUME Init PROVE SmpInv
  OBVIOUS
<1> USE ApsAssumption, BaseAssumption DEF Init
<1>1. TypeOK
  <2>1. pc \in [Aps \cup {Boot} -> BootPCs \cup ApPCs]
    BY DEF BootPCs, ApPCs
  <2>2. pc[Boot] \in BootPCs /\ \A a \in Aps : pc[a] \in ApPCs
    BY DEF BootPCs, ApPCs
  <2>3. /\ reg \in [Aps -> Nat] /\ sp \in [Aps -> Nat \cup {None}]
        /\ slot \in [Aps -> Nat \cup {None}]
    <3>1. 0 \in Nat /\ None \in Nat \cup {None}
      OBVIOUS
    <3>2. QED
      BY <3>1
  <2>4. {count, done, seenDone, apCount, tlsUsed, ptr, limit, size, working, asked, calls} \subseteq Nat
    OBVIOUS
  <2>5. tls \in BOOLEAN /\ lock \in Aps \cup {None}
    OBVIOUS
  <2>6. QED
    BY <2>1, <2>2, <2>3, <2>4, <2>5 DEF TypeOK
<1>2. pc[Boot] = "ipi" /\ \A a \in Aps : pc[a] = "off"
  OBVIOUS
<1>3. LockInv /\ OwnInv /\ PublishInv /\ PtrInv /\ StackInv
  BY <1>2 DEF LockInv, OwnInv, PublishInv, PtrInv, StackInv, Holding, WithStack, WithSlot, Published
<1>4. Slotted = {} /\ PastJoin = {} /\ InKmain = {}
  BY <1>2 DEF Slotted, PastJoin, InKmain
<1>5. SlotInv /\ JoinInv
  BY <1>4, FS_EmptySet DEF SlotInv, JoinInv
<1>6. QED
  BY <1>1, <1>3, <1>5 DEF SmpInv

-----------------------------------------------------------------------------
(* Most steps move one processor on without a stack, a slot or a lock      *)
(* changing hands; what they may change are the places named here.         *)
Quiet(p, to) ==
    /\ p \in Aps \cup {Boot} /\ Goto(p, to)
    /\ p = Boot => to \in BootPCs
    /\ p \in Aps => to \in ApPCs
    /\ UNCHANGED <<tlsUsed, sp, slot, working, ptr>> /\ lock' \in Aps \cup {None}
    /\ {count', done', seenDone', apCount', limit', size', asked', calls'} \subseteq Nat /\ tls' \in BOOLEAN
    /\ reg' \in [Aps -> Nat]

(* Such a step changes no count of stacks or areas.                        *)
LEMMA QuietType ==
  ASSUME TypeOK, NEW p, NEW to, Quiet(p, to)
  PROVE  /\ TypeOK'
         /\ pc'[p] = to /\ \A q \in Aps \cup {Boot} : q # p => pc'[q] = pc[q]
<1>1. pc' \in [Aps \cup {Boot} -> BootPCs \cup ApPCs]
  BY DEF Quiet, Goto, TypeOK
<1>2. pc'[p] = to /\ \A q \in Aps \cup {Boot} : q # p => pc'[q] = pc[q]
  BY DEF Quiet, Goto, TypeOK
<1>3. pc'[Boot] \in BootPCs /\ \A a \in Aps : pc'[a] \in ApPCs
  BY <1>2, ApsAssumption DEF Quiet, TypeOK
<1>4. QED
  BY <1>1, <1>2, <1>3 DEF TypeOK, Quiet

(* Who is past the join stays so, and nobody else is counted.              *)
LEMMA QuietJoin ==
  ASSUME TypeOK, JoinInv, NEW p, NEW to, Quiet(p, to),
         (pc[p] \in {"barrier", "kmain"}) <=> (to \in {"barrier", "kmain"}),
         to = "kmain" => working >= apCount + 1,
         apCount' = apCount \/ InKmain' = {}
  PROVE  JoinInv'
<1>1. pc'[p] = to /\ \A q \in Aps \cup {Boot} : q # p => pc'[q] = pc[q]
  BY QuietType
<1>2. PastJoin' = PastJoin
  BY <1>1 DEF PastJoin, Quiet
<1>3. InKmain' # {} => InKmain # {} \/ to = "kmain"
  BY <1>1 DEF InKmain, Quiet
<1>4. QED
  BY <1>2, <1>3 DEF JoinInv, Quiet

(* The stacks and slots, as long as nobody takes one.                      *)
LEMMA QuietOwn ==
  ASSUME UNCHANGED <<sp, slot, tlsUsed, ptr>>, StackInv, SlotInv
  PROVE  StackInv' /\ SlotInv' /\ Stacked' = Stacked
  BY DEF StackInv, SlotInv, Stacked, Slotted

-----------------------------------------------------------------------------
(* A quiet step of the boot processor.                                     *)
LEMMA BootQuiet ==
  ASSUME SmpInv, NEW to, Quiet(Boot, to), UNCHANGED <<reg, lock>>,
         (to \in Published) <=> (pc[Boot] \in Published),
         to \in {"size", "ptr"} \cup Published => limit' = Base + apCount',
         to \in {"ptr"} \cup Published => size' = 1,
         (pc[Boot] \in {"barrier", "kmain"}) <=> (to \in {"barrier", "kmain"}),
         to = "kmain" => working >= apCount + 1,
         apCount' = apCount \/ InKmain' = {},
         ptr # 0 => limit' = limit
  PROVE  SmpInv'
<1>1. TypeOK'
  BY QuietType DEF SmpInv
<1>2. pc'[Boot] = to /\ \A a \in Aps : pc'[a] = pc[a]
  BY QuietType, ApsAssumption DEF SmpInv
<1>3. LockInv' /\ OwnInv'
  BY <1>2 DEF SmpInv, LockInv, OwnInv, Quiet
<1>4. PublishInv'
  BY <1>2 DEF SmpInv, PublishInv, Quiet
<1>5. StackInv' /\ SlotInv' /\ Stacked' = Stacked
  BY QuietOwn DEF SmpInv, Quiet
<1>6. PtrInv'
  BY <1>2, <1>5 DEF SmpInv, PtrInv, Quiet
<1>7. JoinInv'
  BY QuietJoin DEF SmpInv
<1>8. QED
  BY <1>1, <1>3, <1>4, <1>5, <1>6, <1>7 DEF SmpInv

(* A quiet step of an application processor, the lock apart.               *)
LEMMA ApQuiet ==
  ASSUME SmpInv, NEW a \in Aps, NEW to, Quiet(a, to), LockInv',
         UNCHANGED <<apCount, limit, size>>,
         \A b \in Aps \ {a} : reg'[b] = reg[b],
         (to \in WithStack) <=> (pc[a] \in WithStack),
         (to \in WithSlot) <=> (pc[a] \in WithSlot),
         (pc[a] \in {"barrier", "kmain"}) <=> (to \in {"barrier", "kmain"}),
         to = "kmain" => working >= apCount + 1,
         to \in {"check", "take", "panic"} => ptr # 0,
         to \in {"check", "take"} => reg'[a] = ptr,
         to = "take" => ptr < limit,
         to = "panic" => ptr = limit
  PROVE  SmpInv'
<1> a \in Aps \cup {Boot}
  OBVIOUS
<1>1. TypeOK'
  BY QuietType DEF SmpInv
<1>2. /\ pc'[a] = to /\ \A b \in Aps \ {a} : pc'[b] = pc[b]
      /\ pc'[Boot] = pc[Boot]
  BY QuietType, ApsAssumption DEF SmpInv
<1>3. OwnInv'
  BY <1>2 DEF SmpInv, OwnInv, Quiet
<1>4. PublishInv'
  BY <1>2 DEF SmpInv, PublishInv, Quiet
<1>5. StackInv' /\ SlotInv' /\ Stacked' = Stacked
  BY QuietOwn DEF SmpInv, Quiet
<1>6. PtrInv'
  <2>1. ptr' = 0 => \A b \in Aps : pc'[b] \notin {"check", "take", "panic"} \cup WithStack
    BY <1>2 DEF SmpInv, PtrInv, Quiet
  <2>2. ptr' # 0 => ptr' = Base + Cardinality(Stacked') /\ ptr' <= limit'
    BY <1>5 DEF SmpInv, PtrInv, Quiet
  <2>3. \A b \in Aps : /\ pc'[b] \in {"check", "take"} => reg'[b] = ptr'
                       /\ pc'[b] = "take" => ptr' < limit'
                       /\ pc'[b] = "panic" => ptr' = limit'
    BY <1>2 DEF SmpInv, PtrInv, Quiet
  <2>4. QED
    BY <2>1, <2>2, <2>3 DEF PtrInv
<1>7. JoinInv'
  BY QuietJoin DEF SmpInv
<1>8. QED
  BY <1>1, <1>3, <1>4, <1>5, <1>6, <1>7 DEF SmpInv

(* What is known of the types in every state.                              *)
LEMMA Numbers ==
  ASSUME TypeOK
  PROVE  /\ count \in Nat /\ done \in Nat /\ seenDone \in Nat /\ apCount \in Nat
         /\ tlsUsed \in Nat /\ ptr \in Nat /\ limit \in Nat /\ size \in Nat /\ working \in Nat
         /\ asked \in Nat /\ calls \in Nat
         /\ tls \in BOOLEAN /\ lock \in Aps \cup {None}
         /\ reg \in [Aps -> Nat] /\ \A a \in Aps : reg[a] \in Nat
  BY DEF TypeOK

(* Before the boot processor has published the stacks nobody is in kmain.  *)
LEMMA NobodyEarly ==
  ASSUME SmpInv, pc[Boot] \notin Published
  PROVE  InKmain = {} /\ ptr = 0 /\ Stacked = {}
<1>1. ptr = 0
  BY DEF SmpInv, PublishInv
<1>2. \A a \in Aps : pc[a] \notin WithStack
  BY <1>1 DEF SmpInv, PtrInv
<1>3. QED
  BY <1>1, <1>2 DEF InKmain, Stacked, SmpInv, OwnInv, WithStack, Published

(* The steps of the boot processor up to the size of the areas.            *)
LEMMA BootSteps ==
  ASSUME SmpInv
  PROVE  /\ SendIpi \/ ReadDone \/ ReadCount => SmpInv'
         /\ AssignCount => SmpInv'
         /\ tls_reserve_ap_space \/ ReserveFails => SmpInv'
         /\ SetLimit \/ SetSize => SmpInv'
         /\ PrintBooted \/ CallOthers \/ CallReturns \/ OthersAnswer \/ PrintPanics => SmpInv'
         /\ PassBarrier(Boot) => SmpInv'
<1> USE BaseAssumption DEF At, call, tramp, counted, area, stacks, own
<1>1. TypeOK /\ PublishInv /\ Boot \in Aps \cup {Boot} /\ Boot \notin Aps
  BY ApsAssumption DEF SmpInv
<1> USE <1>1, Numbers
<1>2. ASSUME SendIpi \/ ReadDone \/ ReadCount PROVE SmpInv'
  <2>1. PICK to \in {"done", "count", "assign"} : Quiet(Boot, to)
    BY <1>2 DEF SendIpi, ReadDone, ReadCount, Quiet, BootPCs
  <2>2. /\ pc[Boot] \in {"ipi", "done", "count"}
        /\ UNCHANGED <<reg, lock, apCount, limit>>
    BY <1>2 DEF SendIpi, ReadDone, ReadCount
  <2>3. QED
    BY <2>1, <2>2, BootQuiet DEF Published
<1>3. ASSUME AssignCount PROVE SmpInv'
  <2>1. /\ Quiet(Boot, "tls") /\ pc[Boot] = "assign" /\ UNCHANGED <<reg, lock, limit>>
    BY <1>3 DEF AssignCount, Quiet, BootPCs
  <2>2. \A q \in Aps \cup {Boot} : pc'[q] = pc[q] \/ pc'[q] = "tls"
    BY <2>1, QuietType
  <2>3. InKmain' = {}
    BY <2>1, <2>2, NobodyEarly DEF Published, InKmain
  <2>4. QED
    BY <2>1, <2>3, BootQuiet DEF Published
<1>4. ASSUME tls_reserve_ap_space \/ ReserveFails PROVE SmpInv'
  <2>1. PICK to \in {"limit", "panic"} : Quiet(Boot, to)
    BY <1>4 DEF tls_reserve_ap_space, ReserveFails, Quiet, BootPCs
  <2>2. /\ pc[Boot] \in {"tls", "limit"}
        /\ UNCHANGED <<reg, lock, apCount, limit>>
    BY <1>4 DEF tls_reserve_ap_space, ReserveFails
  <2>3. QED
    BY <2>1, <2>2, BootQuiet DEF Published
<1>5. ASSUME SetLimit \/ SetSize PROVE SmpInv'
  <2>1. CASE SetLimit
    <3>1. Quiet(Boot, "size") /\ pc[Boot] = "limit" /\ UNCHANGED <<reg, lock, apCount>>
      BY <2>1 DEF SetLimit, Quiet, BootPCs
    <3>2. limit' = Base + apCount' /\ ptr = 0
      BY <2>1, <3>1 DEF SetLimit, PublishInv, Published
    <3>3. QED
      BY <3>1, <3>2, BootQuiet DEF Published
  <2>2. CASE SetSize
    <3>1. Quiet(Boot, "ptr") /\ pc[Boot] = "size" /\ UNCHANGED <<reg, lock, apCount, limit>>
      BY <2>2 DEF SetSize, Quiet, BootPCs
    <3>2. limit' = Base + apCount' /\ size' = 1
      BY <2>2, <3>1 DEF SetSize, PublishInv
    <3>3. QED
      BY <3>1, <3>2, BootQuiet DEF Published
  <2>3. QED
    BY <1>5, <2>1, <2>2
<1>6. ASSUME PrintBooted \/ CallOthers \/ CallReturns \/ OthersAnswer \/ PrintPanics PROVE SmpInv'
  <2>1. /\ pc[Boot] \in {"print", "call"}
        /\ UNCHANGED <<reg, lock, apCount, limit, size>>
    BY <1>6 DEF PrintBooted, CallOthers, CallReturns, OthersAnswer, PrintPanics
  <2>2. PICK to \in {"print", "call", "join", "halted"} : Quiet(Boot, to)
    BY <1>6 DEF PrintBooted, CallOthers, CallReturns, OthersAnswer, PrintPanics, Quiet, BootPCs
  <2>3. limit = Base + apCount /\ size = 1
    BY <2>1 DEF PublishInv, Published
  <2>4. QED
    BY <2>1, <2>2, <2>3, BootQuiet DEF Published
<1>7. ASSUME PassBarrier(Boot) PROVE SmpInv'
  <2>1. /\ Quiet(Boot, "kmain") /\ pc[Boot] = "barrier" /\ working >= apCount + 1
        /\ UNCHANGED <<reg, lock, apCount, limit, size>>
    BY <1>7 DEF PassBarrier, Quiet, BootPCs
  <2>2. limit = Base + apCount /\ size = 1
    BY <2>1 DEF PublishInv, Published
  <2>3. QED
    BY <2>1, <2>2, BootQuiet DEF Published
<1>8. QED
  BY <1>2, <1>3, <1>4, <1>5, <1>6, <1>7
-----------------------------------------------------------------------------
(* The steps of an application processor that take nothing.                *)
LEMMA ApSteps ==
  ASSUME SmpInv, NEW a \in Aps
  PROVE  /\ Arrive(a) \/ Leave(a) \/ InitOwn(a) => SmpInv'
         /\ TakeLock(a) \/ DropLock(a) => SmpInv'
         /\ ReadPtr(a) => SmpInv'
         /\ CheckLimit(a) => SmpInv'
         /\ PassBarrier(a) => SmpInv'
<1> USE BaseAssumption DEF At, call, tramp, counted, area, stacks, own
<1>1. /\ TypeOK /\ PtrInv /\ LockInv /\ PublishInv
      /\ a \in Aps \cup {Boot} /\ a # Boot /\ None \notin Aps
  BY ApsAssumption DEF SmpInv
<1> USE <1>1, Numbers
<1>2. ASSUME Arrive(a) \/ Leave(a) \/ InitOwn(a) PROVE SmpInv'
  <2>1. PICK to \in {"tramp", "lock", "join"} :
           /\ Quiet(a, to) /\ UNCHANGED <<reg, lock, apCount, limit, size>>
           /\ \/ to \in {"tramp", "lock"} /\ pc[a] \in {"off", "tramp"}
              \/ to = "join" /\ pc[a] = "init"
    BY <1>2 DEF Arrive, Leave, InitOwn, Quiet, ApPCs
  <2>2. LockInv'
    BY <2>1, QuietType DEF LockInv, Holding
  <2>3. QED
    BY <2>1, <2>2, ApQuiet DEF WithStack, WithSlot
<1>3. ASSUME TakeLock(a) \/ DropLock(a) PROVE SmpInv'
  <2>1. /\ UNCHANGED <<reg, apCount, limit, size>>
        /\ \/ Quiet(a, "wait") /\ pc[a] = "lock" /\ lock = None /\ lock' = a
           \/ Quiet(a, "tls") /\ pc[a] = "unlock" /\ lock' = None
    BY <1>3 DEF TakeLock, DropLock, Quiet, ApPCs
  <2>2. LockInv'
    BY <2>1, QuietType DEF LockInv, Holding
  <2>3. QED
    BY <2>1, <2>2, ApQuiet DEF WithStack, WithSlot
<1>4. ASSUME ReadPtr(a) PROVE SmpInv'
  <2>1. /\ Quiet(a, "check") /\ pc[a] = "wait" /\ ptr # 0
        /\ reg' = [reg EXCEPT ![a] = ptr] /\ UNCHANGED <<lock, apCount, limit, size>>
    BY <1>4 DEF ReadPtr, Quiet, ApPCs
  <2>2. LockInv'
    BY <2>1, QuietType DEF LockInv, Holding
  <2>3. QED
    BY <2>1, <2>2, ApQuiet DEF WithStack, WithSlot
<1>5. ASSUME CheckLimit(a) PROVE SmpInv'
  <2>1. PICK to \in {"panic", "take"} :
           /\ Quiet(a, to) /\ pc[a] = "check"
           /\ to = "panic" <=> reg[a] >= limit
           /\ UNCHANGED <<reg, lock, apCount, limit, size>>
    BY <1>5 DEF CheckLimit, Quiet, ApPCs
  <2>2. LockInv'
    BY <2>1, QuietType DEF LockInv, Holding
  <2>3. ptr # 0 /\ reg[a] = ptr /\ ptr <= limit
    BY <2>1 DEF PtrInv
  <2>4. (to = "take" => ptr < limit) /\ (to = "panic" => ptr = limit)
    BY <2>1, <2>3
  <2>5. QED
    BY <2>1, <2>2, <2>3, <2>4, ApQuiet DEF WithStack, WithSlot
<1>6. ASSUME PassBarrier(a) PROVE SmpInv'
  <2>1. /\ Quiet(a, "kmain") /\ pc[a] = "barrier" /\ working >= apCount + 1
        /\ UNCHANGED <<reg, lock, apCount, limit, size>>
    BY <1>6 DEF PassBarrier, Quiet, ApPCs
  <2>2. LockInv'
    BY <2>1, QuietType DEF LockInv, Holding
  <2>3. QED
    BY <2>1, <2>2, ApQuiet DEF WithStack, WithSlot
<1>7. QED
  BY <1>2, <1>3, <1>4, <1>5, <1>6

(* The stacks are published: the first is at Base, and nobody has one yet. *)
LEMMA SetPtrStep == ASSUME SmpInv, SetPtr PROVE SmpInv'
<1> USE BaseAssumption DEF SetPtr, At, call, tramp, counted, area, own
<1>1. TypeOK /\ PtrInv /\ PublishInv /\ OwnInv /\ StackInv /\ Boot \notin Aps
  BY ApsAssumption DEF SmpInv
<1> USE <1>1, Numbers
<1>2. pc[Boot] = "ptr" /\ ptr = 0 /\ Stacked = {} /\ limit = Base + apCount /\ size = 1
  BY NobodyEarly DEF Published, PublishInv
<1>3. pc'[Boot] = "print" /\ \A a \in Aps : pc'[a] = pc[a]
  BY DEF TypeOK, Goto
<1>4. TypeOK'
  BY <1>3 DEF TypeOK, Goto, BootPCs
<1>5. LockInv' /\ OwnInv'
  BY <1>3 DEF SmpInv, LockInv, OwnInv
<1>6. PublishInv'
  BY <1>2, <1>3 DEF PublishInv, Published
<1>7. Stacked' = {}
  BY <1>2 DEF Stacked
<1>8. PtrInv'
  <2>1. \A a \in Aps : pc'[a] \notin {"check", "take", "panic"}
    BY <1>2, <1>3 DEF PtrInv
  <2>2. ptr' = Base + Cardinality(Stacked') /\ ptr' <= limit'
    BY <1>2, <1>7, FS_EmptySet
  <2>3. QED
    BY <2>1, <2>2 DEF PtrInv
<1>9. StackInv' /\ SlotInv'
  BY <1>2 DEF SmpInv, StackInv, SlotInv, Slotted, Stacked
<1>10. PastJoin' = PastJoin /\ InKmain' = InKmain
  BY <1>2, <1>3 DEF PastJoin, InKmain
<1>11. JoinInv'
  BY <1>10 DEF SmpInv, JoinInv
<1>12. QED
  BY <1>4, <1>5, <1>6, <1>8, <1>9, <1>11 DEF SmpInv

(* A stack is handed out: what the holder has read is still the pointer.   *)
LEMMA TakeStackStep == ASSUME SmpInv, NEW a \in Aps, TakeStack(a) PROVE SmpInv'
<1> USE BaseAssumption DEF At, call, tramp, counted, area
<1>1. /\ TypeOK /\ PtrInv /\ PublishInv /\ OwnInv /\ StackInv /\ LockInv /\ SlotInv /\ JoinInv
      /\ Boot \notin Aps /\ None \notin Nat /\ a \in Aps \cup {Boot} /\ a # Boot
  BY ApsAssumption DEF SmpInv
<1> USE <1>1, Numbers
<1>2. /\ pc[a] = "take" /\ ptr # 0 /\ ptr < limit /\ reg[a] = ptr /\ size = 1 /\ lock = a
      /\ sp[a] = None
  BY DEF TakeStack, PtrInv, PublishInv, LockInv, Holding, OwnInv, WithStack
<1>3. /\ ptr' = ptr + 1 /\ sp' = [sp EXCEPT ![a] = ptr + 1]
      /\ sp \in [Aps -> Nat \cup {None}]
      /\ pc' = [pc EXCEPT ![a] = "unlock"] /\ pc \in [Aps \cup {Boot} -> BootPCs \cup ApPCs]
      /\ UNCHANGED <<count, done, seenDone, apCount, tls, tlsUsed, lock, limit, size, working,
                     asked, calls,
                     reg, slot>>
  BY <1>2 DEF TakeStack, Goto, TypeOK
<1>4. /\ pc'[a] = "unlock" /\ \A q \in Aps \cup {Boot} : q # a => pc'[q] = pc[q]
      /\ sp'[a] = ptr + 1 /\ \A b \in Aps \ {a} : sp'[b] = sp[b]
      /\ sp' \in [Aps -> Nat \cup {None}] /\ pc' \in [Aps \cup {Boot} -> BootPCs \cup ApPCs]
  BY <1>3 DEF ApPCs
<1>5. TypeOK'
  BY <1>3, <1>4 DEF TypeOK, ApPCs
<1>6. LockInv' /\ OwnInv' /\ PublishInv'
  <2>1. LockInv'
    BY <1>2, <1>3, <1>4 DEF LockInv, Holding
  <2>2. OwnInv'
    BY <1>2, <1>3, <1>4 DEF OwnInv, WithStack, WithSlot
  <2>3. PublishInv'
    BY <1>2, <1>3, <1>4 DEF PublishInv
  <2>4. QED
    BY <2>1, <2>2, <2>3
<1>7. Cardinality(Stacked') = Cardinality(Stacked) + 1
  <2>1. Stacked' = Stacked \cup {a} /\ a \notin Stacked
    BY <1>2, <1>4 DEF Stacked
  <2>2. QED
    BY <2>1, ProcessorsFinite, FS_AddElement
<1>8. PtrInv'
  <2>1. ptr' # 0 /\ ptr' = Base + Cardinality(Stacked') /\ ptr' <= limit'
    BY <1>2, <1>3, <1>7, ProcessorsFinite DEF PtrInv
  <2>2. \A b \in Aps : pc'[b] \notin {"check", "take", "panic"}
    BY <1>2, <1>4 DEF LockInv, Holding
  <2>3. QED
    BY <2>1, <2>2 DEF PtrInv
<1>9. StackInv'
  <2>1. Base < ptr + 1
    BY <1>2, ProcessorsFinite DEF PtrInv
  <2>2. \A b \in Aps \ {a} : sp[b] # None => sp[b] \in Nat /\ Base < sp[b] /\ sp[b] < ptr + 1
    BY <1>3 DEF StackInv
  <2>3. ASSUME NEW b \in Aps, sp'[b] # None
        PROVE  /\ Base < sp'[b] /\ sp'[b] <= ptr'
               /\ \A c \in Aps \ {b} : sp'[c] # sp'[b]
    <3>1. CASE b = a
      <4>1. \A c \in Aps \ {a} : sp[c] # ptr + 1
        BY <2>2
      <4>2. QED
        BY <3>1, <4>1, <2>1, <1>3, <1>4
    <3>2. CASE b # a
      <4>1. sp[b] # None /\ sp'[b] = sp[b] /\ sp[b] # ptr + 1
        BY <3>2, <2>2, <2>3, <1>4
      <4>2. \A c \in Aps \ {b} : sp'[c] # sp'[b]
        BY <4>1, <1>4 DEF StackInv
      <4>3. QED
        BY <4>1, <4>2, <2>2, <3>2, <1>3
    <3>3. QED
      BY <3>1, <3>2
  <2>4. QED
    BY <2>3 DEF StackInv
<1>10. SlotInv'
  BY <1>3 DEF SlotInv, Slotted
<1>11. PastJoin' = PastJoin /\ InKmain' = InKmain
  BY <1>2, <1>4 DEF PastJoin, InKmain
<1>12. JoinInv'
  BY <1>3, <1>11 DEF JoinInv
<1>13. QED
  BY <1>5, <1>6, <1>8, <1>9, <1>10, <1>12 DEF SmpInv

(* A TLS area is handed out: the counter has passed all the areas in use.  *)
LEMMA TlsStep == ASSUME SmpInv, NEW a \in Aps, tls_create(a) PROVE SmpInv'
<1> USE DEF At, call, tramp, counted, stacks
<1>1. /\ TypeOK /\ PtrInv /\ PublishInv /\ OwnInv /\ StackInv /\ LockInv /\ SlotInv /\ JoinInv
      /\ Boot \notin Aps /\ None \notin Nat /\ a \in Aps \cup {Boot} /\ a # Boot
  BY ApsAssumption DEF SmpInv
<1> USE <1>1, Numbers
<1>2. pc[a] = "tls" /\ slot[a] = None
  BY DEF tls_create, OwnInv, WithSlot
<1>3. /\ tlsUsed' = tlsUsed + 1 /\ slot' = [slot EXCEPT ![a] = tlsUsed]
      /\ slot \in [Aps -> Nat \cup {None}]
      /\ pc' = [pc EXCEPT ![a] = "init"] /\ pc \in [Aps \cup {Boot} -> BootPCs \cup ApPCs]
      /\ UNCHANGED <<count, done, seenDone, apCount, tls, lock, ptr, limit, size, working,
                     asked, calls,
                     reg, sp>>
  BY DEF tls_create, Goto, TypeOK
<1>4. /\ pc'[a] = "init" /\ \A q \in Aps \cup {Boot} : q # a => pc'[q] = pc[q]
      /\ slot'[a] = tlsUsed /\ \A b \in Aps \ {a} : slot'[b] = slot[b]
      /\ slot' \in [Aps -> Nat \cup {None}] /\ pc' \in [Aps \cup {Boot} -> BootPCs \cup ApPCs]
  BY <1>3 DEF ApPCs
<1>5. TypeOK'
  BY <1>3, <1>4 DEF TypeOK, ApPCs
<1>6. LockInv' /\ OwnInv' /\ PublishInv'
  <2>1. LockInv'
    BY <1>2, <1>3, <1>4 DEF LockInv, Holding
  <2>2. OwnInv'
    BY <1>2, <1>3, <1>4 DEF OwnInv, WithStack, WithSlot
  <2>3. PublishInv'
    BY <1>2, <1>3, <1>4 DEF PublishInv
  <2>4. QED
    BY <2>1, <2>2, <2>3
<1>7. Stacked' = Stacked
  BY <1>3 DEF Stacked
<1>8. PtrInv' /\ StackInv'
  <2>1. ptr' = 0 => \A b \in Aps : pc'[b] \notin {"check", "take", "panic"} \cup WithStack
    BY <1>2, <1>3, <1>4 DEF PtrInv, WithStack
  <2>2. ptr' # 0 => ptr' = Base + Cardinality(Stacked') /\ ptr' <= limit'
    BY <1>3, <1>7 DEF PtrInv
  <2>3. \A b \in Aps : /\ pc'[b] \in {"check", "take"} => reg'[b] = ptr'
                       /\ pc'[b] = "take" => ptr' < limit'
                       /\ pc'[b] = "panic" => ptr' = limit'
    BY <1>3, <1>4 DEF PtrInv
  <2>4. PtrInv'
    BY <2>1, <2>2, <2>3 DEF PtrInv
  <2>5. QED
    BY <2>4, <1>3 DEF StackInv
<1>9. SlotInv'
  <2>1. Slotted' = Slotted \cup {a} /\ a \notin Slotted
    BY <1>2, <1>4 DEF Slotted
  <2>2. Cardinality(Slotted') = Cardinality(Slotted) + 1
    BY <2>1, ProcessorsFinite, FS_AddElement
  <2>3. \A b \in Aps \ {a} : slot[b] # None => slot[b] \in Nat /\ slot[b] < tlsUsed
    BY <1>3 DEF SlotInv
  <2>4. ASSUME NEW b \in Aps, slot'[b] # None
        PROVE  slot'[b] < tlsUsed' /\ \A c \in Aps \ {b} : slot'[c] # slot'[b]
    <3>1. CASE b = a
      <4>1. \A c \in Aps \ {a} : slot[c] # tlsUsed
        BY <2>3
      <4>2. QED
        BY <3>1, <4>1, <1>3, <1>4
    <3>2. CASE b # a
      <4>1. slot[b] # None /\ slot'[b] = slot[b] /\ slot[b] # tlsUsed
        BY <3>2, <2>3, <2>4, <1>4
      <4>2. \A c \in Aps \ {b} : slot'[c] # slot'[b]
        BY <4>1, <1>4 DEF SlotInv
      <4>3. QED
        BY <4>1, <4>2, <2>3, <3>2, <1>3
    <3>3. QED
      BY <3>1, <3>2
  <2>5. QED
    BY <2>2, <2>4, <1>3 DEF SlotInv
<1>10. PastJoin' = PastJoin /\ InKmain' = InKmain
  BY <1>2, <1>4 DEF PastJoin, InKmain
<1>11. JoinInv'
  BY <1>3, <1>10 DEF JoinInv
<1>12. QED
  BY <1>5, <1>6, <1>8, <1>9, <1>11 DEF SmpInv

(* A processor is counted when it arrives at the barrier, once.            *)
LEMMA JoinStep == ASSUME SmpInv, NEW p \in Aps \cup {Boot}, Join(p) PROVE SmpInv'
<1> USE DEF At, call, tramp, counted, area, stacks, own
<1>1. /\ TypeOK /\ PtrInv /\ PublishInv /\ OwnInv /\ StackInv /\ LockInv /\ SlotInv /\ JoinInv
      /\ Boot \notin Aps
  BY ApsAssumption DEF SmpInv
<1> USE <1>1, Numbers
<1>2. /\ working' = working + 1
      /\ pc' = [pc EXCEPT ![p] = "barrier"] /\ pc \in [Aps \cup {Boot} -> BootPCs \cup ApPCs]
      /\ UNCHANGED <<count, done, seenDone, apCount, tls, tlsUsed, lock, ptr, limit, size,
                     asked, calls, reg, sp, slot>>
  BY DEF Join, Goto, TypeOK
<1>3. /\ pc[p] = "join" /\ pc'[p] = "barrier"
      /\ \A q \in Aps \cup {Boot} : q # p => pc'[q] = pc[q]
      /\ pc' \in [Aps \cup {Boot} -> BootPCs \cup ApPCs]
  BY <1>2 DEF ApPCs, Join
<1>4. TypeOK'
  BY <1>2, <1>3 DEF TypeOK, ApPCs, BootPCs
<1>5. LockInv' /\ OwnInv' /\ PublishInv'
  <2>1. LockInv'
    BY <1>2, <1>3 DEF LockInv, Holding
  <2>2. OwnInv'
    BY <1>2, <1>3 DEF OwnInv, WithStack, WithSlot
  <2>3. (pc'[Boot] = pc[Boot]) \/ (pc[Boot] = "join" /\ pc'[Boot] = "barrier")
    BY <1>3
  <2>4. PublishInv'
    BY <1>2, <2>3 DEF PublishInv, Published
  <2>5. QED
    BY <2>1, <2>2, <2>4
<1>6. Stacked' = Stacked /\ StackInv' /\ SlotInv'
  BY <1>2 DEF Stacked, StackInv, SlotInv, Slotted
<1>7. PtrInv'
  <2>1. ptr' = 0 => \A b \in Aps : pc'[b] \notin {"check", "take", "panic"} \cup WithStack
    BY <1>2, <1>3 DEF PtrInv, WithStack
  <2>2. ptr' # 0 => ptr' = Base + Cardinality(Stacked') /\ ptr' <= limit'
    BY <1>2, <1>6 DEF PtrInv
  <2>3. \A b \in Aps : /\ pc'[b] \in {"check", "take"} => reg'[b] = ptr'
                       /\ pc'[b] = "take" => ptr' < limit'
                       /\ pc'[b] = "panic" => ptr' = limit'
    BY <1>2, <1>3 DEF PtrInv
  <2>4. QED
    BY <2>1, <2>2, <2>3 DEF PtrInv
<1>8. JoinInv'
  <2>1. PastJoin' = PastJoin \cup {p} /\ p \notin PastJoin /\ InKmain' = InKmain
    BY <1>3 DEF PastJoin, InKmain
  <2>2. Cardinality(PastJoin') = Cardinality(PastJoin) + 1
    BY <2>1, ProcessorsFinite, FS_AddElement
  <2>3. QED
    BY <2>1, <2>2, <1>2 DEF JoinInv
<1>9. QED
  BY <1>4, <1>5, <1>6, <1>7, <1>8 DEF SmpInv

-----------------------------------------------------------------------------
(* What every state of the start satisfies.                                *)
THEOREM SmpInvariant == Spec => []SmpInv
<1>1. Init => SmpInv
  BY SmpInit
<1>2. SmpInv /\ [Next]_vars => SmpInv'
  <2> SUFFICES ASSUME SmpInv, [Next]_vars PROVE SmpInv'
    OBVIOUS
  <2>1. CASE BootStep \/ ReserveFails \/ OthersAnswer \/ PrintPanics
    BY <2>1, BootSteps, SetPtrStep, JoinStep DEF BootStep
  <2>2. CASE \E a \in Aps : Arrive(a) \/ ApStep(a)
    BY <2>2, ApSteps, TakeStackStep, TlsStep, JoinStep DEF ApStep
  <2>3. CASE UNCHANGED vars
    BY <2>3 DEF vars, SmpInv, TypeOK, LockInv, OwnInv, PublishInv, PtrInv, StackInv, SlotInv,
                JoinInv, Stacked, Slotted, PastJoin, InKmain
  <2>4. QED
    BY <2>1, <2>2, <2>3 DEF Next
<1>3. QED
  BY <1>1, <1>2, PTL DEF Spec

(* Stacks are handed out only of those reserved.                           *)
LEMMA StacksWithin ==
  ASSUME SmpInv
  PROVE  /\ ptr # 0 => limit = Base + apCount /\ Cardinality(Stacked) <= apCount
         /\ Stacked # {} => ptr # 0
<1> USE BaseAssumption DEF SmpInv
<1>1. ptr # 0 => limit = Base + apCount
  BY DEF PublishInv
<1>2. QED
  BY <1>1, Numbers, ProcessorsFinite DEF PtrInv, OwnInv, Stacked

(* kernel_start.s:44-66, tls.c:50-66: however many processors come, and    *)
(* whenever, nobody's stack or TLS area is another's or outside of what    *)
(* was reserved, and a panic means that the stacks are all given away.     *)
THEOREM SmpOwnAreas == Spec => []OwnAreas
<1>1. SmpInv => OwnAreas
  <2> SUFFICES ASSUME SmpInv PROVE OwnAreas
    OBVIOUS
  <2> USE BaseAssumption, Numbers DEF SmpInv
  <2>1. StacksApart
    <3>1. \A a \in Aps : sp[a] # None => sp[a] \in Nat /\ ptr # 0
      BY StacksWithin DEF Stacked, TypeOK
    <3>2. \A a \in Aps : sp[a] # None => ptr <= Base + apCount
      BY <3>1, StacksWithin DEF PtrInv
    <3>3. QED
      BY <3>1, <3>2 DEF StacksApart, StackInv
  <2>2. TlsApart
    <3>1. Slotted \subseteq Stacked
      BY DEF Slotted, Stacked, OwnInv, WithSlot, WithStack
    <3>2. tlsUsed <= Cardinality(Stacked)
      BY <3>1, ProcessorsFinite, FS_Subset DEF SlotInv
    <3>3. \A a \in Aps : slot[a] # None => /\ slot[a] \in Nat /\ a \in Stacked
                                           /\ slot[a] < tlsUsed
      BY <3>1 DEF Slotted, SlotInv, TypeOK
    <3>4. Stacked # {} => Cardinality(Stacked) <= apCount
      BY StacksWithin
    <3>5. QED
      BY <3>2, <3>3, <3>4, ProcessorsFinite DEF TlsApart, SlotInv
  <2>3. PanicOnlyLate
    <3>1. ASSUME NEW a \in Aps, pc[a] = "panic" PROVE Cardinality(Stacked) = apCount
      <4>1. ptr # 0 /\ ptr = limit
        BY <3>1 DEF PtrInv
      <4>2. QED
        BY <4>1, StacksWithin, ProcessorsFinite DEF PtrInv
    <3>2. QED
      BY <3>1 DEF PanicOnlyLate, Stacked
  <2>4. QED
    BY <2>1, <2>2, <2>3 DEF OwnAreas
<1>2. QED
  BY <1>1, SmpInvariant, PTL

(* kernel_start.c:77-80: whoever is in kmain finds everybody there, or at  *)
(* the barrier: the boot processor and all that have a stack.              *)
THEOREM SmpBarrierHolds == Spec => []BarrierHolds
<1>1. SmpInv => BarrierHolds
  <2> SUFFICES ASSUME SmpInv, InKmain # {} PROVE BarrierHolds
    BY DEF BarrierHolds
  <2> USE Numbers DEF SmpInv
  <2>1. PastJoin \subseteq Stacked \cup {Boot} /\ Boot \notin Stacked
    BY ApsAssumption DEF PastJoin, Stacked, OwnInv, WithStack
  <2>2. ptr # 0
    <3>1. CASE \E a \in Aps : pc[a] = "kmain"
      BY <3>1 DEF PtrInv, WithStack
    <3>2. CASE pc[Boot] = "kmain"
      BY <3>2 DEF PublishInv, Published
    <3>3. QED
      BY <3>1, <3>2 DEF InKmain
  <2>3. Cardinality(Stacked) <= apCount
    BY <2>2, StacksWithin
  <2>4. /\ IsFiniteSet(Stacked \cup {Boot})
        /\ Cardinality(Stacked \cup {Boot}) = Cardinality(Stacked) + 1
    BY <2>1, ProcessorsFinite, FS_AddElement
  <2>5. Cardinality(PastJoin) <= Cardinality(Stacked \cup {Boot})
    BY <2>1, <2>4, FS_Subset
  <2>6. Cardinality(PastJoin) >= apCount + 1
    BY DEF JoinInv
  <2>7. Cardinality(PastJoin) = apCount + 1 /\ Cardinality(PastJoin) = Cardinality(Stacked \cup {Boot})
    BY <2>3, <2>4, <2>5, <2>6, ProcessorsFinite
  <2>8. PastJoin = Stacked \cup {Boot}
    BY <2>1, <2>4, <2>7, FS_Subset
  <2>9. QED
    BY <2>7, <2>8 DEF BarrierHolds, Stacked
<1>2. QED
  BY <1>1, SmpInvariant, PTL
=============================================================================
