------------------------------ MODULE TlbProofs ------------------------------
(***************************************************************************)
(* Proofs about the TLB shootdown of kernel/memory.c and kernel/apic.c,    *)
(* from the first change of the boot processor on, for any finite set of   *)
(* processors, any pages, any large page and any stage of the start.       *)
(* Nothing is claimed after a change has overlapped the start of one.      *)
(***************************************************************************)
EXTENDS TlbShootdown, FiniteSetTheorems, TLAPS

(* How far the processors are: while a change is made nobody starts, what  *)
(* is not started has nothing, and as long as the large page is there, or  *)
(* something of it to map again, the boot processor is alone.              *)
StartInv ==
    /\ Busy => ~Starting
    /\ \A c \in Cpus : stage[c] = "off" =>
         /\ pc[c] = "idle" /\ op[c] = NoChange /\ ~irr[c] /\ isr[c] = "off"
         /\ \A v \in Pages : tlb[c][v] = None
    /\ \A c \in Cpus : todo[c] # << >> => c = Boot /\ Alone(Boot)
    /\ large => Alone(Boot)

(* Who is inside which mutex; unmap_page_fix_size takes only the second.   *)
Changing == {"write", "flush", "lock", "reset", "send", "wait", "unlock"}
Calling == {"reset", "send", "wait"}
MutexesHeld ==
    \A c \in Cpus :
      /\ paging = c => pc[c] \in Changing \cup {"halted"}
      /\ pc[c] \in Changing => op[c] \in Changes
      /\ pc[c] \in Changing => \/ paging = c
                               \/ c = Boot /\ Alone(Boot) /\ pc[c] # "write"
      /\ (ipcall = c) <=> (pc[c] \in Calling)

(* The handler runs only for the call that is being waited for.            *)
HandlerAnswers ==
    \A d \in Cpus : /\ irr[d] => isr[d] = "off"
                    /\ irr[d] \/ isr[d] # "off" => \E h \in Cpus \ {d} : pc[h] = "wait"

(* The address the handler reads is the one of the change in progress.     *)
AddressCurrent ==
    \A h \in Cpus : pc[h] \in {"lock", "reset", "send", "wait"} => invld = op[h].page

(* No late answer reaches the counter between its reset and the call, and  *)
(* then it counts those of the processors called that have answered.       *)
Replied(h) == {c \in Joined \ {h} : ~irr[c] /\ isr[c] = "off"}
CountInv ==
    \A h \in Cpus : /\ pc[h] = "send" => count = 0
                    /\ pc[h] = "wait" => ~irr[h] /\ isr[h] = "off" /\ count = Cardinality(Replied(h))

(* Why processor c may have a stale translation of v: processor h has the  *)
(* change of v in hand and c's turn has not come.                          *)
Explains(h, c, v) ==
    \/ pc[h] = "flush" /\ v \in Flushed(h)
    \/ pc[h] \in {"lock", "reset", "send"} /\ op[h].page = v /\ c # h
    \/ pc[h] = "wait" /\ op[h].page = v /\ c # h /\ (irr[c] \/ isr[c] = "call")
StaleInv == \A c \in Cpus, v \in Pages : Stale(c, v) => \E h \in Cpus : Explains(h, c, v)

ShootdownInv == /\ TypeOK /\ StartInv /\ MutexesHeld /\ HandlerAnswers /\ AddressCurrent
                /\ CountInv /\ StaleInv
UnlessRaced == ~raced => ShootdownInv

-----------------------------------------------------------------------------
(* What a step that does not overlap a start leaves.                       *)
LEMMA Observed ==
  ASSUME Observe, ~raced'
  PROVE  ~raced /\ raced' \in BOOLEAN /\ (Busy' => ~Starting') /\ (stage' # stage => ~Busy)
BY DEF Observe

(* Only a processor that runs is anywhere but idle.                        *)
LEMMA OffIdle ==
  ASSUME ShootdownInv, NEW c \in Cpus, stage[c] = "off"
  PROVE  /\ pc[c] = "idle" /\ op[c] = NoChange /\ ~irr[c] /\ isr[c] = "off"
         /\ \A v \in Pages : tlb[c][v] = None /\ ~Stale(c, v)
BY DEF ShootdownInv, StartInv, Stale

(* At most one processor changes the page tables.                          *)
LEMMA OneChanger ==
  ASSUME ShootdownInv, NEW c \in Cpus, NEW h \in Cpus, pc[c] \in Changing, pc[h] \in Changing
  PROVE  c = h
<1>1. ASSUME NEW d \in Cpus, pc[d] \in Changing PROVE stage[d] # "off"
  BY <1>1, OffIdle DEF Changing
<1>2. stage[c] # "off" /\ stage[h] # "off"
  BY <1>1
<1>3. CASE Alone(Boot)
  BY <1>2, <1>3 DEF Alone
<1>4. CASE ~Alone(Boot)
  BY <1>4 DEF ShootdownInv, MutexesHeld
<1>5. QED
  BY <1>3, <1>4

(* If there is company while a change is made, both are counted.           *)
LEMMA Company ==
  ASSUME ShootdownInv, NEW h \in Cpus, NEW d \in Cpus, h # d, pc[h] \in Changing, stage[d] # "off"
  PROVE  h \in Joined /\ d \in Joined
<1>1. stage[h] # "off"
  BY OffIdle DEF Changing
<1>2. ~Alone(h) /\ ~Alone(d)
  BY <1>1 DEF Alone
<1>3. ~Starting
  BY DEF ShootdownInv, StartInv, Busy, Changing
<1>4. stage[h] \in Stages /\ stage[d] \in Stages
  BY DEF ShootdownInv, TypeOK
<1>5. QED
  BY <1>1, <1>2, <1>3, <1>4 DEF Starting, Joined, Stages

(* The other changer of a handler's call: who waits, and that c is joined. *)
LEMMA HandlerJoined ==
  ASSUME ShootdownInv, NEW c \in Cpus, irr[c] \/ isr[c] # "off"
  PROVE  /\ stage[c] # "off" /\ c \in Joined
         /\ \E h \in Cpus \ {c} : pc[h] = "wait" /\ pc[h] \in Changing
<1>1. stage[c] # "off"
  BY OffIdle
<1>2. PICK h \in Cpus \ {c} : pc[h] = "wait"
  BY DEF ShootdownInv, HandlerAnswers
<1>3. QED
  BY <1>1, <1>2, Company DEF Changing

(* While somebody waits for answers nobody else changes anything, so only  *)
(* its own call is pending or running; while nobody waits, none is.        *)
LEMMA QuietUnlessWaiting ==
  ASSUME ShootdownInv, NEW h \in Cpus, pc[h] \in Changing, pc[h] # "wait", NEW d \in Cpus
  PROVE  ~irr[d] /\ isr[d] = "off"
BY OneChanger, HandlerJoined

(* A step of a running processor keeps what holds of the start.            *)
LEMMA StartFrame ==
  ASSUME ShootdownInv, Observe, ~raced', UNCHANGED <<stage, todo, large>>,
         \A d \in Cpus : stage[d] = "off" =>
           /\ pc'[d] = pc[d] /\ op'[d] = op[d] /\ irr'[d] = irr[d] /\ isr'[d] = isr[d]
           /\ \A v \in Pages : tlb'[d][v] = tlb[d][v]
  PROVE  StartInv' /\ Alone(Boot)' = Alone(Boot) /\ Joined' = Joined
<1>1. Alone(Boot)' = Alone(Boot) /\ Joined' = Joined
  BY DEF Alone, Joined
<1>2. (Busy => ~Starting)'
  BY Observed
<1>3. QED
  BY <1>1, <1>2 DEF ShootdownInv, StartInv

(* A step that leaves the interrupts and the counter alone keeps it true.  *)
LEMMA CountFrame ==
  ASSUME ShootdownInv, UNCHANGED <<irr, isr, count, stage>>,
         \A h \in Cpus : pc'[h] \in {"send", "wait"} => pc'[h] = pc[h]
  PROVE  CountInv'
<1>1. \A h \in Cpus : Replied(h)' = Replied(h)
  BY DEF Replied, Joined
<1>2. QED
  BY <1>1 DEF ShootdownInv, CountInv

(* Sets of processors are finite.                                          *)
LEMMA RepliedFinite ==
  ASSUME NEW h \in Cpus
  PROVE  /\ IsFiniteSet(Replied(h)) /\ Cardinality(Replied(h)) \in Nat
         /\ IsFiniteSet(Joined) /\ Cardinality(Joined) \in Nat
<1>1. Replied(h) \subseteq Cpus /\ Joined \subseteq Cpus
  BY DEF Replied, Joined
<1>2. QED
  BY <1>1, CpusAssumption, FS_Subset, FS_CardinalityType

(* With company the call is sent.                                          *)
LEMMA TwoJoined ==
  ASSUME NEW c \in Joined, NEW d \in Joined, c # d
  PROVE  get_working_processor_count > 1
<1>1. c \in Cpus /\ IsFiniteSet(Joined) /\ Cardinality(Joined) \in Nat
  BY RepliedFinite DEF Joined
<1>2. IsFiniteSet({c}) /\ Cardinality({c}) = 1
  BY FS_Singleton
<1>3. Cardinality({c} \cup {d}) = 2 /\ IsFiniteSet({c} \cup {d})
  BY <1>2, FS_AddElement
<1>4. Cardinality({c} \cup {d}) <= Cardinality(Joined)
  BY <1>1, FS_Subset
<1>5. QED
  BY <1>1, <1>3, <1>4 DEF get_working_processor_count

(* When the counter has reached the number of the others, all have run.    *)
LEMMA AllAnswered ==
  ASSUME ShootdownInv, NEW h \in Cpus, pc[h] = "wait", count >= get_working_processor_count - 1
  PROVE  \A d \in Cpus : ~irr[d] /\ isr[d] = "off"
<1>1. count = Cardinality(Replied(h)) /\ ~irr[h] /\ isr[h] = "off"
  BY DEF ShootdownInv, CountInv
<1>2. SUFFICES ASSUME NEW d \in Cpus, d # h, stage[d] # "off" PROVE ~irr[d] /\ isr[d] = "off"
  BY <1>1, OffIdle
<1>3. h \in Joined /\ d \in Joined
  BY <1>2, Company DEF Changing
<1>4. IsFiniteSet(Joined) /\ Cardinality(Joined) \in Nat /\ Cardinality(Replied(h)) \in Nat
  BY RepliedFinite
<1>5. IsFiniteSet(Joined \ {h}) /\ Cardinality(Joined \ {h}) = Cardinality(Joined) - 1
  BY <1>3, <1>4, FS_RemoveElement
<1>6. Replied(h) \subseteq Joined \ {h}
  BY DEF Replied
<1>7. /\ Cardinality(Replied(h)) <= Cardinality(Joined \ {h})
      /\ Cardinality(Replied(h)) = Cardinality(Joined \ {h}) => Replied(h) = Joined \ {h}
  BY <1>5, <1>6, FS_Subset
<1>8. Replied(h) = Joined \ {h}
  BY <1>1, <1>4, <1>5, <1>7 DEF get_working_processor_count
<1>9. QED
  BY <1>2, <1>3, <1>8 DEF Replied

(* The invariant holds at the start.                                       *)
LEMMA ShootdownInit == Init => ShootdownInv /\ ~raced
<1> SUFFICES ASSUME Init PROVE ShootdownInv /\ ~raced
  OBVIOUS
<1>1. TypeOK
  <2>1. stage \in [Cpus -> Stages]
    BY StagesAssumption DEF Init, Stages
  <2>2. todo \in [Cpus -> Seq(Changes)]
    <3>1. << >> \in Seq(Changes)
      OBVIOUS
    <3>2. QED
      BY <3>1 DEF Init
  <2>3. large \in BOOLEAN /\ count \in Nat /\ raced \in BOOLEAN
    BY DEF Init
  <2>4. op \in [Cpus -> Changes \cup {NoChange}]
    BY DEF Init
  <2>5. QED
    BY <2>1, <2>2, <2>3, <2>4 DEF Init, TypeOK, PCs, Handler
<1>2. MutexesHeld /\ HandlerAnswers /\ AddressCurrent /\ CountInv /\ StaleInv
  BY NoneAssumption DEF Init, MutexesHeld, HandlerAnswers, AddressCurrent, CountInv, Changing, Calling,
                        StaleInv, Stale
<1>3. StartInv
  <2>1. ~Busy /\ \A c \in Cpus : todo[c] = << >>
    BY DEF Init, Busy
  <2>2. large => Alone(Boot)
    BY DEF Init, Alone
  <2>3. QED
    BY <2>1, <2>2 DEF Init, StartInv
<1>4. QED
  BY <1>1, <1>2, <1>3 DEF ShootdownInv, Init

-----------------------------------------------------------------------------
(* Taking paging_mutex keeps it.                                           *)
LEMMA LockPagingKeeps ==
  ASSUME ShootdownInv, NEW c \in Cpus, LockPaging(c), ~raced'
  PROVE  ShootdownInv'
<1> USE DEF At, Runs, Goto
<1>1. StartInv' /\ Alone(Boot)' = Alone(Boot) /\ Joined' = Joined
  BY StartFrame DEF LockPaging, ShootdownInv, TypeOK
<1>2. TypeOK'
  BY Observed DEF ShootdownInv, TypeOK, PCs, Handler, LockPaging
<1>3. MutexesHeld'
  <2>1. op[c] \in Changes
    BY DEF ShootdownInv, TypeOK, LockPaging
  <2>2. QED
    BY <1>1, <2>1, NoneAssumption DEF ShootdownInv, TypeOK, MutexesHeld, Changing, Calling, LockPaging
<1>4. HandlerAnswers'
  BY OneChanger DEF ShootdownInv, TypeOK, HandlerAnswers, Changing, LockPaging
<1>5. AddressCurrent'
  BY OneChanger DEF ShootdownInv, TypeOK, AddressCurrent, Changing, LockPaging
<1>6. CountInv'
  BY CountFrame DEF ShootdownInv, TypeOK, LockPaging
<1>7. StaleInv'
  <2> SUFFICES ASSUME NEW d \in Cpus, NEW u \in Pages, Stale(d, u)'
               PROVE  \E h \in Cpus : Explains(h, d, u)'
    BY DEF StaleInv
  <2>1. Stale(d, u)
    BY DEF Stale, ShootdownInv, TypeOK, LockPaging
  <2>2. PICK h \in Cpus : Explains(h, d, u)
    BY <2>1 DEF ShootdownInv, StaleInv
  <2>3. h # c /\ pc'[h] = pc[h] /\ Flushed(h)' = Flushed(h)
    BY <2>2, NoneAssumption DEF Explains, Flushed, ShootdownInv, TypeOK, LockPaging
  <2>4. Explains(h, d, u)'
    BY <2>2, <2>3 DEF Explains, LockPaging
  <2>5. QED
    BY <2>4
<1>8. QED
  BY <1>1, <1>2, <1>3, <1>4, <1>5, <1>6, <1>7 DEF ShootdownInv

(* Taking ipcall_mutex keeps it.                                           *)
LEMMA LockIpcallKeeps ==
  ASSUME ShootdownInv, NEW c \in Cpus, LockIpcall(c), ~raced'
  PROVE  ShootdownInv'
<1> USE DEF At, Runs, Goto
<1>1. StartInv' /\ Alone(Boot)' = Alone(Boot) /\ Joined' = Joined
  BY StartFrame DEF LockIpcall, ShootdownInv, TypeOK
<1>2. TypeOK'
  BY Observed DEF ShootdownInv, TypeOK, PCs, Handler, LockIpcall
<1>3. MutexesHeld'
  BY <1>1, NoneAssumption DEF ShootdownInv, TypeOK, MutexesHeld, Changing, Calling, LockIpcall
<1>4. HandlerAnswers'
  BY OneChanger DEF ShootdownInv, TypeOK, HandlerAnswers, Changing, LockIpcall
<1>5. AddressCurrent'
  BY OneChanger DEF ShootdownInv, TypeOK, AddressCurrent, Changing, LockIpcall
<1>6. CountInv'
  BY CountFrame DEF ShootdownInv, TypeOK, LockIpcall
<1>7. StaleInv'
  <2> SUFFICES ASSUME NEW d \in Cpus, NEW u \in Pages, Stale(d, u)'
               PROVE  \E h \in Cpus : Explains(h, d, u)'
    BY DEF StaleInv
  <2>1. Stale(d, u)
    BY DEF Stale, ShootdownInv, TypeOK, LockIpcall
  <2>2. PICK h \in Cpus : Explains(h, d, u)
    BY <2>1 DEF ShootdownInv, StaleInv
  <2>3. Explains(h, d, u)'
    BY <2>2, OneChanger DEF Explains, Flushed, ShootdownInv, TypeOK, Changing, LockIpcall
  <2>4. QED
    BY <2>3
<1>8. QED
  BY <1>1, <1>2, <1>3, <1>4, <1>5, <1>6, <1>7 DEF ShootdownInv

(* The counter is reset while no call is pending.                          *)
LEMMA ResetCountKeeps ==
  ASSUME ShootdownInv, NEW c \in Cpus, ResetCount(c), ~raced'
  PROVE  ShootdownInv'
<1> USE DEF At, Runs, Goto
<1>1. StartInv' /\ Alone(Boot)' = Alone(Boot) /\ Joined' = Joined
  BY StartFrame DEF ResetCount, ShootdownInv, TypeOK
<1>2. TypeOK'
  BY Observed DEF ShootdownInv, TypeOK, PCs, Handler, ResetCount
<1>3. MutexesHeld'
  BY <1>1, NoneAssumption DEF ShootdownInv, TypeOK, MutexesHeld, Changing, Calling, ResetCount
<1>4. HandlerAnswers'
  BY OneChanger DEF ShootdownInv, TypeOK, HandlerAnswers, Changing, ResetCount
<1>5. AddressCurrent'
  BY OneChanger DEF ShootdownInv, TypeOK, AddressCurrent, Changing, ResetCount
<1>6. CountInv'
  <2>1. \A h \in Cpus : pc'[h] # "wait"
    BY OneChanger DEF ShootdownInv, TypeOK, Changing, ResetCount
  <2>2. QED
    BY <2>1 DEF CountInv, ResetCount
<1>7. StaleInv'
  <2> SUFFICES ASSUME NEW d \in Cpus, NEW u \in Pages, Stale(d, u)'
               PROVE  \E h \in Cpus : Explains(h, d, u)'
    BY DEF StaleInv
  <2>1. Stale(d, u)
    BY DEF Stale, ShootdownInv, TypeOK, ResetCount
  <2>2. PICK h \in Cpus : Explains(h, d, u)
    BY <2>1 DEF ShootdownInv, StaleInv
  <2>3. Explains(h, d, u)'
    BY <2>2, OneChanger DEF Explains, Flushed, ShootdownInv, TypeOK, Changing, ResetCount
  <2>4. QED
    BY <2>3
<1>8. QED
  BY <1>1, <1>2, <1>3, <1>4, <1>5, <1>6, <1>7 DEF ShootdownInv

(* A panicking processor keeps what it holds.                              *)
LEMMA PanicKeeps ==
  ASSUME ShootdownInv, NEW c \in Cpus, Panic(c), ~raced'
  PROVE  ShootdownInv'
<1> USE DEF At, Runs, Goto
<1>1. StartInv' /\ Alone(Boot)' = Alone(Boot) /\ Joined' = Joined
  BY StartFrame DEF Panic, ShootdownInv, TypeOK
<1>2. TypeOK'
  BY Observed DEF ShootdownInv, TypeOK, PCs, Handler, Panic
<1>3. MutexesHeld'
  BY <1>1, NoneAssumption DEF ShootdownInv, TypeOK, MutexesHeld, Changing, Calling, Panic
<1>4. HandlerAnswers'
  BY OneChanger DEF ShootdownInv, TypeOK, HandlerAnswers, Changing, Panic
<1>5. AddressCurrent'
  BY OneChanger DEF ShootdownInv, TypeOK, AddressCurrent, Changing, Panic
<1>6. CountInv'
  BY CountFrame DEF ShootdownInv, TypeOK, Panic
<1>7. StaleInv'
  <2> SUFFICES ASSUME NEW d \in Cpus, NEW u \in Pages, Stale(d, u)'
               PROVE  \E h \in Cpus : Explains(h, d, u)'
    BY DEF StaleInv
  <2>1. Stale(d, u)
    BY DEF Stale, ShootdownInv, TypeOK, Panic
  <2>2. PICK h \in Cpus : Explains(h, d, u)
    BY <2>1 DEF ShootdownInv, StaleInv
  <2>3. Explains(h, d, u)'
    BY <2>2, OneChanger DEF Explains, Flushed, ShootdownInv, TypeOK, Changing, Panic
  <2>4. QED
    BY <2>3
<1>8. QED
  BY <1>1, <1>2, <1>3, <1>4, <1>5, <1>6, <1>7 DEF ShootdownInv

(* Releasing paging_mutex keeps it.                                        *)
LEMMA FinishKeeps ==
  ASSUME ShootdownInv, NEW c \in Cpus, Finish(c), ~raced'
  PROVE  ShootdownInv'
<1> USE DEF At, Runs, Goto
<1>1. StartInv' /\ Alone(Boot)' = Alone(Boot) /\ Joined' = Joined
  BY StartFrame DEF Finish, ShootdownInv, TypeOK
<1>2. TypeOK'
  BY Observed DEF ShootdownInv, TypeOK, PCs, Handler, Finish
<1>3. MutexesHeld'
  BY <1>1, NoneAssumption DEF ShootdownInv, TypeOK, MutexesHeld, Changing, Calling, Finish
<1>4. HandlerAnswers'
  BY OneChanger DEF ShootdownInv, TypeOK, HandlerAnswers, Changing, Finish
<1>5. AddressCurrent'
  BY OneChanger DEF ShootdownInv, TypeOK, AddressCurrent, Changing, Finish
<1>6. CountInv'
  BY CountFrame DEF ShootdownInv, TypeOK, Finish
<1>7. StaleInv'
  <2> SUFFICES ASSUME NEW d \in Cpus, NEW u \in Pages, Stale(d, u)'
               PROVE  \E h \in Cpus : Explains(h, d, u)'
    BY DEF StaleInv
  <2>1. Stale(d, u)
    BY DEF Stale, ShootdownInv, TypeOK, Finish
  <2>2. PICK h \in Cpus : Explains(h, d, u)
    BY <2>1 DEF ShootdownInv, StaleInv
  <2>3. QED
    BY <2>2, OneChanger DEF Explains, Changing, Finish
<1>8. QED
  BY <1>1, <1>2, <1>3, <1>4, <1>5, <1>6, <1>7 DEF ShootdownInv

(* Entering map_page or unmap_page, or going on with what the large page   *)
(* has left to do, keeps it.                                               *)
LEMMA CallKeeps ==
  ASSUME ShootdownInv, NEW c \in Cpus, NEW change \in Changes, Call(c, change), ~raced'
  PROVE  ShootdownInv'
<1> USE DEF At, Runs, Goto
<1>1. StartInv' /\ Alone(Boot)' = Alone(Boot) /\ Joined' = Joined
  <2>1. Alone(Boot)' = Alone(Boot) /\ Joined' = Joined
    BY DEF Alone, Joined, Call
  <2>2. (Busy => ~Starting)'
    BY Observed DEF Call
  <2>3. \A d \in Cpus : todo'[d] # << >> => todo[d] # << >>
    BY DEF Call, ShootdownInv, TypeOK
  <2>4. \A d \in Cpus : stage[d] = "off" => op'[d] = op[d]
    BY DEF Call, ShootdownInv, TypeOK
  <2>5. QED
    BY <2>1, <2>2, <2>3, <2>4 DEF ShootdownInv, StartInv, Call
<1>2. TypeOK'
  <2>1. todo' \in [Cpus -> Seq(Changes)]
    <3>1. todo[c] \in Seq(Changes)
      BY DEF ShootdownInv, TypeOK
    <3>2. todo[c] # << >> => Tail(todo[c]) \in Seq(Changes)
      BY <3>1
    <3>3. QED
      BY <3>2 DEF ShootdownInv, TypeOK, Call
  <2>2. QED
    BY <2>1, Observed DEF ShootdownInv, TypeOK, Call
<1>3. MutexesHeld'
  BY <1>1 DEF ShootdownInv, TypeOK, MutexesHeld, Changing, Calling, Call
<1>4. HandlerAnswers' /\ AddressCurrent'
  BY DEF ShootdownInv, TypeOK, HandlerAnswers, AddressCurrent, Call
<1>5. CountInv'
  BY CountFrame DEF Call
<1>6. StaleInv'
  <2> SUFFICES ASSUME NEW d \in Cpus, NEW u \in Pages, Stale(d, u)'
               PROVE  \E h \in Cpus : Explains(h, d, u)'
    BY DEF StaleInv
  <2>1. Stale(d, u)
    BY DEF Stale, Call
  <2>2. PICK h \in Cpus : Explains(h, d, u)
    BY <2>1 DEF ShootdownInv, StaleInv
  <2>3. h # c /\ op'[h] = op[h] /\ Flushed(h)' = Flushed(h)
    BY <2>2 DEF Explains, Flushed, ShootdownInv, TypeOK, Call
  <2>4. Explains(h, d, u)'
    BY <2>2, <2>3 DEF Explains, Call
  <2>5. QED
    BY <2>4
<1>7. QED
  BY <1>1, <1>2, <1>3, <1>4, <1>5, <1>6 DEF ShootdownInv

(* Storing the entry makes translations stale, for the flush to come.      *)
LEMMA WriteEntryKeeps ==
  ASSUME ShootdownInv, NEW c \in Cpus, WriteEntry(c), ~raced'
  PROVE  ShootdownInv'
<1> USE DEF At, Runs, Goto
<1>1. StartInv' /\ Alone(Boot)' = Alone(Boot) /\ Joined' = Joined
  BY StartFrame DEF WriteEntry, ShootdownInv, TypeOK
<1>2. paging = c /\ op[c].page \in Pages /\ op[c].to \in Frames \cup {None}
  BY DEF ShootdownInv, MutexesHeld, Changing, Changes, WriteEntry
<1>3. TypeOK'
  BY <1>2, Observed DEF ShootdownInv, TypeOK, PCs, WriteEntry
<1>4. MutexesHeld'
  BY <1>1, <1>2 DEF ShootdownInv, TypeOK, MutexesHeld, Changing, Calling, WriteEntry
<1>5. HandlerAnswers' /\ AddressCurrent'
  BY OneChanger DEF ShootdownInv, TypeOK, HandlerAnswers, AddressCurrent, Changing, WriteEntry
<1>6. CountInv'
  BY CountFrame DEF ShootdownInv, TypeOK, WriteEntry
<1>7. StaleInv'
  <2> SUFFICES ASSUME NEW d \in Cpus, NEW u \in Pages, Stale(d, u)'
               PROVE  Explains(c, d, u)'
    BY DEF StaleInv
  <2>1. u = op[c].page
    <3> SUFFICES ASSUME u # op[c].page PROVE FALSE
      OBVIOUS
    <3>1. Stale(d, u)
      BY DEF Stale, ShootdownInv, TypeOK, WriteEntry
    <3>2. PICK h \in Cpus : Explains(h, d, u)
      BY <3>1 DEF ShootdownInv, StaleInv
    <3>3. QED
      BY <3>2, OneChanger DEF Explains, Changing, WriteEntry
  <2>2. pc'[c] = "flush" /\ Flushed(c)' = {op[c].page}
    BY <1>2 DEF Flushed, ShootdownInv, TypeOK, WriteEntry
  <2>3. QED
    BY <2>1, <2>2 DEF Explains
<1>8. QED
  BY <1>1, <1>3, <1>4, <1>5, <1>6, <1>7 DEF ShootdownInv

(* Splitting the large page makes what it covered stale, on the boot       *)
(* processor only, which is alone.                                         *)
LEMMA SplitKeeps ==
  ASSUME ShootdownInv, NEW c \in Cpus, NEW k \in DOMAIN LargeRegion, unmap_page_fix_size(c, k), ~raced'
  PROVE  ShootdownInv'
<1> USE DEF At, Runs, Goto
<1> DEFINE covered == {LargeRegion[i] : i \in DOMAIN LargeRegion}
           again == [i \in DOMAIN LargeRegion |->
                       [page |-> LargeRegion[i], to |-> pt[LargeRegion[i]]]]
<1>1. /\ c = Boot /\ Alone(Boot) /\ ~large' /\ pc[Boot] = "idle" /\ stage[Boot] # "off"
      /\ pt' = [v \in Pages |-> IF v \in covered THEN None ELSE pt[v]]
      /\ op' = [op EXCEPT ![Boot] = [page |-> LargeRegion[k], to |-> None]]
      /\ todo' = [todo EXCEPT ![Boot] = Append(again, [page |-> LargeRegion[k], to |-> None])]
      /\ pc' = [pc EXCEPT ![Boot] = "flush"]
      /\ UNCHANGED <<tlb, paging, ipcall, invld, count, irr, isr, stage>>
  BY DEF unmap_page_fix_size
<1>2. \A d \in Cpus : pc[d] = "idle" /\ ~irr[d] /\ isr[d] = "off"
  <2>1. \A d \in Cpus : pc[d] = "idle"
    BY <1>1, OffIdle DEF Alone
  <2>2. QED
    BY <2>1 DEF ShootdownInv, HandlerAnswers
<1>3. \A i \in DOMAIN LargeRegion : LargeRegion[i] \in Pages
  BY LargeRegionAssumption
<1>4. TypeOK'
  <2>1. pt' \in [Pages -> Frames \cup {None}]
    BY <1>1 DEF ShootdownInv, TypeOK
  <2>2. [page |-> LargeRegion[k], to |-> None] \in Changes
    BY <1>3 DEF Changes
  <2>3. again \in Seq(Changes)
    <3>1. \A i \in DOMAIN LargeRegion : again[i] \in Changes
      BY <1>3 DEF ShootdownInv, TypeOK, Changes
    <3>2. DOMAIN LargeRegion = 1..Len(LargeRegion) /\ Len(LargeRegion) \in Nat
      BY LargeRegionAssumption
    <3>3. again \in [1..Len(LargeRegion) -> Changes]
      BY <3>1, <3>2
    <3>4. QED
      BY <3>2, <3>3
  <2>4. Append(again, [page |-> LargeRegion[k], to |-> None]) \in Seq(Changes)
    BY <2>2, <2>3
  <2>5. op' \in [Cpus -> Changes \cup {NoChange}] /\ todo' \in [Cpus -> Seq(Changes)]
    BY <1>1, <2>2, <2>4 DEF ShootdownInv, TypeOK
  <2>6. pc' \in [Cpus -> PCs] /\ large' \in BOOLEAN /\ raced' \in BOOLEAN
    BY <1>1, Observed DEF ShootdownInv, TypeOK, PCs, unmap_page_fix_size
  <2>7. QED
    BY <1>1, <2>1, <2>5, <2>6 DEF ShootdownInv, TypeOK
<1>5. StartInv' /\ Alone(Boot)'
  <2>1. Alone(Boot)'
    BY <1>1 DEF Alone
  <2>2. (Busy => ~Starting)'
    BY Observed DEF unmap_page_fix_size
  <2>3. \A d \in Cpus : d # Boot => todo'[d] = todo[d] /\ op'[d] = op[d] /\ pc'[d] = pc[d]
    BY <1>1 DEF ShootdownInv, TypeOK
  <2>4. QED
    BY <1>1, <2>1, <2>2, <2>3 DEF ShootdownInv, StartInv
<1>6. MutexesHeld'
  <2>1. paging \notin Cpus /\ ipcall \notin Cpus
    BY <1>2 DEF ShootdownInv, MutexesHeld, Changing, Calling
  <2>2. op'[Boot] \in Changes /\ pc'[Boot] = "flush" /\ \A d \in Cpus \ {Boot} : pc'[d] = "idle"
    BY <1>1, <1>2, <1>3, BootAssumption DEF ShootdownInv, TypeOK, Changes
  <2>3. QED
    BY <1>1, <1>5, <2>1, <2>2 DEF MutexesHeld, Changing, Calling
<1>7. HandlerAnswers' /\ AddressCurrent' /\ CountInv'
  BY <1>1, <1>2 DEF ShootdownInv, TypeOK, HandlerAnswers, AddressCurrent, CountInv
<1>8. StaleInv'
  <2> SUFFICES ASSUME NEW d \in Cpus, NEW u \in Pages, Stale(d, u)'
               PROVE  Explains(Boot, d, u)'
    BY BootAssumption DEF StaleInv
  <2>1. u \in covered
    <3> SUFFICES ASSUME u \notin covered PROVE FALSE
      OBVIOUS
    <3>1. Stale(d, u)
      BY <1>1 DEF Stale
    <3>2. PICK h \in Cpus : Explains(h, d, u)
      BY <3>1 DEF ShootdownInv, StaleInv
    <3>3. QED
      BY <1>2, <3>2 DEF Explains
  <2>2. paging' # Boot /\ pc'[Boot] = "flush"
    BY <1>1, <1>2, BootAssumption DEF ShootdownInv, TypeOK, MutexesHeld, Changing
  <2>3. QED
    BY <2>1, <2>2 DEF Explains, Flushed
<1>9. QED
  BY <1>4, <1>5, <1>6, <1>7, <1>8 DEF ShootdownInv

(* __invld_tlbs_addr and the own TLB: the changer is no longer stale.      *)
LEMMA FlushOwnKeeps ==
  ASSUME ShootdownInv, NEW c \in Cpus, FlushOwn(c), ~raced'
  PROVE  ShootdownInv'
<1> USE DEF At, Runs, Goto
<1>1. \A d \in Cpus \ {c} : tlb'[d] = tlb[d]
  BY DEF ShootdownInv, TypeOK, FlushOwn, Invalidate
<1>2. StartInv' /\ Alone(Boot)' = Alone(Boot) /\ Joined' = Joined
  BY <1>1, StartFrame DEF FlushOwn, ShootdownInv, TypeOK
<1>3. op[c].page \in Pages
  BY DEF ShootdownInv, MutexesHeld, Changing, Changes, FlushOwn
<1>4. TypeOK'
  BY <1>3, Observed DEF ShootdownInv, TypeOK, PCs, FlushOwn, Invalidate
<1>5. MutexesHeld'
  BY <1>2 DEF ShootdownInv, TypeOK, MutexesHeld, Changing, Calling, FlushOwn
<1>6. HandlerAnswers'
  BY OneChanger DEF ShootdownInv, TypeOK, HandlerAnswers, Changing, FlushOwn
<1>7. AddressCurrent'
  BY OneChanger DEF ShootdownInv, TypeOK, AddressCurrent, Changing, FlushOwn
<1>8. CountInv'
  BY CountFrame DEF ShootdownInv, TypeOK, FlushOwn
<1>9. StaleInv'
  <2> SUFFICES ASSUME NEW d \in Cpus, NEW u \in Pages, Stale(d, u)'
               PROVE  Explains(c, d, u)'
    BY DEF StaleInv
  <2>1. Stale(d, u) /\ (d = c => u \notin Flushed(c))
    BY <1>1 DEF Stale, ShootdownInv, TypeOK, FlushOwn, Invalidate
  <2>2. PICK h \in Cpus : Explains(h, d, u)
    BY <2>1 DEF ShootdownInv, StaleInv
  <2>3. h = c
    BY <2>2, OneChanger DEF Explains, Changing, FlushOwn
  <2>4. u \in Flushed(c) /\ d # c
    BY <2>1, <2>2, <2>3 DEF Explains, FlushOwn
  <2>5. paging = c
    <3>1. ~(c = Boot /\ Alone(Boot))
      BY <2>1, <2>4, OffIdle DEF Alone
    <3>2. QED
      BY <3>1 DEF ShootdownInv, MutexesHeld, Changing, FlushOwn
  <2>6. u = op[c].page
    BY <2>4, <2>5 DEF Flushed
  <2>7. QED
    BY <2>4, <2>6 DEF Explains, ShootdownInv, TypeOK, FlushOwn
<1>10. QED
  BY <1>2, <1>4, <1>5, <1>6, <1>7, <1>8, <1>9 DEF ShootdownInv

(* The call becomes pending at everybody else that runs.                   *)
LEMMA BroadcastKeeps ==
  ASSUME ShootdownInv, NEW c \in Cpus, broadcast_ipi(c), ~raced'
  PROVE  ShootdownInv'
<1> USE DEF At, Runs, Goto
<1>1. \A d \in Cpus : ~irr[d] /\ isr[d] = "off"
  BY QuietUnlessWaiting DEF Changing, broadcast_ipi
<1>2. \A d \in Cpus : irr'[d] => d # c /\ stage[d] # "off"
  BY <1>1 DEF broadcast_ipi, Listening
<1>3. ASSUME NEW d \in Cpus, d # c, stage[d] # "off" PROVE irr'[d]
  <2>1. get_working_processor_count > 1
    BY <1>3, Company, TwoJoined DEF Changing, broadcast_ipi
  <2>2. d \in Listening
    BY <1>3, Company DEF Changing, broadcast_ipi, Joined, Listening
  <2>3. QED
    BY <1>3, <2>1, <2>2 DEF broadcast_ipi
<1>4. irr' \in [Cpus -> BOOLEAN]
  BY DEF broadcast_ipi, ShootdownInv, TypeOK
<1>5. StartInv' /\ Alone(Boot)' = Alone(Boot) /\ Joined' = Joined
  <2>1. \A d \in Cpus : stage[d] = "off" => irr'[d] = irr[d]
    BY <1>1, <1>2, <1>4 DEF ShootdownInv, TypeOK
  <2>2. QED
    BY <2>1, StartFrame DEF broadcast_ipi, ShootdownInv, TypeOK
<1>6. TypeOK'
  BY <1>4, Observed DEF ShootdownInv, TypeOK, PCs, broadcast_ipi
<1>7. MutexesHeld'
  BY <1>5 DEF ShootdownInv, TypeOK, MutexesHeld, Changing, Calling, broadcast_ipi
<1>8. HandlerAnswers'
  BY <1>1, <1>2 DEF ShootdownInv, TypeOK, HandlerAnswers, broadcast_ipi
<1>9. AddressCurrent'
  BY OneChanger DEF ShootdownInv, TypeOK, AddressCurrent, Changing, broadcast_ipi
<1>10. CountInv'
  <2>1. \A h \in Cpus : pc'[h] \in {"send", "wait"} => h = c /\ pc'[h] = "wait"
    BY OneChanger DEF ShootdownInv, TypeOK, Changing, broadcast_ipi
  <2>2. Replied(c)' = {}
    BY <1>3, <1>5 DEF Replied, Joined
  <2>3. count' = 0 /\ Cardinality({}) = 0
    BY FS_EmptySet DEF ShootdownInv, CountInv, broadcast_ipi
  <2>4. ~irr'[c] /\ isr'[c] = "off"
    BY <1>1, <1>2 DEF broadcast_ipi
  <2>5. QED
    BY <2>1, <2>2, <2>3, <2>4 DEF CountInv
<1>11. StaleInv'
  <2> SUFFICES ASSUME NEW d \in Cpus, NEW u \in Pages, Stale(d, u)'
               PROVE  Explains(c, d, u)'
    BY DEF StaleInv
  <2>1. Stale(d, u) /\ stage[d] # "off"
    BY OffIdle DEF Stale, broadcast_ipi
  <2>2. PICK h \in Cpus : Explains(h, d, u)
    BY <2>1 DEF ShootdownInv, StaleInv
  <2>3. h = c /\ d # c /\ op[c].page = u
    BY <2>2, OneChanger DEF Explains, Changing, broadcast_ipi
  <2>4. irr'[d]
    BY <1>3, <2>1, <2>3
  <2>5. QED
    BY <2>3, <2>4 DEF Explains, ShootdownInv, TypeOK, broadcast_ipi
<1>12. QED
  BY <1>5, <1>6, <1>7, <1>8, <1>9, <1>10, <1>11 DEF ShootdownInv

(* The wait ends when everybody else has answered: nobody is stale.        *)
LEMMA EndWaitKeeps ==
  ASSUME ShootdownInv, NEW c \in Cpus, EndWait(c), ~raced'
  PROVE  ShootdownInv'
<1> USE DEF At, Runs, Goto
<1>1. StartInv' /\ Alone(Boot)' = Alone(Boot) /\ Joined' = Joined
  BY StartFrame DEF EndWait, ShootdownInv, TypeOK
<1>2. TypeOK'
  BY Observed DEF ShootdownInv, TypeOK, PCs, EndWait
<1>3. MutexesHeld'
  BY <1>1, NoneAssumption DEF ShootdownInv, TypeOK, MutexesHeld, Changing, Calling, EndWait
<1>4. \A d \in Cpus : ~irr[d] /\ isr[d] = "off"
  BY AllAnswered DEF EndWait
<1>5. HandlerAnswers'
  BY <1>4 DEF HandlerAnswers, EndWait
<1>6. AddressCurrent'
  BY OneChanger DEF ShootdownInv, TypeOK, AddressCurrent, Changing, EndWait
<1>7. CountInv'
  BY CountFrame DEF ShootdownInv, TypeOK, EndWait
<1>8. StaleInv'
  <2> SUFFICES ASSUME NEW d \in Cpus, NEW u \in Pages, Stale(d, u)' PROVE FALSE
    BY DEF StaleInv
  <2>1. Stale(d, u)
    BY DEF Stale, EndWait
  <2>2. PICK h \in Cpus : Explains(h, d, u)
    BY <2>1 DEF ShootdownInv, StaleInv
  <2>3. QED
    BY <1>4, <2>2, OneChanger DEF Explains, Changing, EndWait
<1>9. QED
  BY <1>1, <1>2, <1>3, <1>5, <1>6, <1>7, <1>8 DEF ShootdownInv

(* Accepting the interrupt keeps it.                                       *)
LEMMA IsrEnterKeeps ==
  ASSUME ShootdownInv, NEW c \in Cpus, IsrEnter(c), ~raced'
  PROVE  ShootdownInv'
<1>1. StartInv' /\ Alone(Boot)' = Alone(Boot) /\ Joined' = Joined
  BY StartFrame DEF IsrEnter, Listening, ShootdownInv, TypeOK
<1>2. TypeOK'
  BY Observed DEF ShootdownInv, TypeOK, Handler, IsrEnter
<1>3. MutexesHeld' /\ AddressCurrent'
  BY <1>1 DEF ShootdownInv, MutexesHeld, AddressCurrent, IsrEnter
<1>4. HandlerAnswers'
  BY DEF ShootdownInv, TypeOK, HandlerAnswers, IsrEnter
<1>5. CountInv'
  <2>1. \A h \in Cpus : Replied(h)' = Replied(h)
    BY <1>1 DEF ShootdownInv, TypeOK, HandlerAnswers, Replied, IsrEnter
  <2>2. \A h \in Cpus : pc[h] = "wait" => h # c
    BY DEF ShootdownInv, CountInv, IsrEnter
  <2>3. QED
    BY <2>1, <2>2 DEF ShootdownInv, TypeOK, CountInv, IsrEnter
<1>6. StaleInv'
  <2> SUFFICES ASSUME NEW d \in Cpus, NEW u \in Pages, Stale(d, u)'
               PROVE  \E h \in Cpus : Explains(h, d, u)'
    BY DEF StaleInv
  <2>1. Stale(d, u)
    BY DEF Stale, IsrEnter
  <2>2. PICK h \in Cpus : Explains(h, d, u)
    BY <2>1 DEF ShootdownInv, StaleInv
  <2>3. Explains(h, d, u)'
    BY <2>2 DEF Explains, Flushed, ShootdownInv, TypeOK, IsrEnter
  <2>4. QED
    BY <2>3
<1>7. QED
  BY <1>1, <1>2, <1>3, <1>4, <1>5, <1>6 DEF ShootdownInv

(* The handler drops the translation of the page being changed.            *)
LEMMA IsrCallKeeps ==
  ASSUME ShootdownInv, NEW c \in Cpus, IsrCall(c), ~raced'
  PROVE  ShootdownInv'
<1>1. \A d \in Cpus \ {c} : tlb'[d] = tlb[d]
  BY DEF ShootdownInv, TypeOK, IsrCall, Invalidate
<1>2. stage[c] # "off"
  BY HandlerJoined DEF IsrCall
<1>3. StartInv' /\ Alone(Boot)' = Alone(Boot) /\ Joined' = Joined
  BY <1>1, <1>2, StartFrame DEF IsrCall, ShootdownInv, TypeOK
<1>4. TypeOK'
  BY Observed DEF ShootdownInv, TypeOK, Handler, IsrCall, Invalidate
<1>5. MutexesHeld' /\ AddressCurrent'
  BY <1>3 DEF ShootdownInv, MutexesHeld, AddressCurrent, IsrCall
<1>6. HandlerAnswers'
  BY DEF ShootdownInv, TypeOK, HandlerAnswers, IsrCall
<1>7. CountInv'
  <2>1. \A h \in Cpus : Replied(h)' = Replied(h)
    BY <1>3 DEF ShootdownInv, TypeOK, HandlerAnswers, Replied, IsrCall
  <2>2. \A h \in Cpus : pc[h] = "wait" => h # c
    BY DEF ShootdownInv, CountInv, IsrCall
  <2>3. QED
    BY <2>1, <2>2 DEF ShootdownInv, TypeOK, CountInv, IsrCall
<1>8. StaleInv'
  <2> SUFFICES ASSUME NEW d \in Cpus, NEW u \in Pages, Stale(d, u)'
               PROVE  \E h \in Cpus : Explains(h, d, u)'
    BY DEF StaleInv
  <2>1. Stale(d, u) /\ (d = c => u # invld)
    BY <1>1 DEF Stale, ShootdownInv, TypeOK, IsrCall, Invalidate
  <2>2. PICK h \in Cpus : Explains(h, d, u)
    BY <2>1 DEF ShootdownInv, StaleInv
  <2>3. PICK w \in Cpus : pc[w] = "wait"
    BY DEF ShootdownInv, HandlerAnswers, IsrCall
  <2>4. h = w
    BY <2>2, <2>3, OneChanger DEF Explains, Changing
  <2>5. d # c
    BY <2>1, <2>2, <2>3, <2>4 DEF Explains, ShootdownInv, AddressCurrent
  <2>6. Explains(h, d, u)'
    BY <2>2, <2>5 DEF Explains, Flushed, ShootdownInv, TypeOK, IsrCall
  <2>7. QED
    BY <2>6
<1>9. QED
  BY <1>3, <1>4, <1>5, <1>6, <1>7, <1>8 DEF ShootdownInv

(* The handler adds itself, once, to those that have answered.             *)
LEMMA IsrAckKeeps ==
  ASSUME ShootdownInv, NEW c \in Cpus, IsrAck(c), ~raced'
  PROVE  ShootdownInv'
<1>1. stage[c] # "off" /\ c \in Joined
  BY HandlerJoined DEF IsrAck
<1>2. StartInv' /\ Alone(Boot)' = Alone(Boot) /\ Joined' = Joined
  BY <1>1, StartFrame DEF IsrAck, ShootdownInv, TypeOK
<1>3. TypeOK'
  BY Observed DEF ShootdownInv, TypeOK, Handler, IsrAck
<1>4. MutexesHeld' /\ AddressCurrent'
  BY <1>2 DEF ShootdownInv, MutexesHeld, AddressCurrent, IsrAck
<1>5. HandlerAnswers'
  BY DEF ShootdownInv, TypeOK, HandlerAnswers, IsrAck
<1>6. CountInv'
  <2>1. \A h \in Cpus : pc[h] # "send"
    BY QuietUnlessWaiting DEF Changing, IsrAck
  <2>2. SUFFICES ASSUME NEW h \in Cpus, pc[h] = "wait"
                 PROVE  count' = Cardinality(Replied(h)') /\ ~irr'[h] /\ isr'[h] = "off"
    BY <2>1 DEF CountInv, IsrAck
  <2>3. h # c /\ count = Cardinality(Replied(h)) /\ ~irr[h] /\ isr[h] = "off"
    BY <2>2 DEF ShootdownInv, CountInv, IsrAck
  <2>4. c \notin Replied(h) /\ Replied(h)' = Replied(h) \cup {c}
    BY <1>1, <1>2, <2>3 DEF ShootdownInv, TypeOK, HandlerAnswers, Replied, IsrAck
  <2>5. Cardinality(Replied(h)') = Cardinality(Replied(h)) + 1
    BY <2>4, RepliedFinite, FS_AddElement
  <2>6. QED
    BY <2>3, <2>5 DEF IsrAck, ShootdownInv, TypeOK
<1>7. StaleInv'
  <2> SUFFICES ASSUME NEW d \in Cpus, NEW u \in Pages, Stale(d, u)'
               PROVE  \E h \in Cpus : Explains(h, d, u)'
    BY DEF StaleInv
  <2>1. Stale(d, u)
    BY DEF Stale, IsrAck
  <2>2. PICK h \in Cpus : Explains(h, d, u)
    BY <2>1 DEF ShootdownInv, StaleInv
  <2>3. Explains(h, d, u)'
    BY <2>2 DEF Explains, Flushed, ShootdownInv, TypeOK, IsrAck
  <2>4. QED
    BY <2>3
<1>8. QED
  BY <1>2, <1>3, <1>4, <1>5, <1>6, <1>7 DEF ShootdownInv

(* A translation loaded from the page tables is not stale.                 *)
LEMMA LoadKeeps ==
  ASSUME ShootdownInv, NEW c \in Cpus, NEW v \in Pages, Load(c, v), ~raced'
  PROVE  ShootdownInv'
<1>1. \A d \in Cpus \ {c} : tlb'[d] = tlb[d]
  BY DEF ShootdownInv, TypeOK, Load
<1>2. StartInv' /\ Alone(Boot)' = Alone(Boot) /\ Joined' = Joined
  BY <1>1, StartFrame DEF Load, ShootdownInv, TypeOK
<1>3. TypeOK'
  BY Observed DEF ShootdownInv, TypeOK, Load
<1>4. MutexesHeld' /\ AddressCurrent' /\ HandlerAnswers'
  BY <1>2 DEF ShootdownInv, MutexesHeld, AddressCurrent, HandlerAnswers, Load
<1>5. CountInv'
  BY CountFrame DEF Load
<1>6. StaleInv'
  <2> SUFFICES ASSUME NEW d \in Cpus, NEW u \in Pages, Stale(d, u)'
               PROVE  \E h \in Cpus : Explains(h, d, u)'
    BY DEF StaleInv
  <2>1. Stale(d, u)
    BY <1>1 DEF Stale, ShootdownInv, TypeOK, Load
  <2>2. PICK h \in Cpus : Explains(h, d, u)
    BY <2>1 DEF ShootdownInv, StaleInv
  <2>3. Explains(h, d, u)'
    BY <2>2 DEF Explains, Flushed, Load
  <2>4. QED
    BY <2>3
<1>7. QED
  BY <1>2, <1>3, <1>4, <1>5, <1>6 DEF ShootdownInv

(* A processor comes further while no change is made: nothing is pending,  *)
(* and what it finds in its TLB is true.                                   *)
LEMMA NextStageKeeps ==
  ASSUME ShootdownInv, NEW c \in Cpus, NextStage(c), ~raced'
  PROVE  ShootdownInv'
<1>1. stage[c] \in {"off", "up", "enabled"}
  BY DEF ShootdownInv, TypeOK, Stages, NextStage
<1>2. stage' \in [Cpus -> Stages] /\ stage'[c] # stage[c] /\ stage'[c] # "off"
      /\ \A d \in Cpus \ {c} : stage'[d] = stage[d]
  BY <1>1 DEF ShootdownInv, TypeOK, Stages, NextStage
<1>3. ~Busy /\ ~Busy'
  BY <1>2, Observed DEF Busy, NextStage
<1>4. \A h \in Cpus : pc[h] \in {"idle", "halted"}
  BY <1>3 DEF Busy
<1>5. TypeOK'
  BY <1>2, Observed DEF ShootdownInv, TypeOK, NextStage
<1>6. StartInv'
  <2>1. CASE stage[c] = "off"
    <3>1. ~large' /\ todo'[Boot] = << >>
      BY <2>1 DEF NextStage
    <3>2. \A d \in Cpus : todo'[d] = << >>
      BY <3>1 DEF ShootdownInv, StartInv, NextStage
    <3>3. QED
      BY <1>2, <1>3, <3>1, <3>2 DEF ShootdownInv, StartInv, NextStage
  <2>2. CASE stage[c] # "off"
    <3>1. Alone(Boot) => Alone(Boot)'
      BY <1>2, <2>2 DEF Alone
    <3>2. QED
      BY <1>2, <1>3, <2>2, <3>1 DEF ShootdownInv, StartInv, NextStage
  <2>3. QED
    BY <2>1, <2>2
<1>7. MutexesHeld'
  BY <1>4 DEF ShootdownInv, MutexesHeld, Changing, Calling, NextStage
<1>8. HandlerAnswers' /\ AddressCurrent' /\ CountInv'
  BY <1>4 DEF ShootdownInv, HandlerAnswers, AddressCurrent, CountInv, NextStage
<1>9. StaleInv'
  BY <1>4 DEF ShootdownInv, StaleInv, Stale, Explains, NextStage
<1>10. QED
  BY <1>5, <1>6, <1>7, <1>8, <1>9 DEF ShootdownInv

-----------------------------------------------------------------------------
(* A race with a start is not forgotten.                                   *)
LEMMA RacedStays == [Next]_vars => (raced => raced')
BY DEF Next, Step, Shootdown, Interrupt, Observe, vars, Call, unmap_page_fix_size, LockPaging, WriteEntry,
       FlushOwn, LockIpcall, ResetCount, broadcast_ipi, EndWait, Finish, IsrEnter, IsrCall, IsrAck,
       Panic, Load, NextStage

(* Every step keeps the invariant, or overlaps a start.                    *)
LEMMA ShootdownStep == UnlessRaced /\ [Next]_vars => UnlessRaced'
<1> SUFFICES ASSUME ShootdownInv, [Next]_vars, ~raced' PROVE ShootdownInv'
  BY RacedStays DEF UnlessRaced
<1>1. CASE UNCHANGED vars
  <2>1. /\ TypeOK' /\ StartInv' /\ MutexesHeld' /\ HandlerAnswers' /\ AddressCurrent'
    BY <1>1 DEF vars, ShootdownInv, TypeOK, StartInv, Busy, Starting, Alone, MutexesHeld, HandlerAnswers,
                AddressCurrent
  <2>2. CountInv'
    BY <1>1, CountFrame DEF vars
  <2>3. StaleInv'
    BY <1>1 DEF vars, ShootdownInv, StaleInv, Stale, Explains, Flushed
  <2>4. QED
    BY <2>1, <2>2, <2>3 DEF ShootdownInv
<1>2. ASSUME NEW c \in Cpus, Step(c) PROVE ShootdownInv'
  <2>1. CASE \E change \in Changes : Call(c, change)
    BY <2>1, CallKeeps
  <2>2. CASE \E k \in DOMAIN LargeRegion : unmap_page_fix_size(c, k)
    BY <2>2, SplitKeeps
  <2>3. CASE Shootdown(c)
    BY <2>3, LockPagingKeeps, WriteEntryKeeps, FlushOwnKeeps, LockIpcallKeeps, ResetCountKeeps,
       BroadcastKeeps, EndWaitKeeps, FinishKeeps DEF Shootdown
  <2>4. CASE Interrupt(c)
    BY <2>4, IsrEnterKeeps, IsrCallKeeps, IsrAckKeeps DEF Interrupt
  <2>5. CASE Panic(c)
    BY <2>5, PanicKeeps
  <2>6. CASE \E v \in Pages : Load(c, v)
    BY <2>6, LoadKeeps
  <2>7. CASE NextStage(c)
    BY <2>7, NextStageKeeps
  <2>8. QED
    BY <1>2, <2>1, <2>2, <2>3, <2>4, <2>5, <2>6, <2>7 DEF Step
<1>3. QED
  BY <1>1, <1>2 DEF Next

(* The inductive invariant holds in every state, from the boot on, that no *)
(* change made during the start of a processor precedes, for any number of *)
(* processors, pages and page changes.                                     *)
THEOREM ShootdownInvariant == Spec => []UnlessRaced
<1>1. Init => UnlessRaced
  BY ShootdownInit DEF UnlessRaced
<1>2. QED
  BY <1>1, ShootdownStep, PTL DEF Spec, Safety

(* invalidate_tlbs_for: a TLB is stale only for the page being changed,    *)
(* and only until the invalidation has reached its processor.              *)
THEOREM TlbStaleExplained == Spec => []StaleExplained
<1>1. UnlessRaced => StaleExplained
  BY DEF UnlessRaced, ShootdownInv, StaleInv, Explains, StaleExplained
<1>2. QED
  BY <1>1, ShootdownInvariant, PTL

(* Nobody has a stale translation while no change is in progress: when     *)
(* map_page or unmap_page has returned, the change is in force everywhere. *)
THEOREM TlbCoherent == Spec => []Coherent
<1>1. UnlessRaced => Coherent
  BY DEF UnlessRaced, ShootdownInv, StaleInv, Explains, Coherent, Busy
<1>2. QED
  BY <1>1, ShootdownInvariant, PTL

(* inter_processor_call: __ip_call_count is the number of processors that  *)
(* have run the function of this call.                                     *)
THEOREM TlbCountTrue == Spec => []CountTrue
<1>1. UnlessRaced => CountTrue
  <2>1. AllJoined => \A h \in Cpus : Answered(h) = Replied(h)
    BY DEF AllJoined, Answered, Replied
  <2>2. QED
    BY <2>1 DEF UnlessRaced, ShootdownInv, CountInv, CountTrue
<1>2. QED
  BY <1>1, ShootdownInvariant, PTL

(* __invld_tlbs_addr keeps its value while a handler may still read it.    *)
THEOREM TlbAddressStable == Spec => []AddressStable
<1>1. UnlessRaced => AddressStable
  BY DEF UnlessRaced, ShootdownInv, AddressCurrent, AddressStable
<1>2. QED
  BY <1>1, ShootdownInvariant, PTL

=============================================================================
