----------------------------- MODULE LibcProofs -----------------------------
(***************************************************************************)
(* Proofs about src/libc.  The spin lock of threads.c, for any set of      *)
(* processors: its type invariant, mutual exclusion, and that every step   *)
(* of it is a step of the abstract lock.  The functions of string.c and    *)
(* stdlib.c, for arguments, buffers and widths of any size: what they      *)
(* return is what the invariants of Libc say.                              *)
(***************************************************************************)
EXTENDS SpinLock, Libc, FiniteSetTheorems, WellFoundedInduction, NaturalsInduction, TLAPS

-----------------------------------------------------------------------------
(* threads.c.                                                              *)

(* The invariant holds initially and is kept by every atomic access of     *)
(* threads.c, whichever processor makes it.                                *)
LEMMA LockInvInductive == Safety => []LockInv
<1>1. Init => LockInv
  BY DEF Init, LockInv, TypeOK, MutualExclusion, LockedIffHeld, QuietBeforeSmp,
         Holds, PCs, Codes
<1>2. LockInv /\ [Next]_vars => LockInv'
  <2> SUFFICES ASSUME LockInv, [Next]_vars PROVE LockInv'
    OBVIOUS
  <2> USE BootAssumption
          DEF LockInv, TypeOK, MutualExclusion, LockedIffHeld, QuietBeforeSmp,
              Holds, PCs, Codes, Goto, Return, Running
  <2>1. CASE StartAps
    BY <2>1 DEF StartAps
  <2>2. ASSUME NEW t \in Threads, Step(t)
        PROVE  LockInv'
    <3>1. ASSUME NEW type \in Types, mtx_init(t, type)
          PROVE  LockInv'
      \* only the boot processor runs, and it is not in a critical section
      <4>1. \A u \in Threads : ~Holds(u)
        BY <3>1 DEF mtx_init
      <4>2. locked' = FALSE
        BY <3>1, <4>1 DEF mtx_init
      <4>3. QED
        BY <3>1, <4>1, <4>2 DEF mtx_init
    <3>2. CASE mtx_lock(t)
      BY <3>2 DEF mtx_lock
    <3>3. CASE LoadFree(t)
      BY <3>3 DEF LoadFree
    <3>4. CASE Xchg(t)
      BY <3>4 DEF Xchg
    <3>5. CASE mtx_trylock(t)
      BY <3>5 DEF mtx_trylock
    <3>6. CASE mtx_unlock(t)
      BY <3>6 DEF mtx_unlock
    <3>7. QED
      BY <2>2, <3>1, <3>2, <3>3, <3>4, <3>5, <3>6 DEF Step
  <2>3. CASE UNCHANGED vars
    BY <2>3 DEF vars
  <2>4. QED
    BY <2>1, <2>2, <2>3 DEF Next
<1>3. QED
  BY <1>1, <1>2, PTL DEF Safety

(* Every variable keeps its type through every call of threads.c.          *)
THEOREM TypeCorrect == Spec => []TypeOK
BY LockInvInductive, PTL DEF Spec, LockInv

(* Two processors are never inside the same mutex (threads.c:13-35),       *)
(* whatever the number of processors and the order of their atomics.       *)
THEOREM MutexSafe == Spec => []MutualExclusion
BY LockInvInductive, PTL DEF Spec, LockInv

(* The mutex is taken exactly while somebody holds it (threads.c:5-35).    *)
THEOREM LockWordTrue == Spec => []LockedIffHeld
BY LockInvInductive, PTL DEF Spec, LockInv

-----------------------------------------------------------------------------
(* The holder of the abstract lock, as AL computes it.                     *)
Holder == IF \E t \in Threads : Holds(t)
          THEN CHOOSE t \in Threads : Holds(t) ELSE Free

(* Under mutual exclusion the chosen holder is the one processor that is   *)
(* in its critical section.                                                *)
LEMMA HolderIs ==
  ASSUME MutualExclusion, NEW t \in Threads, Holds(t)
  PROVE  Holder = t
BY DEF MutualExclusion, Holder

(* If nobody is in its critical section the abstract lock is free.         *)
LEMMA HolderFree ==
  ASSUME \A t \in Threads : ~Holds(t)
  PROVE  Holder = Free
BY DEF Holder

(* Every run of the spin lock is a run of the abstract lock: mtx_lock is a *)
(* request, the winning exchange an acquisition, everything else that does *)
(* not unlock a stuttering step (threads.c:5-35).                          *)
THEOREM RefinesAbstractLock == Spec => AL!Safety
<1> DEFINE waiting == {t \in Threads : Waits(t)}
<1>1. Init => AL!Init
  BY DEF Init, AL!Init, Holds, Waits
<1>2. LockInv /\ LockInv' /\ [Next]_vars => [AL!Next]_(AL!vars)
  <2> SUFFICES ASSUME LockInv, LockInv', [Next]_vars
               PROVE  [AL!Next]_(AL!vars)
    OBVIOUS
  <2>0. MutualExclusion /\ MutualExclusion' /\ pc \in [Threads -> PCs]
    BY DEF LockInv, TypeOK
  <2>1. ASSUME pc' = pc PROVE UNCHANGED AL!vars
    BY <2>1 DEF AL!vars, Holds, Waits
  <2>2. ASSUME NEW t \in Threads, Step(t)
        PROVE  [AL!Next]_(AL!vars)
    <3>1. CASE mtx_lock(t)
      <4>1. \A u \in Threads : Holds(u)' <=> Holds(u)
        BY <2>0, <3>1 DEF mtx_lock, Goto, Holds
      <4>2. Holder' = Holder /\ Holder # t
        BY <2>0, <3>1, <4>1, FreeAssumption DEF mtx_lock, Holds, Holder
      <4>3. waiting' = waiting \cup {t} /\ t \notin waiting
        BY <2>0, <3>1 DEF mtx_lock, Goto, Waits
      <4>4. AL!Request(t)
        BY <4>2, <4>3 DEF AL!Request, Holder
      <4>5. QED
        BY <4>4 DEF AL!Next
    <3>2. CASE LoadFree(t)
      <4>1. \A u \in Threads : Holds(u)' <=> Holds(u)
        BY <2>0, <3>2 DEF LoadFree, Goto, Holds
      <4>2. Holder' = Holder
        BY <4>1 DEF Holder, Holds
      <4>3. waiting' = waiting
        BY <2>0, <3>2 DEF LoadFree, Goto, Waits
      <4>4. QED
        BY <4>2, <4>3 DEF AL!vars, Holder
    <3>3. CASE Xchg(t) /\ locked
      <4>1. \A u \in Threads : Holds(u)' <=> Holds(u)
        BY <2>0, <3>3 DEF Xchg, Goto, Holds
      <4>2. Holder' = Holder
        BY <4>1 DEF Holder, Holds
      <4>3. waiting' = waiting
        BY <2>0, <3>3 DEF Xchg, Goto, Waits
      <4>4. QED
        BY <4>2, <4>3 DEF AL!vars, Holder
    <3>4. CASE Xchg(t) /\ ~locked
      <4>1. Holder = Free
        BY <3>4, HolderFree DEF LockInv, LockedIffHeld
      <4>2. Holds(t)'
        BY <2>0, <3>4 DEF Xchg, Goto, Holds
      <4>3. Holder' = t
        BY <2>0, <4>2 DEF MutualExclusion, Holder
      <4>4. waiting' = waiting \ {t} /\ t \in waiting
        BY <2>0, <3>4 DEF Xchg, Goto, Waits
      <4>5. AL!Acquire(t)
        BY <4>1, <4>3, <4>4 DEF AL!Acquire, Holder
      <4>6. QED
        BY <4>5 DEF AL!Next
    <3>5. CASE mtx_trylock(t) /\ locked
      BY <2>1, <3>5 DEF mtx_trylock
    <3>6. CASE mtx_trylock(t) /\ ~locked
      <4>1. Holder = Free
        BY <3>6, HolderFree DEF LockInv, LockedIffHeld
      <4>2. Holds(t)'
        BY <2>0, <3>6 DEF mtx_trylock, Goto, Holds
      <4>3. Holder' = t
        BY <2>0, <4>2 DEF MutualExclusion, Holder
      <4>4. waiting' = waiting /\ t \notin waiting
        BY <2>0, <3>6 DEF mtx_trylock, Goto, Waits
      <4>5. AL!TryAcquire(t)
        BY <4>1, <4>3, <4>4 DEF AL!TryAcquire, Holder
      <4>6. QED
        BY <4>5 DEF AL!Next
    <3>7. CASE mtx_unlock(t)
      <4>1. Holder = t
        BY <2>0, <3>7, HolderIs DEF mtx_unlock, Holds
      <4>2. \A u \in Threads : ~Holds(u)'
        BY <2>0, <3>7 DEF mtx_unlock, Goto, Holds, MutualExclusion
      <4>3. Holder' = Free
        BY <4>2 DEF Holder
      <4>4. waiting' = waiting
        BY <2>0, <3>7 DEF mtx_unlock, Goto, Waits
      <4>5. AL!Release(t)
        BY <4>1, <4>3, <4>4 DEF AL!Release, Holder
      <4>6. QED
        BY <4>5 DEF AL!Next
    <3>8. CASE \E type \in Types : mtx_init(t, type)
      BY <2>1, <3>8 DEF mtx_init
    <3>9. QED
      BY <2>2, <3>1, <3>2, <3>3, <3>4, <3>5, <3>6, <3>7, <3>8 DEF Step
  <2>3. CASE StartAps
    BY <2>1, <2>3 DEF StartAps
  <2>4. CASE UNCHANGED vars
    BY <2>1, <2>4 DEF vars
  <2>5. QED
    BY <2>2, <2>3, <2>4 DEF Next
<1>3. QED
  BY <1>1, <1>2, LockInvInductive, PTL DEF Spec, Safety, AL!Safety

-----------------------------------------------------------------------------
(* The functions that work in a loop or by recursion are recursive         *)
(* functions in the model.  That they exist, and what holds of all their   *)
(* values, comes from the three facts here, which are stated with sets and *)
(* functions and not with operators.                                       *)

(* A set of naturals has a least element.                                  *)
LEMMA LeastExists ==
  ASSUME NEW S \in SUBSET Nat, S # {}
  PROVE  \E i \in S : \A j \in S : i <= j
<1>1. PICK i \in S : \A j \in S : ~(<<j, i>> \in OpToRel(<, Nat))
  BY NatLessThanWellFounded, WFMin
<1>2. \A j \in S : ~(j < i)
  BY <1>1, Zenon DEF OpToRel
<1>3. QED
  BY <1>2

(* Induction over the naturals, for a set.                                 *)
LEMMA Induction ==
  ASSUME NEW P, 0 \in P, \A n \in Nat : n \in P => n + 1 \in P
  PROVE  \A n \in Nat : n \in P
<1> DEFINE S == {n \in Nat : n \notin P}
<1>1. SUFFICES ASSUME S # {} PROVE FALSE
  OBVIOUS
<1>2. PICK i \in S : \A j \in S : i <= j
  BY <1>1, LeastExists
<1>3. i # 0 /\ i - 1 \in Nat /\ i - 1 \notin S
  BY <1>2
<1>4. i - 1 \in P /\ (i - 1) + 1 = i
  BY <1>3
<1>5. QED
  BY <1>2, <1>3, <1>4

(* B[n][g] is value n of a function whose values so far are those of g;    *)
(* X[n] is where value n comes from.  f is the function they make.         *)
Values(X) == UNION {X[n] : n \in Nat}
SoFar(g, n, X) == \A k \in Nat : k < n => g[k] \in X[k]
IsBody(B, X) ==
    /\ \A n \in Nat : X[n] # {}
    /\ \A n \in Nat : \A g \in [Nat -> Values(X)] : SoFar(g, n, X) => B[n][g] \in X[n]
    /\ \A n \in Nat : \A g, h \in [Nat -> Values(X)] :
         SoFar(g, n, X) /\ (\A k \in Nat : k < n => g[k] = h[k]) => B[n][g] = B[n][h]
IsMadeBy(f, B, X) ==
    /\ f \in [Nat -> Values(X)]
    /\ \A n \in Nat : f[n] \in X[n] /\ f[n] = B[n][f]

(* Such a function exists: values can be defined by the values before      *)
(* them.                                                                   *)
LEMMA RecursionOnNat ==
  ASSUME NEW B, NEW X, IsBody(B, X)
  PROVE  \E f : IsMadeBy(f, B, X)
<1> DEFINE V == Values(X)
           D(n, g) == \A k \in Nat : k < n => g[k] \in X[k] /\ g[k] = B[k][g]
           P == {n \in Nat : \E g \in [Nat -> V] : D(n, g)}
           Q == {n \in Nat : \A g, h \in [Nat -> V] : D(n, g) /\ D(n, h) =>
                               \A k \in Nat : k < n => g[k] = h[k]}
<1>a. \A n \in Nat : \A x \in X[n] : x \in V
  BY DEF Values
<1>b. \A n \in Nat : X[n] # {}
  BY DEF IsBody
<1>c. ASSUME NEW n \in Nat, NEW g \in [Nat -> V], D(n, g)
      PROVE  B[n][g] \in X[n]
  BY <1>c DEF IsBody, SoFar
<1>d. ASSUME NEW n \in Nat, NEW g \in [Nat -> V], NEW h \in [Nat -> V], D(n, g),
             \A k \in Nat : k < n => g[k] = h[k]
      PROVE  B[n][g] = B[n][h]
  BY <1>d DEF IsBody, SoFar
<1> HIDE DEF V
<1>1. \A n \in Nat : n \in P
  <2>1. 0 \in P
    <3>1. PICK x : x \in X[0]
      BY <1>b
    <3>2. [n \in Nat |-> x] \in [Nat -> V]
      BY <1>a, <3>1
    <3>3. D(0, [n \in Nat |-> x])
      OBVIOUS
    <3> HIDE DEF D
    <3>4. QED
      BY <3>2, <3>3
  <2>2. ASSUME NEW n \in Nat, n \in P PROVE n + 1 \in P
    <3>1. PICK g \in [Nat -> V] : D(n, g)
      BY <2>2
    <3>x. B[n][g] \in X[n]
      <4> HIDE DEF D
      <4>1. QED
        BY <1>c, <3>1
    <3> DEFINE h == [g EXCEPT ![n] = B[n][g]]
    <3>2. h \in [Nat -> V]
      BY <1>a, <3>x
    <3>3. \A k \in Nat : k # n => h[k] = g[k]
      OBVIOUS
    <3>4. h[n] = B[n][g]
      OBVIOUS
    <3> HIDE DEF h
    <3>5. ASSUME NEW k \in Nat, k < n + 1 PROVE h[k] \in X[k] /\ h[k] = B[k][h]
      <4>0. \A i \in Nat : i < k => g[i] = h[i]
        BY <3>3, <3>5
      <4>y. D(k, g)
        BY <3>1, <3>5
      <4>1. B[k][g] = B[k][h]
        <5> HIDE DEF D
        <5>1. QED
          BY <1>d, <3>2, <4>0, <4>y
      <4>2. CASE k < n
        BY <3>1, <3>3, <4>1, <4>2
      <4>3. CASE k = n
        BY <3>4, <3>x, <4>1, <4>3
      <4>4. QED
        BY <3>5, <4>2, <4>3
    <3>6. D(n + 1, h)
      BY <3>5
    <3> HIDE DEF D
    <3>7. QED
      BY <3>2, <3>6
  <2> HIDE DEF P
  <2>3. QED
    BY <2>1, <2>2, Induction
<1>2. \A n \in Nat : n \in Q
  <2>1. 0 \in Q
    OBVIOUS
  <2>2. ASSUME NEW n \in Nat, n \in Q PROVE n + 1 \in Q
    <3>1. ASSUME NEW g \in [Nat -> V], NEW h \in [Nat -> V], D(n + 1, g), D(n + 1, h),
                 NEW k \in Nat, k < n + 1
          PROVE  g[k] = h[k]
      <4>0. D(n, g) /\ D(n, h)
        BY <3>1
      <4>1. \A i \in Nat : i < n => g[i] = h[i]
        <5> HIDE DEF D
        <5>2. QED
          BY <2>2, <4>0
      <4>2. B[n][g] = B[n][h]
        <5> HIDE DEF D
        <5>1. QED
          BY <1>d, <4>0, <4>1
      <4>3. g[n] = B[n][g] /\ h[n] = B[n][h]
        BY <3>1
      <4>4. k < n \/ k = n
        BY <3>1
      <4> HIDE DEF D, Q
      <4>5. QED
        BY <4>1, <4>2, <4>3, <4>4
    <3>2. \A g, h \in [Nat -> V] : D(n + 1, g) /\ D(n + 1, h) => \A k \in Nat : k < n + 1 => g[k] = h[k]
      <4> HIDE DEF D
      <4>1. QED
        BY <3>1
    <3>3. n + 1 \in Nat
      OBVIOUS
    <3> HIDE DEF D
    <3>4. QED
      BY <3>2, <3>3
  <2> HIDE DEF Q
  <2>3. QED
    BY <2>1, <2>2, Induction
<1> DEFINE G == [n \in Nat |-> CHOOSE g \in [Nat -> V] : D(n + 1, g)]
           f == [n \in Nat |-> G[n][n]]
<1>3. ASSUME NEW n \in Nat PROVE G[n] \in [Nat -> V] /\ D(n + 1, G[n])
  <2>0. n + 1 \in P
    <3>1. n + 1 \in Nat
      OBVIOUS
    <3> HIDE DEF P
    <3>2. QED
      BY <1>1, <3>1
  <2>1. \E g \in [Nat -> V] : D(n + 1, g)
    BY <2>0
  <2> HIDE DEF D
  <2>2. QED
    BY <2>1
<1> HIDE DEF G
<1>4. f \in [Nat -> V]
  BY <1>3
<1>5. ASSUME NEW n \in Nat, NEW k \in Nat, k <= n PROVE f[k] = G[n][k]
  <2>1. D(k + 1, G[k]) /\ D(k + 1, G[n])
    BY <1>3, <1>5
  <2>2. \A g, h \in [Nat -> V] : D(k + 1, g) /\ D(k + 1, h) => \A i \in Nat : i < k + 1 => g[i] = h[i]
    <3> HIDE DEF D
    <3>1. k + 1 \in Nat
      OBVIOUS
    <3>2. k + 1 \in Q
      BY <1>2, <3>1
    <3>3. QED
      BY <3>2
  <2>3. f[k] = G[k][k]
    OBVIOUS
  <2>4. G[k] \in [Nat -> V] /\ G[n] \in [Nat -> V] /\ k < k + 1
    BY <1>3
  <2> HIDE DEF D, f
  <2>5. G[k][k] = G[n][k]
    BY <2>1, <2>2, <2>4
  <2>6. QED
    BY <2>3, <2>5
<1>6. ASSUME NEW n \in Nat PROVE f[n] \in X[n] /\ f[n] = B[n][f]
  <2>1. G[n][n] \in X[n] /\ G[n][n] = B[n][G[n]]
    BY <1>3
  <2>2. B[n][G[n]] = B[n][f]
    <3>1. \A k \in Nat : k < n => G[n][k] = f[k]
      BY <1>5
    <3>2. D(n, G[n])
      BY <1>3
    <3> HIDE DEF f, D
    <3>3. QED
      BY <1>3, <1>4, <1>d, <3>1, <3>2
  <2>3. f[n] = G[n][n]
    OBVIOUS
  <2>4. QED
    BY <2>1, <2>2, <2>3
<1> HIDE DEF f
<1>7. QED
  BY <1>4, <1>6 DEF IsMadeBy, V

(* f[k] is the state of a loop after k of its n rounds; R[k] is round k.   *)
IsRounds(R, n, X) == \A k \in 1 .. n : \A r \in X : R[k][r] \in X
IsRun(f, x, R, n, X) ==
    /\ f \in [0 .. n -> X]
    /\ f[0] = x
    /\ \A k \in 1 .. n : f[k] = R[k][f[k - 1]]

(* A loop of n rounds, each of which stays within X, has a run.            *)
LEMMA Iteration ==
  ASSUME NEW X, NEW x \in X, NEW n \in Nat, NEW R, IsRounds(R, n, X)
  PROVE  \E f : IsRun(f, x, R, n, X)
<1> DEFINE XX == [k \in Nat |-> X]
           B == [k \in Nat |-> [g \in [Nat -> X] |->
                   IF k = 0 \/ k > n THEN x ELSE R[k][g[k - 1]]]]
<1>0. Values(XX) = X
  BY DEF Values
<1>1. \A k \in Nat : \A g \in [Nat -> X] : B[k][g] = IF k = 0 \/ k > n THEN x ELSE R[k][g[k - 1]]
  OBVIOUS
<1> HIDE DEF B
<1>2. \A k \in Nat : \A g \in [Nat -> X] : B[k][g] \in X
  BY <1>1 DEF IsRounds
<1>3. ASSUME NEW k \in Nat, NEW g \in [Nat -> X], NEW h \in [Nat -> X],
             \A i \in Nat : i < k => g[i] = h[i]
      PROVE  B[k][g] = B[k][h]
  BY <1>1, <1>3
<1>4. IsBody(B, XX)
  <2>1. \A k \in Nat : XX[k] = X
    OBVIOUS
  <2> HIDE DEF XX
  <2>2. QED
    BY <2>1, <1>0, <1>2, <1>3 DEF IsBody
<1> HIDE DEF XX
<1>5. PICK f : IsMadeBy(f, B, XX)
  BY <1>4, RecursionOnNat
<1>6. f \in [Nat -> X] /\ \A k \in Nat : f[k] = B[k][f]
  BY <1>0, <1>5 DEF IsMadeBy
<1> DEFINE g == [k \in 0 .. n |-> f[k]]
<1>7. g \in [0 .. n -> X] /\ g[0] = x
  BY <1>1, <1>6
<1>8. \A k \in 1 .. n : g[k] = R[k][g[k - 1]]
  BY <1>1, <1>6
<1> HIDE DEF g
<1>9. QED
  BY <1>7, <1>8 DEF IsRun

-----------------------------------------------------------------------------
(* Copies.                                                                 *)
LEMMA Division ==
  ASSUME NEW a \in Nat, NEW u \in Nat \ {0}
  PROVE  /\ a \div u \in Nat /\ (a % u) \in 0 .. u - 1
         /\ a = (u * (a \div u)) + (a % u)
  BY Z3

(* The bytes of a copy are those of its words and the rest.                *)
LEMMA WordsAndRest ==
  ASSUME NEW n \in Nat
  PROVE  /\ Words(n) \in Nat /\ Rest(n) \in Nat /\ Accesses(n) \in Nat
         /\ Words(n) * WordSize \in Nat
         /\ n = Words(n) * WordSize + Rest(n)
         /\ Accesses(n) = Words(n) + Rest(n)
<1>1. WordSize \in Nat /\ WordSize > 0
  BY StringFnsAssumption
<1>2. Words(n) \in Nat /\ Rest(n) \in Nat /\ n = WordSize * Words(n) + Rest(n)
  BY <1>1, Division DEF Words, Rest
<1>3. \A v, w \in Nat : v * w \in Nat /\ v * w = w * v
  BY Z3
<1>4. QED
  BY <1>1, <1>2, <1>3 DEF Accesses

(* A copy from the end starts with nothing done and ends with everything,  *)
(* and never goes back.                                                    *)
LEMMA DoneFromFalls ==
  ASSUME NEW n \in Nat
  PROVE  /\ DoneFrom(n, 0) = n /\ DoneFrom(n, Accesses(n)) = 0
         /\ \A k \in 0 .. Accesses(n) : DoneFrom(n, k) \in 0 .. n
         /\ \A k \in 1 .. Accesses(n) : DoneFrom(n, k) <= DoneFrom(n, k - 1)
<1> DEFINE W == Words(n)  T == Rest(n)  w == WordSize
<1>1. W \in Nat /\ T \in Nat /\ w \in Nat /\ w > 0 /\ n = W * w + T /\ Accesses(n) = W + T
  BY WordsAndRest, StringFnsAssumption
<1>2. \A k \in Nat : DoneFrom(n, k) = IF k <= T THEN n - k ELSE (W + T - k) * w
  BY <1>1 DEF DoneFrom
<1> HIDE DEF W, T, w
<1>3. 0 * w = 0
  BY <1>1
<1>4. ASSUME NEW k \in Nat, T < k, k <= W + T
      PROVE  /\ (W + T - k) * w \in Nat /\ (W + T - k) * w <= W * w
             /\ (W + T - k) * w <= (W + T - (k - 1)) * w
  <2> DEFINE j == W + T - k
  <2>1. j \in Nat /\ j < W /\ W + T - (k - 1) = j + 1
    BY <1>1, <1>4
  <2> HIDE DEF j
  <2>2. j * w \in Nat /\ j * w <= W * w /\ j * w <= (j + 1) * w
    BY <1>1, <2>1, Z3
  <2>3. QED
    BY <2>1, <2>2 DEF j
<1>5. DoneFrom(n, 0) = n
  BY <1>1, <1>2
<1>6. DoneFrom(n, W + T) = 0
  <2>1. CASE W = 0
    BY <1>1, <1>2, <1>3, <2>1
  <2>2. CASE W # 0
    <3>1. W + T \in Nat /\ ~(W + T <= T) /\ W + T - (W + T) = 0
      BY <1>1, <2>2
    <3>2. QED
      BY <1>2, <1>3, <3>1
  <2>3. QED
    BY <2>1, <2>2
<1>7. ASSUME NEW k \in 0 .. Accesses(n) PROVE DoneFrom(n, k) \in 0 .. n
  <2>1. CASE k <= T
    BY <1>1, <1>2, <2>1
  <2>2. CASE T < k
    <3>1. k \in Nat /\ k <= W + T
      BY <1>1
    <3>2. DoneFrom(n, k) = (W + T - k) * w
      BY <1>1, <1>2, <2>2, <3>1
    <3>3. QED
      BY <1>1, <1>4, <2>2, <3>1, <3>2
  <2>3. QED
    BY <1>1, <2>1, <2>2
<1>8. ASSUME NEW k \in 1 .. Accesses(n) PROVE DoneFrom(n, k) <= DoneFrom(n, k - 1)
  <2>0. k \in Nat /\ k - 1 \in Nat /\ k <= W + T
    BY <1>1
  <2>1. CASE k <= T
    BY <1>1, <1>2, <2>0, <2>1
  <2>2. CASE T < k - 1
    BY <1>1, <1>2, <1>4, <2>0, <2>2
  <2>3. CASE k - 1 = T
    <3>1. (W + T - k) * w <= W * w
      BY <1>1, <1>4, <2>0, <2>3
    <3>2. DoneFrom(n, k) = (W + T - k) * w /\ DoneFrom(n, k - 1) = W * w
      BY <1>1, <1>2, <2>0, <2>3
    <3>3. QED
      BY <3>1, <3>2
  <2>4. QED
    BY <1>1, <2>0, <2>1, <2>2, <2>3
<1>9. QED
  BY <1>1, <1>5, <1>6, <1>7, <1>8

(* The same for a copy from the start.                                     *)
LEMMA DoneToRises ==
  ASSUME NEW n \in Nat
  PROVE  /\ DoneTo(n, 0) = 0 /\ DoneTo(n, Accesses(n)) = n
         /\ \A k \in 0 .. Accesses(n) : DoneTo(n, k) \in 0 .. n
         /\ \A k \in 1 .. Accesses(n) : DoneTo(n, k - 1) <= DoneTo(n, k)
<1> DEFINE W == Words(n)  T == Rest(n)  w == WordSize
<1>1. W \in Nat /\ T \in Nat /\ w \in Nat /\ w > 0 /\ n = W * w + T /\ Accesses(n) = W + T
  BY WordsAndRest, StringFnsAssumption
<1>2. \A k \in Nat : DoneTo(n, k) = IF k <= W THEN k * w ELSE n - (W + T - k)
  BY <1>1 DEF DoneTo
<1> HIDE DEF W, T, w
<1>3. 0 * w = 0
  BY <1>1
<1>4. ASSUME NEW k \in Nat, k <= W
      PROVE  k * w \in Nat /\ k * w <= W * w /\ (k > 0 => (k - 1) * w <= k * w)
  BY <1>1, <1>4, Z3
<1>5. DoneTo(n, 0) = 0
  BY <1>1, <1>2, <1>3
<1>6. DoneTo(n, W + T) = n
  BY <1>1, <1>2
<1>7. ASSUME NEW k \in 0 .. Accesses(n) PROVE DoneTo(n, k) \in 0 .. n
  <2>1. CASE k <= W
    <3>1. k \in Nat /\ DoneTo(n, k) = k * w
      BY <1>1, <1>2, <2>1
    <3>2. QED
      BY <1>1, <1>4, <2>1, <3>1
  <2>2. CASE W < k
    BY <1>1, <1>2, <2>2
  <2>3. QED
    BY <1>1, <2>1, <2>2
<1>8. ASSUME NEW k \in 1 .. Accesses(n) PROVE DoneTo(n, k - 1) <= DoneTo(n, k)
  <2>0. k \in Nat /\ k - 1 \in Nat /\ k <= W + T /\ k > 0
    BY <1>1
  <2>1. CASE k <= W
    <3>1. DoneTo(n, k) = k * w /\ DoneTo(n, k - 1) = (k - 1) * w
      BY <1>1, <1>2, <2>0, <2>1
    <3>2. QED
      BY <1>4, <2>0, <2>1, <3>1
  <2>2. CASE W < k - 1
    BY <1>1, <1>2, <2>0, <2>2
  <2>3. CASE k - 1 = W
    <3>1. DoneTo(n, k) = n - (W + T - k) /\ DoneTo(n, k - 1) = W * w
      BY <1>1, <1>2, <2>0, <2>3
    <3>2. QED
      BY <1>1, <1>4, <2>0, <2>3, <3>1
  <2>4. QED
    BY <1>1, <2>0, <2>1, <2>2, <2>3
<1>9. QED
  BY <1>1, <1>5, <1>6, <1>7, <1>8

(* The cells d .. d + n - 1 hold what those from s on held in m.           *)
IsCopy(c, m, d, s, n) ==
    c = [a \in DOMAIN m |-> IF a \in d .. d + n - 1 THEN m[s + (a - d)] ELSE m[a]]

(* A copy from the end is exact unless the target overlaps the source from *)
(* below.                                                                  *)
LEMMA CopyDownRight ==
  ASSUME NEW A, NEW m \in [A -> Int], NEW d \in Nat, NEW s \in Nat, NEW n \in Nat,
         s .. s + n - 1 \subseteq A, d > s \/ d + n <= s \/ s + n <= d
  PROVE  IsCopy(CopyDown(m, d, s, n), m, d, s, n)
<1> DEFINE N == Accesses(n)
           e == [k \in 0 .. N |-> DoneFrom(n, k)]
           X == [A -> Int]
           R == [k \in 1 .. N |-> [r \in X |-> Move(r, d + e[k], s + e[k], e[k - 1] - e[k])]]
<1>1. N \in Nat
  BY WordsAndRest
<1>2. /\ e[0] = n /\ e[N] = 0 /\ \A k \in 0 .. N : e[k] \in 0 .. n
      /\ \A k \in 1 .. N : e[k] <= e[k - 1] /\ e[k - 1] \in 0 .. n
  BY <1>1, DoneFromFalls
<1>3. ASSUME NEW k \in 1 .. N, NEW r \in X
      PROVE  /\ R[k][r] = Move(r, d + e[k], s + e[k], e[k - 1] - e[k])
             /\ R[k][r] \in X
             /\ \A a \in A : R[k][r][a] = IF a \in d + e[k] .. d + e[k - 1] - 1
                                            THEN r[s + (a - d)] ELSE r[a]
  <2>1. R[k][r] = Move(r, d + e[k], s + e[k], e[k - 1] - e[k])
    OBVIOUS
  <2> DEFINE mv == Move(r, d + e[k], s + e[k], e[k - 1] - e[k])
  <2> HIDE DEF e, R
  <2>2. e[k] \in 0 .. n /\ e[k - 1] \in 0 .. n /\ e[k] <= e[k - 1]
    BY <1>2, <1>1
  <2>3. mv = [a \in A |-> IF a \in d + e[k] .. d + e[k - 1] - 1
                            THEN r[s + (a - d)] ELSE r[a]]
    BY <2>2 DEF Move, Put
  <2>4. \A a \in A : a \in d + e[k] .. d + e[k - 1] - 1 => s + (a - d) \in A
    <3>1. ASSUME NEW a \in A, a \in d + e[k] .. d + e[k - 1] - 1
          PROVE  s + (a - d) \in s .. s + n - 1
      BY <2>2, <3>1
    <3>2. QED
      BY <3>1
  <2> HIDE DEF mv
  <2>5. mv \in X
    BY <2>3, <2>4
  <2>6. \A a \in A : mv[a] = IF a \in d + e[k] .. d + e[k - 1] - 1 THEN r[s + (a - d)] ELSE r[a]
    BY <2>3
  <2>7. QED
    BY <2>1, <2>5, <2>6 DEF mv
<1> DEFINE Rec(g) == g = [k \in 0 .. N |->
                       IF k = 0 THEN m
                       ELSE Move(g[k - 1], d + DoneFrom(n, k), s + DoneFrom(n, k),
                                 DoneFrom(n, k - 1) - DoneFrom(n, k))]
           g == CHOOSE g : Rec(g)
<1>4. CopyDown(m, d, s, n) = g[N]
  BY DEF CopyDown
<1>5. \A k \in 1 .. N : e[k] = DoneFrom(n, k) /\ e[k - 1] = DoneFrom(n, k - 1)
  BY <1>1
<1> HIDE DEF e, R
<1>6. \E f : Rec(f)
  <2>1. m \in X /\ IsRounds(R, N, X)
    BY <1>3 DEF IsRounds
  <2> HIDE DEF X, N
  <2>2. PICK f : IsRun(f, m, R, N, X)
    BY <1>1, <2>1, Iteration
  <2>3. f \in [0 .. N -> X] /\ f[0] = m /\ \A k \in 1 .. N : f[k] = R[k][f[k - 1]]
    BY <2>2 DEF IsRun
  <2>4. ASSUME NEW k \in 0 .. N
        PROVE  f[k] = IF k = 0 THEN m
                      ELSE Move(f[k - 1], d + DoneFrom(n, k), s + DoneFrom(n, k),
                                DoneFrom(n, k - 1) - DoneFrom(n, k))
    <3>1. CASE k = 0
      BY <2>3, <3>1
    <3>2. CASE k # 0
      <4>1. k \in 1 .. N /\ k - 1 \in 0 .. N
        BY <1>1, <3>2
      <4>2. f[k - 1] \in X
        BY <2>3, <4>1
      <4>3. f[k] = Move(f[k - 1], d + e[k], s + e[k], e[k - 1] - e[k])
        BY <1>3, <2>3, <4>1, <4>2
      <4>4. QED
        BY <1>5, <3>2, <4>1, <4>3
    <3>3. QED
      BY <3>1, <3>2
  <2>5. QED
    BY <2>3, <2>4
<1>7. Rec(g)
  <2> HIDE DEF Rec
  <2>1. QED
    BY <1>6
<1>8. g[0] = m /\ \A k \in 1 .. N : g[k] = Move(g[k - 1], d + e[k], s + e[k], e[k - 1] - e[k])
  <2> HIDE DEF N, g
  <2>1. QED
    BY <1>1, <1>5, <1>7
<1> HIDE DEF Rec, g
<1> DEFINE Q == {k \in Nat : k <= N =>
                   /\ g[k] \in X
                   /\ \A a \in A : g[k][a] = IF a \in d + e[k] .. d + n - 1
                                               THEN m[s + (a - d)] ELSE m[a]}
<1>9. 0 \in Q
  BY <1>2, <1>8
<1>10. ASSUME NEW k \in Nat, k \in Q PROVE k + 1 \in Q
  <2>1. SUFFICES ASSUME k + 1 <= N
                 PROVE  /\ g[k + 1] \in X
                        /\ \A a \in A : g[k + 1][a] = IF a \in d + e[k + 1] .. d + n - 1
                                                        THEN m[s + (a - d)] ELSE m[a]
    OBVIOUS
  <2>2. k + 1 \in 1 .. N /\ k <= N /\ (k + 1) - 1 = k
    BY <1>1, <2>1
  <2>3. g[k] \in X /\ \A a \in A : g[k][a] = IF a \in d + e[k] .. d + n - 1
                                               THEN m[s + (a - d)] ELSE m[a]
    BY <1>10, <2>2
  <2>4. g[k + 1] = R[k + 1][g[k]]
    BY <1>3, <1>8, <2>2, <2>3
  <2> HIDE DEF X, N, Q
  <2>5. g[k + 1] \in X /\ \A a \in A : g[k + 1][a] = IF a \in d + e[k + 1] .. d + e[k] - 1
                                                       THEN g[k][s + (a - d)] ELSE g[k][a]
    BY <1>3, <2>2, <2>3, <2>4
  <2>6. e[k + 1] \in 0 .. n /\ e[k] \in 0 .. n /\ e[k + 1] <= e[k]
    BY <1>2, <2>2
  <2>7. ASSUME NEW a \in A
        PROVE  g[k + 1][a] = IF a \in d + e[k + 1] .. d + n - 1 THEN m[s + (a - d)] ELSE m[a]
    <3>1. CASE a \in d + e[k + 1] .. d + e[k] - 1
      <4>1. s + (a - d) \in s .. s + n - 1 /\ s + (a - d) \notin d + e[k] .. d + n - 1
        BY <2>6, <3>1
      <4>2. a \in d + e[k + 1] .. d + n - 1
        BY <2>6, <3>1
      <4>3. QED
        BY <2>3, <2>5, <3>1, <4>1, <4>2
    <3>2. CASE a \notin d + e[k + 1] .. d + e[k] - 1
      <4>1. a \in d + e[k + 1] .. d + n - 1 <=> a \in d + e[k] .. d + n - 1
        BY <2>6, <3>2
      <4>2. QED
        BY <2>3, <2>5, <3>2, <4>1
    <3>3. QED
      BY <3>1, <3>2
  <2>8. QED
    BY <2>5, <2>7
<1> HIDE DEF Q
<1>11. N \in Q
  BY <1>1, <1>9, <1>10, Induction
<1>12. g[N] \in X /\ \A a \in A : g[N][a] = IF a \in d .. d + n - 1 THEN m[s + (a - d)] ELSE m[a]
  <2>1. d + e[N] = d
    BY <1>2
  <2> HIDE DEF N, X
  <2>2. QED
    BY <1>1, <1>11, <2>1 DEF Q
<1> HIDE DEF N, g
<1>13. QED
  BY <1>4, <1>12 DEF IsCopy

(* A copy from the start is exact when the target begins below the source. *)
LEMMA CopyUpRight ==
  ASSUME NEW A, NEW m \in [A -> Int], NEW d \in Nat, NEW s \in Nat, NEW n \in Nat,
         s .. s + n - 1 \subseteq A, d < s
  PROVE  IsCopy(CopyUp(m, d, s, n), m, d, s, n)
<1> DEFINE N == Accesses(n)
           e == [k \in 0 .. N |-> DoneTo(n, k)]
           X == [A -> Int]
           R == [k \in 1 .. N |-> [r \in X |-> Move(r, d + e[k - 1], s + e[k - 1], e[k] - e[k - 1])]]
<1>1. N \in Nat
  BY WordsAndRest
<1>2. /\ e[0] = 0 /\ e[N] = n /\ \A k \in 0 .. N : e[k] \in 0 .. n
      /\ \A k \in 1 .. N : e[k - 1] <= e[k] /\ e[k - 1] \in 0 .. n
  BY <1>1, DoneToRises
<1>3. ASSUME NEW k \in 1 .. N, NEW r \in X
      PROVE  /\ R[k][r] = Move(r, d + e[k - 1], s + e[k - 1], e[k] - e[k - 1])
             /\ R[k][r] \in X
             /\ \A a \in A : R[k][r][a] = IF a \in d + e[k - 1] .. d + e[k] - 1
                                            THEN r[s + (a - d)] ELSE r[a]
  <2>1. R[k][r] = Move(r, d + e[k - 1], s + e[k - 1], e[k] - e[k - 1])
    OBVIOUS
  <2> DEFINE mv == Move(r, d + e[k - 1], s + e[k - 1], e[k] - e[k - 1])
  <2> HIDE DEF e, R
  <2>2. e[k] \in 0 .. n /\ e[k - 1] \in 0 .. n /\ e[k - 1] <= e[k]
    BY <1>2, <1>1
  <2>3. mv = [a \in A |-> IF a \in d + e[k - 1] .. d + e[k] - 1
                            THEN r[s + (a - d)] ELSE r[a]]
    BY <2>2 DEF Move, Put
  <2>4. \A a \in A : a \in d + e[k - 1] .. d + e[k] - 1 => s + (a - d) \in A
    <3>1. ASSUME NEW a \in A, a \in d + e[k - 1] .. d + e[k] - 1
          PROVE  s + (a - d) \in s .. s + n - 1
      BY <2>2, <3>1
    <3>2. QED
      BY <3>1
  <2> HIDE DEF mv
  <2>5. mv \in X
    BY <2>3, <2>4
  <2>6. \A a \in A : mv[a] = IF a \in d + e[k - 1] .. d + e[k] - 1 THEN r[s + (a - d)] ELSE r[a]
    BY <2>3
  <2>7. QED
    BY <2>1, <2>5, <2>6 DEF mv
<1> DEFINE Rec(g) == g = [k \in 0 .. N |->
                       IF k = 0 THEN m
                       ELSE Move(g[k - 1], d + DoneTo(n, k - 1), s + DoneTo(n, k - 1),
                                 DoneTo(n, k) - DoneTo(n, k - 1))]
           g == CHOOSE g : Rec(g)
<1>4. CopyUp(m, d, s, n) = g[N]
  BY DEF CopyUp
<1>5. \A k \in 1 .. N : e[k] = DoneTo(n, k) /\ e[k - 1] = DoneTo(n, k - 1)
  BY <1>1
<1> HIDE DEF e, R
<1>6. \E f : Rec(f)
  <2>1. m \in X /\ IsRounds(R, N, X)
    BY <1>3 DEF IsRounds
  <2> HIDE DEF X, N
  <2>2. PICK f : IsRun(f, m, R, N, X)
    BY <1>1, <2>1, Iteration
  <2>3. f \in [0 .. N -> X] /\ f[0] = m /\ \A k \in 1 .. N : f[k] = R[k][f[k - 1]]
    BY <2>2 DEF IsRun
  <2>4. ASSUME NEW k \in 0 .. N
        PROVE  f[k] = IF k = 0 THEN m
                      ELSE Move(f[k - 1], d + DoneTo(n, k - 1), s + DoneTo(n, k - 1),
                                DoneTo(n, k) - DoneTo(n, k - 1))
    <3>1. CASE k = 0
      BY <2>3, <3>1
    <3>2. CASE k # 0
      <4>1. k \in 1 .. N /\ k - 1 \in 0 .. N
        BY <1>1, <3>2
      <4>2. f[k - 1] \in X
        BY <2>3, <4>1
      <4>3. f[k] = Move(f[k - 1], d + e[k - 1], s + e[k - 1], e[k] - e[k - 1])
        BY <1>3, <2>3, <4>1, <4>2
      <4>4. QED
        BY <1>5, <3>2, <4>1, <4>3
    <3>3. QED
      BY <3>1, <3>2
  <2>5. QED
    BY <2>3, <2>4
<1>7. Rec(g)
  <2> HIDE DEF Rec
  <2>1. QED
    BY <1>6
<1>8. g[0] = m /\ \A k \in 1 .. N : g[k] = Move(g[k - 1], d + e[k - 1], s + e[k - 1], e[k] - e[k - 1])
  <2> HIDE DEF N, g
  <2>1. QED
    BY <1>1, <1>5, <1>7
<1> HIDE DEF Rec, g
<1> DEFINE Q == {k \in Nat : k <= N =>
                   /\ g[k] \in X
                   /\ \A a \in A : g[k][a] = IF a \in d .. d + e[k] - 1
                                               THEN m[s + (a - d)] ELSE m[a]}
<1>9. 0 \in Q
  BY <1>2, <1>8
<1>10. ASSUME NEW k \in Nat, k \in Q PROVE k + 1 \in Q
  <2>1. SUFFICES ASSUME k + 1 <= N
                 PROVE  /\ g[k + 1] \in X
                        /\ \A a \in A : g[k + 1][a] = IF a \in d .. d + e[k + 1] - 1
                                                        THEN m[s + (a - d)] ELSE m[a]
    OBVIOUS
  <2>2. k + 1 \in 1 .. N /\ k <= N /\ (k + 1) - 1 = k
    BY <1>1, <2>1
  <2>3. g[k] \in X /\ \A a \in A : g[k][a] = IF a \in d .. d + e[k] - 1
                                               THEN m[s + (a - d)] ELSE m[a]
    BY <1>10, <2>2
  <2>4. g[k + 1] = R[k + 1][g[k]]
    BY <1>3, <1>8, <2>2, <2>3
  <2> HIDE DEF X, N, Q
  <2>5. g[k + 1] \in X /\ \A a \in A : g[k + 1][a] = IF a \in d + e[k] .. d + e[k + 1] - 1
                                                       THEN g[k][s + (a - d)] ELSE g[k][a]
    BY <1>3, <2>2, <2>3, <2>4
  <2>6. e[k + 1] \in 0 .. n /\ e[k] \in 0 .. n /\ e[k] <= e[k + 1]
    BY <1>2, <2>2
  <2>7. ASSUME NEW a \in A
        PROVE  g[k + 1][a] = IF a \in d .. d + e[k + 1] - 1 THEN m[s + (a - d)] ELSE m[a]
    <3>1. CASE a \in d + e[k] .. d + e[k + 1] - 1
      <4>1. s + (a - d) \in s .. s + n - 1 /\ s + (a - d) \notin d .. d + e[k] - 1
        BY <2>6, <3>1
      <4>2. a \in d .. d + e[k + 1] - 1
        BY <2>6, <3>1
      <4>3. QED
        BY <2>3, <2>5, <3>1, <4>1, <4>2
    <3>2. CASE a \notin d + e[k] .. d + e[k + 1] - 1
      <4>1. a \in d .. d + e[k + 1] - 1 <=> a \in d .. d + e[k] - 1
        BY <2>6, <3>2
      <4>2. QED
        BY <2>3, <2>5, <3>2, <4>1
    <3>3. QED
      BY <3>1, <3>2
  <2>8. QED
    BY <2>5, <2>7
<1> HIDE DEF Q
<1>11. N \in Q
  BY <1>1, <1>9, <1>10, Induction
<1>12. g[N] \in X /\ \A a \in A : g[N][a] = IF a \in d .. d + n - 1 THEN m[s + (a - d)] ELSE m[a]
  <2>1. e[N] = n
    BY <1>2
  <2> HIDE DEF N, X
  <2>2. QED
    BY <1>1, <1>11, <2>1 DEF Q
<1> HIDE DEF N, g
<1>13. QED
  BY <1>4, <1>12 DEF IsCopy
(* memmove gets there whichever way the two overlap, memcpy when they do   *)
(* not.                                                                    *)
LEMMA MemmoveRight ==
  ASSUME NEW A, NEW m \in [A -> Int], NEW d \in Nat, NEW s \in Nat, NEW n \in Nat,
         s .. s + n - 1 \subseteq A
  PROVE  /\ IsCopy(memmove(m, d, s, n), m, d, s, n)
         /\ d + n <= s \/ s + n <= d => IsCopy(memcpy(m, d, s, n), m, d, s, n)
<1>1. IsCopy(memmove(m, d, s, n), m, d, s, n)
  <2>1. CASE d > s
    <3>1. memmove(m, d, s, n) = CopyDown(m, d, s, n)
      BY <2>1 DEF memmove
    <3>2. QED
      BY <2>1, <3>1, CopyDownRight
  <2>2. CASE d < s
    <3>1. memmove(m, d, s, n) = CopyUp(m, d, s, n)
      BY <2>2 DEF memmove
    <3>2. QED
      BY <2>2, <3>1, CopyUpRight
  <2>3. CASE d = s
    <3>1. memmove(m, d, s, n) = m
      BY <2>3 DEF memmove
    <3>2. \A a \in A : a \in d .. d + n - 1 => s + (a - d) = a
      BY <2>3
    <3>3. m = [a \in DOMAIN m |-> IF a \in d .. d + n - 1 THEN m[s + (a - d)] ELSE m[a]]
      BY <3>2
    <3>4. QED
      BY <3>1, <3>3 DEF IsCopy
  <2>4. QED
    BY <2>1, <2>2, <2>3
<1>2. memcpy(m, d, s, n) = CopyDown(m, d, s, n)
  BY DEF memcpy
<1>3. d + n <= s \/ s + n <= d => IsCopy(memcpy(m, d, s, n), m, d, s, n)
  BY <1>2, CopyDownRight
<1>4. QED
  BY <1>1, <1>3

(* memset sets the cells it is told to, and no others.                     *)
IsFilled(f, m, d, ch, n) ==
    \A a \in DOMAIN m : f[a] = IF a \in d .. d + n - 1 THEN ch ELSE m[a]

(* Words first and bytes behind them, memset fills all n cells.            *)
LEMMA MemsetRight ==
  ASSUME NEW m, DOMAIN m \subseteq Int, NEW d \in Nat, NEW n \in Nat, NEW ch
  PROVE  IsFilled(memset(m, d, ch, n), m, d, ch, n)
<1> DEFINE w == Words(n) * WordSize
<1>1. w \in Nat /\ Rest(n) \in Nat /\ n = w + Rest(n)
  BY WordsAndRest
<1>2. ASSUME NEW a \in DOMAIN m
      PROVE  memset(m, d, ch, n)[a] = IF a \in d .. d + w - 1 THEN ch
                                      ELSE IF a \in d + w .. d + w + Rest(n) - 1 THEN ch ELSE m[a]
  BY DEF memset, Put
<1> HIDE DEF w
<1>3. ASSUME NEW a \in DOMAIN m
      PROVE  memset(m, d, ch, n)[a] = IF a \in d .. d + n - 1 THEN ch ELSE m[a]
  BY <1>1, <1>2
<1>4. QED
  BY <1>3 DEF IsFilled

-----------------------------------------------------------------------------
(* Searches.                                                               *)
LEMMA LeftmostIs ==
  ASSUME NEW S \in SUBSET Nat, NEW i \in S, \A k \in S : i <= k
  PROVE  LeftmostOf(S) = i
<1>1. \E j \in S : \A k \in S : j <= k
  OBVIOUS
<1>2. LeftmostOf(S) \in S /\ \A k \in S : LeftmostOf(S) <= k
  BY <1>1 DEF LeftmostOf
<1>3. LeftmostOf(S) \in Nat /\ i \in Nat /\ LeftmostOf(S) <= i /\ i <= LeftmostOf(S)
  BY <1>2
<1>4. QED
  BY <1>3

(* A set of positions that is not empty has a leftmost one.                *)
LEMMA LeftmostExists ==
  ASSUME NEW S \in SUBSET Nat, S # {}
  PROVE  LeftmostOf(S) \in S /\ \A k \in S : LeftmostOf(S) <= k
BY LeastExists DEF LeftmostOf

(* The characters of a string: not 0 up to its end, 0 behind.              *)
Text == Seq(1 .. Bytes - 1)

(* The characters of a string, positions counted from 0.                   *)
LEMMA Chars ==
  ASSUME NEW s \in Text
  PROVE  /\ Len(s) \in Nat
         /\ \A i \in Nat : i < Len(s) => Char(s, i) = s[i + 1] /\ Char(s, i) \in 1 .. Bytes - 1
         /\ \A i \in Nat : i >= Len(s) => Char(s, i) = 0
         /\ \A i \in Nat : Char(s, i) \in 0 .. Bytes - 1 /\ (Char(s, i) = 0 <=> i >= Len(s))
<1>1. Len(s) \in Nat
  BY DEF Text
<1>2. \A i \in 1 .. Len(s) : s[i] \in 1 .. Bytes - 1
  <2>1. \A B : \A t \in Seq(B) : \A i \in 1 .. Len(t) : t[i] \in B
    OBVIOUS
  <2>2. QED
    BY <2>1 DEF Text
<1>3. ASSUME NEW i \in Nat, i < Len(s)
      PROVE  Char(s, i) = s[i + 1] /\ Char(s, i) \in 1 .. Bytes - 1
  <2>1. i + 1 \in 1 .. Len(s)
    BY <1>1, <1>3
  <2>2. QED
    BY <1>2, <1>3, <2>1 DEF Char
<1>4. ASSUME NEW i \in Nat, i >= Len(s) PROVE Char(s, i) = 0
  BY <1>1, <1>4 DEF Char
<1>5. Bytes \in Nat \ {0}
  BY StringFnsAssumption
<1>6. ASSUME NEW i \in Nat PROVE Char(s, i) \in 0 .. Bytes - 1 /\ (Char(s, i) = 0 <=> i >= Len(s))
  <2>1. CASE i < Len(s)
    BY <1>1, <1>3, <2>1
  <2>2. CASE i >= Len(s)
    BY <1>1, <1>4, <1>5, <2>2
  <2>3. QED
    BY <1>1, <2>1, <2>2
<1>7. QED
  BY <1>1, <1>3, <1>4, <1>6

(* The last, the first and any occurrence of a character.                  *)
LEMMA FindCharRight ==
  ASSUME NEW s \in Text, NEW ch \in 0 .. Bytes - 1, Len(s) < Cells, Cells \in Nat,
         NEW S, S = {i \in 0 .. Len(s) : Char(s, i) = ch}
  PROVE  /\ strrchr(s, ch) = IF S = {} \/ Signed(ch) < 0 THEN Null ELSE RightmostOf(S)
         /\ strchr(s, ch) = IF Len(s) > 0 /\ (Signed(ch) < 0 \/ 0 \notin S) THEN Forever
                            ELSE IF S = {} THEN Null ELSE LeftmostOf(S)
         /\ S # {} => memchr(Holding(s), 0, ch, Cells) = LeftmostOf(S)
<1>0. /\ Signed(ch) \in Int /\ (Signed(ch) >= 0 => Signed(ch) = ch)
      /\ Signed(ch) < 0 => ch # 0
  BY StringFnsAssumption DEF Signed
<1>1. Len(s) \in Nat /\ S \in SUBSET Nat
  BY Chars
<1>2. strrchr(s, ch) = IF S = {} \/ Signed(ch) < 0 THEN Null ELSE RightmostOf(S)
  <2>1. CASE ch = 0
    <3>1. S = {Len(s)}
      BY <1>1, <2>1, Chars
    <3>2. RightmostOf(S) = Len(s)
      BY <1>1, <3>1 DEF RightmostOf
    <3>3. QED
      BY <1>0, <2>1, <3>1, <3>2 DEF strrchr
  <2>2. CASE ch # 0
    <3> DEFINE hits == {i \in 0 .. Len(s) - 1 : SameChar(Char(s, i), ch)}
    <3>1. hits = IF Signed(ch) < 0 THEN {} ELSE S
      <4>1. \A i \in 0 .. Len(s) : Char(s, i) \in 0 .. Bytes - 1 /\ (Char(s, i) = 0 <=> i = Len(s))
        BY <1>1, Chars
      <4>2. CASE Signed(ch) < 0
        BY <1>1, <4>1, <4>2 DEF SameChar
      <4>3. CASE Signed(ch) >= 0
        BY <1>0, <1>1, <2>2, <4>1, <4>3 DEF SameChar
      <4>4. QED
        BY <1>0, <4>2, <4>3
    <3>2. strrchr(s, ch) = IF hits = {} THEN Null ELSE RightmostOf(hits)
      BY <2>2 DEF strrchr, RightmostOf
    <3> HIDE DEF hits
    <3>3. QED
      BY <3>1, <3>2
  <2>3. QED
    BY <2>1, <2>2
<1>3. strchr(s, ch) = IF Len(s) > 0 /\ (Signed(ch) < 0 \/ 0 \notin S) THEN Forever
                      ELSE IF S = {} THEN Null ELSE LeftmostOf(S)
  <2>1. CASE Len(s) = 0
    <3>1. S = IF ch = 0 THEN {0} ELSE {}
      BY <2>1, Chars
    <3>2. S = {0} => LeftmostOf(S) = 0
      BY LeftmostIs
    <3>3. QED
      BY <2>1, <3>1, <3>2 DEF strchr
  <2>2. CASE Len(s) # 0 /\ s[1] = ch /\ Signed(ch) >= 0
    <3>1. 0 \in S
      BY <1>1, <2>2 DEF Char
    <3>2. LeftmostOf(S) = 0
      BY <1>1, <3>1, LeftmostIs
    <3>3. strchr(s, ch) = 0
      BY <1>0, <2>2 DEF strchr, SameChar
    <3>4. QED
      BY <1>0, <2>2, <3>1, <3>2, <3>3
  <2>3. CASE Len(s) # 0 /\ (s[1] # ch \/ Signed(ch) < 0)
    <3>1. Char(s, 0) = s[1] /\ s[1] \in 1 .. Bytes - 1
      <4>1. 0 \in Nat /\ 0 < Len(s) /\ 0 + 1 = 1
        BY <1>1, <2>3
      <4>2. QED
        BY <4>1, Chars
    <3>2. s[1] # ch => 0 \notin S
      BY <1>1, <3>1
    <3>3. ~SameChar(s[1], ch)
      BY <1>0, <2>3, <3>1 DEF SameChar
    <3>4. strchr(s, ch) = Forever
      BY <2>3, <3>3 DEF strchr
    <3>5. QED
      BY <1>1, <2>3, <3>2, <3>4
  <2>4. QED
    BY <1>0, <2>1, <2>2, <2>3
<1>4. ASSUME S # {} PROVE memchr(Holding(s), 0, ch, Cells) = LeftmostOf(S)
  <2> DEFINE hits == {i \in 0 .. Cells - 1 : Holding(s)[0 + i] = ch}
             l == LeftmostOf(S)
  <2>1. l \in S /\ l \in Nat /\ \A k \in S : l <= k
    BY <1>1, <1>4, LeftmostExists
  <2>2. \A i \in 0 .. Cells - 1 : 0 + i = i /\ Holding(s)[i] = IF i <= Len(s) THEN Char(s, i) ELSE 1
    BY DEF Holding
  <2>3. \A i \in Nat : i <= Len(s) => (i \in hits <=> i \in S)
    BY <1>1, <2>2
  <2>4. l \in hits /\ hits \in SUBSET Nat
    BY <1>1, <2>1, <2>3
  <2>5. \A k \in hits : l <= k
    BY <1>1, <2>1, <2>3
  <2>6. LeftmostOf(hits) = l
    <3> HIDE DEF hits, l
    <3>1. QED
      BY <2>4, <2>5, LeftmostIs
  <2>7. memchr(Holding(s), 0, ch, Cells) = IF hits = {} THEN Null ELSE 0 + LeftmostOf(hits)
    BY DEF memchr, LeftmostOf
  <2> HIDE DEF hits, l
  <2>8. 0 + l = l
    BY <2>1
  <2>9. QED
    BY <2>4, <2>6, <2>7, <2>8 DEF l
<1>5. QED
  BY <1>2, <1>3, <1>4

(* Where a comparison with the string that is looked for ends.             *)
LEMMA MatchEnds ==
  ASSUME NEW s \in Text, NEW sub \in Text, NEW i \in Nat, Len(sub) > 0, NEW n, n = MatchFrom(s, i, sub)
  PROVE  /\ n \in 1 .. Len(sub)
         /\ \A k \in 1 .. n - 1 : Char(s, i + k) = Char(sub, k)
         /\ n = Len(sub) \/ Char(s, i + n) # Char(sub, n)
<1> DEFINE S == {k \in 1 .. Len(sub) : k = Len(sub) \/ Char(s, i + k) # Char(sub, k)}
           Ends(k) == /\ \A j \in 1 .. k - 1 : Char(s, i + j) = Char(sub, j)
                      /\ k = Len(sub) \/ Char(s, i + k) # Char(sub, k)
<1>1. Len(sub) \in Nat
  BY Chars
<1>2. S \in SUBSET Nat /\ Len(sub) \in S
  BY <1>1
<1>3. PICK k \in S : \A j \in S : k <= j
  <2> HIDE DEF S
  <2>1. QED
    BY <1>2, LeastExists
<1>4. k \in 1 .. Len(sub) /\ Ends(k)
  BY <1>1, <1>3
<1>5. n = CHOOSE j \in 1 .. Len(sub) : Ends(j)
  BY DEF MatchFrom
<1> HIDE DEF Ends
<1>6. n \in 1 .. Len(sub) /\ Ends(n)
  BY <1>4, <1>5
<1>7. QED
  BY <1>6 DEF Ends

(* After k rounds the search is done or has come k characters on, and it   *)
(* has left out nothing where the first character does not come again.     *)
LEMMA SearchRight ==
  ASSUME NEW s \in Text, NEW sub \in Text, Len(sub) > 0, NEW p, p = Search(s, sub)
  PROVE  /\ p \in Nat
         /\ p < Len(s) => FoundAt(s, p, sub)
         /\ (\A k \in 2 .. Len(sub) : sub[k] # sub[1]) => \A i \in Nat : i < p => ~Occurs(s, sub, i)
<1> DEFINE N == Len(s)
           Done(i) == i >= N \/ FoundAt(s, i, sub)
           Round(i) == IF Done(i) THEN i
                       ELSE IF Char(s, i) # sub[1] THEN i + 1 ELSE AfterMismatch(s, i, sub)
           R == [k \in 1 .. N |-> [i \in Nat |-> Round(i)]]
           once == \A k \in 2 .. Len(sub) : sub[k] # sub[1]
           None(i) == \A j \in Nat : j < i => ~Occurs(s, sub, j)
           Rec(at) == at = [k \in 0 .. N |->
                 IF k = 0 THEN 0
                 ELSE LET i == at[k - 1]
                      IN  IF i >= Len(s) \/ FoundAt(s, i, sub) THEN i
                          ELSE IF Char(s, i) # sub[1] THEN i + 1 ELSE AfterMismatch(s, i, sub)]
           at == CHOOSE at : Rec(at)
<1>1. N \in Nat /\ Len(sub) \in Nat
  BY Chars
<1>2. ASSUME NEW i \in Nat
      PROVE  /\ Round(i) \in Nat
             /\ Done(i) => Round(i) = i
             /\ ~Done(i) => Round(i) > i
             /\ once /\ None(i) => None(Round(i))
  <2>1. CASE Done(i)
    BY <2>1
  <2>2. CASE ~Done(i) /\ Char(s, i) # sub[1]
    <3>1. Round(i) = i + 1
      BY <2>2
    <3>2. ~Occurs(s, sub, i)
      <4>1. Char(sub, 0) = sub[1] /\ 0 \in 0 .. Len(sub) - 1
        BY <1>1, Chars
      <4>2. i + 0 = i
        OBVIOUS
      <4>3. QED
        BY <2>2, <4>1, <4>2 DEF Occurs
    <3>3. \A j \in Nat : j < i + 1 => j < i \/ j = i
      OBVIOUS
    <3> HIDE DEF Round, Done
    <3>4. QED
      BY <2>2, <3>1, <3>2, <3>3
  <2>3. CASE ~Done(i) /\ Char(s, i) = sub[1]
    <3> DEFINE n == MatchFrom(s, i, sub)
    <3>1. Round(i) = i + n
      BY <2>3 DEF AfterMismatch
    <3>2. /\ n \in 1 .. Len(sub)
          /\ \A k \in 1 .. n - 1 : Char(s, i + k) = Char(sub, k)
          /\ n = Len(sub) \/ Char(s, i + n) # Char(sub, n)
      <4>1. n = MatchFrom(s, i, sub)
        OBVIOUS
      <4>2. Len(sub) > 0 /\ s \in Text /\ sub \in Text /\ i \in Nat
        OBVIOUS
      <4> HIDE DEF n
      <4>3. n \in 1 .. Len(sub)
        BY <4>1, <4>2, MatchEnds
      <4>4. \A k \in 1 .. n - 1 : Char(s, i + k) = Char(sub, k)
        BY <4>1, <4>2, MatchEnds
      <4>5. n = Len(sub) \/ Char(s, i + n) # Char(sub, n)
        BY <4>1, <4>2, MatchEnds
      <4>6. QED
        BY <4>3, <4>4, <4>5
    <3>3. n # Len(sub)
      BY <2>3 DEF FoundAt
    <3> HIDE DEF n
    <3>4. ~Occurs(s, sub, i)
      <4>1. n \in 0 .. Len(sub) - 1 /\ Char(s, i + n) # Char(sub, n)
        BY <1>1, <3>2, <3>3
      <4>2. QED
        BY <4>1 DEF Occurs
    <3>5. ASSUME once, NEW j \in Nat, i < j, j < i + n PROVE ~Occurs(s, sub, j)
      <4>1. j - i \in 1 .. n - 1 /\ j - i \in Nat /\ j - i < Len(sub) /\ i + (j - i) = j
             /\ (j - i) + 1 \in 2 .. Len(sub) /\ 0 \in 0 .. Len(sub) - 1 /\ j + 0 = j
        BY <1>1, <3>2, <3>5
      <4>2. Char(s, j) = Char(sub, j - i)
        BY <3>2, <4>1
      <4>3. Char(sub, j - i) = sub[(j - i) + 1] /\ Char(sub, 0) = sub[0 + 1]
        BY <1>1, <4>1, Chars
      <4>4. sub[(j - i) + 1] # sub[1]
        BY <3>5, <4>1
      <4>5. Char(s, j + 0) # Char(sub, 0)
        BY <4>1, <4>2, <4>3, <4>4
      <4>6. QED
        BY <4>1, <4>5 DEF Occurs
    <3>6. \A j \in Nat : j < i + n => j < i \/ j = i \/ i < j
      OBVIOUS
    <3>7. i + n \in Nat /\ i + n > i
      BY <1>1, <3>2
    <3> HIDE DEF Round, Done
    <3>8. once /\ None(i) => None(i + n)
      <4> HIDE DEF once
      <4>1. QED
        BY <3>4, <3>5, <3>6
    <3> HIDE DEF once, None
    <3>9. QED
      BY <2>3, <3>1, <3>7, <3>8
  <2>4. QED
    BY <2>1, <2>2, <2>3
<1>3. p = at[N]
  BY DEF Search
<1> HIDE DEF None, once
<1>4. \E f : Rec(f)
  <2>1. \A k \in 1 .. N : \A i \in Nat : R[k][i] = Round(i)
    OBVIOUS
  <2> HIDE DEF R
  <2>2. IsRounds(R, N, Nat)
    <3> HIDE DEF Round
    <3>1. QED
      BY <1>2, <2>1 DEF IsRounds
  <2>3. PICK f : IsRun(f, 0, R, N, Nat)
    <3>1. 0 \in Nat
      OBVIOUS
    <3> HIDE DEF N
    <3>2. QED
      BY <1>1, <2>2, <3>1, Iteration
  <2>4. f \in [0 .. N -> Nat] /\ f[0] = 0 /\ \A k \in 1 .. N : f[k] = R[k][f[k - 1]]
    BY <2>3 DEF IsRun
  <2>5. ASSUME NEW k \in 0 .. N PROVE f[k] = IF k = 0 THEN 0 ELSE Round(f[k - 1])
    <3>1. CASE k = 0
      BY <2>4, <3>1
    <3>2. CASE k # 0
      <4>1. k \in 1 .. N /\ k - 1 \in 0 .. N
        BY <1>1, <3>2
      <4>2. f[k - 1] \in Nat
        BY <2>4, <4>1
      <4> HIDE DEF Round
      <4>3. QED
        BY <2>1, <2>4, <3>2, <4>1, <4>2
    <3>3. QED
      BY <3>1, <3>2
  <2>6. QED
    BY <2>4, <2>5
<1>5. Rec(at)
  <2> HIDE DEF Rec
  <2>1. QED
    BY <1>4
<1>6. at[0] = 0 /\ \A k \in 1 .. N : at[k] = Round(at[k - 1])
  <2>1. \A k \in 0 .. N : at[k] = IF k = 0 THEN 0 ELSE Round(at[k - 1])
    <3> HIDE DEF at
    <3>1. QED
      BY <1>5
  <2> HIDE DEF at, Rec, Round, N
  <2>2. QED
    BY <1>1, <2>1
<1> HIDE DEF Rec, at
<1> DEFINE Q == {k \in Nat : k <= N => /\ at[k] \in Nat
                                       /\ Done(at[k]) \/ at[k] >= k
                                       /\ once => None(at[k])}
<1>7. 0 \in Q
  BY <1>1, <1>6 DEF None
<1>8. ASSUME NEW k \in Nat, k \in Q PROVE k + 1 \in Q
  <2>1. SUFFICES ASSUME k + 1 <= N
                 PROVE  /\ at[k + 1] \in Nat
                        /\ Done(at[k + 1]) \/ at[k + 1] >= k + 1
                        /\ once => None(at[k + 1])
    OBVIOUS
  <2>2. at[k] \in Nat /\ (Done(at[k]) \/ at[k] >= k) /\ (once => None(at[k]))
    BY <1>1, <1>8, <2>1
  <2>3. at[k + 1] = Round(at[k])
    <3>1. k + 1 \in 1 .. N /\ (k + 1) - 1 = k
      BY <1>1, <2>1
    <3> HIDE DEF Round, N
    <3>2. QED
      BY <1>6, <3>1
  <2> HIDE DEF Round, Done, N
  <2>4. /\ Round(at[k]) \in Nat
        /\ Done(at[k]) => Round(at[k]) = at[k]
        /\ ~Done(at[k]) => Round(at[k]) > at[k]
        /\ once /\ None(at[k]) => None(Round(at[k]))
    BY <1>2, <2>2
  <2>5. QED
    BY <2>2, <2>3, <2>4
<1> HIDE DEF Q
<1>9. N \in Q
  BY <1>1, <1>7, <1>8, Induction
<1>10. p \in Nat /\ (Done(p) \/ p >= N) /\ (once => None(p))
  BY <1>1, <1>3, <1>9 DEF Q
<1>11. p < N => FoundAt(s, p, sub)
  BY <1>1, <1>10
<1>12. QED
  BY <1>10, <1>11 DEF once, None

(* A match of the whole of sub is an occurrence.                           *)
LEMMA FoundOccurs ==
  ASSUME NEW s \in Text, NEW sub \in Text, Len(sub) > 0, NEW i \in Nat, FoundAt(s, i, sub)
  PROVE  Occurs(s, sub, i)
<1>1. Len(sub) \in Nat /\ Char(sub, 0) = sub[1] /\ i + 0 = i
  BY Chars
<1>2. \A k \in 1 .. Len(sub) - 1 : Char(s, i + k) = Char(sub, k)
  <2>1. MatchFrom(s, i, sub) = Len(sub)
    BY DEF FoundAt
  <2>2. \A k \in 1 .. MatchFrom(s, i, sub) - 1 : Char(s, i + k) = Char(sub, k)
    BY MatchEnds
  <2>3. QED
    BY <2>1, <2>2
<1>3. ASSUME NEW k \in 0 .. Len(sub) - 1 PROVE Char(s, i + k) = Char(sub, k)
  <2>1. CASE k = 0
    BY <1>1, <2>1 DEF FoundAt
  <2>2. CASE k # 0
    BY <1>1, <1>2, <2>2
  <2>3. QED
    BY <2>1, <2>2
<1>4. QED
  BY <1>3 DEF Occurs

(* strstr returns an occurrence, the leftmost when the first character of  *)
(* sub does not come again.                                                *)
LEMMA FindStringRight ==
  ASSUME NEW s \in Text, NEW sub \in Text,
         NEW S, S = {i \in 0 .. Len(s) : Occurs(s, sub, i)}
  PROVE  /\ strstr(s, sub) # Null => strstr(s, sub) \in S
         /\ (\A k \in 2 .. Len(sub) : sub[k] # sub[1]) =>
              strstr(s, sub) = IF S = {} THEN Null ELSE LeftmostOf(S)
<1>1. Len(s) \in Nat /\ Len(sub) \in Nat /\ S \in SUBSET Nat
  BY Chars
<1>2. CASE Len(sub) = 0
  <2>1. 0 \in S
    BY <1>1, <1>2 DEF Occurs
  <2>2. LeftmostOf(S) = 0
    BY <1>1, <2>1, LeftmostIs
  <2>3. strstr(s, sub) = 0
    BY <1>2 DEF strstr
  <2>4. QED
    BY <2>1, <2>2, <2>3
<1>3. CASE Len(sub) > 0
  <2> DEFINE p == Search(s, sub)
             once == \A k \in 2 .. Len(sub) : sub[k] # sub[1]
  <2>1. /\ p \in Nat
        /\ p < Len(s) => FoundAt(s, p, sub)
        /\ once => \A i \in Nat : i < p => ~Occurs(s, sub, i)
    BY <1>3, SearchRight
  <2>2. strstr(s, sub) = IF p >= Len(s) THEN Null ELSE p
    BY <1>3 DEF strstr
  <2> HIDE DEF p, once
  <2>3. CASE p >= Len(s)
    <3>1. ~Occurs(s, sub, Len(s))
      <4>1. Char(s, Len(s) + 0) = 0 /\ Char(sub, 0) # 0 /\ 0 \in 0 .. Len(sub) - 1
        BY <1>1, <1>3, Chars
      <4>2. QED
        BY <4>1 DEF Occurs
    <3>2. once => S = {}
      BY <1>1, <2>1, <2>3, <3>1
    <3>3. QED
      BY <2>2, <2>3, <3>2 DEF once
  <2>4. CASE p < Len(s)
    <3>1. p \in S
      BY <1>1, <1>3, <2>1, <2>4, FoundOccurs
    <3>2. once => \A i \in S : p <= i
      BY <1>1, <2>1
    <3>3. once => LeftmostOf(S) = p
      BY <1>1, <3>1, <3>2, LeftmostIs
    <3>4. strstr(s, sub) = p
      BY <1>1, <2>1, <2>2, <2>4
    <3>5. QED
      BY <3>1, <3>3, <3>4 DEF once
  <2>5. QED
    BY <1>1, <2>1, <2>3, <2>4
<1>4. QED
  BY <1>1, <1>2, <1>3

-----------------------------------------------------------------------------
(* Comparisons.                                                            *)
LEMMA SignedInjective ==
  ASSUME NEW b \in 0 .. Bytes - 1, NEW c \in 0 .. Bytes - 1
  PROVE  /\ Signed(b) \in Int /\ Signed(c) \in Int
         /\ Signed(b) - Signed(c) = 0 <=> b = c
BY StringFnsAssumption DEF Signed

(* Strings that agree up to and including a terminator are equal.          *)
LEMMA SameChars ==
  ASSUME NEW l \in Text, NEW r \in Text, \A k \in Nat : k < Len(l) => Char(l, k) = Char(r, k),
         Char(l, Len(l)) = Char(r, Len(l))
  PROVE  l = r
<1>1. Len(l) \in Nat /\ Len(r) \in Nat
  BY Chars
<1>2. Char(l, Len(l)) = 0
  BY <1>1, Chars
<1>3. Len(l) >= Len(r)
  BY <1>1, <1>2, Chars
<1>4. Len(r) >= Len(l)
  <2>1. SUFFICES ASSUME Len(r) < Len(l) PROVE FALSE
    BY <1>1
  <2>2. Char(l, Len(r)) # 0 /\ Char(r, Len(r)) = 0
    BY <1>1, <2>1, Chars
  <2>3. QED
    BY <1>1, <2>1, <2>2
<1>5. Len(l) = Len(r)
  BY <1>1, <1>3, <1>4
<1>6. ASSUME NEW i \in 1 .. Len(l) PROVE l[i] = r[i]
  <2>1. i - 1 \in Nat /\ i - 1 < Len(l) /\ (i - 1) + 1 = i
    BY <1>1
  <2>2. Char(l, i - 1) = l[i] /\ Char(r, i - 1) = r[i]
    <3>1. Char(l, i - 1) = l[(i - 1) + 1] /\ Char(r, i - 1) = r[(i - 1) + 1]
      BY <1>5, <2>1, Chars
    <3>2. QED
      BY <2>1, <3>1
  <2>3. QED
    BY <2>1, <2>2
<1>7. QED
  <2>1. \A B : \A a, b \in Seq(B) : Len(a) = Len(b) /\ (\A i \in 1 .. Len(a) : a[i] = b[i]) => a = b
    OBVIOUS
  <2>2. QED
    BY <1>5, <1>6, <2>1 DEF Text

(* The loop of a comparison ends where the two differ or end.              *)
LEMMA ComparedEnds ==
  ASSUME NEW l \in Text, NEW r \in Text, NEW n \in Nat
  PROVE  /\ Compared(l, r, n) \in 0 .. n
         /\ \A k \in 0 .. Compared(l, r, n) - 1 : Char(l, k) = Char(r, k) /\ Char(l, k) # 0
         /\ \/ Compared(l, r, n) = n
            \/ Char(l, Compared(l, r, n)) # Char(r, Compared(l, r, n))
            \/ Char(l, Compared(l, r, n)) = 0
<1> DEFINE Stops(i) == i = n \/ Char(l, i) # Char(r, i) \/ Char(l, i) = 0
           S == {i \in 0 .. n : Stops(i)}
           Ends(i) == (\A k \in 0 .. i - 1 : Char(l, k) = Char(r, k) /\ Char(l, k) # 0) /\ Stops(i)
<1>1. S \in SUBSET Nat /\ n \in S
  OBVIOUS
<1>2. PICK i \in S : \A j \in S : i <= j
  <2> HIDE DEF S
  <2>1. QED
    BY <1>1, LeastExists
<1>3. i \in 0 .. n /\ Ends(i)
  BY <1>2
<1>4. Compared(l, r, n) = CHOOSE j \in 0 .. n : Ends(j)
  BY DEF Compared
<1> HIDE DEF Ends
<1>5. Compared(l, r, n) \in 0 .. n /\ Ends(Compared(l, r, n))
  BY <1>3, <1>4
<1>6. QED
  BY <1>5 DEF Ends

(* strncmp is 0 exactly for n equal characters.                            *)
LEMMA StrncmpZero ==
  ASSUME NEW l \in Text, NEW r \in Text, NEW n \in Nat
  PROVE  strncmp(l, r, n) = 0 <=> \A k \in Nat : k < n => Char(l, k) = Char(r, k)
<1> DEFINE i == Compared(l, r, n)
<1>1. /\ i \in 0 .. n
      /\ \A k \in 0 .. i - 1 : Char(l, k) = Char(r, k) /\ Char(l, k) # 0
      /\ i = n \/ Char(l, i) # Char(r, i) \/ Char(l, i) = 0
  BY ComparedEnds
<1>2. strncmp(l, r, n) = IF i = n THEN 0 ELSE Signed(Char(l, i)) - Signed(Char(r, i))
  BY DEF strncmp
<1> HIDE DEF i
<1>3. CASE i = n
  BY <1>1, <1>2, <1>3
<1>4. CASE i # n /\ Char(l, i) = Char(r, i)
  <2>0. i \in Nat /\ Len(l) \in Nat /\ Char(l, i) = 0
    BY <1>1, <1>4, Chars
  <2>1. Len(l) = i
    <3>1. Len(l) <= i
      BY <2>0, Chars
    <3>2. SUFFICES ASSUME Len(l) < i PROVE FALSE
      BY <2>0, <3>1
    <3>3. Len(l) \in 0 .. i - 1 /\ Char(l, Len(l)) = 0
      BY <2>0, <3>2, Chars
    <3>4. QED
      BY <1>1, <3>3
  <2>2. \A k \in Nat : k < Len(l) => Char(l, k) = Char(r, k)
    BY <1>1, <2>0, <2>1
  <2>3. l = r
    BY <1>4, <2>1, <2>2, SameChars
  <2>4. strncmp(l, r, n) = 0
    <3>1. Char(l, i) \in 0 .. Bytes - 1 /\ Char(r, i) \in 0 .. Bytes - 1
      BY <2>0, Chars
    <3>2. QED
      BY <1>2, <1>4, <3>1, SignedInjective
  <2>5. QED
    BY <2>3, <2>4
<1>5. CASE i # n /\ Char(l, i) # Char(r, i)
  <2>1. i \in Nat /\ i < n
    BY <1>1, <1>5
  <2>2. Char(l, i) \in 0 .. Bytes - 1 /\ Char(r, i) \in 0 .. Bytes - 1
    BY <2>1, Chars
  <2>3. strncmp(l, r, n) # 0
    BY <1>2, <1>5, <2>2, SignedInjective
  <2>4. QED
    BY <1>5, <2>1, <2>3
<1>6. QED
  BY <1>3, <1>4, <1>5

Cut(s, n) == SubSeq(s, 1, IF n < Len(s) THEN n ELSE Len(s))

(* Behind its n first characters a cut string reads 0.                     *)
LEMMA CutChars ==
  ASSUME NEW s \in Text, NEW n \in Nat
  PROVE  /\ Cut(s, n) \in Text
         /\ \A k \in Nat : Char(Cut(s, n), k) = IF k < n THEN Char(s, k) ELSE 0
<1> DEFINE m == IF n < Len(s) THEN n ELSE Len(s)
           c == SubSeq(s, 1, m)
<1>1. Len(s) \in Nat /\ m \in Nat /\ m <= Len(s)
  BY Chars
<1>2. c \in Text /\ Len(c) = m /\ \A k \in 1 .. m : c[k] = s[k]
  <2>1. \A B : \A t \in Seq(B) : \A j \in 0 .. Len(t) :
           /\ SubSeq(t, 1, j) \in Seq(B) /\ Len(SubSeq(t, 1, j)) = j
           /\ \A k \in 1 .. j : SubSeq(t, 1, j)[k] = t[k]
    OBVIOUS
  <2>2. m \in 0 .. Len(s)
    BY <1>1
  <2> HIDE DEF m
  <2>3. QED
    BY <2>1, <2>2 DEF Text
<1>3. c = Cut(s, n)
  BY DEF Cut
<1> HIDE DEF c
<1>4. ASSUME NEW k \in Nat PROVE Char(c, k) = IF k < n THEN Char(s, k) ELSE 0
  <2>1. CASE k < m
    <3>1. k + 1 \in 1 .. m
      BY <1>1, <2>1
    <3>2. c[k + 1] = s[k + 1]
      BY <1>2, <3>1
    <3>3. QED
      BY <1>1, <1>2, <2>1, <3>2 DEF Char
  <2>2. CASE k >= m
    BY <1>1, <1>2, <2>2 DEF Char
  <2>3. QED
    BY <1>1, <2>1, <2>2
<1>5. QED
  BY <1>2, <1>3, <1>4

(* strncmp compares what is left when both are cut to n.                   *)
LEMMA StrncmpRight ==
  ASSUME NEW l \in Text, NEW r \in Text, NEW n \in Nat
  PROVE  strncmp(l, r, n) = 0 <=> Cut(l, n) = Cut(r, n)
<1> DEFINE a == Cut(l, n)  b == Cut(r, n)
<1>1. /\ a \in Text /\ b \in Text
      /\ \A k \in Nat : Char(a, k) = IF k < n THEN Char(l, k) ELSE 0
      /\ \A k \in Nat : Char(b, k) = IF k < n THEN Char(r, k) ELSE 0
  BY CutChars
<1> HIDE DEF a, b
<1>2. ASSUME \A k \in Nat : k < n => Char(l, k) = Char(r, k) PROVE a = b
  <2>1. \A k \in Nat : Char(a, k) = Char(b, k)
    BY <1>1, <1>2
  <2>2. Len(a) \in Nat
    BY <1>1, Chars
  <2>3. QED
    BY <1>1, <2>1, <2>2, SameChars
<1>3. a = b => \A k \in Nat : k < n => Char(l, k) = Char(r, k)
  BY <1>1
<1>4. QED
  BY <1>2, <1>3, StrncmpZero DEF a, b

CharsThatDiffer(l, r) == {k \in 0 .. Cells - 1 : Char(l, k) # Char(r, k)}

(* The sign of a difference of chars.                                      *)
LEMMA SignedOrder ==
  ASSUME NEW b \in 0 .. Bytes - 1, NEW c \in 0 .. Bytes - 1, b # c
  PROVE  Signed(b) - Signed(c) < 0 <=> IF SameSide(b, c) THEN b < c ELSE c < b
<1>1. CASE 2 * b < Bytes /\ 2 * c < Bytes
  BY <1>1, StringFnsAssumption DEF Signed, SameSide
<1>2. CASE 2 * b < Bytes /\ ~(2 * c < Bytes)
  BY <1>2, StringFnsAssumption DEF Signed, SameSide
<1>3. CASE ~(2 * b < Bytes) /\ 2 * c < Bytes
  BY <1>3, StringFnsAssumption DEF Signed, SameSide
<1>4. CASE ~(2 * b < Bytes) /\ ~(2 * c < Bytes)
  BY <1>4, StringFnsAssumption DEF Signed, SameSide
<1>5. QED
  BY <1>1, <1>2, <1>3, <1>4

(* A comparison ends at the first character that differs.                  *)
LEMMA StrncmpFirst ==
  ASSUME NEW l \in Text, NEW r \in Text, Cells \in Nat, NEW n \in Nat, n <= Cells, strncmp(l, r, n) # 0
  PROVE  LET S == CharsThatDiffer(l, r)
             b == Char(l, LeftmostOf(S))
             c == Char(r, LeftmostOf(S))
         IN  strncmp(l, r, n) < 0 <=> IF SameSide(b, c) THEN b < c ELSE c < b
<1> DEFINE S == CharsThatDiffer(l, r)
           i == Compared(l, r, n)
<1>1. /\ i \in 0 .. n
      /\ \A k \in 0 .. i - 1 : Char(l, k) = Char(r, k) /\ Char(l, k) # 0
  BY ComparedEnds
<1>2. strncmp(l, r, n) = IF i = n THEN 0 ELSE Signed(Char(l, i)) - Signed(Char(r, i))
  BY DEF strncmp
<1> HIDE DEF i
<1>3. i # n /\ strncmp(l, r, n) = Signed(Char(l, i)) - Signed(Char(r, i))
  BY <1>2
<1>4. i \in Nat /\ i < Cells
  BY <1>1, <1>3
<1>5. /\ Char(l, i) \in 0 .. Bytes - 1 /\ Char(r, i) \in 0 .. Bytes - 1
      /\ Char(l, i) # Char(r, i)
  <2>1. Char(l, i) \in 0 .. Bytes - 1 /\ Char(r, i) \in 0 .. Bytes - 1
    BY <1>4, Chars
  <2>2. QED
    BY <1>3, <2>1, SignedInjective
<1>6. i \in S /\ S \in SUBSET Nat /\ \A k \in S : i <= k
  BY <1>1, <1>4, <1>5 DEF CharsThatDiffer
<1> HIDE DEF S
<1>7. LeftmostOf(S) = i
  BY <1>6, LeftmostIs
<1>8. strncmp(l, r, n) < 0 <=>
        IF SameSide(Char(l, i), Char(r, i)) THEN Char(l, i) < Char(r, i) ELSE Char(r, i) < Char(l, i)
  BY <1>3, <1>5, SignedOrder
<1>9. QED
  BY <1>7, <1>8 DEF S

(* strcmp is 0 for equal strings.                                          *)
LEMMA StrcmpZero ==
  ASSUME NEW l \in Text, NEW r \in Text
  PROVE  strcmp(l, r) = 0 <=> l = r
<1> DEFINE n == Len(l) + 1
<1>0. Len(l) \in Nat
  BY Chars
<1>1. Len(l) \in Nat /\ n \in Nat /\ Len(l) < n
  BY <1>0
<1>2. strcmp(l, r) = strncmp(l, r, n)
  BY DEF strcmp
<1>3. strcmp(l, r) = 0 <=> l = r
  <2>1. ASSUME \A k \in Nat : k < n => Char(l, k) = Char(r, k) PROVE l = r
    <3>1. \A k \in Nat : k < Len(l) => Char(l, k) = Char(r, k)
      BY <1>1, <2>1
    <3>2. Char(l, Len(l)) = Char(r, Len(l))
      BY <1>1, <2>1
    <3>3. QED
      BY <3>1, <3>2, SameChars
  <2> HIDE DEF n
  <2>2. QED
    BY <1>1, <1>2, <2>1, StrncmpZero
<1>4. QED
  BY <1>3

(* memcmp finds the first byte that differs, whatever word it is in.       *)
BytesThatDiffer(m, l, r, n) == {i \in 0 .. n - 1 : m[l + i] # m[r + i]}
FirstDifference(m, l, r, n) ==
    LET S == BytesThatDiffer(m, l, r, n)
    IN  IF S = {} THEN 0 ELSE m[l + LeftmostOf(S)] - m[r + LeftmostOf(S)]

(* memcmp returns that difference.                                         *)
LEMMA MemcmpRight ==
  ASSUME NEW m, NEW l \in Nat, NEW r \in Nat, NEW n \in Nat
  PROVE  memcmp(m, l, r, n) = FirstDifference(m, l, r, n)
<1> DEFINE S == {i \in 0 .. n - 1 : m[l + i] # m[r + i]}
<1> DEFINE W == Words(n)
           same(w) == \A i \in 0 .. WordSize - 1 : m[l + w * WordSize + i] = m[r + w * WordSize + i]
           Ends(w) == (w = W \/ ~same(w)) /\ \A k \in 0 .. w - 1 : same(k)
           word == CHOOSE w \in 0 .. W : Ends(w)
           diffs == {i \in word * WordSize .. n - 1 : m[l + i] # m[r + i]}
<1>1. memcmp(m, l, r, n) = IF diffs = {} THEN 0 ELSE m[l + LeftmostOf(diffs)] - m[r + LeftmostOf(diffs)]
  BY DEF memcmp, LeftmostOf
<1>2. W \in Nat
  BY WordsAndRest
<1>3. word \in 0 .. W /\ Ends(word)
  <2> DEFINE T == {w \in 0 .. W : w = W \/ ~same(w)}
  <2> HIDE DEF same, W
  <2>1. T \in SUBSET Nat /\ W \in T
    BY <1>2
  <2>2. PICK w \in T : \A k \in T : w <= k
    <3> HIDE DEF T
    <3>1. QED
      BY <2>1, LeastExists
  <2>3. w \in 0 .. W /\ Ends(w)
    BY <1>2, <2>2
  <2> HIDE DEF Ends
  <2>4. QED
    BY <2>3
<1> HIDE DEF word
<1>4. ASSUME NEW i \in Nat, i < word * WordSize PROVE m[l + i] = m[r + i]
  <2> DEFINE q == i \div WordSize  t == i % WordSize
  <2>1. q \in Nat /\ t \in 0 .. WordSize - 1 /\ i = WordSize * q + t /\ WordSize \in Nat /\ WordSize > 0
    BY Division, StringFnsAssumption
  <2> HIDE DEF q, t
  <2>2. q < word
    <3>1. SUFFICES ASSUME word <= q PROVE FALSE
      BY <1>2, <1>3, <2>1
    <3>2. \A u, v, w \in Nat : u <= v => u * w <= w * v
      BY Z3
    <3>3. word * WordSize <= WordSize * q
      BY <1>2, <1>3, <2>1, <3>1, <3>2
    <3>4. \A u, v \in Nat : u * v \in Nat
      BY Z3
    <3>5. word * WordSize \in Nat /\ WordSize * q \in Nat
      BY <1>2, <1>3, <2>1, <3>4
    <3>6. QED
      BY <1>4, <2>1, <3>3, <3>5
  <2>3. same(q)
    <3> HIDE DEF same
    <3>1. QED
      BY <1>2, <1>3, <2>1, <2>2
  <2>4. \A u, v \in Nat : u * v \in Nat /\ u * v = v * u
    BY Z3
  <2>5. q * WordSize \in Nat /\ i = q * WordSize + t
    BY <2>1, <2>4
  <2>6. l + q * WordSize + t = l + i /\ r + q * WordSize + t = r + i
    BY <2>1, <2>5
  <2>7. QED
    BY <2>1, <2>3, <2>6
<1>5. diffs = S
  <2>1. \A u, v \in Nat : u * v \in Nat
    BY Z3
  <2>2. word * WordSize \in Nat
    BY <1>2, <1>3, <2>1, StringFnsAssumption
  <2>3. QED
    BY <1>4, <2>2
<1>6. S = BytesThatDiffer(m, l, r, n)
  BY DEF BytesThatDiffer
<1> HIDE DEF diffs, S
<1>7. QED
  BY <1>1, <1>5, <1>6 DEF FirstDifference

-----------------------------------------------------------------------------
(* What the string functions put into memory.                              *)
IsPut(f, m, p, s, n) ==
    \A a \in DOMAIN m : f[a] = IF a - p \in 0 .. n - 1 THEN Char(s, a - p) ELSE m[a]

(* strcpy takes the terminator along; strncpy writes n cells.              *)
LEMMA PutRight ==
  ASSUME NEW m, DOMAIN m \subseteq Int, NEW p \in Nat, NEW s \in Text
  PROVE  /\ IsPut(strcpy(m, p, s), m, p, s, Len(s) + 1)
         /\ \A n \in Nat : IsPut(strncpy(m, p, s, n), m, p, s, n)
<1>1. Len(s) \in Nat
  BY Chars
<1>2. ASSUME NEW n \in Nat, NEW a \in DOMAIN m
      PROVE  Put(m, p, n, LAMBDA i : Char(s, i))[a] = IF a - p \in 0 .. n - 1 THEN Char(s, a - p) ELSE m[a]
  <2>1. Put(m, p, n, LAMBDA i : Char(s, i))[a] = IF a \in p .. p + n - 1 THEN Char(s, a - p) ELSE m[a]
    BY DEF Put
  <2>2. a \in p .. p + n - 1 <=> a - p \in 0 .. n - 1
    OBVIOUS
  <2>3. QED
    BY <2>1, <2>2
<1>3. ASSUME NEW n \in Nat PROVE IsPut(strncpy(m, p, s, n), m, p, s, n)
  BY <1>2 DEF strncpy, IsPut
<1>4. Len(s) + 1 \in Nat
  BY <1>1
<1>5. IsPut(strcpy(m, p, s), m, p, s, Len(s) + 1)
  BY <1>2, <1>4 DEF strcpy, IsPut
<1>6. QED
  BY <1>3, <1>5

(* The characters of a string joined to another.                           *)
LEMMA ConcatChars ==
  ASSUME NEW h \in Text, NEW s \in Text
  PROVE  \A i \in Nat : Char(h \o s, i) = IF i < Len(h) THEN Char(h, i) ELSE Char(s, i - Len(h))
<1>1. Len(h) \in Nat /\ Len(s) \in Nat
  BY Chars
<1>2. /\ Len(h \o s) = Len(h) + Len(s)
      /\ \A i \in 1 .. Len(h) + Len(s) : (h \o s)[i] = IF i <= Len(h) THEN h[i] ELSE s[i - Len(h)]
  <2>1. \A B : \A t, u \in Seq(B) :
           /\ Len(t \o u) = Len(t) + Len(u)
           /\ \A i \in 1 .. Len(t) + Len(u) : (t \o u)[i] = IF i <= Len(t) THEN t[i] ELSE u[i - Len(t)]
    OBVIOUS
  <2>2. QED
    BY <2>1 DEF Text
<1>3. ASSUME NEW i \in Nat
      PROVE  Char(h \o s, i) = IF i < Len(h) THEN Char(h, i) ELSE Char(s, i - Len(h))
  <2>1. CASE i < Len(h)
    <3>1. i + 1 \in 1 .. Len(h) + Len(s) /\ i + 1 <= Len(h) /\ i < Len(h) + Len(s)
      BY <1>1, <2>1
    <3>2. QED
      BY <1>1, <1>2, <2>1, <3>1 DEF Char
  <2>2. CASE Len(h) <= i /\ i < Len(h) + Len(s)
    <3>1. /\ i + 1 \in 1 .. Len(h) + Len(s) /\ ~(i + 1 <= Len(h)) /\ ~(i < Len(h))
          /\ i - Len(h) < Len(s) /\ (i + 1) - Len(h) = (i - Len(h)) + 1
      BY <1>1, <2>2
    <3>2. (h \o s)[i + 1] = s[(i - Len(h)) + 1]
      BY <1>2, <3>1
    <3>3. QED
      BY <1>2, <2>2, <3>1, <3>2 DEF Char
  <2>3. CASE i >= Len(h) + Len(s)
    BY <1>1, <1>2, <2>3 DEF Char
  <2>4. QED
    BY <1>1, <2>1, <2>2, <2>3
<1>4. QED
  BY <1>3

(* strcat finds the end of the first string and leaves the joined one,     *)
(* ended by 0.                                                             *)
LEMMA StrcatRight ==
  ASSUME NEW h \in Text, NEW s \in Text, Cells \in Nat, Len(h) < Cells, NEW a \in 0 .. Cells - 1
  PROVE  strcat(Holding(h), 0, s)[a] =
           IF a <= Len(h) + Len(s) THEN Char(h \o s, a) ELSE Holding(h)[a]
<1> DEFINE A == 0 .. Cells - 1
           m == Holding(h)
           Ends(b) == 0 <= b /\ m[b] = 0 /\ \A c \in 0 .. b - 1 : m[c] # 0
           end == CHOOSE b \in DOMAIN m : Ends(b)
<1>1. Len(h) \in Nat /\ Len(s) \in Nat
  BY Chars
<1>2. DOMAIN m = A /\ \A b \in A : m[b] = IF b <= Len(h) THEN Char(h, b) ELSE 1
  BY DEF Holding
<1>3. strcat(m, 0, s) = strcpy(m, end, s)
  BY DEF strcat
<1> HIDE DEF m
<1>4. Ends(Len(h)) /\ Len(h) \in A
  <2>1. Len(h) \in A /\ \A c \in 0 .. Len(h) : m[c] = Char(h, c)
    BY <1>1, <1>2
  <2>2. Char(h, Len(h)) = 0 /\ \A c \in 0 .. Len(h) - 1 : Char(h, c) # 0
    BY <1>1, Chars
  <2>3. QED
    BY <1>1, <2>1, <2>2
<1>5. ASSUME NEW b \in A, Ends(b) PROVE b = Len(h)
  <2>1. ~(b < Len(h))
    BY <1>1, <1>2, <1>5, Chars
  <2>2. ~(Len(h) < b)
    <3>1. SUFFICES ASSUME Len(h) < b PROVE FALSE
      OBVIOUS
    <3>2. Len(h) \in 0 .. b - 1
      BY <1>1, <3>1
    <3>3. QED
      BY <1>4, <1>5, <3>2
  <2>3. QED
    BY <1>1, <2>1, <2>2
<1>6. end = Len(h)
  <2> HIDE DEF Ends
  <2>1. QED
    BY <1>2, <1>4, <1>5
<1> HIDE DEF end
<1>7. strcpy(m, Len(h), s)[a] = IF a - Len(h) \in 0 .. Len(s) THEN Char(s, a - Len(h)) ELSE m[a]
  <2>1. DOMAIN m \subseteq Int /\ a \in DOMAIN m
    BY <1>2
  <2>2. IsPut(strcpy(m, Len(h), s), m, Len(h), s, Len(s) + 1)
    BY <1>1, <2>1, PutRight
  <2>3. (Len(s) + 1) - 1 = Len(s)
    BY <1>1
  <2>4. QED
    BY <2>1, <2>2, <2>3 DEF IsPut
<1>8. Char(h \o s, a) = IF a < Len(h) THEN Char(h, a) ELSE Char(s, a - Len(h))
  BY ConcatChars
<1>9. CASE a < Len(h)
  BY <1>1, <1>2, <1>3, <1>6, <1>7, <1>8, <1>9 DEF m
<1>10. CASE Len(h) <= a /\ a <= Len(h) + Len(s)
  BY <1>1, <1>2, <1>3, <1>6, <1>7, <1>8, <1>10 DEF m
<1>11. CASE Len(h) + Len(s) < a
  BY <1>1, <1>2, <1>3, <1>6, <1>7, <1>11 DEF m
<1>12. QED
  BY <1>1, <1>9, <1>10, <1>11

-----------------------------------------------------------------------------
(* Every call that returns.  The string and memory functions first.        *)
LEMMA StringsAreText ==
  /\ \A s \in Strings : s \in Text /\ Len(s) < Cells
  /\ \A s \in Needles : s \in Text /\ Len(s) < Cells
  /\ Cells \in Nat
BY LibcAssumption DEF Text

(* What the arguments of a call are.                                       *)
LEMMA CallHas ==
  ASSUME IsCall
  PROVE  /\ call.fn = "strtol" => call.s \in Texts /\ call.base \in Bases
         /\ call.fn = "findchar" => call.s \in Strings /\ call.ch \in 0 .. Bytes - 1
         /\ call.fn = "findstring" => call.s \in Strings /\ call.sub \in Needles
         /\ call.fn = "compare" => call.l \in Needles /\ call.r \in Needles /\ call.n \in 0 .. Cells - 1
         /\ call.fn = "put" => call.held \in Needles /\ call.s \in Needles /\ call.n \in 0 .. Cells - 1
         /\ call.fn = "move" => /\ call.d \in 0 .. Cells - 1 /\ call.s \in 0 .. Cells - 1
                                /\ call.n \in 0 .. Cells - 1 /\ call.s + call.n <= Cells
         /\ call.fn = "sort" => call.array \in Arrays
<1>1. CASE \E s \in Texts, b \in Bases : call = [fn |-> "strtol", s |-> s, base |-> b]
  BY <1>1
<1>2. CASE \E s \in Strings, c \in 0 .. Bytes - 1 : call = [fn |-> "findchar", s |-> s, ch |-> c]
  BY <1>2
<1>3. CASE \E s \in Strings, n \in Needles : call = [fn |-> "findstring", s |-> s, sub |-> n]
  BY <1>3
<1>4. CASE \E l, r \in Needles, n \in 0 .. Cells - 1 : call = [fn |-> "compare", l |-> l, r |-> r, n |-> n]
  BY <1>4
<1>5. CASE \E h, s \in Needles, n \in 0 .. Cells - 1 : call = [fn |-> "put", held |-> h, s |-> s, n |-> n]
  BY <1>5
<1>6. CASE \E d, s, n \in 0 .. Cells - 1 : /\ d + n <= Cells /\ s + n <= Cells
                                           /\ call = [fn |-> "move", d |-> d, s |-> s, n |-> n]
  BY <1>6
<1>7. CASE \E a \in Arrays : call = [fn |-> "sort", array |-> a]
  BY <1>7
<1>8. QED
  BY <1>1, <1>2, <1>3, <1>4, <1>5, <1>6, <1>7 DEF IsCall

(* strchr, strrchr and memchr return what they should.                     *)
LEMMA FindCharStep ==
  ASSUME IsCall, FindChar
  PROVE  (SearchesFind /\ CopiesExact)'
<1>1. /\ call.fn = "findchar" /\ call' = call
      /\ Got' = [first |-> strchr(call.s, call.ch), last |-> strrchr(call.s, call.ch),
                 any |-> memchr(Holding(call.s), 0, call.ch, Cells)]
  BY DEF FindChar, Calls, Got
<1>2. call.s \in Text /\ call.ch \in 0 .. Bytes - 1 /\ Len(call.s) < Cells /\ Cells \in Nat
  BY <1>1, CallHas, StringsAreText
<1> DEFINE S == {i \in 0 .. Len(call.s) : Char(call.s, i) = call.ch}
<1>3. /\ Got.last' = IF S = {} \/ Signed(call.ch) < 0 THEN Null ELSE RightmostOf(S)
      /\ Got.first' = IF Len(call.s) > 0 /\ (Signed(call.ch) < 0 \/ 0 \notin S) THEN Forever
                      ELSE IF S = {} THEN Null ELSE LeftmostOf(S)
      /\ S # {} => Got.any' = LeftmostOf(S)
  <2> HIDE DEF S
  <2>1. /\ strrchr(call.s, call.ch) = IF S = {} \/ Signed(call.ch) < 0 THEN Null ELSE RightmostOf(S)
        /\ strchr(call.s, call.ch) = IF Len(call.s) > 0 /\ (Signed(call.ch) < 0 \/ 0 \notin S) THEN Forever
                                     ELSE IF S = {} THEN Null ELSE LeftmostOf(S)
        /\ S # {} => memchr(Holding(call.s), 0, call.ch, Cells) = LeftmostOf(S)
    BY <1>2, FindCharRight DEF S
  <2>2. QED
    BY <1>1, <2>1
<1>4. QED
  BY <1>1, <1>3 DEF SearchesFind, CopiesExact, Returned

(* So does strstr.                                                         *)
LEMMA FindStringStep ==
  ASSUME IsCall, FindString
  PROVE  (SearchesFind /\ CopiesExact)'
<1>1. call.fn = "findstring" /\ call' = call /\ Got' = strstr(call.s, call.sub)
  BY DEF FindString, Calls, Got
<1>2. call.s \in Text /\ call.sub \in Text
  BY <1>1, CallHas, StringsAreText
<1> DEFINE S == {i \in 0 .. Len(call.s) : Occurs(call.s, call.sub, i)}
<1>3. /\ Got' # Null => Got' \in S
      /\ (\A k \in 2 .. Len(call.sub) : call.sub[k] # call.sub[1]) =>
           Got' = IF S = {} THEN Null ELSE LeftmostOf(S)
  BY <1>1, <1>2, FindStringRight
<1>4. QED
  BY <1>1, <1>3 DEF SearchesFind, CopiesExact, Returned

(* memmove, memset and memcpy leave what they should.                      *)
LEMMA MoveStep ==
  ASSUME IsCall, MoveBytes
  PROVE  (SearchesFind /\ CopiesExact)'
<1>1. /\ call.fn = "move" /\ call' = call
      /\ Got' = [moved |-> memmove(Distinct, call.d, call.s, call.n),
                 set |-> memset(Distinct, call.d, 0, call.n),
                 copied |-> memcpy(Distinct, call.d, call.s, call.n)]
  BY DEF MoveBytes, Calls, Got
<1> DEFINE A == 0 .. Cells - 1
<1>2. /\ call.d \in Nat /\ call.s \in Nat /\ call.n \in Nat /\ Cells \in Nat
      /\ call.s .. call.s + call.n - 1 \subseteq A
  BY <1>1, CallHas, StringsAreText
<1>3. Distinct \in [A -> Int] /\ \A a \in A : Distinct[a] = a
  BY DEF Distinct
<1> DEFINE moved == Put(Distinct, call.d, call.n, LAMBDA i : call.s + i)
<1>4. ASSUME NEW c, IsCopy(c, Distinct, call.d, call.s, call.n) PROVE c = moved
  <2>1. c = [a \in A |-> IF a \in call.d .. call.d + call.n - 1
                           THEN Distinct[call.s + (a - call.d)] ELSE Distinct[a]]
    BY <1>3, <1>4 DEF IsCopy
  <2>2. moved = [a \in A |-> IF a \in call.d .. call.d + call.n - 1
                               THEN call.s + (a - call.d) ELSE Distinct[a]]
    BY <1>3 DEF Put
  <2>3. ASSUME NEW a \in A, a \in call.d .. call.d + call.n - 1
        PROVE  Distinct[call.s + (a - call.d)] = call.s + (a - call.d)
    <3>1. call.s + (a - call.d) \in call.s .. call.s + call.n - 1
      BY <1>2, <2>3
    <3>2. QED
      BY <1>2, <1>3, <3>1
  <2> HIDE DEF A, moved
  <2>4. QED
    BY <2>1, <2>2, <2>3
<1>5. /\ IsCopy(memmove(Distinct, call.d, call.s, call.n), Distinct, call.d, call.s, call.n)
      /\ call.d + call.n <= call.s \/ call.s + call.n <= call.d =>
           IsCopy(memcpy(Distinct, call.d, call.s, call.n), Distinct, call.d, call.s, call.n)
  <2> HIDE DEF A
  <2>1. QED
    BY <1>2, <1>3, MemmoveRight
<1>6. ASSUME NEW a \in A
      PROVE  memset(Distinct, call.d, 0, call.n)[a] =
               IF a \in call.d .. call.d + call.n - 1 THEN 0 ELSE a
  <2>1. A = DOMAIN Distinct /\ DOMAIN Distinct \subseteq Int
    BY <1>3
  <2> HIDE DEF A
  <2>2. IsFilled(memset(Distinct, call.d, 0, call.n), Distinct, call.d, 0, call.n)
    BY <1>2, <2>1, MemsetRight
  <2>3. QED
    BY <1>3, <2>1, <2>2 DEF IsFilled
<1> HIDE DEF moved
<1>7. /\ Got.moved' = moved
      /\ (call.d + call.n <= call.s \/ call.s + call.n <= call.d) => Got.copied' = moved
      /\ \A a \in A : Got.set'[a] = IF a \in call.d .. call.d + call.n - 1 THEN 0 ELSE a
  BY <1>1, <1>4, <1>5, <1>6
<1>8. SearchesFind'
  BY <1>1 DEF SearchesFind, Returned
<1>9. moved = [a \in A |-> IF a \in call.d .. call.d + call.n - 1 THEN call.s + (a - call.d) ELSE Distinct[a]]
  BY <1>3 DEF moved, Put
<1>10. CopiesExact'
  BY <1>1, <1>3, <1>7, <1>9 DEF CopiesExact, Returned, Put
<1>11. QED
  BY <1>8, <1>10

(* So do strcpy, strncpy and strcat.                                       *)
LEMMA PutStep ==
  ASSUME IsCall, PutString
  PROVE  (SearchesFind /\ CopiesExact)'
<1>1. /\ call.fn = "put" /\ call' = call
      /\ Got' = [copied |-> strcpy(Distinct, 2, call.s),
                 filled |-> strncpy(Distinct, 2, call.s, call.n),
                 joined |-> strcat(Holding(call.held), 0, call.s)]
  BY DEF PutString, Calls, Got
<1>2. /\ call.held \in Text /\ call.s \in Text /\ call.n \in 0 .. Cells - 1
      /\ Len(call.held) < Cells /\ Cells \in Nat
  BY <1>1, CallHas, StringsAreText
<1> DEFINE A == 0 .. Cells - 1
<1>3. A = DOMAIN Distinct /\ A \subseteq Int /\ \A a \in A : Distinct[a] = a
  BY DEF Distinct
<1>4. ASSUME NEW a \in A
      PROVE  /\ Got.copied'[a] = IF a - 2 \in 0 .. Len(call.s) THEN Char(call.s, a - 2) ELSE a
             /\ Got.filled'[a] = IF a - 2 \in 0 .. call.n - 1 THEN Char(call.s, a - 2) ELSE a
             /\ Got.joined'[a] = IF a <= Len(call.held) + Len(call.s)
                                   THEN Char(call.held \o call.s, a) ELSE Holding(call.held)[a]
  <2>1. strcat(Holding(call.held), 0, call.s)[a] =
           IF a <= Len(call.held) + Len(call.s) THEN Char(call.held \o call.s, a) ELSE Holding(call.held)[a]
    BY <1>2, StrcatRight
  <2>2. 2 \in Nat /\ call.n \in Nat
    BY <1>2
  <2>5. DOMAIN Distinct \subseteq Int /\ a \in DOMAIN Distinct
    BY <1>3
  <2> HIDE DEF A
  <2>3. /\ strcpy(Distinct, 2, call.s)[a] = IF a - 2 \in 0 .. Len(call.s) THEN Char(call.s, a - 2) ELSE Distinct[a]
        /\ strncpy(Distinct, 2, call.s, call.n)[a] =
             IF a - 2 \in 0 .. call.n - 1 THEN Char(call.s, a - 2) ELSE Distinct[a]
    <3>1. /\ IsPut(strcpy(Distinct, 2, call.s), Distinct, 2, call.s, Len(call.s) + 1)
          /\ IsPut(strncpy(Distinct, 2, call.s, call.n), Distinct, 2, call.s, call.n)
      BY <1>2, <2>2, <2>5, PutRight
    <3>2. (Len(call.s) + 1) - 1 = Len(call.s)
      BY <1>2, Chars
    <3>3. QED
      BY <2>5, <3>1, <3>2 DEF IsPut
  <2>4. QED
    BY <1>1, <1>3, <2>1, <2>3
<1>5. QED
  BY <1>1, <1>4 DEF SearchesFind, CopiesExact, Returned

(* strcmp, strncmp and memcmp return what they should.                     *)
LEMMA CompareStep ==
  ASSUME IsCall, Compare
  PROVE  (SearchesFind /\ CopiesExact)'
<1>1. /\ call.fn = "compare" /\ call' = call
      /\ Got' = [whole |-> strcmp(call.l, call.r), start |-> strncmp(call.l, call.r, call.n),
                 bytes |-> memcmp(Both(call.l, call.r), 0, Cells, call.n)]
  BY DEF Compare, Calls, Got
<1>2. /\ call.l \in Text /\ call.r \in Text /\ call.n \in 0 .. Cells - 1
      /\ Len(call.l) < Cells /\ Cells \in Nat /\ call.n \in Nat
  BY <1>1, CallHas, StringsAreText
<1> DEFINE m == Both(call.l, call.r)
           S == {i \in 0 .. Cells - 1 : Char(call.l, i) # Char(call.r, i)}
           T == {i \in 0 .. call.n - 1 : m[0 + i] # m[Cells + i]}
           left == Char(call.l, LeftmostOf(S))
           right == Char(call.r, LeftmostOf(S))
           less == IF SameSide(left, right) THEN left < right ELSE right < left
<1>3. /\ Got.whole' = 0 <=> call.l = call.r
      /\ Got.whole' # 0 => (Got.whole' < 0 <=> less)
      /\ Got.start' # 0 => (Got.start' < 0 <=> less)
  <2>1. S = CharsThatDiffer(call.l, call.r)
    BY DEF CharsThatDiffer
  <2> HIDE DEF S, m, T
  <2>2. strcmp(call.l, call.r) = 0 <=> call.l = call.r
    BY <1>2, StrcmpZero
  <2>3. \A n \in Nat : n <= Cells /\ strncmp(call.l, call.r, n) # 0 =>
           (strncmp(call.l, call.r, n) < 0 <=> less)
    BY <1>2, <2>1, StrncmpFirst
  <2>4. Len(call.l) + 1 \in Nat /\ Len(call.l) + 1 <= Cells /\ call.n <= Cells
    <3> HIDE DEF less, left, right
    <3>1. Len(call.l) \in Nat
      BY <1>2, Chars
    <3>2. QED
      BY <1>2, <3>1
  <2> HIDE DEF less
  <2>5. /\ strcmp(call.l, call.r) # 0 => (strcmp(call.l, call.r) < 0 <=> less)
        /\ strncmp(call.l, call.r, call.n) # 0 => (strncmp(call.l, call.r, call.n) < 0 <=> less)
    BY <1>2, <2>3, <2>4 DEF strcmp
  <2>6. QED
    BY <1>1, <2>2, <2>5
<1>4. Got.start' = 0 <=> Cut(call.l, call.n) = Cut(call.r, call.n)
  BY <1>1, <1>2, StrncmpRight
<1>5. \A i \in 0 .. Cells - 1 : m[0 + i] = Char(call.l, i) /\ m[Cells + i] = Char(call.r, i)
  BY <1>2 DEF Both
<1>6. \A i \in 0 .. call.n - 1 : i \in 0 .. Cells - 1 /\ i \in Nat
  BY <1>2
<1>7. T = S \cap 0 .. call.n - 1
  BY <1>5, <1>6
<1>8. memcmp(m, 0, Cells, call.n) =
        IF T = {} THEN 0 ELSE m[0 + LeftmostOf(T)] - m[Cells + LeftmostOf(T)]
  <2>1. T = BytesThatDiffer(m, 0, Cells, call.n) /\ 0 \in Nat
    BY DEF BytesThatDiffer
  <2> HIDE DEF S, m, T
  <2>2. memcmp(m, 0, Cells, call.n) = FirstDifference(m, 0, Cells, call.n)
    BY <1>2, <2>1, MemcmpRight
  <2>3. QED
    BY <2>1, <2>2 DEF FirstDifference
<1>9. ASSUME T # {}
      PROVE  /\ memcmp(m, 0, Cells, call.n) = Char(call.l, LeftmostOf(S)) - Char(call.r, LeftmostOf(S))
             /\ memcmp(m, 0, Cells, call.n) # 0
             /\ memcmp(m, 0, Cells, call.n) < 0 <=> Char(call.l, LeftmostOf(S)) < Char(call.r, LeftmostOf(S))
  <2> DEFINE i == LeftmostOf(T)
  <2>1. T \in SUBSET Nat /\ S \in SUBSET Nat
    BY <1>6
  <2>2. i \in T /\ \A k \in T : i <= k
    BY <1>9, <2>1, LeftmostExists
  <2> HIDE DEF i
  <2>3. i \in S /\ i \in Nat /\ i < call.n
    BY <1>2, <1>7, <2>2
  <2>4. \A k \in S : i <= k
    <3>1. ASSUME NEW k \in S, k < i PROVE FALSE
      <4>1. k \in 0 .. call.n - 1
        BY <1>2, <2>3, <3>1
      <4>2. k \in T
        BY <1>7, <3>1, <4>1
      <4>3. QED
        BY <2>1, <2>2, <2>3, <3>1, <4>2
    <3>2. QED
      BY <2>1, <2>3, <3>1
  <2>5. LeftmostOf(S) = i
    <3> HIDE DEF S
    <3>1. QED
      BY <2>1, <2>3, <2>4, LeftmostIs
  <2>6. memcmp(m, 0, Cells, call.n) = Char(call.l, i) - Char(call.r, i)
    <3> HIDE DEF m, T
    <3>1. memcmp(m, 0, Cells, call.n) = m[0 + i] - m[Cells + i]
      BY <1>8, <1>9 DEF i
    <3>2. QED
      BY <1>5, <1>6, <2>3, <3>1
  <2>7. /\ Char(call.l, i) # Char(call.r, i)
        /\ Char(call.l, i) \in 0 .. Bytes - 1 /\ Char(call.r, i) \in 0 .. Bytes - 1
    BY <1>2, <2>3, Chars
  <2>8. QED
    BY <2>5, <2>6, <2>7, StringFnsAssumption
<1>10. /\ Got.bytes' = 0 <=> S \cap 0 .. call.n - 1 = {}
       /\ Got.bytes' # 0 => (Got.bytes' < 0 <=> left < right)
  <2> HIDE DEF m, T, S
  <2>1. Got.bytes' = memcmp(m, 0, Cells, call.n)
    BY <1>1 DEF m
  <2>2. QED
    BY <1>7, <1>8, <1>9, <2>1
<1>11. QED
  BY <1>1, <1>3, <1>4, <1>10 DEF SearchesFind, CopiesExact, Returned, Cut

-----------------------------------------------------------------------------
(* What the digits of a number count.  f[k] is what the first k of its n   *)
(* digits d[1], d[2], ... do.                                              *)
IsNumber(f, d, b, n) ==
    /\ f \in [0 .. n -> Nat] /\ f[0] = 0
    /\ \A k \in 1 .. n : f[k] = f[k - 1] * b + d[k]

(* There is such an f for any digits.                                      *)
LEMMA NumberExists ==
  ASSUME NEW n \in Nat, NEW b \in Nat, NEW d, \A k \in 1 .. n : d[k] \in Nat
  PROVE  \E f : IsNumber(f, d, b, n)
<1> DEFINE R == [k \in 1 .. n |-> [r \in Nat |-> r * b + d[k]]]
<1>1. \A r, c \in Nat : r * b + c \in Nat
  <2>1. \A u, v \in Nat : u * v \in Nat
    BY Z3
  <2>2. QED
    BY <2>1
<1>2. \A k \in 1 .. n : \A r \in Nat : R[k][r] = r * b + d[k] /\ R[k][r] \in Nat
  BY <1>1
<1> HIDE DEF R
<1>3. IsRounds(R, n, Nat) /\ 0 \in Nat
  BY <1>2 DEF IsRounds
<1>4. PICK f : IsRun(f, 0, R, n, Nat)
  BY <1>3, Iteration
<1>5. f \in [0 .. n -> Nat] /\ f[0] = 0 /\ \A k \in 1 .. n : f[k] = R[k][f[k - 1]]
  BY <1>4 DEF IsRun
<1>6. ASSUME NEW k \in 1 .. n PROVE f[k] = f[k - 1] * b + d[k]
  <2>1. k - 1 \in 0 .. n
    OBVIOUS
  <2>2. f[k - 1] \in Nat
    BY <1>5, <2>1
  <2>3. QED
    BY <1>2, <1>5, <2>2
<1>7. QED
  BY <1>5, <1>6 DEF IsNumber

(* The digits that text s has from `from' on.                              *)
DigitsOf(s, from, n) == [k \in 1 .. n |-> Digits[s[from + (k - 1)]]]

(* What Horner's rule makes of the digits is what their powers of the base *)
(* add up to, and the digits that come first count no more than all of     *)
(* them.                                                                   *)
LEMMA WorthIs ==
  ASSUME NEW s, NEW from \in Nat, NEW end \in Nat, from <= end, NEW b \in Nat, b > 0,
         \A i \in from .. end - 1 : Digits[s[i]] \in Nat,
         NEW f, IsNumber(f, DigitsOf(s, from, end - from), b, end - from)
  PROVE  /\ Worth(s, from, end, b) = f[end - from]
         /\ \A k \in 0 .. end - from : f[k] <= Worth(s, from, end, b)
<1> DEFINE n == end - from
           d == DigitsOf(s, from, n)
           IsPower(p) == p = [k \in 0 .. n |-> IF k = 0 THEN 1 ELSE b * p[k - 1]]
           power == CHOOSE p : IsPower(p)
           IsLast(v) == v = [k \in 0 .. n |-> IF k = 0 THEN 0 ELSE Digits[s[end - k]] * power[k - 1] + v[k - 1]]
           last == CHOOSE v : IsLast(v)
<1>1. n \in Nat
  OBVIOUS
<1>0. Worth(s, from, end, b) = last[n]
  BY DEF Worth
<1>a. \A u, v \in Nat : u * v \in Nat
  BY Z3
<1>2. \A k \in 1 .. n : /\ Digits[s[end - k]] = d[n + 1 - k]
                        /\ d[k] \in Nat /\ d[n + 1 - k] \in Nat
  <2>1. ASSUME NEW k \in 1 .. n PROVE d[k] \in Nat
    <3>1. from + (k - 1) \in from .. end - 1
      OBVIOUS
    <3>2. d[k] = Digits[s[from + (k - 1)]]
      BY DEF DigitsOf
    <3>3. QED
      BY <3>1, <3>2
  <2>2. ASSUME NEW k \in 1 .. n PROVE n + 1 - k \in 1 .. n /\ Digits[s[end - k]] = d[n + 1 - k]
    <3>1. n + 1 - k \in 1 .. n
      OBVIOUS
    <3>2. from + ((n + 1 - k) - 1) = end - k
      OBVIOUS
    <3>3. d[n + 1 - k] = Digits[s[from + ((n + 1 - k) - 1)]]
      BY <3>1 DEF DigitsOf
    <3>4. QED
      BY <3>1, <3>2, <3>3
  <2> HIDE DEF n, d
  <2>3. QED
    BY <2>1, <2>2
<1>3. IsNumber(f, d, b, n)
  OBVIOUS
<1> HIDE DEF d, n
<1>4. /\ f \in [0 .. n -> Nat] /\ f[0] = 0
      /\ \A k \in 1 .. n : f[k] = f[k - 1] * b + d[k]
  BY <1>3 DEF IsNumber
<1>5. power \in [0 .. n -> Nat] /\ power[0] = 1 /\ \A k \in 1 .. n : power[k] = b * power[k - 1] /\ power[k - 1] >= 1
  <2> DEFINE R == [k \in 1 .. n |-> [r \in Nat \ {0} |-> b * r]]
  <2>1. \A k \in 1 .. n : \A r \in Nat \ {0} : R[k][r] = b * r /\ R[k][r] \in Nat \ {0}
    <3>1. \A r \in Nat \ {0} : b * r \in Nat \ {0}
      BY Z3
    <3>2. QED
      BY <3>1
  <2> HIDE DEF R
  <2>2. IsRounds(R, n, Nat \ {0}) /\ 1 \in Nat \ {0}
    BY <2>1 DEF IsRounds
  <2>3. PICK p : IsRun(p, 1, R, n, Nat \ {0})
    BY <1>1, <2>2, Iteration
  <2>4. p \in [0 .. n -> Nat \ {0}] /\ p[0] = 1 /\ \A k \in 1 .. n : p[k] = R[k][p[k - 1]]
    BY <2>3 DEF IsRun
  <2>5. ASSUME NEW k \in 0 .. n PROVE p[k] = IF k = 0 THEN 1 ELSE b * p[k - 1]
    <3>1. CASE k = 0
      BY <2>4, <3>1
    <3>2. CASE k # 0
      <4>1. k \in 1 .. n /\ k - 1 \in 0 .. n
        BY <1>1, <3>2
      <4>2. p[k - 1] \in Nat \ {0}
        BY <2>4, <4>1
      <4>3. QED
        BY <2>1, <2>4, <3>2, <4>1, <4>2
    <3>3. QED
      BY <3>1, <3>2
  <2>6. IsPower(p)
    BY <2>4, <2>5
  <2>7. IsPower(power)
    <3> HIDE DEF IsPower
    <3>1. QED
      BY <2>6
  <2> HIDE DEF power
  <2>8. power[0] = 1 /\ \A k \in 1 .. n : power[k] = b * power[k - 1]
    BY <1>1, <2>7
  <2> HIDE DEF IsPower
  <2> DEFINE Q == {k \in Nat : k <= n => power[k] \in Nat \ {0}}
  <2>9. 0 \in Q
    BY <2>8
  <2>10. ASSUME NEW k \in Nat, k \in Q PROVE k + 1 \in Q
    <3>1. SUFFICES ASSUME k + 1 <= n PROVE power[k + 1] \in Nat \ {0}
      OBVIOUS
    <3>2. k + 1 \in 1 .. n /\ (k + 1) - 1 = k /\ power[k] \in Nat \ {0}
      BY <1>1, <2>10, <3>1
    <3>3. power[k + 1] = b * power[k]
      BY <2>8, <3>2
    <3>4. \A r \in Nat \ {0} : b * r \in Nat \ {0}
      BY Z3
    <3>5. QED
      BY <3>2, <3>3, <3>4
  <2> HIDE DEF Q
  <2>11. \A k \in Nat : k \in Q
    BY <2>9, <2>10, Induction
  <2>12. \A k \in 0 .. n : power[k] \in Nat \ {0}
    BY <1>1, <2>11 DEF Q
  <2>13. DOMAIN power = 0 .. n /\ power = [k \in 0 .. n |-> power[k]]
    BY <2>7 DEF IsPower
  <2>14. power \in [0 .. n -> Nat]
    BY <2>12, <2>13
  <2>15. \A k \in 1 .. n : k - 1 \in 0 .. n
    BY <1>1
  <2>16. \A k \in 1 .. n : power[k - 1] >= 1
    BY <2>12, <2>15
  <2>17. QED
    BY <2>8, <2>14, <2>16
<1> HIDE DEF power
<1>6. last \in [0 .. n -> Nat] /\ last[0] = 0 /\ \A k \in 1 .. n : last[k] = d[n + 1 - k] * power[k - 1] + last[k - 1]
  <2> DEFINE R == [k \in 1 .. n |-> [r \in Nat |-> d[n + 1 - k] * power[k - 1] + r]]
  <2>0. ASSUME NEW k \in 1 .. n PROVE d[n + 1 - k] * power[k - 1] \in Nat
    <3>1. k - 1 \in 0 .. n
      BY <1>1
    <3>2. power[k - 1] \in Nat
      BY <1>5, <3>1
    <3>3. QED
      BY <1>a, <1>2, <3>2
  <2>1. \A k \in 1 .. n : \A r \in Nat : R[k][r] = d[n + 1 - k] * power[k - 1] + r /\ R[k][r] \in Nat
    BY <2>0
  <2> HIDE DEF R
  <2>2. IsRounds(R, n, Nat) /\ 0 \in Nat
    BY <2>1 DEF IsRounds
  <2>3. PICK v : IsRun(v, 0, R, n, Nat)
    BY <1>1, <2>2, Iteration
  <2>4. v \in [0 .. n -> Nat] /\ v[0] = 0 /\ \A k \in 1 .. n : v[k] = R[k][v[k - 1]]
    BY <2>3 DEF IsRun
  <2>5. ASSUME NEW k \in 0 .. n PROVE v[k] = IF k = 0 THEN 0 ELSE Digits[s[end - k]] * power[k - 1] + v[k - 1]
    <3>1. CASE k = 0
      BY <2>4, <3>1
    <3>2. CASE k # 0
      <4>1. k \in 1 .. n /\ k - 1 \in 0 .. n
        BY <1>1, <3>2
      <4>2. v[k - 1] \in Nat
        BY <2>4, <4>1
      <4>3. v[k] = d[n + 1 - k] * power[k - 1] + v[k - 1]
        BY <2>1, <2>4, <4>1, <4>2
      <4>4. QED
        BY <1>2, <3>2, <4>1, <4>3
    <3>3. QED
      BY <3>1, <3>2
  <2>6. IsLast(v)
    BY <2>4, <2>5
  <2>7. IsLast(last)
    <3> HIDE DEF IsLast
    <3>1. QED
      BY <2>6
  <2> HIDE DEF last
  <2>8. last[0] = 0 /\ \A k \in 1 .. n : last[k] = d[n + 1 - k] * power[k - 1] + last[k - 1]
    <3>1. \A k \in 0 .. n : last[k] = IF k = 0 THEN 0 ELSE Digits[s[end - k]] * power[k - 1] + last[k - 1]
      BY <2>7
    <3> HIDE DEF IsLast
    <3>2. QED
      BY <1>1, <1>2, <3>1
  <2>13. DOMAIN last = 0 .. n /\ last = [k \in 0 .. n |-> last[k]]
    BY <2>7
  <2> HIDE DEF IsLast
  <2> DEFINE Q == {k \in Nat : k <= n => last[k] \in Nat}
  <2>9. 0 \in Q
    BY <2>8
  <2>10. ASSUME NEW k \in Nat, k \in Q PROVE k + 1 \in Q
    <3>1. SUFFICES ASSUME k + 1 <= n PROVE last[k + 1] \in Nat
      OBVIOUS
    <3>2. k + 1 \in 1 .. n /\ (k + 1) - 1 = k /\ last[k] \in Nat
      BY <1>1, <2>10, <3>1
    <3>3. last[k + 1] = d[n + 1 - (k + 1)] * power[(k + 1) - 1] + last[(k + 1) - 1]
      BY <2>8, <3>2
    <3>4. d[n + 1 - (k + 1)] * power[(k + 1) - 1] \in Nat
      BY <2>0, <3>2
    <3>5. QED
      BY <3>2, <3>3, <3>4
  <2> HIDE DEF Q
  <2>11. \A k \in Nat : k \in Q
    BY <2>9, <2>10, Induction
  <2>12. \A k \in 0 .. n : last[k] \in Nat
    BY <1>1, <2>11 DEF Q
  <2>14. QED
    BY <2>8, <2>12, <2>13
<1> HIDE DEF last
<1> DEFINE Q == {k \in Nat : k <= n => f[k] * power[n - k] + last[n - k] = last[n]}
<1>7. 0 \in Q
  <2>1. n - 0 = n /\ power[n] \in Nat /\ last[n] \in Nat
    BY <1>1, <1>5, <1>6
  <2>2. \A u \in Nat : 0 * u = 0
    OBVIOUS
  <2>3. QED
    BY <1>4, <2>1, <2>2
<1>8. ASSUME NEW k \in Nat, k \in Q PROVE k + 1 \in Q
  <2>1. SUFFICES ASSUME k + 1 <= n PROVE f[k + 1] * power[n - (k + 1)] + last[n - (k + 1)] = last[n]
    OBVIOUS
  <2> DEFINE j == n - k
  <2>2. /\ k + 1 \in 1 .. n /\ (k + 1) - 1 = k /\ j \in 1 .. n /\ n - (k + 1) = j - 1
        /\ j - 1 \in 0 .. n /\ k \in 0 .. n /\ n + 1 - j = k + 1
    BY <1>1, <2>1
  <2>3. f[k] * power[j] + last[j] = last[n]
    BY <1>1, <1>8, <2>1
  <2> HIDE DEF j
  <2>4. f[k + 1] = f[k] * b + d[k + 1]
    BY <1>4, <2>2
  <2>5. power[j] = b * power[j - 1]
    BY <1>5, <2>2
  <2>6. last[j] = d[k + 1] * power[j - 1] + last[j - 1]
    BY <1>6, <2>2
  <2>7. f[k] \in Nat /\ power[j - 1] \in Nat /\ last[j - 1] \in Nat /\ d[k + 1] \in Nat
    BY <1>2, <1>4, <1>5, <1>6, <2>2
  <2>8. \A x, q, c, v \in Nat : (x * b + c) * q + v = x * (b * q) + (c * q + v)
    BY Z3
  <2>9. (f[k] * b + d[k + 1]) * power[j - 1] + last[j - 1]
          = f[k] * (b * power[j - 1]) + (d[k + 1] * power[j - 1] + last[j - 1])
    BY <2>7, <2>8
  <2>10. QED
    BY <2>2, <2>3, <2>4, <2>5, <2>6, <2>9
<1> HIDE DEF Q
<1>9. \A k \in Nat : k \in Q
  BY <1>7, <1>8, Induction
<1>10. ASSUME NEW k \in 0 .. n PROVE f[k] <= last[n]
  <2>1. f[k] * power[n - k] + last[n - k] = last[n]
    BY <1>1, <1>9 DEF Q
  <2>2. n - k \in 0 .. n
    BY <1>1
  <2>3. power[n - k] >= 1
    <3>1. CASE k = n
      BY <1>1, <1>5, <3>1
    <3>2. CASE k # n
      <4>1. n - k + 1 \in 1 .. n \/ n - k = n
        BY <1>1, <3>2
      <4>2. n - k = n => k = 0
        BY <1>1
      <4>3. CASE n - k + 1 \in 1 .. n
        <5>1. (n - k + 1) - 1 = n - k
          BY <1>1
        <5>2. QED
          BY <1>5, <4>3, <5>1
      <4>4. CASE k = 0 /\ n # 0
        <5>1. n \in 1 .. n /\ n - k = n /\ n - 1 \in 0 .. n
          BY <1>1, <4>4
        <5>2. power[n] = b * power[n - 1] /\ power[n - 1] >= 1 /\ power[n - 1] \in Nat
          BY <1>5, <5>1
        <5>3. \A r \in Nat : r >= 1 => b * r >= 1
          BY Z3
        <5>4. QED
          BY <5>1, <5>2, <5>3
      <4>5. QED
        BY <1>1, <3>2, <4>1, <4>2, <4>3, <4>4
    <3>3. QED
      BY <3>1, <3>2
  <2>4. power[n - k] \in Nat /\ last[n - k] \in Nat /\ f[k] \in Nat /\ last[n] \in Nat
    BY <1>1, <1>4, <1>5, <1>6, <2>2
  <2>5. \A x, q \in Nat : q >= 1 => x * q >= x /\ x * q \in Nat
    BY Z3
  <2>6. QED
    BY <2>1, <2>3, <2>4, <2>5
<1>11. last[n] = f[n]
  <2>1. f[n] * power[n - n] + last[n - n] = last[n]
    BY <1>1, <1>9 DEF Q
  <2>2. n - n = 0 /\ f[n] \in Nat
    BY <1>1, <1>4
  <2>3. QED
    BY <1>5, <1>6, <2>1, <2>2
<1>12. QED
  BY <1>0, <1>10, <1>11 DEF n

-----------------------------------------------------------------------------
(* strtol.  Where the characters of one kind end, and where digits do.     *)
AnyText == Seq(STRING \ {"NUL"})

(* Behind its end a text reads NUL.                                        *)
LEMMA TextAt ==
  ASSUME NEW s \in AnyText
  PROVE  /\ Len(s) \in Nat
         /\ \A i \in 1 .. Len(s) : At(s, i) = s[i] /\ At(s, i) # "NUL"
         /\ \A i \in Nat : i > Len(s) => At(s, i) = "NUL"
<1>1. \A B : \A t \in Seq(B) : Len(t) \in Nat /\ \A i \in 1 .. Len(t) : t[i] \in B
  OBVIOUS
<1>2. Len(s) \in Nat /\ \A i \in 1 .. Len(s) : s[i] # "NUL"
  BY <1>1 DEF AnyText
<1>3. QED
  BY <1>2 DEF At

IsBehind(k, s, i, C) ==
    k \in i .. Len(s) + 1 /\ At(s, k) \notin C /\ \A n \in i .. k - 1 : s[n] \in C

(* Behind finds the end of a run of characters.                            *)
LEMMA BehindIs ==
  ASSUME NEW s \in AnyText, NEW i \in Nat, i > 0, i <= Len(s) + 1, NEW C, "NUL" \notin C
  PROVE  IsBehind(Behind(s, i, C), s, i, C)
<1> DEFINE Ends(k) == At(s, k) \notin C /\ \A n \in i .. k - 1 : s[n] \in C
           S == {k \in i .. Len(s) + 1 : At(s, k) \notin C}
<1>1. Len(s) \in Nat /\ Len(s) + 1 \in S /\ S \in SUBSET Nat
  BY TextAt
<1>2. PICK k \in S : \A j \in S : k <= j
  <2> HIDE DEF S
  <2>1. QED
    BY <1>1, LeastExists
<1>3. ASSUME NEW n \in i .. k - 1 PROVE s[n] \in C
  <2>1. n \in 1 .. Len(s) /\ n \in i .. Len(s) + 1 /\ n < k
    BY <1>1, <1>2
  <2>2. At(s, n) \in C
    BY <1>2, <2>1
  <2>3. QED
    BY <2>1, <2>2, TextAt
<1>4. k \in i .. Len(s) + 1 /\ Ends(k)
  BY <1>2, <1>3
<1>5. Behind(s, i, C) = CHOOSE j \in i .. Len(s) + 1 : Ends(j)
  BY DEF Behind
<1> HIDE DEF Ends
<1>6. Behind(s, i, C) \in i .. Len(s) + 1 /\ Ends(Behind(s, i, C))
  BY <1>4, <1>5
<1>7. QED
  BY <1>6 DEF Ends, IsBehind

(* There is only one such place.                                           *)
LEMMA BehindOnly ==
  ASSUME NEW s \in AnyText, NEW i \in Nat, i > 0, NEW C, NEW k, NEW j, IsBehind(k, s, i, C), IsBehind(j, s, i, C)
  PROVE  k = j
<1>1. Len(s) \in Nat /\ k \in Nat /\ j \in Nat /\ k >= i /\ j >= i /\ k <= Len(s) + 1 /\ j <= Len(s) + 1
  BY TextAt DEF IsBehind
<1>2. ~(k < j)
  <2>1. SUFFICES ASSUME k < j PROVE FALSE
    OBVIOUS
  <2>2. k \in i .. j - 1 /\ k \in 1 .. Len(s)
    BY <1>1, <2>1
  <2>3. s[k] \in C /\ At(s, k) \notin C /\ At(s, k) = s[k]
    BY <2>2, TextAt DEF IsBehind
  <2>4. QED
    BY <2>3
<1>3. ~(j < k)
  <2>1. SUFFICES ASSUME j < k PROVE FALSE
    OBVIOUS
  <2>2. j \in i .. k - 1 /\ j \in 1 .. Len(s)
    BY <1>1, <2>1
  <2>3. s[j] \in C /\ At(s, j) \notin C /\ At(s, j) = s[j]
    BY <2>2, TextAt DEF IsBehind
  <2>4. QED
    BY <2>3
<1>4. QED
  BY <1>1, <1>2, <1>3

(* The terminator is no digit, and a digit counts less than the base.      *)
LEMMA DigitFacts ==
  ASSUME NEW b \in Int
  PROVE  /\ "NUL" \notin DigitsIn(b)
         /\ \A c \in DigitsIn(b) : Digits[c] \in Nat /\ Digits[c] < b
         /\ \A c : DIG_IN_BASE(c, b) <=> c \in DigitsIn(b)
<1>1. "NUL" \notin DOMAIN Digits
  BY StrtolAssumption
<1>2. \A c \in DigitsIn(b) : c \in DOMAIN Digits /\ Digits[c] < b
  BY DEF DigitsIn
<1>3. \A c \in DOMAIN Digits : Digits[c] \in Nat
  <2>1. \A c \in DOMAIN Digits : Digits[c] \in 0 .. 35
    BY StrtolAssumption, Zenon
  <2>2. QED
    BY <2>1
<1>4. \A c : DIG_IN_BASE(c, b) <=> c \in DigitsIn(b)
  BY Zenon DEF DigitsIn, DIG_IN_BASE, isalnum
<1>5. QED
  BY <1>1, <1>2, <1>3, <1>4

(* One more digit d in a base b where the limit of the absolute value is L.*)
LEMMA OneMoreDigit ==
  ASSUME NEW L \in Nat, NEW b \in Nat, b > 1, NEW r \in Nat, NEW d \in Nat, d < b
  PROVE  /\ r > L \div b - d => r * b + d > L - b * b
         /\ r <= L \div b - d => r * b + d <= L
<1> DEFINE q == L \div b
           t == L % b
<1>0. b \in Nat \ {0}
  OBVIOUS
<1>1. q \in Nat /\ t \in 0 .. b - 1 /\ L = b * q + t
  BY <1>0, Division
<1> HIDE DEF q, t
<1>2. ASSUME r > q - d PROVE r * b + d > L - b * b
  <2>1. \A x, y \in Nat : x >= y => x * b >= y * b
    BY Z3
  <2>2. r + d >= q + 1
    BY <1>1, <1>2
  <2>3. (r + d) * b >= (q + 1) * b
    BY <1>1, <2>1, <2>2
  <2>4. (r + d) * b = r * b + d * b /\ (q + 1) * b = b * q + b
    BY <1>1, Z3
  <2>5. d * b <= b * b
    BY <2>1
  <2>6. r * b \in Nat /\ d * b \in Nat /\ b * q \in Nat /\ b * b \in Nat
    BY <1>1, Z3
  <2>7. QED
    BY <1>1, <2>3, <2>4, <2>5, <2>6
<1>3. ASSUME r <= q - d PROVE r * b + d <= L
  <2>1. \A x, y \in Nat : x >= y => x * b >= y * b
    BY Z3
  <2>2. r + d <= q
    BY <1>1, <1>3
  <2>3. (r + d) * b <= q * b
    BY <1>1, <2>1, <2>2
  <2>4. (r + d) * b = r * b + d * b /\ q * b = b * q
    BY <1>1, Z3
  <2>5. d * b >= d
    BY Z3
  <2>6. r * b \in Nat /\ d * b \in Nat /\ b * q \in Nat
    BY <1>1, Z3
  <2>7. QED
    BY <1>1, <2>3, <2>4, <2>5, <2>6
<1>4. QED
  BY <1>2, <1>3 DEF q

(* What Convert is to give for the digits from `from' on.                  *)
Gives(c, s, from, b, neg) ==
    LET end == Behind(s, from, DigitsIn(b))
        w == Worth(s, from, end, b)
    IN  /\ c.end = end
        /\ c.value \in LongMin .. LongMax
        /\ c.errno = "none" => c.value = IF neg THEN -w ELSE w
        /\ c.errno = "ERANGE" => IF neg THEN c.value = LongMin /\ -w < LongMin + b * b
                                        ELSE c.value = LongMax /\ w > LongMax - b * b

\* It may start behind a digit 0.
StartsAt(cur, s, from, b) ==
    /\ cur \in Nat /\ cur <= Len(s) + 1
    /\ cur = from \/ (cur = from + 1 /\ s[from] \in DigitsIn(b) /\ Digits[s[from]] = 0)

(* The loop over the digits: no overflow as long as it accepts them, and a *)
(* refusal only near the end of the range.                                 *)
LEMMA ConvertGives ==
  ASSUME NEW s \in AnyText, NEW from \in Nat, from > 0, NEW cur, NEW b \in Nat, b > 1,
         NEW neg \in BOOLEAN, StartsAt(cur, s, from, b)
  PROVE  Gives(Convert(s, cur, b, neg), s, from, b, neg)
<1> DEFINE end == Behind(s, from, DigitsIn(b))
           w == Worth(s, from, end, b)
           n == end - from
           d == DigitsOf(s, from, n)
           L == IF neg THEN LongMax + 1 ELSE LongMax
<1>1. Len(s) \in Nat /\ cur \in Nat /\ from <= cur /\ cur <= Len(s) + 1 /\ from <= Len(s) + 1
      /\ "NUL" \notin DigitsIn(b)
      /\ \A c \in DigitsIn(b) : Digits[c] \in Nat /\ Digits[c] < b
  BY TextAt, DigitFacts DEF StartsAt
<1>2. IsBehind(end, s, from, DigitsIn(b))
  BY <1>1, BehindIs
<1>3. IsBehind(Behind(s, cur, DigitsIn(b)), s, cur, DigitsIn(b))
  BY <1>1, BehindIs
<1>4. Behind(s, cur, DigitsIn(b)) = end
  <2> DEFINE e == Behind(s, cur, DigitsIn(b))
  <2> HIDE DEF e, end
  <2>1. e \in cur .. Len(s) + 1 /\ At(s, e) \notin DigitsIn(b) /\ \A k \in cur .. e - 1 : s[k] \in DigitsIn(b)
    BY <1>3 DEF e, IsBehind
  <2>2. \A k \in from .. e - 1 : s[k] \in DigitsIn(b)
    BY <1>1, <2>1 DEF StartsAt
  <2>3. IsBehind(e, s, from, DigitsIn(b))
    BY <1>1, <2>1, <2>2 DEF IsBehind
  <2>4. QED
    BY <1>2, <2>3, BehindOnly DEF e
<1>5. end \in Nat /\ cur <= end /\ from <= end /\ n \in Nat
      /\ \A i \in from .. end - 1 : Digits[s[i]] \in Nat /\ Digits[s[i]] < b
  <2> HIDE DEF end
  <2>1. end \in cur .. Len(s) + 1 /\ \A i \in from .. end - 1 : s[i] \in DigitsIn(b)
    BY <1>2, <1>3, <1>4 DEF IsBehind
  <2>2. QED
    BY <1>1, <2>1
<1> HIDE DEF end
<1>6. \A k \in 1 .. n : d[k] \in Nat /\ d[k] < b /\ d[k] = Digits[s[from + (k - 1)]]
  <2>1. \A k \in 1 .. n : d[k] = Digits[s[from + (k - 1)]] /\ from + (k - 1) \in from .. end - 1
    BY <1>5 DEF DigitsOf
  <2>2. QED
    BY <1>5, <2>1
<1>7. PICK f : IsNumber(f, d, b, n)
  <2> HIDE DEF d, n
  <2>1. QED
    BY <1>5, <1>6, NumberExists
<1>8. w = f[n] /\ \A k \in 0 .. n : f[k] <= w
  <2>1. \A i \in from .. end - 1 : Digits[s[i]] \in Nat
    BY <1>5
  <2>2. IsNumber(f, DigitsOf(s, from, end - from), b, end - from)
    BY <1>7
  <2>3. b > 0
    OBVIOUS
  <2>4. /\ Worth(s, from, end, b) = f[end - from]
        /\ \A k \in 0 .. end - from : f[k] <= Worth(s, from, end, b)
    BY <1>5, <2>1, <2>2, <2>3, WorthIs
  <2>5. QED
    BY <2>4
<1> HIDE DEF w, d
<1>9. /\ f \in [0 .. n -> Nat] /\ f[0] = 0
      /\ \A k \in 1 .. n : f[k] = f[k - 1] * b + d[k]
  BY <1>7 DEF IsNumber
<1> DEFINE dig(i) == Digits[s[i]]
           Rec(g) == g = [i \in cur .. end |->
                       IF i = cur THEN 0 ELSE g[i - 1] * b + IF neg THEN -dig(i - 1) ELSE dig(i - 1)]
           acc == CHOOSE g : Rec(g)
           signed == [x \in Nat |-> IF neg THEN -x ELSE x]
<1>10. Convert(s, cur, b, neg) =
         IF \E i \in cur .. end - 1 : OutOfRange(acc[i], dig(i), b, neg)
         THEN [value |-> IF neg THEN LongMin ELSE LongMax, errno |-> "ERANGE", end |-> end]
         ELSE [value |-> acc[end], errno |-> "none", end |-> end]
  BY <1>4 DEF Convert
<1>11. f[cur - from] = 0 /\ cur - from \in 0 .. n
  <2>1. CASE cur = from
    BY <1>5, <1>9, <2>1
  <2>2. CASE cur = from + 1 /\ Digits[s[from]] = 0
    <3>1. 1 \in 1 .. n /\ from + (1 - 1) = from /\ cur - from = 1 /\ 1 - 1 = 0
      BY <1>5, <2>2
    <3>2. d[1] = 0 /\ f[1] = f[0] * b + d[1]
      BY <1>6, <1>9, <2>2, <3>1
    <3>3. QED
      BY <1>9, <3>1, <3>2
  <2>3. QED
    BY <2>1, <2>2 DEF StartsAt
<1>12. ASSUME NEW i \in cur .. end, i # cur
       PROVE  /\ i - 1 \in cur .. end - 1 /\ i - from \in 1 .. n /\ (i - from) - 1 = (i - 1) - from
              /\ dig(i - 1) = d[i - from] /\ d[i - from] \in Nat
              /\ f[(i - 1) - from] \in Nat
              /\ f[i - from] = f[(i - 1) - from] * b + d[i - from]
  <2>1. /\ i - 1 \in cur .. end - 1 /\ i - from \in 1 .. n /\ (i - from) - 1 = (i - 1) - from
        /\ from + ((i - from) - 1) = i - 1 /\ (i - 1) - from \in 0 .. n
    BY <1>1, <1>5, <1>12
  <2> HIDE DEF n
  <2>2. QED
    BY <1>6, <1>9, <2>1
<1>b. /\ neg => \A x \in Nat : signed[x] = -x
      /\ ~neg => \A x \in Nat : signed[x] = x
  OBVIOUS
<1>13. \A x \in Nat : \A y \in Nat : signed[x] * b + signed[y] = signed[x * b + y]
  <2>1. \A x, y \in Nat : (-x) * b + (-y) = -(x * b + y)
    BY Z3
  <2>2. QED
    BY <2>1
<1>14. \E g : Rec(g)
  <2> DEFINE h == [i \in cur .. end |-> signed[f[i - from]]]
  <2>1. ASSUME NEW i \in cur .. end
        PROVE  h[i] = IF i = cur THEN 0 ELSE h[i - 1] * b + IF neg THEN -dig(i - 1) ELSE dig(i - 1)
    <3>1. CASE i = cur
      BY <1>11, <3>1
    <3>2. CASE i # cur
      <4>1. i - 1 \in cur .. end
        <5>1. i - 1 \in cur .. end - 1
          BY <1>12, <3>2
        <5>2. end \in Int
          BY <1>5
        <5> HIDE DEF end
        <5>3. QED
          BY <5>1, <5>2
      <4>2. h[i] = signed[f[i - from]] /\ h[i - 1] = signed[f[(i - 1) - from]]
        BY <4>1
      <4>3. (IF neg THEN -dig(i - 1) ELSE dig(i - 1)) = signed[d[i - from]]
        BY <1>12, <3>2
      <4> HIDE DEF h, signed, dig
      <4>4. signed[f[(i - 1) - from]] * b + signed[d[i - from]] = signed[f[(i - 1) - from] * b + d[i - from]]
        BY <1>12, <1>13, <3>2
      <4>5. f[i - from] = f[(i - 1) - from] * b + d[i - from]
        BY <1>12, <3>2
      <4>6. QED
        BY <3>2, <4>2, <4>3, <4>4, <4>5
    <3>3. QED
      BY <3>1, <3>2
  <2>2. Rec(h)
    <3>1. h = [i \in cur .. end |-> h[i]]
      OBVIOUS
    <3> HIDE DEF h
    <3>2. h = [i \in cur .. end |->
                 IF i = cur THEN 0 ELSE h[i - 1] * b + IF neg THEN -dig(i - 1) ELSE dig(i - 1)]
      <4> HIDE DEF dig
      <4>1. QED
        BY <2>1, <3>1
    <3>3. QED
      BY <3>2
  <2> HIDE DEF Rec, h
  <2>3. QED
    BY <2>2
<1>15. Rec(acc)
  <2> HIDE DEF Rec
  <2>1. QED
    BY <1>14
<1>16. \A i \in cur .. end : acc[i] = IF i = cur THEN 0 ELSE acc[i - 1] * b + IF neg THEN -dig(i - 1) ELSE dig(i - 1)
  <2> HIDE DEF acc
  <2>1. QED
    BY <1>15
<1> HIDE DEF acc, Rec
<1>17. \A i \in cur .. end : acc[i] = signed[f[i - from]]
  <2> DEFINE Q == {k \in Nat : cur + k <= end => acc[cur + k] = signed[f[cur + k - from]]}
  <2>0. cur + 0 = cur /\ cur \in cur .. end
    BY <1>1, <1>5
  <2>z. signed[0] = 0
    <3> HIDE DEF signed
    <3>1. CASE neg
      BY <1>b, <3>1
    <3>2. CASE ~neg
      BY <1>b, <3>2
    <3>3. QED
      BY <3>1, <3>2
  <2> HIDE DEF signed
  <2>1. 0 \in Q
    BY <1>11, <1>16, <2>0, <2>z
  <2>2. ASSUME NEW k \in Nat, k \in Q PROVE k + 1 \in Q
    <3> DEFINE i == cur + (k + 1)
    <3>1. SUFFICES ASSUME i <= end PROVE acc[i] = signed[f[i - from]]
      BY <1>1, <1>5
    <3>2. i \in cur .. end /\ i # cur /\ i - 1 = cur + k /\ cur + k <= end
      BY <1>1, <1>5, <3>1
    <3>3. acc[i - 1] = signed[f[(i - 1) - from]]
      BY <1>1, <1>5, <2>2, <3>2
    <3> HIDE DEF i, Q
    <3>4. acc[i] = acc[i - 1] * b + IF neg THEN -dig(i - 1) ELSE dig(i - 1)
      BY <1>16, <3>2
    <3>5. (IF neg THEN -dig(i - 1) ELSE dig(i - 1)) = signed[d[i - from]]
      BY <1>12, <3>2 DEF signed
    <3> HIDE DEF signed, dig
    <3>6. signed[f[(i - 1) - from]] * b + signed[d[i - from]] = signed[f[(i - 1) - from] * b + d[i - from]]
      BY <1>12, <1>13, <3>2
    <3>7. f[i - from] = f[(i - 1) - from] * b + d[i - from]
      BY <1>12, <3>2
    <3>8. QED
      BY <3>3, <3>4, <3>5, <3>6, <3>7
  <2> HIDE DEF Q
  <2>3. \A k \in Nat : k \in Q
    BY <2>1, <2>2, Induction
  <2>4. ASSUME NEW i \in cur .. end PROVE acc[i] = signed[f[i - from]]
    <3>1. i - cur \in Nat /\ cur + (i - cur) = i /\ i <= end
      BY <1>1, <1>5
    <3>2. i - cur \in Q
      BY <2>3, <3>1
    <3> HIDE DEF signed
    <3>3. QED
      BY <1>1, <3>1, <3>2 DEF Q
  <2>5. QED
    BY <2>4
<1>18. LongMax \in Nat /\ L \in Nat /\ LongMin = -LongMax - 1 /\ L \div b \in Nat
  <2>1. LongMax \in Nat
    BY StrtolAssumption, Zenon
  <2>2. L \in Nat /\ b \in Nat \ {0}
    BY <2>1
  <2> HIDE DEF L
  <2>3. QED
    BY <2>1, <2>2, Division DEF LongMin
<1>19. ASSUME NEW i \in cur .. end - 1
       PROVE  /\ f[i - from] \in Nat /\ dig(i) \in Nat /\ dig(i) < b
              /\ f[i + 1 - from] = f[i - from] * b + dig(i)
              /\ OutOfRange(acc[i], dig(i), b, neg) <=> f[i - from] > L \div b - dig(i)
  <2>1. i + 1 \in cur .. end /\ i + 1 # cur /\ (i + 1) - 1 = i /\ i \in cur .. end /\ i \in from .. end - 1
    BY <1>1, <1>5
  <2>2. f[i - from] \in Nat /\ f[i + 1 - from] = f[i - from] * b + dig(i)
    BY <1>12, <2>1
  <2>3. dig(i) \in Nat /\ dig(i) < b
    BY <1>5, <2>1
  <2>4. acc[i] = signed[f[i - from]]
    BY <1>17, <2>1
  <2>5. L \div b \in Nat
    BY <1>18
  <2> HIDE DEF dig
  <2>6. CASE neg
    <3>1. /\ OutOfRange(acc[i], dig(i), b, neg) <=> acc[i] < -(L \div b) + dig(i)
          /\ acc[i] = -f[i - from]
      <4>1. L = LongMax + 1
        BY <2>6
      <4>2. acc[i] = -f[i - from]
        <5> HIDE DEF signed
        <5>1. QED
          BY <1>b, <2>2, <2>4, <2>6
      <4> HIDE DEF L
      <4>3. OutOfRange(acc[i], dig(i), b, neg) <=> acc[i] < -(L \div b) + dig(i)
        BY <2>6, <4>1 DEF OutOfRange
      <4>4. QED
        BY <4>2, <4>3
    <3> HIDE DEF L
    <3>2. QED
      BY <2>2, <2>3, <2>5, <3>1
  <2>7. CASE ~neg
    <3>1. /\ OutOfRange(acc[i], dig(i), b, neg) <=> acc[i] > (L \div b) - dig(i)
          /\ acc[i] = f[i - from]
      <4>1. L = LongMax
        BY <2>7
      <4>2. acc[i] = f[i - from]
        <5> HIDE DEF signed
        <5>1. QED
          BY <1>b, <2>2, <2>4, <2>7
      <4> HIDE DEF L
      <4>3. OutOfRange(acc[i], dig(i), b, neg) <=> acc[i] > (L \div b) - dig(i)
        BY <2>7, <4>1 DEF OutOfRange
      <4>4. QED
        BY <4>2, <4>3
    <3> HIDE DEF L
    <3>2. QED
      BY <2>2, <2>3, <2>5, <3>1
  <2>8. QED
    BY <2>6, <2>7
<1> DEFINE out == \E i \in cur .. end - 1 : OutOfRange(acc[i], dig(i), b, neg)
<1>20. ASSUME out PROVE w > L - b * b
  <2>1. PICK i \in cur .. end - 1 : OutOfRange(acc[i], dig(i), b, neg)
    BY <1>20
  <2>2. /\ f[i - from] \in Nat /\ dig(i) \in Nat /\ dig(i) < b
        /\ f[i + 1 - from] = f[i - from] * b + dig(i)
        /\ f[i - from] > L \div b - dig(i)
    BY <1>19, <2>1
  <2>3. i + 1 - from \in 0 .. n
    BY <1>1, <1>5
  <2>4. f[i + 1 - from] <= w
    BY <1>8, <2>3
  <2> HIDE DEF dig, L, n
  <2>5. f[i - from] * b + dig(i) > L - b * b
    BY <1>18, <2>2, OneMoreDigit
  <2>6. f[i + 1 - from] \in Nat /\ w \in Nat /\ b * b \in Nat
    <3>1. n \in 0 .. n
      BY <1>5
    <3>2. \A x \in Nat : x * x \in Nat
      BY Z3
    <3>3. QED
      BY <1>8, <1>9, <2>3, <3>1, <3>2
  <2>7. QED
    BY <1>18, <2>2, <2>4, <2>5, <2>6
<1>21. ASSUME ~out PROVE w <= L
  <2>1. CASE cur = end
    BY <1>8, <1>11, <1>18, <2>1
  <2>2. CASE cur < end
    <3> DEFINE i == end - 1
    <3>1. i \in cur .. end - 1 /\ i + 1 - from = n
      BY <1>1, <1>5, <2>2
    <3> HIDE DEF i
    <3>2. ~OutOfRange(acc[i], dig(i), b, neg)
      BY <1>21, <3>1
    <3>3. /\ f[i - from] \in Nat /\ dig(i) \in Nat /\ dig(i) < b
          /\ f[n] = f[i - from] * b + dig(i)
          /\ ~(f[i - from] > L \div b - dig(i))
      BY <1>19, <3>1, <3>2
    <3> HIDE DEF dig, L, n
    <3>4. L \div b \in Nat
      BY <1>18
    <3>5. f[i - from] <= L \div b - dig(i)
      BY <3>3, <3>4
    <3>6. f[i - from] * b + dig(i) <= L
      BY <1>18, <3>3, <3>5, OneMoreDigit
    <3> HIDE DEF w
    <3>7. QED
      BY <1>8, <3>3, <3>6
  <2>3. QED
    BY <1>1, <1>5, <2>1, <2>2
<1>22. w \in Nat /\ b * b \in Nat
  <2>1. n \in 0 .. n
    BY <1>5
  <2>2. \A x \in Nat : x * x \in Nat
    BY Z3
  <2> HIDE DEF n
  <2>3. QED
    BY <1>8, <1>9, <2>1, <2>2
<1>23. acc[end] = signed[w]
  <2>1. end \in cur .. end
    BY <1>1, <1>5
  <2>2. QED
    BY <1>8, <1>17, <2>1
<1> DEFINE c == Convert(s, cur, b, neg)
<1>24. CASE out
  <2>1. /\ c.end = end /\ c.errno = "ERANGE"
        /\ c.value = IF neg THEN LongMin ELSE LongMax
    BY <1>10, <1>24
  <2> HIDE DEF c, out
  <2>2. Gives(c, s, from, b, neg)
    BY <1>18, <1>20, <1>22, <1>24, <2>1 DEF Gives, w, end
  <2>3. QED
    BY <2>2 DEF c
<1>25. CASE ~out
  <2>1. c.end = end /\ c.errno = "none" /\ c.value = signed[w]
    BY <1>10, <1>23, <1>25
  <2> HIDE DEF c, out
  <2>2. Gives(c, s, from, b, neg)
    BY <1>18, <1>21, <1>22, <1>25, <2>1 DEF Gives, w, end
  <2>3. QED
    BY <2>2 DEF c
<1>26. QED
  BY <1>24, <1>25

(* A 0 with no digit behind it is a number of its own.                     *)
LEMMA LoneZero ==
  ASSUME NEW s \in AnyText, NEW cur \in Nat, cur > 0, cur <= Len(s), s[cur] = "0",
         NEW b \in Nat, b > 1, At(s, cur + 1) \notin DigitsIn(b), NEW neg \in BOOLEAN
  PROVE  Convert(s, cur, b, neg) = [value |-> 0, errno |-> "none", end |-> cur + 1]
<1> DEFINE end == Behind(s, cur, DigitsIn(b))
           dig(i) == Digits[s[i]]
           Rec(g) == g = [i \in cur .. end |->
                       IF i = cur THEN 0 ELSE g[i - 1] * b + IF neg THEN -dig(i - 1) ELSE dig(i - 1)]
           acc == CHOOSE g : Rec(g)
<1>1. Len(s) \in Nat /\ "NUL" \notin DigitsIn(b)
  BY TextAt, DigitFacts
<1>2. "0" \in DigitsIn(b) /\ Digits["0"] = 0
  <2>1. "0" \in DOMAIN Digits /\ Digits["0"] = 0
    BY StrtolAssumption, Zenon
  <2>2. QED
    BY <2>1 DEF DigitsIn
<1>3. IsBehind(end, s, cur, DigitsIn(b))
  BY <1>1, BehindIs
<1>4. IsBehind(cur + 1, s, cur, DigitsIn(b))
  <2>1. cur + 1 \in cur .. Len(s) + 1 /\ \A n \in cur .. (cur + 1) - 1 : n = cur
    BY <1>1
  <2>2. QED
    BY <1>2, <2>1 DEF IsBehind
<1>5. end = cur + 1
  <2> HIDE DEF end
  <2>1. QED
    BY <1>3, <1>4, BehindOnly
<1>6. Convert(s, cur, b, neg) =
         IF \E i \in cur .. end - 1 : OutOfRange(acc[i], dig(i), b, neg)
         THEN [value |-> IF neg THEN LongMin ELSE LongMax, errno |-> "ERANGE", end |-> end]
         ELSE [value |-> acc[end], errno |-> "none", end |-> end]
  BY DEF Convert
<1> HIDE DEF end
<1>7. dig(cur) = 0
  BY <1>2
<1> HIDE DEF dig
<1>8. \A i \in cur .. end : i = cur \/ (i = cur + 1 /\ i - 1 = cur)
  BY <1>5
<1>0. 0 * b + (IF neg THEN -0 ELSE 0) = 0
  <2>1. CASE neg
    BY <2>1
  <2>2. CASE ~neg
    BY <2>2
  <2>3. QED
    BY <2>1, <2>2
<1>9. \E g : Rec(g)
  <2> DEFINE h == [i \in cur .. end |-> 0]
  <2>1. ASSUME NEW i \in cur .. end
        PROVE  h[i] = IF i = cur THEN 0 ELSE h[i - 1] * b + IF neg THEN -dig(i - 1) ELSE dig(i - 1)
    <3>1. CASE i = cur
      BY <3>1
    <3>2. CASE i # cur
      <4>1. i - 1 = cur /\ cur \in cur .. end
        BY <1>5, <1>8, <3>2
      <4>2. h[i] = 0 /\ h[i - 1] = 0
        BY <4>1
      <4> HIDE DEF h
      <4>3. QED
        BY <1>0, <1>7, <3>2, <4>1, <4>2
    <3>3. QED
      BY <3>1, <3>2
  <2>2. Rec(h)
    <3>1. h = [i \in cur .. end |-> h[i]]
      OBVIOUS
    <3> HIDE DEF h
    <3>2. h = [i \in cur .. end |->
                 IF i = cur THEN 0 ELSE h[i - 1] * b + IF neg THEN -dig(i - 1) ELSE dig(i - 1)]
      <4> HIDE DEF dig
      <4>1. QED
        BY <2>1, <3>1
    <3>3. QED
      BY <3>2
  <2> HIDE DEF Rec, h
  <2>3. QED
    BY <2>2
<1>10. Rec(acc)
  <2> HIDE DEF Rec
  <2>1. QED
    BY <1>9
<1>11. \A i \in cur .. end : acc[i] = IF i = cur THEN 0 ELSE acc[i - 1] * b + IF neg THEN -dig(i - 1) ELSE dig(i - 1)
  <2> HIDE DEF acc
  <2>1. QED
    BY <1>10
<1> HIDE DEF acc, Rec
<1>12. acc[cur] = 0 /\ acc[end] = 0
  <2>1. cur \in cur .. end /\ end \in cur .. end /\ end # cur /\ end - 1 = cur
    BY <1>5
  <2>2. acc[cur] = 0
    BY <1>11, <2>1
  <2>3. acc[end] = acc[cur] * b + IF neg THEN -dig(cur) ELSE dig(cur)
    BY <1>11, <2>1
  <2>4. QED
    BY <1>0, <1>7, <2>2, <2>3
<1>13. ~OutOfRange(0, 0, b, neg)
  <2>1. LongMax \in Nat
    BY StrtolAssumption, Zenon
  <2>2. b \in Nat \ {0} /\ LongMax + 1 \in Nat
    BY <2>1
  <2>3. LongMax \div b \in Nat /\ (LongMax + 1) \div b \in Nat
    BY <2>1, <2>2, Division
  <2>4. QED
    BY <2>3 DEF OutOfRange
<1>14. ~\E i \in cur .. end - 1 : OutOfRange(acc[i], dig(i), b, neg)
  <2>1. \A i \in cur .. end - 1 : i = cur
    BY <1>5
  <2>2. QED
    BY <1>7, <1>12, <1>13, <2>1
<1>15. QED
  BY <1>5, <1>6, <1>12, <1>14

(* Where the digits start lies inside the text, or right behind it.        *)
LEMMA StartInText ==
  ASSUME NEW s \in AnyText
  PROVE  StartAt(s) \in Nat /\ StartAt(s) > 0 /\ StartAt(s) <= Len(s) + 1 /\ Negative(s) \in BOOLEAN
<1>1. Len(s) \in Nat /\ "NUL" \notin {" "} /\ 1 <= Len(s) + 1 /\ 1 \in Nat /\ 1 > 0
  BY TextAt
<1>2. IsBehind(SignAt(s), s, 1, {" "})
  BY <1>1, BehindIs DEF SignAt
<1>3. SignAt(s) \in 1 .. Len(s) + 1
  BY <1>2 DEF IsBehind
<1>4. Negative(s) => SignAt(s) <= Len(s)
  <2>1. At(s, Len(s) + 1) = "NUL"
    BY <1>1, TextAt
  <2>2. QED
    BY <1>1, <1>3, <2>1 DEF Negative
<1>5. QED
  BY <1>1, <1>3, <1>4 DEF StartAt, Negative

ValidBase(base) == ~(base > 36 \/ base < 0 \/ base = 1)

(* Where no digit starts, there is a 0 of no digits.                       *)
LEMMA NoDigit ==
  ASSUME NEW s \in AnyText, NEW cur \in Nat, cur > 0, cur <= Len(s) + 1,
         NEW b \in Nat, b > 1, At(s, cur) \notin DigitsIn(b), NEW neg \in BOOLEAN
  PROVE  Convert(s, cur, b, neg) = ZeroUpTo(cur)
<1> DEFINE end == Behind(s, cur, DigitsIn(b))
           dig(i) == Digits[s[i]]
           Rec(g) == g = [i \in cur .. end |->
                       IF i = cur THEN 0 ELSE g[i - 1] * b + IF neg THEN -dig(i - 1) ELSE dig(i - 1)]
           acc == CHOOSE g : Rec(g)
<1>1. Len(s) \in Nat /\ "NUL" \notin DigitsIn(b)
  BY TextAt, DigitFacts
<1>2. IsBehind(end, s, cur, DigitsIn(b))
  BY <1>1, BehindIs
<1>3. IsBehind(cur, s, cur, DigitsIn(b))
  BY <1>1 DEF IsBehind
<1>4. end = cur
  <2> HIDE DEF end
  <2>1. QED
    BY <1>2, <1>3, BehindOnly
<1>5. Convert(s, cur, b, neg) =
         IF \E i \in cur .. end - 1 : OutOfRange(acc[i], dig(i), b, neg)
         THEN [value |-> IF neg THEN LongMin ELSE LongMax, errno |-> "ERANGE", end |-> end]
         ELSE [value |-> acc[end], errno |-> "none", end |-> end]
  BY DEF Convert
<1> HIDE DEF end
<1>6. \A i \in cur .. end : i = cur
  BY <1>4
<1>7. \E g : Rec(g)
  <2> DEFINE h == [i \in cur .. end |-> 0]
  <2>1. h = [i \in cur .. end |->
               IF i = cur THEN 0 ELSE h[i - 1] * b + IF neg THEN -dig(i - 1) ELSE dig(i - 1)]
    <3> HIDE DEF dig
    <3>1. QED
      BY <1>6
  <2> HIDE DEF h
  <2>2. Rec(h)
    BY <2>1
  <2> HIDE DEF Rec
  <2>3. QED
    BY <2>2
<1>8. Rec(acc)
  <2> HIDE DEF Rec
  <2>1. QED
    BY <1>7
<1> HIDE DEF acc
<1>9. acc[end] = 0
  <2>1. end \in cur .. end
    BY <1>4
  <2>2. QED
    BY <1>4, <1>8, <2>1
<1>10. cur .. end - 1 = {}
  BY <1>4
<1> HIDE DEF Rec
<1>11. QED
  BY <1>4, <1>5, <1>9, <1>10 DEF ZeroUpTo

(* The texts of which strtol makes a 0 where C asks for more, or for       *)
(* another end.                                                            *)
LEMMA StrtolStops ==
  ASSUME NEW s \in AnyText, NEW base \in Int, ValidBase(base)
  PROVE  /\ PlusSign(s) => strtol(s, base) = ZeroUpTo(SignAt(s))
         /\ CapitalPrefix(s, base) => strtol(s, base) = ZeroUpTo(StartAt(s) + 1)
         /\ FalsePrefix(s, base) => strtol(s, base) = ZeroUpTo(StartAt(s) + 2)
<1> DEFINE cur == StartAt(s)
           neg == Negative(s)
           ten == IF base = 0 THEN 10 ELSE base
<1>1. /\ cur \in Nat /\ cur > 0 /\ cur <= Len(s) + 1 /\ neg \in BOOLEAN /\ Len(s) \in Nat
      /\ cur + 1 \in Nat /\ cur + 2 \in Nat
  BY StartInText, TextAt
<1>2. /\ "x" \notin DigitsIn(16) /\ "X" \notin DigitsIn(16) /\ "X" \notin DigitsIn(8)
      /\ ~isalnum("NUL") /\ ~isalnum("+") /\ isalnum("X")
  <2>1. /\ {"0", "x", "X"} \subseteq DOMAIN Digits /\ Digits["x"] = 33 /\ Digits["X"] = 33
        /\ {" ", "-", "+", "NUL"} \cap DOMAIN Digits = {}
    BY StrtolAssumption, Zenon
  <2>2. "+" \notin DOMAIN Digits /\ "NUL" \notin DOMAIN Digits /\ "X" \in DOMAIN Digits
    BY <2>1
  <2>3. "x" \notin DigitsIn(16) /\ "X" \notin DigitsIn(16) /\ "X" \notin DigitsIn(8)
    <3>1. Digits["x"] = 33 /\ Digits["X"] = 33
      BY <2>1
    <3>2. \A c \in {"x", "X"} : ~(Digits[c] < 16) /\ ~(Digits[c] < 8)
      BY <3>1
    <3>3. QED
      BY <3>2 DEF DigitsIn
  <2>4. QED
    BY <2>2, <2>3 DEF isalnum
<1>3. \A i \in Nat : isalnum(At(s, i)) => i <= Len(s)
  BY <1>1, <1>2, TextAt
<1>4. ten \in Nat /\ ten > 1
  BY DEF ValidBase
<1>5. strtol(s, base) = Convert(s, Prefix(s, base).cur, Prefix(s, base).base, neg)
  BY DEF strtol, ValidBase
<1>6. ASSUME PlusSign(s) PROVE strtol(s, base) = ZeroUpTo(SignAt(s))
  <2>1. cur = SignAt(s) /\ At(s, cur) = "+"
    <3>1. "+" # "-" /\ SignAt(s) \in Nat
      <4>1. "NUL" \notin {" "} /\ 1 <= Len(s) + 1 /\ 1 \in Nat /\ 1 > 0
        BY <1>1
      <4>2. IsBehind(SignAt(s), s, 1, {" "})
        BY <4>1, BehindIs DEF SignAt
      <4>3. SignAt(s) \in 1 .. Len(s) + 1
        BY <4>2 DEF IsBehind
      <4>4. SignAt(s) \in Nat
        BY <1>1, <4>3
      <4>5. QED
        BY <4>4
    <3>2. QED
      BY <1>6, <3>1 DEF PlusSign, StartAt, Negative
  <2> HIDE DEF cur, neg
  <2>2. Prefix(s, base) = [base |-> ten, cur |-> cur]
    BY <2>1 DEF Prefix, cur
  <2>3. "+" \notin DigitsIn(ten)
    BY <1>2 DEF DigitsIn, isalnum
  <2> HIDE DEF ten
  <2>4. Convert(s, cur, ten, neg) = ZeroUpTo(cur)
    BY <1>1, <1>4, <2>1, <2>3, NoDigit
  <2>5. QED
    BY <1>5, <2>1, <2>2, <2>4
<1>7. ASSUME CapitalPrefix(s, base) PROVE strtol(s, base) = ZeroUpTo(cur + 1)
  <2>1. base \in {0, 16} /\ At(s, cur) = "0" /\ At(s, cur + 1) = "X"
    BY <1>7 DEF CapitalPrefix, Prefixed
  <2>2. cur + 1 <= Len(s)
    BY <1>1, <1>2, <1>3, <2>1
  <2>3. s[cur] = "0"
    BY <1>1, <2>1, <2>2, TextAt
  <2>4. Prefix(s, base) = IF base = 0 THEN [base |-> 8, cur |-> cur + 1] ELSE [base |-> 16, cur |-> cur]
    <3> HIDE DEF cur
    <3>1. QED
      BY <1>2, <2>1 DEF Prefix, cur
  <2> HIDE DEF cur, neg
  <2>5. CASE base = 0
    <3>1. Convert(s, cur + 1, 8, neg) = ZeroUpTo(cur + 1)
      BY <1>1, <1>2, <2>1, <2>2, NoDigit
    <3>2. QED
      BY <1>5, <2>4, <2>5, <3>1
  <2>6. CASE base = 16
    <3>1. cur <= Len(s) /\ At(s, cur + 1) \notin DigitsIn(16)
      BY <1>1, <1>2, <2>1, <2>2
    <3>2. Convert(s, cur, 16, neg) = ZeroUpTo(cur + 1)
      BY <1>1, <2>3, <3>1, LoneZero DEF ZeroUpTo
    <3>3. QED
      BY <1>5, <2>4, <2>6, <3>2
  <2>7. QED
    BY <2>1, <2>5, <2>6
<1>8. ASSUME FalsePrefix(s, base) PROVE strtol(s, base) = ZeroUpTo(cur + 2)
  <2>1. /\ base \in {0, 16} /\ At(s, cur) = "0" /\ At(s, cur + 1) = "x"
        /\ isalnum(At(s, cur + 2)) /\ ~DIG_IN_BASE(At(s, cur + 2), 16)
    BY <1>8 DEF FalsePrefix, Prefixed
  <2>2. cur + 2 <= Len(s) + 1 /\ cur + 2 > 0
    BY <1>1, <1>3, <2>1
  <2>3. At(s, cur + 2) \notin DigitsIn(16)
    BY <2>1, DigitFacts
  <2>4. Prefix(s, base) = [base |-> 16, cur |-> cur + 2]
    <3> HIDE DEF cur
    <3>1. QED
      BY <2>1 DEF Prefix, cur
  <2> HIDE DEF cur, neg
  <2>5. Convert(s, cur + 2, 16, neg) = ZeroUpTo(cur + 2)
    BY <1>1, <2>2, <2>3, NoDigit
  <2>6. QED
    BY <1>5, <2>4, <2>5
<1>9. QED
  BY <1>6, <1>7, <1>8

(* strtol converts the digits that the standard names, in their base, and  *)
(* ends where they should start if there are none.                         *)
LEMMA StrtolGives ==
  ASSUME NEW s \in AnyText, NEW base \in Int, ValidBase(base),
         ~PlusSign(s), ~CapitalPrefix(s, base), ~FalsePrefix(s, base)
  PROVE  /\ Gives(strtol(s, base), s, Expected(s, base).from, Expected(s, base).base, Negative(s))
         /\ Expected(s, base).base \in Nat
         /\ Expected(s, base).from = Expected(s, base).end => strtol(s, base) = ZeroUpTo(StartAt(s))
<1> DEFINE cur == StartAt(s)
           zero == At(s, cur) = "0"
           ex == At(s, cur + 1) = "x"
           h == isalnum(At(s, cur + 2))
           e == Expected(s, base)
           neg == Negative(s)
<1>1. /\ cur \in Nat /\ cur > 0 /\ cur <= Len(s) + 1 /\ neg \in BOOLEAN /\ Len(s) \in Nat
      /\ cur + 1 \in Nat /\ cur + 2 \in Nat
  BY StartInText, TextAt
<1>2. \A c : DIG_IN_BASE(c, 16) => isalnum(c)
  BY DEF DIG_IN_BASE
<1>3. ~isalnum("NUL") /\ isalnum("0") /\ isalnum("x") /\ Digits["0"] = 0 /\ Digits["x"] = 33
  BY StrtolAssumption, Zenon DEF isalnum
<1>4. \A i \in Nat : i > Len(s) => At(s, i) = "NUL"
  BY TextAt
<1>5. \A i \in Nat : isalnum(At(s, i)) => i <= Len(s)
  BY <1>1, <1>3, <1>4
<1> DEFINE hexE == base \in {0, 16} /\ zero /\ ex /\ DIG_IN_BASE(At(s, cur + 2), 16)
           hexC == zero /\ ex /\ base \in {0, 16}
           octal == zero /\ ~hexC /\ base \in {0, 8} /\ isalnum(At(s, cur + 1))
<1>6. /\ e.from = IF hexE THEN cur + 2 ELSE cur
      /\ e.base = IF base # 0 THEN base ELSE IF hexE THEN 16 ELSE IF zero THEN 8 ELSE 10
      /\ e.end = Behind(s, e.from, DigitsIn(e.base))
  <2>1. cur = SignAt(s) + IF At(s, SignAt(s)) \in {"-", "+"} THEN 1 ELSE 0
    BY DEF PlusSign, StartAt, Negative
  <2> DEFINE hexF == base \in {0, 16} /\ zero /\ At(s, cur + 1) \in {"x", "X"} /\ DIG_IN_BASE(At(s, cur + 2), 16)
  <2>2. hexF = hexE
    BY DEF CapitalPrefix, Prefixed
  <2>3. /\ e.from = IF hexF THEN cur + 2 ELSE cur
        /\ e.base = IF base # 0 THEN base ELSE IF hexF THEN 16 ELSE IF zero THEN 8 ELSE 10
        /\ e.end = Behind(s, e.from, DigitsIn(e.base))
    BY <2>1 DEF Expected
  <2> HIDE DEF hexF, hexE, e
  <2>4. QED
    BY <2>2, <2>3
<1>7. Prefix(s, base) = IF hexC /\ h THEN [base |-> 16, cur |-> cur + 2]
                        ELSE IF octal THEN [base |-> 8, cur |-> cur + 1]
                        ELSE [base |-> IF base = 0 THEN 10 ELSE base, cur |-> cur]
  BY DEF Prefix
<1>8. strtol(s, base) = Convert(s, Prefix(s, base).cur, Prefix(s, base).base, neg)
  BY DEF strtol, ValidBase
<1>9. hexC /\ h => hexE
  BY DEF FalsePrefix, Prefixed
<1>10. hexE => hexC /\ h
  BY <1>2
<1>11. base # 0 => base \in Nat /\ base > 1
  BY DEF ValidBase
<1>z. zero => cur <= Len(s) /\ s[cur] = "0"
  BY <1>1, <1>3, <1>5, TextAt
<1> DEFINE Right == Gives(strtol(s, base), s, e.from, e.base, neg) /\ e.base \in Nat
<1> HIDE DEF e, cur
<1>12. ASSUME hexC /\ h PROVE Right
  <2>1. hexE
    BY <1>9, <1>12
  <2>2. e.from = cur + 2 /\ e.base = 16 /\ strtol(s, base) = Convert(s, cur + 2, 16, neg)
    BY <1>6, <1>7, <1>8, <1>12, <2>1
  <2>3. StartsAt(cur + 2, s, cur + 2, 16)
    BY <1>1, <1>5, <1>12 DEF StartsAt
  <2>4. Gives(Convert(s, cur + 2, 16, neg), s, cur + 2, 16, neg)
    BY <1>1, <2>3, ConvertGives
  <2>5. QED
    BY <2>2, <2>4 DEF e
<1>13. ASSUME ~(hexC /\ h) /\ octal PROVE Right
  <2>1. ~hexE
    BY <1>10, <1>13
  <2>2. e.from = cur /\ e.base = 8 /\ strtol(s, base) = Convert(s, cur + 1, 8, neg)
    BY <1>6, <1>7, <1>8, <1>13, <2>1
  <2>3. StartsAt(cur + 1, s, cur, 8)
    <3>1. "0" \in DigitsIn(8)
      BY <1>3 DEF DigitsIn, isalnum
    <3>2. QED
      BY <1>1, <1>3, <1>z, <1>13, <3>1 DEF StartsAt
  <2>4. Gives(Convert(s, cur + 1, 8, neg), s, cur, 8, neg)
    BY <1>1, <2>3, ConvertGives
  <2>5. QED
    BY <2>2, <2>4 DEF e
<1>14. ASSUME NEW b \in Nat, b > 1
       PROVE  Gives(Convert(s, cur, b, neg), s, cur, b, neg)
  <2>1. StartsAt(cur, s, cur, b)
    BY <1>1 DEF StartsAt
  <2> HIDE DEF neg
  <2>2. QED
    BY <1>1, <1>14, <2>1, ConvertGives
<1>15. ASSUME ~(hexC /\ h) /\ ~octal /\ ~(base = 0 /\ zero) PROVE Right
  <2>1. ~hexE
    BY <1>10, <1>15
  <2> DEFINE b == IF base = 0 THEN 10 ELSE base
  <2>2. e.from = cur /\ e.base = b /\ strtol(s, base) = Convert(s, cur, b, neg)
    BY <1>6, <1>7, <1>8, <1>15, <2>1
  <2>3. b \in Nat /\ b > 1
    BY <1>11
  <2> HIDE DEF b
  <2>4. Gives(Convert(s, cur, b, neg), s, cur, b, neg)
    BY <1>14, <2>3
  <2>5. QED
    BY <2>2, <2>3, <2>4 DEF e
<1>16. ASSUME ~(hexC /\ h) /\ ~octal /\ base = 0 /\ zero PROVE Right
  <2>1. ~hexE
    BY <1>10, <1>16
  <2>2. e.from = cur /\ e.base = 8 /\ strtol(s, base) = Convert(s, cur, 10, neg)
    BY <1>6, <1>7, <1>8, <1>16, <2>1
  <2>3. At(s, cur + 1) = "x" \/ ~isalnum(At(s, cur + 1))
    BY <1>16
  <2>4. \A b \in {8, 10} : At(s, cur + 1) \notin DigitsIn(b)
    BY <1>3, <2>3 DEF DigitsIn, isalnum
  <2>5. Convert(s, cur, 10, neg) = Convert(s, cur, 8, neg)
    <3>1. /\ cur \in Nat /\ cur > 0 /\ cur <= Len(s) /\ s[cur] = "0" /\ neg \in BOOLEAN
          /\ At(s, cur + 1) \notin DigitsIn(8) /\ At(s, cur + 1) \notin DigitsIn(10)
      BY <1>1, <1>z, <1>16, <2>4
    <3> HIDE DEF neg
    <3>2. /\ Convert(s, cur, 10, neg) = [value |-> 0, errno |-> "none", end |-> cur + 1]
          /\ Convert(s, cur, 8, neg) = [value |-> 0, errno |-> "none", end |-> cur + 1]
      BY <3>1, LoneZero
    <3>3. QED
      BY <3>2
  <2>6. Gives(Convert(s, cur, 8, neg), s, cur, 8, neg)
    BY <1>14
  <2>7. QED
    BY <2>2, <2>5, <2>6 DEF e
<1>17. Right
  BY <1>12, <1>13, <1>15, <1>16 DEF e
<1>18. ASSUME e.from = e.end PROVE strtol(s, base) = ZeroUpTo(cur)
  <2>1. e.from \in Nat /\ e.from > 0 /\ e.from <= Len(s) + 1 /\ "NUL" \notin DigitsIn(e.base)
    <3>1. hexE => cur + 2 <= Len(s)
      BY <1>1, <1>2, <1>5
    <3>2. QED
      BY <1>1, <1>6, <1>17, <3>1, DigitFacts
  <2>2. At(s, e.from) \notin DigitsIn(e.base)
    <3>1. IsBehind(e.end, s, e.from, DigitsIn(e.base))
      BY <1>6, <2>1, BehindIs
    <3>2. QED
      BY <1>18, <3>1 DEF IsBehind
  <2>3. ~hexE
    <3>1. SUFFICES ASSUME hexE PROVE FALSE
      OBVIOUS
    <3>2. e.from = cur + 2 /\ e.base = 16
      BY <1>6, <3>1
    <3>3. At(s, cur + 2) \in DigitsIn(16)
      BY <3>1, DigitFacts
    <3>4. QED
      BY <2>2, <3>2, <3>3
  <2>4. ~zero
    <3>1. e.from = cur /\ e.base > 1
      BY <1>6, <1>11, <2>3
    <3>2. "0" \in DigitsIn(e.base)
      BY <1>3, <1>17, <3>1 DEF DigitsIn, isalnum
    <3>3. QED
      BY <2>2, <3>1, <3>2
  <2> DEFINE b == IF base = 0 THEN 10 ELSE base
  <2>5. e.from = cur /\ e.base = b /\ strtol(s, base) = Convert(s, cur, b, neg)
    BY <1>6, <1>7, <1>8, <2>3, <2>4
  <2>6. b \in Nat /\ b > 1
    BY <1>11
  <2> HIDE DEF b, neg
  <2>7. Convert(s, cur, b, neg) = ZeroUpTo(cur)
    BY <1>1, <2>2, <2>5, <2>6, NoDigit
  <2>8. QED
    BY <2>5, <2>7
<1>19. QED
  BY <1>17, <1>18 DEF e, cur

(* strtol returns what it should.                                          *)
LEMMA StrtolStep ==
  ASSUME IsCall, CallStrtol
  PROVE  StrtolRight'
<1>1. call.fn = "strtol" /\ call' = call /\ Got' = strtol(call.s, call.base)
  BY DEF CallStrtol, Calls, Got
<1>2. call.s \in AnyText /\ call.base \in Int
  <2>1. call.s \in Texts /\ call.base \in Bases
    BY <1>1, CallHas
  <2>2. QED
    BY <2>1, LibcAssumption DEF AnyText
<1> DEFINE s == call.s
           base == call.base
           c == strtol(s, base)
           e == Expected(s, base)
<1>3. SUFFICES ASSUME base \in {0} \cup 2 .. 36
               PROVE  IF PlusSign(s) THEN c = ZeroUpTo(SignAt(s))
                      ELSE IF CapitalPrefix(s, base) THEN c = ZeroUpTo(StartAt(s) + 1)
                      ELSE IF FalsePrefix(s, base) THEN c = ZeroUpTo(StartAt(s) + 2)
                      ELSE IF e.from = e.end THEN c = ZeroUpTo(StartAt(s))
                      ELSE /\ c.end = e.end
                           /\ c.value \in LongMin .. LongMax
                           /\ c.errno = "none" => c.value = e.value
                           /\ c.errno = "ERANGE" =>
                                IF Negative(s) THEN c.value = LongMin /\ e.value < LongMin + e.base * e.base
                                               ELSE c.value = LongMax /\ e.value > LongMax - e.base * e.base
  BY <1>1 DEF StrtolRight
<1>4. ValidBase(base)
  BY <1>2, <1>3 DEF ValidBase
<1>5. /\ PlusSign(s) => c = ZeroUpTo(SignAt(s))
      /\ CapitalPrefix(s, base) => c = ZeroUpTo(StartAt(s) + 1)
      /\ FalsePrefix(s, base) => c = ZeroUpTo(StartAt(s) + 2)
  BY <1>2, <1>4, StrtolStops
<1>6. ASSUME ~PlusSign(s), ~CapitalPrefix(s, base), ~FalsePrefix(s, base)
      PROVE  /\ Gives(c, s, e.from, e.base, Negative(s))
             /\ e.from = e.end => c = ZeroUpTo(StartAt(s))
  BY <1>2, <1>4, <1>6, StrtolGives
<1>7. /\ e.end = Behind(s, e.from, DigitsIn(e.base))
      /\ e.value = IF Negative(s) THEN -Worth(s, e.from, e.end, e.base)
                                  ELSE Worth(s, e.from, e.end, e.base)
  BY DEF Expected
<1> HIDE DEF c, e, s, base
<1>8. QED
  BY <1>5, <1>6, <1>7 DEF Gives
-----------------------------------------------------------------------------
(* Sorting.  m2 is m with the cells from lo up to hi in another order: cell *)
(* x holds what was in cell p[x], and no cell is held twice.               *)
Memory(room) == [0 .. room - 1 -> Int]
IsOrder(p, m, m2, room, lo, hi) ==
    /\ p \in [0 .. room - 1 -> 0 .. room - 1]
    /\ \A x, y \in 0 .. room - 1 : p[x] = p[y] => x = y
    /\ \A y \in 0 .. room - 1 : \E x \in 0 .. room - 1 : p[x] = y
    /\ \A x \in 0 .. room - 1 : m2[x] = m[p[x]]
    /\ \A x \in 0 .. room - 1 : x \notin lo .. hi - 1 => p[x] = x
Shuffled(m, m2, room, lo, hi) == m2 \in Memory(room) /\ \E p : IsOrder(p, m, m2, room, lo, hi)

(* Memory that is left alone is shuffled.                                  *)
LEMMA ShuffledSelf ==
  ASSUME NEW room, NEW lo, NEW hi, NEW m \in Memory(room)
  PROVE  Shuffled(m, m, room, lo, hi)
<1> DEFINE p == [x \in 0 .. room - 1 |-> x]
<1>1. IsOrder(p, m, m, room, lo, hi)
  BY DEF IsOrder, Memory
<1> HIDE DEF p
<1>2. QED
  BY <1>1 DEF Shuffled

(* Shuffling twice shuffles.                                               *)
LEMMA ShuffledTwice ==
  ASSUME NEW room, NEW lo, NEW hi, NEW m, NEW m1, NEW m2,
         Shuffled(m, m1, room, lo, hi), Shuffled(m1, m2, room, lo, hi)
  PROVE  Shuffled(m, m2, room, lo, hi)
<1> DEFINE A == 0 .. room - 1
           In == lo .. hi - 1
<1>1. PICK p : IsOrder(p, m, m1, room, lo, hi)
  BY DEF Shuffled
<1>2. PICK q : IsOrder(q, m1, m2, room, lo, hi)
  BY DEF Shuffled
<1>3. /\ p \in [A -> A] /\ q \in [A -> A]
      /\ \A x, y \in A : p[x] = p[y] => x = y
      /\ \A x, y \in A : q[x] = q[y] => x = y
      /\ \A y \in A : \E x \in A : p[x] = y
      /\ \A y \in A : \E x \in A : q[x] = y
      /\ \A x \in A : m1[x] = m[p[x]] /\ m2[x] = m1[q[x]]
      /\ \A x \in A : x \notin In => p[x] = x /\ q[x] = x
  BY <1>1, <1>2 DEF IsOrder
<1> HIDE DEF A, In
<1> DEFINE r == [x \in A |-> p[q[x]]]
<1>4. r \in [A -> A] /\ \A x \in A : r[x] = p[q[x]] /\ q[x] \in A
  BY <1>3
<1> HIDE DEF r
<1>5. \A x, y \in A : r[x] = r[y] => x = y
  BY <1>3, <1>4
<1>6. ASSUME NEW y \in A PROVE \E x \in A : r[x] = y
  <2>1. PICK z \in A : p[z] = y
    BY <1>3
  <2>2. PICK x \in A : q[x] = z
    BY <1>3
  <2>3. QED
    BY <1>4, <2>1, <2>2
<1>7. ASSUME NEW x \in A PROVE m2[x] = m[r[x]]
  <2>1. q[x] \in A /\ m2[x] = m1[q[x]]
    BY <1>3
  <2>2. m1[q[x]] = m[p[q[x]]]
    BY <1>3, <2>1
  <2>3. QED
    BY <1>4, <2>1, <2>2
<1>8. \A x \in A : x \notin In => r[x] = x
  BY <1>3, <1>4
<1>9. IsOrder(r, m, m2, room, lo, hi)
  BY <1>4, <1>5, <1>6, <1>7, <1>8 DEF IsOrder, A, In
<1>10. QED
  BY <1>9 DEF Shuffled

(* A shuffle of a range is one of any range around it.                     *)
LEMMA ShuffledWider ==
  ASSUME NEW room, NEW lo \in Int, NEW hi \in Int, NEW m, NEW m2, NEW lo2 \in Int, NEW hi2 \in Int,
         lo2 <= lo, hi <= hi2, Shuffled(m, m2, room, lo, hi)
  PROVE  Shuffled(m, m2, room, lo2, hi2)
<1>1. PICK p : IsOrder(p, m, m2, room, lo, hi)
  BY DEF Shuffled
<1>2. \A x : x \notin lo2 .. hi2 - 1 => x \notin lo .. hi - 1
  OBVIOUS
<1>3. \A x \in 0 .. room - 1 : x \notin lo2 .. hi2 - 1 => p[x] = x
  BY <1>1, <1>2 DEF IsOrder
<1>4. IsOrder(p, m, m2, room, lo2, hi2)
  BY <1>1, <1>3, Zenon DEF IsOrder
<1>5. QED
  BY <1>4 DEF Shuffled

(* Two cells that change places are a shuffle.                             *)
LEMMA SwapShuffles ==
  ASSUME NEW room \in Nat, NEW lo \in Nat, NEW hi \in Nat, hi <= room, NEW m \in Memory(room),
         NEW x \in lo .. hi - 1, NEW y \in lo .. hi - 1
  PROVE  Shuffled(m, [m EXCEPT ![x] = m[y], ![y] = m[x]], room, lo, hi)
<1> DEFINE p == [a \in 0 .. room - 1 |-> IF a = y THEN x ELSE IF a = x THEN y ELSE a]
           s == [m EXCEPT ![x] = m[y], ![y] = m[x]]
<1>1. x \in 0 .. room - 1 /\ y \in 0 .. room - 1
  OBVIOUS
<1>2. s \in Memory(room) /\ \A a \in 0 .. room - 1 : s[a] = m[p[a]]
  BY <1>1 DEF Memory
<1>3. /\ p \in [0 .. room - 1 -> 0 .. room - 1]
      /\ \A a \in 0 .. room - 1 : a \notin lo .. hi - 1 => p[a] = a
      /\ \A a \in 0 .. room - 1 : p[p[a]] = a
  BY <1>1
<1> HIDE DEF p, s
<1>4. IsOrder(p, m, s, room, lo, hi)
  BY <1>2, <1>3 DEF IsOrder
<1>5. QED
  BY <1>2, <1>4 DEF Shuffled, s

(* What a shuffle leaves: the cells outside, and values from inside.       *)
LEMMA ShuffledKeeps ==
  ASSUME NEW room \in Nat, NEW lo, NEW hi, NEW m, NEW m2, Shuffled(m, m2, room, lo, hi)
  PROVE  /\ m2 \in Memory(room)
         /\ \A x \in 0 .. room - 1 : x \notin lo .. hi - 1 => m2[x] = m[x]
         /\ \A x \in 0 .. room - 1 : x \in lo .. hi - 1 =>
              \E y \in 0 .. room - 1 : y \in lo .. hi - 1 /\ m2[x] = m[y]
<1>1. PICK p : IsOrder(p, m, m2, room, lo, hi)
  BY DEF Shuffled
<1>2. /\ p \in [0 .. room - 1 -> 0 .. room - 1]
      /\ \A x, y \in 0 .. room - 1 : p[x] = p[y] => x = y
      /\ \A x \in 0 .. room - 1 : m2[x] = m[p[x]]
      /\ \A x \in 0 .. room - 1 : x \notin lo .. hi - 1 => p[x] = x
  BY <1>1 DEF IsOrder
<1> DEFINE A == 0 .. room - 1  In == lo .. hi - 1
<1> HIDE DEF A, In
<1>3. /\ p \in [A -> A] /\ \A x, y \in A : p[x] = p[y] => x = y
      /\ \A x \in A : m2[x] = m[p[x]]
      /\ \A x \in A : x \notin In => p[x] = x
  BY <1>2 DEF A, In
<1>4. \A x \in A : x \notin In => m2[x] = m[x]
  BY <1>3
<1>5. ASSUME NEW x \in A, x \in In PROVE \E y \in A : y \in In /\ m2[x] = m[y]
  <2>1. p[x] \in A /\ m2[x] = m[p[x]]
    BY <1>3
  <2>2. p[x] \in In
    BY <1>3, <1>5, <2>1
  <2>3. QED
    BY <2>1, <2>2
<1>6. m2 \in Memory(room)
  BY DEF Shuffled
<1>7. QED
  BY <1>4, <1>5, <1>6 DEF A, In

(* A shuffle keeps how often each byte occurs.                             *)
LEMMA ShuffledCounts ==
  ASSUME NEW room \in Nat, NEW lo, NEW hi, NEW m \in Memory(room), NEW m2, NEW b,
         Shuffled(m, m2, room, lo, hi)
  PROVE  CountOf(m2, b) = CountOf(m, b)
<1> DEFINE A == 0 .. room - 1
           S == {a \in A : m2[a] = b}
           T == {a \in A : m[a] = b}
<1>1. PICK p : IsOrder(p, m, m2, room, lo, hi)
  BY DEF Shuffled
<1>2. /\ p \in [A -> A]
      /\ \A x, y \in A : p[x] = p[y] => x = y
      /\ \A y \in A : \E x \in A : p[x] = y
      /\ \A x \in A : m2[x] = m[p[x]]
  BY <1>1 DEF IsOrder
<1>3. DOMAIN m = A /\ DOMAIN m2 = A
  BY DEF Shuffled, Memory
<1>4. IsFiniteSet(S)
  <2>1. IsFiniteSet(A)
    BY FS_Interval
  <2>2. QED
    BY <2>1, FS_Subset
<1> DEFINE f == [a \in S |-> p[a]]
<1> HIDE DEF A
<1>5. /\ f \in [S -> T]
      /\ \A x, y \in S : f[x] = f[y] => x = y
      /\ \A y \in T : \E x \in S : f[x] = y
  BY <1>2
<1> HIDE DEF f, S, T
<1>6. ExistsBijection(S, T)
  BY <1>5 DEF ExistsBijection, Bijection, Injection, Surjection, IsInjective
<1>7. Cardinality(S) = Cardinality(T)
  BY <1>4, <1>6, FS_Bijection
<1>8. QED
  BY <1>3, <1>7 DEF CountOf, S, T

(* memswap only shuffles, also when the two ranges overlap.                *)
LEMMA MemswapShuffles ==
  ASSUME NEW room \in Nat, NEW lo \in Nat, NEW hi \in Nat, hi <= room, NEW m \in Memory(room),
         NEW l \in Nat, NEW r \in Nat, NEW n \in Nat,
         lo <= l, l + n <= hi, lo <= r, r + n <= hi
  PROVE  /\ Shuffled(m, memswap(m, l, r, n), room, lo, hi)
         /\ n = 0 => memswap(m, l, r, n) = m
         /\ n = 1 => memswap(m, l, r, n) = [m EXCEPT ![l] = m[r], ![r] = m[l]]
<1> DEFINE X == {mem \in Memory(room) : Shuffled(m, mem, room, lo, hi)}
           Round(mem, k) == [mem EXCEPT ![l + k - 1] = mem[r + k - 1], ![r + k - 1] = mem[l + k - 1]]
           R == [k \in 1 .. n |-> [mem \in X |-> Round(mem, k)]]
           Rec(g) == g = [k \in 0 .. n |->
                       IF k = 0 THEN m
                       ELSE LET mem == g[k - 1]
                            IN  [mem EXCEPT ![l + k - 1] = mem[r + k - 1], ![r + k - 1] = mem[l + k - 1]]]
           g == CHOOSE g : Rec(g)
<1>1. memswap(m, l, r, n) = g[n]
  BY DEF memswap
<1>2. m \in X
  BY ShuffledSelf
<1>3. ASSUME NEW k \in 1 .. n, NEW mem \in X PROVE R[k][mem] = Round(mem, k) /\ Round(mem, k) \in X
  <2> DEFINE a == l + k - 1  b == r + k - 1
  <2>1. a \in lo .. hi - 1 /\ b \in lo .. hi - 1
    OBVIOUS
  <2>2. Round(mem, k) = [mem EXCEPT ![a] = mem[b], ![b] = mem[a]]
    OBVIOUS
  <2>3. mem \in Memory(room) /\ Shuffled(m, mem, room, lo, hi)
    OBVIOUS
  <2>4. R[k][mem] = Round(mem, k)
    OBVIOUS
  <2> HIDE DEF a, b, R, Round, X
  <2>5. Shuffled(mem, Round(mem, k), room, lo, hi)
    <3>1. Shuffled(mem, [mem EXCEPT ![a] = mem[b], ![b] = mem[a]], room, lo, hi)
      BY <2>1, <2>3, SwapShuffles
    <3>2. QED
      BY <2>2, <3>1
  <2>6. Shuffled(m, Round(mem, k), room, lo, hi)
    BY <2>3, <2>5, ShuffledTwice
  <2>7. QED
    BY <2>4, <2>6 DEF X, Shuffled
<1>4. \E f : Rec(f)
  <2>1. IsRounds(R, n, X)
    BY <1>3 DEF IsRounds
  <2> HIDE DEF X, R
  <2>2. PICK f : IsRun(f, m, R, n, X)
    BY <1>2, <2>1, Iteration
  <2>3. f \in [0 .. n -> X] /\ f[0] = m /\ \A k \in 1 .. n : f[k] = R[k][f[k - 1]]
    BY <2>2 DEF IsRun
  <2>4. ASSUME NEW k \in 0 .. n PROVE f[k] = IF k = 0 THEN m ELSE Round(f[k - 1], k)
    <3>1. CASE k = 0
      BY <2>3, <3>1
    <3>2. CASE k # 0
      <4>1. k \in 1 .. n /\ k - 1 \in 0 .. n
        BY <3>2
      <4>2. f[k - 1] \in X
        BY <2>3, <4>1
      <4> HIDE DEF Round
      <4>3. QED
        BY <1>3, <2>3, <3>2, <4>1, <4>2
    <3>3. QED
      BY <3>1, <3>2
  <2>5. f = [k \in 0 .. n |-> IF k = 0 THEN m ELSE Round(f[k - 1], k)]
    <3> HIDE DEF Round, X
    <3>1. QED
      BY <2>3, <2>4
  <2>6. Rec(f)
    BY <2>5
  <2> HIDE DEF Rec
  <2>7. QED
    BY <2>6
<1>5. Rec(g)
  <2> HIDE DEF Rec
  <2>1. QED
    BY <1>4
<1>6. g[0] = m /\ \A k \in 1 .. n : g[k] = Round(g[k - 1], k)
  <2> HIDE DEF g
  <2>1. g = [k \in 0 .. n |-> IF k = 0 THEN m ELSE Round(g[k - 1], k)]
    BY <1>5
  <2> HIDE DEF Rec, Round
  <2>2. QED
    BY <2>1
<1> HIDE DEF Rec, g
<1> DEFINE Q == {k \in Nat : k <= n => g[k] \in X}
<1>7. 0 \in Q
  BY <1>2, <1>6
<1>8. ASSUME NEW k \in Nat, k \in Q PROVE k + 1 \in Q
  <2>1. SUFFICES ASSUME k + 1 <= n PROVE g[k + 1] \in X
    OBVIOUS
  <2>2. k + 1 \in 1 .. n /\ (k + 1) - 1 = k /\ g[k] \in X
    BY <1>8, <2>1
  <2>3. g[k + 1] = Round(g[k], k + 1)
    <3> HIDE DEF Round
    <3>1. QED
      BY <1>6, <2>2
  <2> HIDE DEF X, Round
  <2>4. QED
    BY <1>3, <2>2, <2>3
<1> HIDE DEF Q
<1>9. n \in Q
  BY <1>7, <1>8, Induction
<1>10. Shuffled(m, g[n], room, lo, hi)
  BY <1>9 DEF Q
<1>11. n = 0 => g[n] = m
  BY <1>6
<1>12. n = 1 => g[n] = [m EXCEPT ![l] = m[r], ![r] = m[l]]
  <2>1. SUFFICES ASSUME n = 1 PROVE g[1] = [m EXCEPT ![l] = m[r], ![r] = m[l]]
    OBVIOUS
  <2>2. 1 \in 1 .. n /\ 1 - 1 = 0 /\ l + 1 - 1 = l /\ r + 1 - 1 = r
    BY <2>1
  <2>3. g[1] = Round(m, 1)
    <3> HIDE DEF Round
    <3>1. QED
      BY <1>6, <2>2
  <2>4. QED
    BY <2>2, <2>3
<1>13. QED
  BY <1>1, <1>10, <1>11, <1>12

(* No bytes change nothing.                                                *)
LEMMA MemswapNothing ==
  ASSUME NEW room \in Nat, NEW m \in Memory(room), NEW l \in Nat, NEW r \in Nat, l <= room, r <= room
  PROVE  memswap(m, l, r, 0) = m
<1>1. /\ 0 \in Nat /\ room <= room /\ 0 <= l /\ l + 0 <= room /\ 0 <= r /\ r + 0 <= room
  OBVIOUS
<1>2. 0 = 0 => memswap(m, l, r, 0) = m
  BY <1>1, MemswapShuffles
<1>3. QED
  BY <1>2

(* Elements of one byte change places.                                     *)
LEMMA MemswapByte ==
  ASSUME NEW room \in Nat, NEW m \in Memory(room), NEW l \in 0 .. room - 1, NEW r \in 0 .. room - 1
  PROVE  memswap(m, l, r, 1) = [m EXCEPT ![l] = m[r], ![r] = m[l]]
<1>1. /\ l \in Nat /\ r \in Nat /\ 0 \in Nat /\ 1 \in Nat /\ room <= room
      /\ 0 <= l /\ l + 1 <= room /\ 0 <= r /\ r + 1 <= room
  OBVIOUS
<1>2. 1 = 1 => memswap(m, l, r, 1) = [m EXCEPT ![l] = m[r], ![r] = m[l]]
  BY <1>1, MemswapShuffles
<1>3. QED
  BY <1>2

(* Elements of one byte compare as their bytes do.                         *)
LEMMA GreaterByte ==
  ASSUME NEW m, NEW l \in Int, NEW r \in Int
  PROVE  Greater(m, l, r, 1) <=> m[l] > m[r]
<1>1. 0 .. 1 - 1 = {0} /\ 0 .. 0 - 1 = {} /\ l + 0 = l /\ r + 0 = r
  OBVIOUS
<1>2. QED
  BY <1>1 DEF Greater

(* An index counts bytes and not elements: what starts before index count  *)
(* lies in the array.                                                      *)
LEMMA ElementsFit ==
  ASSUME NEW count \in Nat, NEW size \in Nat \ {0}, NEW k \in 0 .. count - 1
  PROVE  count * size \in Nat /\ k + size <= count * size
<1>1. \A u, v \in Nat : u * v \in Nat /\ (u + 1) * (v + 1) = u * v + u + v + 1
  BY Z3
<1>2. count - 1 \in Nat /\ size - 1 \in Nat /\ (count - 1) + 1 = count /\ (size - 1) + 1 = size
  OBVIOUS
<1>3. /\ (count - 1) * (size - 1) \in Nat
      /\ count * size = (count - 1) * (size - 1) + (count - 1) + (size - 1) + 1
  BY <1>1, <1>2
<1> DEFINE z == (count - 1) * (size - 1)  w == count * size
<1>4. z \in Nat /\ w = z + (count - 1) + (size - 1) + 1
  BY <1>3
<1> HIDE DEF z, w
<1>5. w \in Nat /\ k + size <= w
  BY <1>4
<1>6. QED
  BY <1>5 DEF w

(* The loops of partition: what lies before i is not above the pivot in    *)
(* front, what lies behind j is above it.                                  *)
Split(c, ptr, count) ==
    /\ \A x \in 1 .. c.i - 1 : c.m[ptr + x] <= c.m[ptr]
    /\ \A x \in c.j + 1 .. count - 1 : c.m[ptr + x] > c.m[ptr]
    /\ c.i = 1 /\ c.j < count - 1 => c.m[ptr + 1] > c.m[ptr]
Closing(room, count) == [m : Memory(room), i : 1 .. count - 1, j : 1 .. count - 1]
IsClosing(c, m, ptr, count, size, room) ==
    /\ c \in Closing(room, count)
    /\ c.i <= c.j + 1
    /\ Shuffled(m, c.m, room, ptr, ptr + count * size)
    /\ size = 1 => Split(c, ptr, count)
IsCloser(d, c) == IF c.i >= c.j THEN d = c ELSE d.j - d.i < c.j - c.i

(* A round of the loops keeps what is known of both sides, for elements of *)
(* one byte: also the round that exchanges two.                            *)
LEMMA SplitKept ==
  ASSUME NEW ptr \in Nat, NEW count \in Nat, NEW room \in Nat, ptr + count <= room,
         NEW c \in Closing(room, count), c.i < c.j, Split(c, ptr, count)
  PROVE  Split(CloseIn(c, ptr, 1), ptr, count)
<1> DEFINE v == c.m[ptr]  d == CloseIn(c, ptr, 1)
<1>1. /\ c.i \in 1 .. count - 1 /\ c.j \in 1 .. count - 1 /\ c.m \in Memory(room)
      /\ c = [m |-> c.m, i |-> c.i, j |-> c.j]
  BY DEF Closing
<1>2. \A x \in 0 .. count - 1 : ptr + x \in 0 .. room - 1 /\ c.m[ptr + x] \in Int
  <2>1. \A x \in 0 .. count - 1 : ptr + x \in 0 .. room - 1
    OBVIOUS
  <2>2. \A a \in 0 .. room - 1 : c.m[a] \in Int
    BY <1>1 DEF Memory
  <2>3. QED
    BY <2>1, <2>2
<1>3. v \in Int
  BY <1>1, <1>2 DEF Memory
<1>4. ptr + c.i \in Int /\ ptr + c.j \in Int
  BY <1>1
<1>5. CASE ~(c.m[ptr + c.i] > v)
  <2>1. d = [m |-> c.m, i |-> c.i + 1, j |-> c.j]
    BY <1>1, <1>4, <1>5, GreaterByte DEF CloseIn
  <2>2. \A x \in 1 .. c.i : c.m[ptr + x] <= v
    BY <1>1, <1>2, <1>3, <1>5 DEF Split
  <2>3. d.m = c.m /\ d.i = c.i + 1 /\ d.j = c.j
    BY <2>1
  <2> HIDE DEF d
  <2>4. Split(d, ptr, count)
    BY <1>1, <2>2, <2>3 DEF Split
  <2>5. QED
    BY <2>4 DEF d
<1>6. CASE c.m[ptr + c.i] > v /\ c.m[ptr + c.j] > v
  <2>1. d = [m |-> c.m, i |-> c.i, j |-> c.j - 1]
    BY <1>1, <1>4, <1>6, GreaterByte DEF CloseIn
  <2>2. \A x \in c.j .. count - 1 : c.m[ptr + x] > v
    BY <1>1, <1>2, <1>3, <1>6 DEF Split
  <2>3. d.m = c.m /\ d.i = c.i /\ d.j = c.j - 1
    BY <2>1
  <2> HIDE DEF d
  <2>4. \A x \in d.j + 1 .. count - 1 : d.m[ptr + x] > d.m[ptr]
    BY <1>1, <2>2, <2>3
  <2>5. d.i = 1 => d.m[ptr + 1] > d.m[ptr]
    BY <1>6, <2>3
  <2>6. Split(d, ptr, count)
    BY <2>3, <2>4, <2>5 DEF Split
  <2>7. QED
    BY <2>6 DEF d
<1>7. CASE c.m[ptr + c.i] > v /\ ~(c.m[ptr + c.j] > v)
  <2> DEFINE a == ptr + c.i  b == ptr + c.j
             s == [c.m EXCEPT ![a] = c.m[b], ![b] = c.m[a]]
  <2>1. d = [m |-> memswap(c.m, a, b, 1), i |-> c.i + 1, j |-> c.j - 1]
    BY <1>1, <1>4, <1>7, GreaterByte DEF CloseIn
  <2>2. memswap(c.m, a, b, 1) = s
    <3>1. a \in 0 .. room - 1 /\ b \in 0 .. room - 1
      BY <1>1
    <3> HIDE DEF a, b, s
    <3>2. memswap(c.m, a, b, 1) = [c.m EXCEPT ![a] = c.m[b], ![b] = c.m[a]]
      BY <1>1, <3>1, MemswapByte
    <3>3. QED
      BY <3>2 DEF s
  <2>3. d.m = s /\ d.i = c.i + 1 /\ d.j = c.j - 1
    BY <2>1, <2>2
  <2>4. \A x \in 0 .. count - 1 : s[ptr + x] = IF x = c.i THEN c.m[b] ELSE IF x = c.j THEN c.m[a]
                                              ELSE c.m[ptr + x]
    <3>1. \A x \in 0 .. count - 1 : (ptr + x = a <=> x = c.i) /\ (ptr + x = b <=> x = c.j)
      BY <1>1
    <3>2. a # b /\ c.m \in [0 .. room - 1 -> Int]
      BY <1>1 DEF Memory
    <3> HIDE DEF a, b
    <3>3. \A z \in 0 .. room - 1 : s[z] = IF z = a THEN c.m[b] ELSE IF z = b THEN c.m[a] ELSE c.m[z]
      BY <3>2
    <3> HIDE DEF s
    <3>4. QED
      BY <1>2, <3>1, <3>3
  <2>5. s[ptr] = v
    <3>1. 0 \in 0 .. count - 1 /\ ptr + 0 = ptr /\ 0 # c.i /\ 0 # c.j
      BY <1>1
    <3> HIDE DEF s, a, b
    <3>2. QED
      BY <2>4, <3>1
  <2>6. c.m[b] <= v /\ c.m[a] > v
    BY <1>1, <1>2, <1>3, <1>7
  <2> HIDE DEF s, a, b, d
  <2>7. \A x \in 1 .. c.i : s[ptr + x] <= v
    BY <1>1, <2>4, <2>6 DEF Split
  <2>8. \A x \in c.j .. count - 1 : s[ptr + x] > v
    BY <1>1, <2>4, <2>6 DEF Split
  <2> HIDE DEF v
  <2>9. /\ \A x \in 1 .. d.i - 1 : d.m[ptr + x] <= d.m[ptr]
        /\ \A x \in d.j + 1 .. count - 1 : d.m[ptr + x] > d.m[ptr]
        /\ d.i # 1
    BY <1>1, <2>3, <2>5, <2>7, <2>8
  <2>10. Split(d, ptr, count)
    BY <2>9 DEF Split
  <2>11. QED
    BY <2>10 DEF d
<1>8. QED
  BY <1>5, <1>6, <1>7

(* For elements of any size a round stays in the array, and the indices    *)
(* come closer.                                                            *)
LEMMA CloseInRight ==
  ASSUME NEW room \in Nat, NEW m \in Memory(room), NEW ptr \in Nat, NEW count \in Nat,
         NEW size \in Nat \ {0}, ptr + count * size <= room,
         NEW c, IsClosing(c, m, ptr, count, size, room)
  PROVE  IsClosing(CloseIn(c, ptr, size), m, ptr, count, size, room)
         /\ IsCloser(CloseIn(c, ptr, size), c)
<1> DEFINE d == CloseIn(c, ptr, size)  w == count * size
<1>1. /\ c.i \in 1 .. count - 1 /\ c.j \in 1 .. count - 1 /\ c.m \in Memory(room)
      /\ c = [m |-> c.m, i |-> c.i, j |-> c.j]
  BY DEF IsClosing, Closing
<1>2. CASE c.i >= c.j
  BY <1>1, <1>2 DEF CloseIn, IsCloser
<1>3. CASE c.i < c.j
  <2>1. ~(c.i >= c.j)
    BY <1>1, <1>3
  <2>2. /\ d.i \in {c.i, c.i + 1} /\ d.j \in {c.j, c.j - 1} /\ (d.i # c.i \/ d.j # c.j)
        /\ d.m \in {c.m, memswap(c.m, ptr + c.i, ptr + c.j, size)}
        /\ d = [m |-> d.m, i |-> d.i, j |-> d.j]
    <3>1. CASE ~Greater(c.m, ptr + c.i, ptr, size)
      <4>1. d = [m |-> c.m, i |-> c.i + 1, j |-> c.j]
        BY <1>1, <2>1, <3>1 DEF CloseIn
      <4> HIDE DEF d
      <4>2. QED
        BY <1>1, <4>1
    <3>2. CASE Greater(c.m, ptr + c.i, ptr, size) /\ Greater(c.m, ptr + c.j, ptr, size)
      <4>1. d = [m |-> c.m, i |-> c.i, j |-> c.j - 1]
        BY <1>1, <2>1, <3>2 DEF CloseIn
      <4> HIDE DEF d
      <4>2. QED
        BY <1>1, <4>1
    <3>3. CASE Greater(c.m, ptr + c.i, ptr, size) /\ ~Greater(c.m, ptr + c.j, ptr, size)
      <4>1. d = [m |-> memswap(c.m, ptr + c.i, ptr + c.j, size), i |-> c.i + 1, j |-> c.j - 1]
        BY <1>1, <2>1, <3>3 DEF CloseIn
      <4> HIDE DEF d
      <4>2. QED
        BY <1>1, <4>1
    <3>4. QED
      BY <3>1, <3>2, <3>3
  <2>3. w \in Nat /\ c.i + size <= w /\ c.j + size <= w /\ ptr + w <= room
    <3>1. c.i \in 0 .. count - 1 /\ c.j \in 0 .. count - 1
      BY <1>1
    <3>2. QED
      BY <3>1, ElementsFit
  <2>4. Shuffled(m, d.m, room, ptr, ptr + w)
    <3>1. Shuffled(m, c.m, room, ptr, ptr + w)
      BY DEF IsClosing
    <3> DEFINE a == ptr + c.i  b == ptr + c.j
    <3>2. /\ a \in Nat /\ b \in Nat /\ ptr <= a /\ a + size <= ptr + w /\ ptr <= b /\ b + size <= ptr + w
          /\ ptr + w \in Nat /\ size \in Nat
      BY <1>1, <2>3
    <3>3. d.m = c.m \/ d.m = memswap(c.m, a, b, size)
      BY <2>2
    <3> HIDE DEF a, b, d, w
    <3>4. Shuffled(c.m, memswap(c.m, a, b, size), room, ptr, ptr + w)
      BY <1>1, <2>3, <3>2, MemswapShuffles
    <3>5. Shuffled(m, memswap(c.m, a, b, size), room, ptr, ptr + w)
      BY <3>1, <3>4, ShuffledTwice
    <3>6. QED
      BY <3>1, <3>3, <3>5
  <2>5. d.m \in Memory(room)
    BY <2>4 DEF Shuffled
  <2>6. size = 1 => Split(d, ptr, count)
    <3>1. SUFFICES ASSUME size = 1 PROVE Split(CloseIn(c, ptr, 1), ptr, count)
      OBVIOUS
    <3>2. ptr + count <= room
      BY <3>1
    <3>3. Split(c, ptr, count) /\ c \in Closing(room, count)
      BY <3>1 DEF IsClosing
    <3>4. QED
      BY <1>3, <3>2, <3>3, SplitKept
  <2> HIDE DEF d
  <2>7. d.i \in 1 .. count - 1 /\ d.j \in 1 .. count - 1 /\ d.i <= d.j + 1 /\ d.j - d.i < c.j - c.i
    BY <1>1, <1>3, <2>2
  <2>8. d \in Closing(room, count)
    BY <2>2, <2>5, <2>7 DEF Closing
  <2>9. IsClosing(d, m, ptr, count, size, room) /\ IsCloser(d, c)
    BY <2>1, <2>4, <2>6, <2>7, <2>8 DEF IsClosing, IsCloser
  <2>10. QED
    BY <2>9 DEF d
<1>4. QED
  BY <1>1, <1>2, <1>3

(* After count rounds the indices have met.                                *)
LEMMA CloseRight ==
  ASSUME NEW room \in Nat, NEW m \in Memory(room), NEW ptr \in Nat, NEW count \in Nat, count > 2,
         NEW size \in Nat \ {0}, ptr + count * size <= room
  PROVE  /\ IsClosing(Close(m, ptr, count, size), m, ptr, count, size, room)
         /\ Close(m, ptr, count, size).i >= Close(m, ptr, count, size).j
<1> DEFINE X == {c \in Closing(room, count) : IsClosing(c, m, ptr, count, size, room)}
           start == [m |-> m, i |-> 1, j |-> count - 1]
           R == [k \in 1 .. count |-> [c \in X |-> CloseIn(c, ptr, size)]]
           Rec(g) == g = [k \in 0 .. count |-> IF k = 0 THEN start ELSE CloseIn(g[k - 1], ptr, size)]
           g == CHOOSE g : Rec(g)
<1>1. Close(m, ptr, count, size) = g[count]
  BY DEF Close
<1>2. start \in X
  <2>1. start \in Closing(room, count)
    BY DEF Closing
  <2>2. start.m = m /\ start.i = 1 /\ start.j = count - 1
    OBVIOUS
  <2> HIDE DEF start
  <2>3. Split(start, ptr, count)
    BY <2>2 DEF Split
  <2>4. IsClosing(start, m, ptr, count, size, room)
    BY <2>1, <2>2, <2>3, ShuffledSelf DEF IsClosing
  <2>5. QED
    BY <2>1, <2>4
<1>3. ASSUME NEW k \in 1 .. count, NEW c \in X
      PROVE  /\ R[k][c] = CloseIn(c, ptr, size) /\ CloseIn(c, ptr, size) \in X
             /\ IsCloser(CloseIn(c, ptr, size), c)
  <2>1. R[k][c] = CloseIn(c, ptr, size) /\ IsClosing(c, m, ptr, count, size, room)
    OBVIOUS
  <2> HIDE DEF R
  <2>2. /\ IsClosing(CloseIn(c, ptr, size), m, ptr, count, size, room)
        /\ IsCloser(CloseIn(c, ptr, size), c)
    BY <2>1, CloseInRight
  <2>3. QED
    BY <2>1, <2>2 DEF IsClosing
<1>4. \A c \in X : c.i \in 1 .. count - 1 /\ c.j \in 1 .. count - 1
  BY DEF Closing
<1>5. start.i = 1 /\ start.j = count - 1
  OBVIOUS
<1> HIDE DEF X, start
<1>6. \E f : Rec(f)
  <2>1. IsRounds(R, count, X)
    BY <1>3 DEF IsRounds
  <2> HIDE DEF R
  <2>2. PICK f : IsRun(f, start, R, count, X)
    BY <1>2, <2>1, Iteration
  <2>3. f \in [0 .. count -> X] /\ f[0] = start /\ \A k \in 1 .. count : f[k] = R[k][f[k - 1]]
    BY <2>2 DEF IsRun
  <2>4. ASSUME NEW k \in 0 .. count PROVE f[k] = IF k = 0 THEN start ELSE CloseIn(f[k - 1], ptr, size)
    <3>1. CASE k = 0
      BY <2>3, <3>1
    <3>2. CASE k # 0
      <4>1. k \in 1 .. count /\ k - 1 \in 0 .. count
        BY <3>2
      <4>2. f[k - 1] \in X
        BY <2>3, <4>1
      <4>3. QED
        BY <1>3, <2>3, <3>2, <4>1, <4>2
    <3>3. QED
      BY <3>1, <3>2
  <2>5. QED
    BY <2>3, <2>4
<1>7. Rec(g)
  <2> HIDE DEF Rec
  <2>1. QED
    BY <1>6
<1>8. g[0] = start /\ \A k \in 1 .. count : g[k] = CloseIn(g[k - 1], ptr, size)
  <2> HIDE DEF g
  <2>1. QED
    BY <1>7
<1> HIDE DEF Rec, g
<1> DEFINE Q == {k \in Nat : k <= count =>
                   g[k] \in X /\ (g[k].i >= g[k].j \/ g[k].j - g[k].i <= count - 2 - k)}
<1>9. 0 \in Q
  BY <1>2, <1>5, <1>8
<1>10. ASSUME NEW k \in Nat, k \in Q PROVE k + 1 \in Q
  <2>1. SUFFICES ASSUME k + 1 <= count
                 PROVE  g[k + 1] \in X
                        /\ (g[k + 1].i >= g[k + 1].j \/ g[k + 1].j - g[k + 1].i <= count - 2 - (k + 1))
    OBVIOUS
  <2>2. k + 1 \in 1 .. count /\ (k + 1) - 1 = k /\ g[k] \in X
        /\ (g[k].i >= g[k].j \/ g[k].j - g[k].i <= count - 2 - k)
    BY <1>10, <2>1
  <2>3. g[k + 1] = CloseIn(g[k], ptr, size)
    BY <1>8, <2>2
  <2> HIDE DEF Q
  <2>4. g[k + 1] \in X /\ IsCloser(g[k + 1], g[k])
    BY <1>3, <2>2, <2>3
  <2>5. /\ g[k].i \in Int /\ g[k].j \in Int /\ g[k + 1].i \in Int /\ g[k + 1].j \in Int
    BY <1>4, <2>2, <2>4
  <2>6. QED
    BY <2>2, <2>4, <2>5 DEF IsCloser
<1> HIDE DEF Q
<1>11. count \in Q
  BY <1>9, <1>10, Induction
<1>12. g[count] \in X /\ (g[count].i >= g[count].j \/ g[count].j - g[count].i <= count - 2 - count)
  BY <1>11 DEF Q
<1>13. g[count].i >= g[count].j
  BY <1>4, <1>12
<1>14. QED
  BY <1>1, <1>12, <1>13 DEF X

(* What partition leaves: the pivot in its place, nothing above it before  *)
(* it and nothing below it behind it.                                      *)
Pivoted(m, ptr, count, piv) ==
    /\ \A x \in 0 .. piv - 1 : m[ptr + x] <= m[ptr + piv]
    /\ \A x \in piv + 1 .. count - 1 : m[ptr + x] >= m[ptr + piv]

(* Wherever they met, the pivot goes where it belongs.                     *)
LEMMA PivotPlaced ==
  ASSUME NEW room \in Nat, NEW ptr \in Nat, NEW count \in Nat, count > 2, ptr + count <= room,
         NEW c \in Closing(room, count), c.i >= c.j, c.i <= c.j + 1, Split(c, ptr, count),
         NEW place \in 0 .. count - 1, place = PivotPlace(c, ptr, 1)
  PROVE  Pivoted(memswap(c.m, ptr, ptr + place, IF place = 0 THEN 0 ELSE 1), ptr, count, place)
<1> DEFINE v == c.m[ptr]
           s == memswap(c.m, ptr, ptr + place, IF place = 0 THEN 0 ELSE 1)
<1>1. /\ c.i \in 1 .. count - 1 /\ c.j \in 1 .. count - 1 /\ c.m \in Memory(room)
  BY DEF Closing
<1>2. \A x \in 0 .. count - 1 : ptr + x \in 0 .. room - 1 /\ c.m[ptr + x] \in Int
  <2>1. \A x \in 0 .. count - 1 : ptr + x \in 0 .. room - 1
    OBVIOUS
  <2>2. \A a \in 0 .. room - 1 : c.m[a] \in Int
    BY <1>1 DEF Memory
  <2>3. QED
    BY <2>1, <2>2
<1>3. v \in Int
  BY <1>1, <1>2 DEF Memory
<1>4. /\ \A x \in 1 .. place : c.m[ptr + x] <= v
      /\ \A x \in place + 1 .. count - 1 : c.m[ptr + x] > v
  <2>1. place = IF c.i <= 1 THEN 0 ELSE IF c.m[ptr + c.i] > v THEN c.i - 1 ELSE c.i
    <3>1. ptr + c.i \in Int
      BY <1>1
    <3>2. QED
      BY <3>1, GreaterByte DEF PivotPlace
  <2>2. /\ \A x \in 1 .. c.i - 1 : c.m[ptr + x] <= v
        /\ \A x \in c.j + 1 .. count - 1 : c.m[ptr + x] > v
        /\ c.i = 1 /\ c.j < count - 1 => c.m[ptr + 1] > v
    BY DEF Split
  <2> HIDE DEF v
  <2>3. CASE c.i <= 1
    <3>1. c.i = 1 /\ c.j = 1 /\ c.m[ptr + 1] > v /\ place = 0
      BY <1>1, <2>1, <2>2, <2>3
    <3>2. QED
      BY <2>2, <3>1
  <2>4. CASE c.i > 1 /\ c.m[ptr + c.i] > v
    <3>1. place = c.i - 1
      BY <1>1, <2>1, <2>4
    <3>2. \A x \in c.i .. count - 1 : x = c.i \/ x \in c.j + 1 .. count - 1
      BY <1>1
    <3>3. QED
      BY <1>1, <2>2, <2>4, <3>1, <3>2
  <2>5. CASE c.i > 1 /\ ~(c.m[ptr + c.i] > v)
    <3>1. place = c.i /\ c.i \in 0 .. count - 1
      BY <1>1, <2>1, <2>5
    <3>2. c.m[ptr + c.i] <= v
      BY <1>2, <1>3, <2>5, <3>1
    <3>3. QED
      BY <1>1, <2>2, <3>1, <3>2
  <2>6. QED
    BY <1>1, <2>3, <2>4, <2>5
<1>5. CASE place = 0
  <2>1. s = c.m
    <3>1. ptr + 0 = ptr /\ ptr <= room
      OBVIOUS
    <3>2. memswap(c.m, ptr, ptr, 0) = c.m
      BY <1>1, <3>1, MemswapNothing
    <3>3. QED
      BY <1>5, <3>1, <3>2
  <2> HIDE DEF s
  <2>2. s[ptr + place] = v
    BY <1>5, <2>1
  <2>3. Pivoted(s, ptr, count, place)
    BY <1>2, <1>3, <1>4, <1>5, <2>1, <2>2 DEF Pivoted
  <2>4. QED
    BY <2>3 DEF s
<1>6. CASE place # 0
  <2> DEFINE b == ptr + place  u == c.m[b]
  <2>1. s = [c.m EXCEPT ![ptr] = u, ![b] = v]
    <3>1. b \in 0 .. room - 1 /\ ptr \in 0 .. room - 1
      BY <1>6
    <3>2. s = memswap(c.m, ptr, b, 1)
      BY <1>6
    <3> HIDE DEF b, s
    <3>3. memswap(c.m, ptr, b, 1) = [c.m EXCEPT ![ptr] = c.m[b], ![b] = c.m[ptr]]
      BY <1>1, <3>1, MemswapByte
    <3>4. QED
      BY <3>2, <3>3
  <2>2. ptr # b /\ b \in 0 .. room - 1 /\ ptr \in 0 .. room - 1 /\ ptr + place = b /\ ptr + 0 = ptr
        /\ \A x \in 0 .. count - 1 : (ptr + x = b <=> x = place) /\ (ptr + x = ptr <=> x = 0)
    BY <1>6
  <2>3. u \in Int /\ u <= v
    BY <1>2, <1>4, <1>6
  <2> HIDE DEF s, u, b
  <2>4. s[b] = v /\ s[ptr] = u /\ \A z \in 0 .. room - 1 : z # b /\ z # ptr => s[z] = c.m[z]
    BY <1>1, <2>1, <2>2 DEF Memory
  <2>5. \A x \in 1 .. count - 1 : x # place => s[ptr + x] = c.m[ptr + x]
    BY <1>2, <2>2, <2>4
  <2> HIDE DEF v
  <2>6. \A x \in 0 .. place - 1 : s[ptr + x] <= s[b]
    <3>1. ASSUME NEW x \in 0 .. place - 1 PROVE s[ptr + x] <= v
      <4>1. CASE x = 0
        BY <2>2, <2>3, <2>4, <4>1
      <4>2. CASE x # 0
        BY <1>4, <2>5, <4>2
      <4>3. QED
        BY <4>1, <4>2
    <3>2. QED
      BY <2>4, <3>1
  <2>7. \A x \in place + 1 .. count - 1 : s[ptr + x] >= s[b]
    <3>1. ASSUME NEW x \in place + 1 .. count - 1 PROVE s[ptr + x] >= v
      <4>1. x \in 1 .. count - 1 /\ x # place /\ x \in 0 .. count - 1
        OBVIOUS
      <4>2. s[ptr + x] = c.m[ptr + x] /\ c.m[ptr + x] > v /\ c.m[ptr + x] \in Int
        BY <1>2, <1>4, <2>5, <4>1
      <4>3. QED
        BY <1>3, <4>2
    <3>2. QED
      BY <2>4, <3>1
  <2>8. Pivoted(s, ptr, count, place)
    BY <2>2, <2>6, <2>7 DEF Pivoted
  <2>9. QED
    BY <2>8 DEF s
<1>7. QED
  BY <1>5, <1>6

IsPartition(part, m, ptr, count, size, room) ==
    /\ part.piv \in 0 .. count - 1
    /\ Shuffled(m, part.m, room, ptr, ptr + count * size)
    /\ size = 1 => Pivoted(part.m, ptr, count, part.piv)

(* partition stays in the array; the pivot's place is in it, and splits it *)
(* when elements are one byte.                                             *)
LEMMA PartitionRight ==
  ASSUME NEW room \in Nat, NEW m \in Memory(room), NEW ptr \in Nat, NEW count \in Nat, count > 2,
         NEW size \in Nat \ {0}, ptr + count * size <= room
  PROVE  IsPartition(partition(m, ptr, count, size, size \div 2), m, ptr, count, size, room)
<1> DEFINE w == count * size  piv == size \div 2  hi == ptr + w
           first == memswap(m, ptr, ptr + piv, size)
           c == Close(first, ptr, count, size)
           place == PivotPlace(c, ptr, size)
           n == IF place = 0 THEN 0 ELSE size
           last == memswap(c.m, ptr, ptr + place, n)
           part == partition(m, ptr, count, size, piv)
<1>1. part = [m |-> last, piv |-> place]
  BY DEF partition
<1>2. w \in Nat /\ size <= w /\ piv \in Nat /\ piv + size <= w
  <2>1. piv \in Nat /\ piv <= size
    BY Z3
  <2>2. count - 3 \in Nat /\ count = (count - 3) + 3
    OBVIOUS
  <2>3. \A u, v \in Nat : (u + 3) * v \in Nat /\ (u + 3) * v >= v + v + v
    <3>1. \A u, v \in Nat : u * v \in Nat /\ (u + 3) * v = u * v + v + v + v
      BY Z3
    <3> QED
      <4>1. SUFFICES ASSUME NEW u \in Nat, NEW v \in Nat PROVE (u + 3) * v \in Nat /\ (u + 3) * v >= v + v + v
        OBVIOUS
      <4> DEFINE z == u * v  y == (u + 3) * v
      <4>2. z \in Nat /\ y = z + v + v + v
        BY <3>1
      <4> HIDE DEF z, y
      <4>3. y \in Nat /\ y >= v + v + v
        BY <4>2
      <4>4. QED
        BY <4>3 DEF y
  <2>4. ((count - 3) + 3) * size \in Nat /\ ((count - 3) + 3) * size >= size + size + size
    BY <2>2, <2>3
  <2>5. w \in Nat /\ w >= size + size + size
    BY <2>2, <2>4
  <2> HIDE DEF w, piv
  <2>6. QED
    BY <2>1, <2>5
<1>3. hi \in Nat /\ hi <= room /\ ptr + w = hi
  BY <1>2
<1> HIDE DEF w, piv
<1>4. Shuffled(m, first, room, ptr, hi)
  <2>1. /\ ptr + piv \in Nat /\ size \in Nat /\ ptr <= ptr /\ ptr + size <= hi
        /\ ptr <= ptr + piv /\ (ptr + piv) + size <= hi
    BY <1>2
  <2> HIDE DEF hi
  <2>2. QED
    BY <1>3, <2>1, MemswapShuffles
<1> HIDE DEF first
<1>5. first \in Memory(room)
  BY <1>4 DEF Shuffled
<1>6. IsClosing(c, first, ptr, count, size, room) /\ c.i >= c.j
  BY <1>5, CloseRight
<1> HIDE DEF c
<1>7. /\ c \in Closing(room, count) /\ c.i <= c.j + 1 /\ Shuffled(first, c.m, room, ptr, hi)
      /\ size = 1 => Split(c, ptr, count)
  BY <1>6 DEF IsClosing, w
<1>8. c.m \in Memory(room) /\ c.i \in 1 .. count - 1
  BY <1>7 DEF Closing
<1>9. place \in 0 .. count - 1
  BY <1>8 DEF PivotPlace
<1>10. Shuffled(c.m, last, room, ptr, hi)
  <2>1. place + size <= w
    BY <1>9, ElementsFit DEF w
  <2> HIDE DEF place
  <2>2. /\ n \in Nat /\ ptr + place \in Nat /\ ptr <= ptr /\ ptr + n <= hi
        /\ ptr <= ptr + place /\ (ptr + place) + n <= hi
    BY <1>2, <1>9, <2>1
  <2> HIDE DEF hi, n
  <2>3. QED
    BY <1>3, <1>8, <2>2, MemswapShuffles
<1>11. Shuffled(m, last, room, ptr, hi)
  <2>1. Shuffled(first, last, room, ptr, hi)
    BY <1>7, <1>10, ShuffledTwice
  <2>2. QED
    BY <1>4, <2>1, ShuffledTwice
<1>12. size = 1 => Pivoted(last, ptr, count, place)
  <2>1. SUFFICES ASSUME size = 1 PROVE Pivoted(last, ptr, count, place)
    OBVIOUS
  <2>2. place = PivotPlace(c, ptr, 1) /\ last = memswap(c.m, ptr, ptr + place, IF place = 0 THEN 0 ELSE 1)
    BY <2>1
  <2>3. ptr + count <= room /\ Split(c, ptr, count)
    BY <1>7, <2>1
  <2> HIDE DEF place, last
  <2>4. QED
    BY <1>6, <1>7, <1>9, <2>2, <2>3, PivotPlaced
<1> HIDE DEF last, place, part
<1>13. part.m = last /\ part.piv = place
  BY <1>1
<1>14. IsPartition(part, m, ptr, count, size, room)
  BY <1>9, <1>11, <1>12, <1>13 DEF IsPartition, hi, w
<1>15. QED
  BY <1>14 DEF part, piv

(* What a call of qsort for n elements from p on leaves.                   *)
Ascending(m, p, n) == \A x, y \in 0 .. n - 1 : x < y => m[p + x] <= m[p + y]
IsSorted(out, m, p, n, size, room) ==
    /\ Shuffled(m, out, room, p, p + n * size)
    /\ size = 1 => Ascending(out, p, n)

(* Sorting what lies before the pivot and then what lies behind it sorts   *)
(* the whole.                                                              *)
LEMMA HalvesSorted ==
  ASSUME NEW room \in Nat, NEW p \in Nat, NEW n \in Nat, n > 2, NEW size \in Nat \ {0},
         p + n * size <= room, NEW m \in Memory(room),
         NEW part, IsPartition(part, m, p, n, size, room),
         NEW m1, IsSorted(m1, part.m, p, part.piv, size, room),
         NEW m2, IsSorted(m2, m1, p + part.piv + 1, n - part.piv - 1, size, room)
  PROVE  IsSorted(m2, m, p, n, size, room)
<1> DEFINE k == part.piv  r == n - k - 1  q == p + k + 1
           w == n * size  wk == k * size  wr == r * size
<1>1. k \in 0 .. n - 1 /\ Shuffled(m, part.m, room, p, p + w)
  BY DEF IsPartition
<1>2. k \in Nat /\ r \in Nat /\ q \in Nat /\ n = k + r + 1
  BY <1>1
<1>3. wk \in Nat /\ wr \in Nat /\ w \in Nat /\ p + wk <= p + w /\ q + wr <= p + w /\ p <= q
  <2>1. \A u, v, s \in Nat : /\ u * (s + 1) \in Nat /\ v * (s + 1) \in Nat
                             /\ (u + v + 1) * (s + 1) = u * (s + 1) + v * (s + 1) + s + 1
    BY Z3
  <2>2. \A u \in Nat : u * size >= u
    <3>1. \A u, s \in Nat : u * s \in Nat /\ u * (s + 1) = u * s + u
      BY Z3
    <3>2. size - 1 \in Nat /\ (size - 1) + 1 = size
      OBVIOUS
    <3>3. ASSUME NEW u \in Nat PROVE u * size >= u
      <4> DEFINE z == u * (size - 1)  y == u * size
      <4>1. z \in Nat /\ y = z + u
        BY <3>1, <3>2
      <4> HIDE DEF z, y
      <4>2. y >= u
        BY <4>1
      <4>3. QED
        BY <4>2 DEF y
    <3>4. QED
      BY <3>3
  <2>3. size - 1 \in Nat /\ (size - 1) + 1 = size
    OBVIOUS
  <2>4. wk >= k
    BY <1>2, <2>2
  <2> HIDE DEF k, r
  <2>5. wk \in Nat /\ wr \in Nat /\ w = wk + wr + (size - 1) + 1
    BY <1>2, <2>1, <2>3
  <2> HIDE DEF wk, wr, w
  <2>6. QED
    BY <1>2, <2>4, <2>5
<1>4. Shuffled(part.m, m1, room, p, p + wk) /\ (size = 1 => Ascending(m1, p, k))
  BY DEF IsSorted
<1>5. Shuffled(m1, m2, room, q, q + wr) /\ (size = 1 => Ascending(m2, q, r))
  BY DEF IsSorted
<1>6. Shuffled(m, m2, room, p, p + w)
  <2> HIDE DEF k, r, q, w, wk, wr
  <2>1. p + w \in Int /\ p + wk \in Int /\ q + wr \in Int /\ p \in Int /\ q \in Int /\ p <= p
    BY <1>2, <1>3
  <2>2. Shuffled(part.m, m1, room, p, p + w)
    BY <1>3, <1>4, <2>1, ShuffledWider
  <2>3. Shuffled(m1, m2, room, p, p + w)
    BY <1>3, <1>5, <2>1, ShuffledWider
  <2>4. Shuffled(part.m, m2, room, p, p + w)
    BY <2>2, <2>3, ShuffledTwice
  <2>5. QED
    BY <1>1, <2>4, ShuffledTwice
<1>7. ASSUME size = 1 PROVE Ascending(m2, p, n)
  <2>1. wk = k /\ wr = r /\ w = n
    BY <1>2, <1>7
  <2>2. Pivoted(part.m, p, n, k)
    BY <1>7 DEF IsPartition
  <2> HIDE DEF k, r, wk, wr, w
  <2>3. part.m \in Memory(room) /\ m1 \in Memory(room) /\ m2 \in Memory(room)
    BY <1>1, <1>4, <1>5 DEF Shuffled
  <2>4. p + n <= room
    BY <1>7
  <2> DEFINE v == part.m[p + k]
  <2>5. v \in Int /\ p + k \in 0 .. room - 1
    BY <1>2, <2>3, <2>4 DEF Memory
  <2>6. \A x \in 0 .. n - 1 : p + x \in 0 .. room - 1 /\ m1[p + x] \in Int /\ m2[p + x] \in Int
    BY <2>3, <2>4 DEF Memory
  <2>15. Shuffled(part.m, m1, room, p, p + k) /\ Shuffled(m1, m2, room, q, q + r)
    BY <1>4, <1>5, <2>1
  <2>16. /\ \A x \in 0 .. room - 1 : x \notin p .. (p + k) - 1 => m1[x] = part.m[x]
         /\ \A x \in 0 .. room - 1 : x \in p .. (p + k) - 1 =>
              \E y \in 0 .. room - 1 : y \in p .. (p + k) - 1 /\ m1[x] = part.m[y]
    <3> DEFINE hi == p + k
    <3>1. Shuffled(part.m, m1, room, p, hi)
      BY <2>15
    <3> HIDE DEF hi
    <3>2. /\ \A x \in 0 .. room - 1 : x \notin p .. hi - 1 => m1[x] = part.m[x]
          /\ \A x \in 0 .. room - 1 : x \in p .. hi - 1 =>
               \E y \in 0 .. room - 1 : y \in p .. hi - 1 /\ m1[x] = part.m[y]
      BY <3>1, ShuffledKeeps
    <3>3. QED
      BY <3>2 DEF hi
  <2>17. /\ \A x \in 0 .. room - 1 : x \notin q .. (q + r) - 1 => m2[x] = m1[x]
         /\ \A x \in 0 .. room - 1 : x \in q .. (q + r) - 1 =>
              \E y \in 0 .. room - 1 : y \in q .. (q + r) - 1 /\ m2[x] = m1[y]
    <3> DEFINE hi == q + r
    <3>1. Shuffled(m1, m2, room, q, hi)
      BY <2>15
    <3> HIDE DEF hi, q
    <3>2. /\ \A x \in 0 .. room - 1 : x \notin q .. hi - 1 => m2[x] = m1[x]
          /\ \A x \in 0 .. room - 1 : x \in q .. hi - 1 =>
               \E y \in 0 .. room - 1 : y \in q .. hi - 1 /\ m2[x] = m1[y]
      BY <3>1, ShuffledKeeps
    <3>3. QED
      BY <3>2 DEF hi
  <2>9. \A x \in 0 .. k - 1 : m1[p + x] <= v
    <3>1. SUFFICES ASSUME NEW x \in 0 .. k - 1 PROVE m1[p + x] <= v
      OBVIOUS
    <3>2. p + x \in 0 .. room - 1 /\ p + x \in p .. (p + k) - 1
      BY <1>2, <2>4
    <3>3. PICK y \in 0 .. room - 1 : y \in p .. (p + k) - 1 /\ m1[p + x] = part.m[y]
      BY <2>16, <3>2
    <3>4. y - p \in 0 .. k - 1 /\ p + (y - p) = y
      BY <1>2, <3>3
    <3>5. part.m[p + (y - p)] <= v
      BY <2>2, <3>4 DEF Pivoted
    <3>6. QED
      BY <3>3, <3>4, <3>5
  <2>10. \A x \in k + 1 .. n - 1 : m2[p + x] >= v
    <3>1. SUFFICES ASSUME NEW x \in k + 1 .. n - 1 PROVE m2[p + x] >= v
      OBVIOUS
    <3>2. p + x \in 0 .. room - 1 /\ p + x \in q .. (q + r) - 1
      BY <1>2, <2>4
    <3>3. PICK y \in 0 .. room - 1 : y \in q .. (q + r) - 1 /\ m2[p + x] = m1[y]
      BY <2>17, <3>2
    <3>4. y - p \in k + 1 .. n - 1 /\ p + (y - p) = y /\ y \notin p .. (p + k) - 1
      BY <1>2, <3>3
    <3>5. part.m[p + (y - p)] >= v
      BY <2>2, <3>4 DEF Pivoted
    <3>6. QED
      BY <2>16, <3>3, <3>4, <3>5
  <2>11. \A x \in 0 .. k : m2[p + x] = m1[p + x] /\ m1[p + k] = v
    <3>1. SUFFICES ASSUME NEW x \in 0 .. k PROVE m2[p + x] = m1[p + x] /\ m1[p + k] = v
      OBVIOUS
    <3>2. p + x \in 0 .. room - 1 /\ p + x \notin q .. (q + r) - 1 /\ p + k \notin p .. (p + k) - 1
      BY <1>2, <2>4
    <3>3. QED
      BY <2>5, <2>16, <2>17, <3>2
  <2>12. \A x \in 0 .. k : m2[p + x] <= v
    <3>1. SUFFICES ASSUME NEW x \in 0 .. k PROVE m2[p + x] <= v
      OBVIOUS
    <3>2. m2[p + x] = m1[p + x] /\ m1[p + k] = v
      BY <2>11
    <3> HIDE DEF v
    <3>3. CASE x = k
      BY <2>5, <3>2, <3>3
    <3>4. CASE x # k
      <4>1. x \in 0 .. k - 1
        BY <1>2, <3>4
      <4>2. QED
        BY <2>9, <3>2, <4>1
    <3>5. QED
      BY <3>3, <3>4
  <2>13. ASSUME NEW x \in 0 .. n - 1, NEW y \in 0 .. n - 1, x < y PROVE m2[p + x] <= m2[p + y]
    <3>1. m2[p + x] \in Int /\ m2[p + y] \in Int
      BY <2>6
    <3>2. CASE y < k
      <4>1. x \in 0 .. k - 1 /\ y \in 0 .. k - 1 /\ x \in 0 .. k /\ y \in 0 .. k
        BY <1>2, <2>13, <3>2
      <4>2. m1[p + x] <= m1[p + y]
        BY <1>4, <1>7, <2>13, <4>1 DEF Ascending
      <4>3. QED
        BY <2>11, <4>1, <4>2
    <3>3. CASE k < x
      <4> DEFINE a == x - k - 1  b == y - k - 1
      <4>1. a \in 0 .. r - 1 /\ b \in 0 .. r - 1 /\ a < b /\ q + a = p + x /\ q + b = p + y
        BY <1>2, <2>13, <3>3
      <4> HIDE DEF a, b, q
      <4>2. m2[q + a] <= m2[q + b]
        BY <1>5, <1>7, <4>1 DEF Ascending
      <4>3. QED
        BY <4>1, <4>2
    <3>4. CASE x <= k /\ k <= y
      <4>1. m2[p + x] <= v
        <5>1. x \in 0 .. k
          BY <1>2, <3>4
        <5>2. QED
          BY <2>12, <5>1
      <4>2. m2[p + y] >= v
        <5>1. CASE y = k
          <6>1. k \in 0 .. k
            BY <1>2
          <6>2. m2[p + k] = v
            BY <2>11, <6>1
          <6>3. QED
            BY <2>5, <5>1, <6>2
        <5>2. CASE y # k
          <6>1. y \in k + 1 .. n - 1
            BY <1>2, <3>4, <5>2
          <6>2. QED
            BY <2>10, <6>1
        <5>3. QED
          BY <5>1, <5>2
      <4> HIDE DEF v
      <4>3. QED
        BY <2>5, <3>1, <4>1, <4>2
    <3>5. QED
      BY <1>2, <2>13, <3>2, <3>3, <3>4
  <2>14. QED
    BY <2>13 DEF Ascending
<1>8. QED
  BY <1>6, <1>7 DEF IsSorted

(* Two elements are compared and exchanged.                                *)
LEMMA TwoSorted ==
  ASSUME NEW room \in Nat, NEW p \in Nat, NEW size \in Nat \ {0}, p + 2 * size <= room,
         NEW m \in Memory(room)
  PROVE  IsSorted(IF Greater(m, p, p + 1, size) THEN memswap(m, p, p + 1, size) ELSE m,
                  m, p, 2, size, room)
<1> DEFINE hi == p + 2 * size
           out == IF Greater(m, p, p + 1, size) THEN memswap(m, p, p + 1, size) ELSE m
<1>1. /\ p + 1 \in Nat /\ size \in Nat /\ hi \in Nat /\ hi <= room
      /\ p <= p /\ p + size <= hi /\ p <= p + 1 /\ (p + 1) + size <= hi
  OBVIOUS
<1> HIDE DEF hi
<1>2. Shuffled(m, out, room, p, hi)
  <2>1. Shuffled(m, memswap(m, p, p + 1, size), room, p, hi)
    BY <1>1, MemswapShuffles
  <2>2. Shuffled(m, m, room, p, hi)
    BY ShuffledSelf
  <2>3. QED
    BY <2>1, <2>2
<1>3. ASSUME size = 1 PROVE Ascending(out, p, 2)
  <2>1. out = IF m[p] > m[p + 1] THEN memswap(m, p, p + 1, 1) ELSE m
    BY <1>1, <1>3, GreaterByte
  <2>2. p \in 0 .. room - 1 /\ p + 1 \in 0 .. room - 1
    BY <1>1, <1>3
  <2>3. memswap(m, p, p + 1, 1) = [m EXCEPT ![p] = m[p + 1], ![p + 1] = m[p]]
    BY <2>2, MemswapByte
  <2>4. m[p] \in Int /\ m[p + 1] \in Int /\ p # p + 1 /\ DOMAIN m = 0 .. room - 1
    BY <2>2 DEF Memory
  <2> HIDE DEF out
  <2> DEFINE a == p + 1  u == m[p]  v == m[a]
  <2> HIDE DEF a, u, v
  <2>5. out[p] <= out[a]
    <3>1. CASE u > v
      <4>1. out = [m EXCEPT ![p] = v, ![a] = u]
        BY <2>1, <2>3, <3>1 DEF a, u, v
      <4>2. out[p] = v /\ out[a] = u
        BY <2>2, <2>4, <4>1 DEF a
      <4>3. QED
        BY <2>4, <3>1, <4>2 DEF a, u, v
    <3>2. CASE ~(u > v)
      BY <2>1, <2>4, <3>2 DEF a, u, v
    <3>3. QED
      BY <3>1, <3>2
  <2>6. \A x, y \in 0 .. 2 - 1 : x < y => x = 0 /\ y = 1 /\ p + x = p
    OBVIOUS
  <2>7. QED
    BY <2>5, <2>6 DEF Ascending, a
<1>4. QED
  BY <1>2, <1>3 DEF IsSorted, hi

(* Both parts lie in the array.                                            *)
LEMMA PartsFit ==
  ASSUME NEW n \in Nat, NEW k \in 0 .. n - 1, NEW size \in Nat \ {0}
  PROVE  /\ k * size \in Nat /\ k * size <= n * size
         /\ (k + 1) + (n - k - 1) * size <= n * size
<1> DEFINE r == n - k - 1  w == n * size  wk == k * size  wr == r * size
<1>1. k \in Nat /\ r \in Nat /\ n = k + r + 1
  OBVIOUS
<1>2. \A u, v, s \in Nat : /\ u * (s + 1) \in Nat /\ v * (s + 1) \in Nat /\ u * s \in Nat
                           /\ (u + v + 1) * (s + 1) = u * (s + 1) + v * (s + 1) + s + 1
                           /\ u * (s + 1) = u * s + u
  BY Z3
<1>3. size - 1 \in Nat /\ (size - 1) + 1 = size
  OBVIOUS
<1> DEFINE z == k * (size - 1)
<1> HIDE DEF r
<1>4. wk \in Nat /\ wr \in Nat /\ z \in Nat /\ w = wk + wr + (size - 1) + 1 /\ wk = z + k
  BY <1>1, <1>2, <1>3
<1> HIDE DEF w, wk, wr, z
<1>5. wk \in Nat /\ wk <= w /\ (k + 1) + wr <= w
  BY <1>1, <1>4
<1>6. QED
  BY <1>5 DEF w, wk, wr, r

(* qsort leaves a shuffle of the array, sorted when elements are one byte: *)
(* by induction over the number of elements, both parts having fewer.      *)
LEMMA QsortRight ==
  ASSUME NEW room \in Nat, NEW m \in Memory(room), NEW ptr \in Nat, NEW count \in Nat,
         NEW size \in Nat \ {0}, ptr + count * size <= room
  PROVE  IsSorted(qsort(m, ptr, count, size), m, ptr, count, size, room)
<1> DEFINE T == ptr + count * size
           M == Memory(room)
           Rm == [n \in Nat |-> {p \in 0 .. T : p + n * size <= T}]
           Part(n, mem, p) == partition(mem, p, n, size, size \div 2)
           Cell(n, g, mem, p) ==
             IF n < 2 THEN mem
             ELSE IF n = 2
             THEN IF Greater(mem, p, p + 1, size) THEN memswap(mem, p, p + 1, size) ELSE mem
             ELSE LET part == partition(mem, p, n, size, size \div 2)
                  IN  g[n - part.piv - 1][g[part.piv][part.m][p]][p + part.piv + 1]
           Body(n, g) == [mem \in M |-> [p \in Rm[n] |-> Cell(n, g, mem, p)]]
           Rec(g) == g = [n \in 0 .. count |->
                       [mem \in [DOMAIN m -> Int] |->
                        [p \in {p \in 0 .. ptr + count * size : p + n * size <= ptr + count * size} |->
                         IF n < 2 THEN mem
                         ELSE IF n = 2
                         THEN IF Greater(mem, p, p + 1, size) THEN memswap(mem, p, p + 1, size) ELSE mem
                         ELSE LET part == partition(mem, p, n, size, size \div 2)
                              IN  g[n - part.piv - 1][g[part.piv][part.m][p]][p + part.piv + 1]]]]
           s == CHOOSE g : Rec(g)
<1>1. qsort(m, ptr, count, size) = s[count][m][ptr]
  BY DEF qsort
<1>2. [DOMAIN m -> Int] = M
  BY DEF Memory
<1>3. \A g : Rec(g) <=> g = [n \in 0 .. count |-> Body(n, g)]
  <2>1. \A n \in 0 .. count : Rm[n] = {p \in 0 .. ptr + count * size : p + n * size <= ptr + count * size}
    OBVIOUS
  <2>2. ASSUME NEW g PROVE Rec(g) <=> g = [n \in 0 .. count |-> Body(n, g)]
    <3> DEFINE BodyIn(n) == [mem \in [DOMAIN m -> Int] |->
                 [p \in {p \in 0 .. ptr + count * size : p + n * size <= ptr + count * size} |->
                    Cell(n, g, mem, p)]]
    <3>1. Rec(g) <=> g = [n \in 0 .. count |-> BodyIn(n)]
      BY Zenon
    <3> HIDE DEF Rec, Rm, M, Cell
    <3>2. \A n \in 0 .. count : BodyIn(n) = Body(n, g)
      BY <1>2, <2>1
    <3> HIDE DEF BodyIn, Body
    <3>3. QED
      BY <3>1, <3>2
  <2> HIDE DEF Rec
  <2>3. QED
    BY <2>2
<1>4. T \in Nat /\ T <= room /\ count * size \in Nat
  BY ElementsFit, Z3
<1> HIDE DEF Rec
<1>5. ASSUME NEW n \in Nat, NEW p \in Rm[n] PROVE p \in Nat /\ n * size \in Nat /\ p + n * size <= T
  BY <1>4, Z3
<1>6. ASSUME NEW n \in Nat, n > 2, NEW p \in Rm[n], NEW mem \in M
      PROVE  /\ IsPartition(Part(n, mem, p), mem, p, n, size, room)
             /\ Part(n, mem, p).m \in M
             /\ Part(n, mem, p).piv \in Nat /\ Part(n, mem, p).piv < n
             /\ n - Part(n, mem, p).piv - 1 \in Nat /\ n - Part(n, mem, p).piv - 1 < n
             /\ p \in Rm[Part(n, mem, p).piv]
             /\ p + Part(n, mem, p).piv + 1 \in Rm[n - Part(n, mem, p).piv - 1]
  <2> DEFINE k == Part(n, mem, p).piv
  <2>1. p \in Nat /\ n * size \in Nat /\ p + n * size <= T
    BY <1>5
  <2>2. p + n * size <= room
    BY <1>4, <2>1
  <2>3. IsPartition(Part(n, mem, p), mem, p, n, size, room)
    BY <1>6, <2>1, <2>2, PartitionRight
  <2> HIDE DEF Part
  <2>4. k \in 0 .. n - 1 /\ Part(n, mem, p).m \in M
    BY <2>3 DEF IsPartition, Shuffled
  <2> HIDE DEF k
  <2>5. k \in Nat /\ n - k - 1 \in Nat /\ k < n /\ n - k - 1 < n
    BY <2>4
  <2>6. k * size \in Nat /\ k * size <= n * size /\ (k + 1) + (n - k - 1) * size <= n * size
    BY <2>4, PartsFit
  <2>7. (n - k - 1) * size \in Nat
    BY <2>5, Z3
  <2> HIDE DEF T
  <2>8. p \in Rm[k]
    <3>1. p \in 0 .. T /\ p + k * size <= T
      BY <1>4, <2>1, <2>6
    <3>2. QED
      BY <2>5, <3>1
  <2>9. p + k + 1 \in Rm[n - k - 1]
    <3> DEFINE r == n - k - 1  wr == r * size  w == n * size
    <3>1. w \in Nat /\ wr \in Nat /\ (k + 1) + wr <= w /\ p + w <= T
      BY <2>1, <2>6, <2>7
    <3> HIDE DEF wr, w
    <3>2. p + k + 1 \in 0 .. T /\ (p + k + 1) + wr <= T
      BY <1>4, <2>1, <2>5, <3>1
    <3>3. r \in Nat /\ (p + k + 1) + r * size <= T
      BY <2>5, <3>2 DEF wr
    <3> HIDE DEF r
    <3>4. p + k + 1 \in Rm[r]
      BY <3>2, <3>3
    <3>5. QED
      BY <3>4 DEF r
  <2> HIDE DEF M, Rm
  <2>10. QED
    BY <2>3, <2>4, <2>5, <2>8, <2>9 DEF k
<1> HIDE DEF T, Part
<1>7. ASSUME NEW n \in Nat, NEW p \in Rm[n], NEW mem \in M, NEW g, NEW h,
             \A i \in Nat : i < n => g[i] = h[i]
      PROVE  Cell(n, g, mem, p) = Cell(n, h, mem, p)
  <2>1. CASE n <= 2
    <3>1. ASSUME NEW f
          PROVE  Cell(n, f, mem, p) =
                   IF n < 2 THEN mem
                   ELSE IF Greater(mem, p, p + 1, size) THEN memswap(mem, p, p + 1, size) ELSE mem
      BY <2>1
    <3> HIDE DEF Cell
    <3>2. QED
      BY <3>1
  <2>2. CASE n > 2
    <3>1. /\ g[Part(n, mem, p).piv] = h[Part(n, mem, p).piv]
          /\ g[n - Part(n, mem, p).piv - 1] = h[n - Part(n, mem, p).piv - 1]
      <4> HIDE DEF M, Rm
      <4>1. QED
        BY <1>6, <1>7, <2>2
    <3>2. \A f : Cell(n, f, mem, p) =
            f[n - Part(n, mem, p).piv - 1][f[Part(n, mem, p).piv][Part(n, mem, p).m][p]][p + Part(n, mem, p).piv + 1]
      BY <2>2 DEF Part
    <3> HIDE DEF Cell
    <3>3. QED
      BY <3>1, <3>2
  <2> HIDE DEF Cell
  <2>3. QED
    BY <2>1, <2>2
<1> DEFINE X == [n \in Nat |-> [M -> [Rm[n] -> M]]]
<1>8. ASSUME NEW n \in Nat, NEW p \in Rm[n], NEW mem \in M, NEW g, SoFar(g, n, X)
      PROVE  Cell(n, g, mem, p) \in M
  <2>1. CASE n <= 2
    <3>1. p \in Nat /\ n * size \in Nat /\ p + n * size <= room
      BY <1>4, <1>5
    <3>2. CASE n = 2
      <4>1. IsSorted(Cell(n, g, mem, p), mem, p, 2, size, room)
        BY <3>1, <3>2, TwoSorted
      <4> HIDE DEF Cell
      <4>2. QED
        BY <4>1 DEF IsSorted, Shuffled
    <3>3. CASE n # 2
      BY <2>1, <3>3
    <3>4. QED
      BY <3>2, <3>3
  <2>2. CASE n > 2
    <3> DEFINE k == Part(n, mem, p).piv  r == n - k - 1
    <3>1. Cell(n, g, mem, p) = g[r][g[k][Part(n, mem, p).m][p]][p + k + 1]
      BY <2>2 DEF Part
    <3> HIDE DEF Cell, M, Rm
    <3>2. /\ k \in Nat /\ k < n /\ r \in Nat /\ r < n /\ Part(n, mem, p).m \in M
          /\ p \in Rm[k] /\ p + k + 1 \in Rm[r]
      BY <1>6, <2>2
    <3> HIDE DEF k, r
    <3>3. g[k] \in [M -> [Rm[k] -> M]] /\ g[r] \in [M -> [Rm[r] -> M]]
      BY <1>8, <3>2 DEF SoFar
    <3>4. g[k][Part(n, mem, p).m][p] \in M
      BY <3>2, <3>3
    <3>5. QED
      BY <3>1, <3>2, <3>3, <3>4
  <2> HIDE DEF Cell, M, Rm, X
  <2>3. QED
    BY <2>1, <2>2
<1> HIDE DEF M, Rm
<1> DEFINE B == [n \in Nat |-> [g \in [Nat -> Values(X)] |-> Body(n, g)]]
<1>9. \A n \in Nat : \A g \in [Nat -> Values(X)] : B[n][g] = Body(n, g)
  BY Zenon
<1> HIDE DEF Cell
<1>10. IsBody(B, X)
  <2>1. m \in M
    BY DEF M
  <2>2. \A n \in Nat : X[n] # {}
    <3>1. SUFFICES ASSUME NEW n \in Nat PROVE X[n] # {}
      BY Zenon
    <3>2. [mem \in M |-> [p \in Rm[n] |-> m]] \in X[n]
      BY <2>1
    <3>3. QED
      BY <3>2
  <2>3. ASSUME NEW n \in Nat, NEW g \in [Nat -> Values(X)], SoFar(g, n, X) PROVE B[n][g] \in X[n]
    <3>1. \A mem \in M : \A p \in Rm[n] : Cell(n, g, mem, p) \in M
      BY <1>8, <2>3
    <3>2. Body(n, g) \in [M -> [Rm[n] -> M]]
      BY <3>1
    <3>3. QED
      BY <1>9, <3>2
  <2>4. ASSUME NEW n \in Nat, NEW g \in [Nat -> Values(X)], NEW h \in [Nat -> Values(X)],
               \A k \in Nat : k < n => g[k] = h[k]
        PROVE  B[n][g] = B[n][h]
    <3>1. \A mem \in M : \A p \in Rm[n] : Cell(n, g, mem, p) = Cell(n, h, mem, p)
      BY <1>7, <2>4
    <3>2. Body(n, g) = Body(n, h)
      BY <3>1
    <3>3. QED
      BY <1>9, <3>2
  <2> HIDE DEF B, X
  <2>5. QED
    BY <2>2, <2>3, <2>4 DEF IsBody
<1>11. PICK f : IsMadeBy(f, B, X)
  <2> HIDE DEF B, X
  <2>1. QED
    BY <1>10, RecursionOnNat
<1>12. \E g : Rec(g)
  <2> DEFINE g == [n \in 0 .. count |-> f[n]]
  <2>1. f \in [Nat -> Values(X)] /\ \A n \in Nat : f[n] = B[n][f]
    BY <1>11 DEF IsMadeBy
  <2>2. \A n \in Nat : f[n] = Body(n, f)
    <3> HIDE DEF B, X, Body
    <3>1. QED
      BY <1>9, <2>1
  <2>3. \A i \in 0 .. count : g[i] = f[i]
    OBVIOUS
  <2>4. ASSUME NEW n \in 0 .. count PROVE Body(n, f) = Body(n, g)
    <3>1. \A i \in Nat : i < n => f[i] = g[i]
      BY <2>3
    <3>2. \A mem \in M : \A p \in Rm[n] : Cell(n, f, mem, p) = Cell(n, g, mem, p)
      <4> HIDE DEF g
      <4>1. n \in Nat
        OBVIOUS
      <4>2. QED
        BY <1>7, <3>1, <4>1
    <3> HIDE DEF g
    <3>3. QED
      BY <3>2
  <2>5. g = [n \in 0 .. count |-> Body(n, f)]
    <3> HIDE DEF Body
    <3>1. QED
      BY <2>2
  <2>6. g = [n \in 0 .. count |-> Body(n, g)]
    <3> HIDE DEF Body, g
    <3>1. QED
      BY <2>4, <2>5
  <2> HIDE DEF g, Body
  <2>7. Rec(g)
    BY <1>3, <2>6
  <2>8. QED
    BY <2>7
<1>13. Rec(s)
  BY <1>12
<1> HIDE DEF B, X, s
<1>14. ASSUME NEW n \in 0 .. count, NEW mem \in M, NEW p \in Rm[n]
       PROVE  s[n][mem][p] = Cell(n, s, mem, p)
  <2>1. s = [i \in 0 .. count |-> Body(i, s)]
    <3> HIDE DEF Body
    <3>1. QED
      BY <1>3, <1>13
  <2>2. s[n] = Body(n, s)
    <3> HIDE DEF Body
    <3>1. QED
      BY <2>1
  <2>3. QED
    BY <2>2
<1> HIDE DEF Body
<1> DEFINE Right(k) == \A mem \in M : \A p \in Rm[k] : IsSorted(s[k][mem][p], mem, p, k, size, room)
           Q == {n \in Nat : \A k \in Nat : k < n /\ k <= count => Right(k)}
<1> HIDE DEF Right
<1>15. 0 \in Q
  OBVIOUS
<1>16. ASSUME NEW n \in Nat, n \in Q PROVE n + 1 \in Q
  <2>1. ASSUME n <= count PROVE Right(n)
    <3>1. SUFFICES ASSUME NEW mem \in M, NEW p \in Rm[n]
                   PROVE  IsSorted(s[n][mem][p], mem, p, n, size, room)
      BY Zenon DEF Right
    <3>2. n \in 0 .. count /\ mem \in Memory(room)
      BY <2>1 DEF M
    <3>3. s[n][mem][p] = Cell(n, s, mem, p)
      BY <1>14, <3>2
    <3>4. p \in Nat /\ n * size \in Nat /\ p + n * size <= room
      BY <1>4, <1>5
    <3>5. CASE n < 2
      <4>1. s[n][mem][p] = mem
        BY <3>3, <3>5 DEF Cell
      <4>2. Shuffled(mem, mem, room, p, p + n * size)
        BY <3>2, ShuffledSelf
      <4>3. Ascending(mem, p, n)
        BY <3>5 DEF Ascending
      <4>4. QED
        BY <4>1, <4>2, <4>3 DEF IsSorted
    <3>6. CASE n = 2
      <4>1. s[n][mem][p] = IF Greater(mem, p, p + 1, size) THEN memswap(mem, p, p + 1, size) ELSE mem
        BY <3>3, <3>6 DEF Cell
      <4>2. p + 2 * size <= room
        BY <3>4, <3>6
      <4>3. IsSorted(IF Greater(mem, p, p + 1, size) THEN memswap(mem, p, p + 1, size) ELSE mem,
                     mem, p, 2, size, room)
        BY <3>2, <3>4, <4>2, TwoSorted
      <4>4. QED
        BY <3>6, <4>1, <4>3
    <3>7. CASE n > 2
      <4> DEFINE part == Part(n, mem, p)  k == part.piv  r == n - k - 1
                 m1 == s[k][part.m][p]  m2 == s[r][m1][p + k + 1]
      <4>1. s[n][mem][p] = m2
        <5>1. Cell(n, s, mem, p) = m2
          BY <3>7 DEF Cell, Part
        <5> HIDE DEF m2
        <5>2. QED
          BY <3>3, <5>1
      <4>2. /\ IsPartition(part, mem, p, n, size, room) /\ part.m \in M
            /\ k \in Nat /\ k < n /\ r \in Nat /\ r < n /\ p \in Rm[k] /\ p + k + 1 \in Rm[r]
        BY <1>6, <3>7
      <4> HIDE DEF part, r
      <4>3. Right(k) /\ Right(r)
        <5>1. k <= count /\ r <= count
          BY <2>1, <4>2
        <5> HIDE DEF k
        <5>2. QED
          BY <1>16, <4>2, <5>1
      <4>4. IsSorted(m1, part.m, p, k, size, room)
        BY <4>2, <4>3 DEF Right
      <4>5. m1 \in M
        BY <4>4 DEF IsSorted, Shuffled, M
      <4>6. IsSorted(m2, m1, p + k + 1, r, size, room)
        <5> HIDE DEF m1
        <5>1. QED
          BY <4>2, <4>3, <4>5 DEF Right
      <4> HIDE DEF m1, m2
      <4>7. IsSorted(m2, mem, p, n, size, room)
        BY <3>2, <3>4, <3>7, <4>2, <4>4, <4>6, HalvesSorted DEF r
      <4>8. QED
        BY <4>1, <4>7
    <3>8. QED
      BY <3>5, <3>6, <3>7
  <2>2. ASSUME NEW k \in Nat, k < n + 1, k <= count PROVE Right(k)
    <3>1. CASE k < n
      BY <1>16, <2>2, <3>1
    <3>2. CASE k = n
      BY <2>1, <2>2, <3>2
    <3>3. QED
      BY <2>2, <3>1, <3>2
  <2>3. n + 1 \in Nat
    OBVIOUS
  <2>4. QED
    BY <2>2, <2>3
<1>17. \A n \in Nat : n \in Q
  <2> HIDE DEF Q
  <2>1. QED
    BY <1>15, <1>16, Induction
<1>18. Right(count)
  <2>1. count + 1 \in Nat /\ count < count + 1 /\ count <= count
    OBVIOUS
  <2>2. QED
    BY <1>17, <2>1
<1>19. ptr \in Rm[count] /\ m \in M
  BY <1>4 DEF Rm, T, M
<1>20. IsSorted(s[count][m][ptr], m, ptr, count, size, room)
  BY <1>18, <1>19 DEF Right
<1>21. QED
  BY <1>1, <1>20 DEF s

(* qsort returns what it should.                                           *)
LEMMA SortStep ==
  ASSUME IsCall, Sort
  PROVE  SortsBytes'
<1> DEFINE a == call.array  out == qsort(a.bytes, 0, a.count, a.size)
<1>1. call.fn = "sort" /\ call' = call /\ Got' = out
  BY DEF Sort, Calls, Got
<1>2. a \in Arrays
  BY <1>1, CallHas
<1>3. /\ a.count \in Nat /\ a.size \in Nat \ {0} /\ a.room \in Nat /\ a.count * a.size <= a.room
      /\ a.bytes \in Memory(a.room)
  BY <1>2, LibcAssumption DEF Memory
<1>4. IsSorted(out, a.bytes, 0, a.count, a.size, a.room)
  <2> DEFINE z == a.count * a.size
  <2>1. z \in Nat
    BY <1>3, Z3
  <2> HIDE DEF z
  <2>2. 0 + z <= a.room
    BY <1>3, <2>1 DEF z
  <2> HIDE DEF a
  <2>3. QED
    BY <1>3, <2>2, QsortRight DEF z
<1> HIDE DEF out
<1>5. Shuffled(a.bytes, out, a.room, 0, 0 + a.count * a.size)
  BY <1>4 DEF IsSorted
<1>6. \A b \in {a.bytes[x] : x \in DOMAIN a.bytes} : CountOf(out, b) = CountOf(a.bytes, b)
  BY <1>3, <1>5, ShuffledCounts
<1>7. \A x \in DOMAIN out : x >= a.count * a.size => out[x] = a.bytes[x]
  <2> DEFINE hi == 0 + a.count * a.size
  <2>1. Shuffled(a.bytes, out, a.room, 0, hi)
    BY <1>5
  <2>2. hi \in Nat /\ hi = a.count * a.size
    BY <1>3, Z3
  <2> HIDE DEF hi, a
  <2>3. \A x \in 0 .. a.room - 1 : x \notin 0 .. hi - 1 => out[x] = a.bytes[x]
    BY <1>3, <2>1, ShuffledKeeps
  <2>4. DOMAIN out = 0 .. a.room - 1
    BY <2>1 DEF Shuffled, Memory
  <2>5. QED
    BY <1>3, <2>2, <2>3, <2>4
<1>8. a.size = 1 => \A x, y \in 0 .. a.count - 1 : x < y => out[x] <= out[y]
  BY <1>3, <1>4 DEF IsSorted, Ascending
<1>9. QED
  BY <1>1, <1>6, <1>7, <1>8 DEF SortsBytes, Returned
-----------------------------------------------------------------------------
(* The theorems.  The invariant of all the calls together: a call is one   *)
(* of those of an instance and what it returned, if it has, is right.      *)
LibcInv == IsCall /\ StrtolRight /\ StringsExact /\ SortsBytes

(* What a call returned says nothing about the other functions.            *)
LEMMA OtherCalls ==
  ASSUME call' = call
  PROVE  /\ call.fn # "strtol" => StrtolRight'
         /\ call.fn \in {"strtol", "sort"} => StringsExact'
         /\ call.fn # "sort" => SortsBytes'
<1>1. call.fn # "strtol" => StrtolRight'
  BY DEF StrtolRight, Returned
<1>2. call.fn \in {"strtol", "sort"} => StringsExact'
  <2>1. call.fn \in {"strtol", "sort"} => SearchesFind'
    BY DEF SearchesFind, Returned
  <2>2. call.fn \in {"strtol", "sort"} => CopiesExact'
    BY DEF CopiesExact, Returned
  <2>3. QED
    BY <2>1, <2>2 DEF StringsExact
<1>3. call.fn # "sort" => SortsBytes'
  BY DEF SortsBytes, Returned
<1>4. QED
  BY <1>1, <1>2, <1>3

(* Before the function returns there is nothing to be right about, and     *)
(* every function returns what it should.                                  *)
LEMMA LibcInvInductive == LibcSpec => []LibcInv
<1>1. LibcInit => LibcInv
  <2>1. LibcInit => IsCall /\ ~(\E fn : Returned(fn))
    BY DEF LibcInit, Returned
  <2>2. LibcInit => StrtolRight
    BY <2>1, Zenon DEF StrtolRight
  <2>3. LibcInit => SearchesFind
    BY <2>1, Zenon DEF SearchesFind
  <2>4. LibcInit => CopiesExact
    BY <2>1, Zenon DEF CopiesExact
  <2>5. LibcInit => SortsBytes
    BY <2>1, Zenon DEF SortsBytes
  <2>6. QED
    BY <2>1, <2>2, <2>3, <2>4, <2>5 DEF LibcInv, StringsExact
<1>2. LibcInv /\ [LibcNext]_libcVars => LibcInv'
  <2> SUFFICES ASSUME LibcInv, [LibcNext]_libcVars PROVE LibcInv'
    OBVIOUS
  <2>1. IsCall
    BY DEF LibcInv
  <2>2. call' = call
    BY DEF LibcNext, libcVars, CallStrtol, FindChar, FindString, Compare, PutString,
           MoveBytes, Sort, Calls
  <2>3. IsCall'
    BY <2>1, <2>2 DEF IsCall
  <2>4. CASE CallStrtol
    <3>1. call.fn = "strtol"
      BY <2>4 DEF CallStrtol, Calls
    <3>2. StrtolRight'
      BY <2>1, <2>4, StrtolStep
    <3>3. QED
      BY <2>2, <2>3, <3>1, <3>2, OtherCalls DEF LibcInv
  <2>5. CASE FindChar
    <3>1. call.fn = "findchar"
      BY <2>5 DEF FindChar, Calls
    <3>2. StringsExact'
      BY <2>1, <2>5, FindCharStep DEF StringsExact
    <3>3. QED
      BY <2>2, <2>3, <3>1, <3>2, OtherCalls DEF LibcInv
  <2>6. CASE FindString
    <3>1. call.fn = "findstring"
      BY <2>6 DEF FindString, Calls
    <3>2. StringsExact'
      BY <2>1, <2>6, FindStringStep DEF StringsExact
    <3>3. QED
      BY <2>2, <2>3, <3>1, <3>2, OtherCalls DEF LibcInv
  <2>7. CASE Compare
    <3>1. call.fn = "compare"
      BY <2>7 DEF Compare, Calls
    <3>2. StringsExact'
      BY <2>1, <2>7, CompareStep DEF StringsExact
    <3>3. QED
      BY <2>2, <2>3, <3>1, <3>2, OtherCalls DEF LibcInv
  <2>8. CASE PutString
    <3>1. call.fn = "put"
      BY <2>8 DEF PutString, Calls
    <3>2. StringsExact'
      BY <2>1, <2>8, PutStep DEF StringsExact
    <3>3. QED
      BY <2>2, <2>3, <3>1, <3>2, OtherCalls DEF LibcInv
  <2>9. CASE MoveBytes
    <3>1. call.fn = "move"
      BY <2>9 DEF MoveBytes, Calls
    <3>2. StringsExact'
      BY <2>1, <2>9, MoveStep DEF StringsExact
    <3>3. QED
      BY <2>2, <2>3, <3>1, <3>2, OtherCalls DEF LibcInv
  <2>10. CASE Sort
    <3>1. call.fn = "sort"
      BY <2>10 DEF Sort, Calls
    <3>2. SortsBytes'
      BY <2>1, <2>10, SortStep
    <3>3. QED
      BY <2>2, <2>3, <3>1, <3>2, OtherCalls DEF LibcInv
  <2>11. CASE UNCHANGED libcVars
    <3>1. result' = result
      BY <2>11 DEF libcVars
    <3>2. StrtolRight'
      BY <2>2, <3>1 DEF LibcInv, StrtolRight, Returned, Got
    <3>3. SearchesFind'
      BY <2>2, <3>1 DEF LibcInv, StringsExact, SearchesFind, Returned, Got
    <3>4. CopiesExact'
      <4>1. CopiesExact
        BY DEF LibcInv, StringsExact
      <4>2. QED
        BY <2>2, <3>1, <4>1 DEF CopiesExact, Returned, Got, Put
    <3>5. SortsBytes'
      BY <2>2, <3>1 DEF LibcInv, SortsBytes, Returned, Got
    <3>6. QED
      BY <2>3, <3>2, <3>3, <3>4, <3>5 DEF LibcInv, StringsExact
  <2>12. QED
    BY <2>4, <2>5, <2>6, <2>7, <2>8, <2>9, <2>10, <2>11 DEF LibcNext
<1>3. QED
  BY <1>1, <1>2, PTL DEF LibcSpec

(* Whatever the width of long: of a text with digits and without a plus    *)
(* sign, a prefix 0X or one before a letter that is no digit, strtol       *)
(* (stdlib.c:19-85) returns the number, ends behind its last digit, and    *)
(* answers ERANGE only within base^2 of the end of the range that it       *)
(* returns.  Of the other texts it makes 0, and stops where it should not. *)
THEOREM StrtolConverts == LibcSpec => []StrtolRight
BY LibcInvInductive, PTL DEF LibcInv

(* Copies put exactly the right bytes, comparisons are 0 exactly for what  *)
(* is equal and have the sign of the first difference of signed characters *)
(* (memcmp: of unsigned bytes), memchr finds the first occurrence, strrchr *)
(* the last of a character that is not negative, strstr the first up to    *)
(* repeated characters, and strchr goes round for ever unless it has to    *)
(* look at one character only (string.c); for strings, buffers and words   *)
(* of any size.                                                            *)
THEOREM StringFunctionsRight == LibcSpec => []StringsExact
BY LibcInvInductive, PTL DEF LibcInv

(* qsort (stdlib.c) returns the array's own bytes in another order,        *)
(* touches nothing behind it, and sorts elements of one byte, in arrays of *)
(* any length.                                                             *)
THEOREM QsortPermutes == LibcSpec => []SortsBytes
BY LibcInvInductive, PTL DEF LibcInv

=============================================================================
