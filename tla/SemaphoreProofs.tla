-------------------------- MODULE SemaphoreProofs --------------------------
(***************************************************************************)
(* Mutual exclusion and the balance of posts of one CriticalSection, for    *)
(* any set of processes and any time-out.                                   *)
(*                                                                          *)
(* MutualExclusion alone is not inductive: that nobody is inside when the   *)
(* semaphore is free has to be known as well, and that is what PostsBalance *)
(* says; and that a reset which nothing has disturbed is the only one and   *)
(* has found the semaphore taken by the dead alone (ResetAlone).  The       *)
(* conjunction of the three with the type invariant is.                     *)
(***************************************************************************)
EXTENDS SemaphoreUse, TLAPS

(* A reset that nothing has disturbed runs alone, and nobody is inside. *)
ResetAlone ==
    disturbances = {} =>
        \A p \in Procs : Resetting(p) =>
            /\ unlock_needed = {}
            /\ \A q \in Procs : Resetting(q) => q = p
            /\ reset[p] = "post" => sem = 0

Safety == MutualExclusion /\ PostsBalance /\ ResetAlone

Inv == TypeOK /\ Safety

(* The invariant holds when the first process has created the semaphore     *)
(* (CriticalSection's constructor).                                         *)
LEMMA InitInv == Init => Inv
<1> SUFFICES ASSUME Init PROVE Inv
  OBVIOUS
<1>1. TypeOK
  BY WaitAssumption
  DEF Init, CSInit, TypeOK, CSTypeOK, NotWaiting, WaitAssumption, ResetSteps, Disturbances
<1>2. Safety
  BY DEF Init, CSInit, Safety, MutualExclusion, PostsBalance, ResetAlone, OneInside,
         Holders, Resetting
<1> QED BY <1>1, <1>2 DEF Inv

(* Every operation of the lock, a death and the steps of a reset included,  *)
(* preserves the types.                                                     *)
LEMMA TypeStep == ASSUME TypeOK, [Next]_vars PROVE TypeOK'
<1> USE WaitAssumption DEF TypeOK, CSTypeOK, NotWaiting, Waiting, ResetSteps, Disturbances
<1>1. ASSUME NEW p \in Procs, enter(p) PROVE TypeOK'
  BY <1>1 DEF enter, StartWaiting
<1>2. ASSUME NEW p \in Procs, semaphore_accuire(p) PROVE TypeOK'
  <2>1. CASE Acquire(p) /\ disturbances' = IF \E q \in Procs : Resetting(q)
                                          THEN disturbances \union {"entry"} ELSE disturbances
    BY <1>2, <2>1 DEF semaphore_accuire, Acquire
  <2>2. CASE CantLock(p) /\ UNCHANGED disturbances
    BY <1>2, <2>2 DEF semaphore_accuire, CantLock
  <2> QED BY <1>2, <2>1, <2>2 DEF semaphore_accuire
<1>3. ASSUME NEW p \in Procs, exit(p) PROVE TypeOK'
  BY <1>3 DEF exit, Exit
<1>4. ASSUME NEW p \in Procs, Killed(p) PROVE TypeOK'
  BY <1>4 DEF Killed, Die
<1>5. ASSUME NEW p \in Procs, reset_not_for_production(p) PROVE TypeOK'
  BY <1>5 DEF reset_not_for_production, csVars
<1>6. ASSUME NEW p \in Procs, ResetTryWait(p) PROVE TypeOK'
  BY <1>6 DEF ResetTryWait
<1>7. ASSUME NEW p \in Procs, ResetPost(p) PROVE TypeOK'
  BY <1>7 DEF ResetPost
<1>8. ASSUME NEW p \in Procs, ResetLast(p) PROVE TypeOK'
  BY <1>8 DEF ResetLast
<1>9. CASE Tick
  BY <1>9 DEF Tick, WaitOneSecond
<1>10. CASE UNCHANGED vars
  BY <1>10 DEF vars, csVars
<1> QED BY <1>1, <1>2, <1>3, <1>4, <1>5, <1>6, <1>7, <1>8, <1>9, <1>10 DEF Next

(* Every operation preserves the safety invariants together. *)
LEMMA SafetyStep == ASSUME Inv, [Next]_vars PROVE Safety'
<1> USE DEF Inv, TypeOK, CSTypeOK, Safety, MutualExclusion, PostsBalance, ResetAlone, OneInside,
            Holders, Resetting
<1>1. ASSUME NEW p \in Procs, enter(p) PROVE Safety'
  BY <1>1 DEF enter, StartWaiting
<1>2. ASSUME NEW p \in Procs, semaphore_accuire(p) PROVE Safety'
  <2>1. CASE Acquire(p)
    BY <1>2, <2>1 DEF semaphore_accuire, Acquire, CantLock, DeadlinePassed
  <2>2. CASE CantLock(p) /\ UNCHANGED disturbances
    BY <1>2, <2>2 DEF semaphore_accuire, CantLock
  <2> QED BY <1>2, <2>1, <2>2 DEF semaphore_accuire
<1>3. ASSUME NEW p \in Procs, exit(p) PROVE Safety'
  BY <1>3 DEF exit, Exit
<1>4. ASSUME NEW p \in Procs, Killed(p) PROVE Safety'
  BY <1>4 DEF Killed, Die, ResetSteps
<1>5. ASSUME NEW p \in Procs, reset_not_for_production(p) PROVE Safety'
  BY <1>5 DEF reset_not_for_production, csVars, Outside, ResetSteps
<1>6. ASSUME NEW p \in Procs, ResetTryWait(p) PROVE Safety'
  BY <1>6 DEF ResetTryWait, ResetSteps
<1>7. ASSUME NEW p \in Procs, ResetPost(p) PROVE Safety'
  BY <1>7 DEF ResetPost, ResetSteps
<1>8. ASSUME NEW p \in Procs, ResetLast(p) PROVE Safety'
  BY <1>8 DEF ResetLast, ResetSteps
<1>9. CASE Tick
  BY <1>9 DEF Tick
<1>10. CASE UNCHANGED vars
  BY <1>10 DEF vars, csVars
<1> QED BY <1>1, <1>2, <1>3, <1>4, <1>5, <1>6, <1>7, <1>8, <1>9, <1>10 DEF Next

(* The inductive invariant of the lock. *)
THEOREM Invariance == Spec => []Inv
<1>1. Inv /\ [Next]_vars => Inv'
  BY TypeStep, SafetyStep DEF Inv
<1> QED BY InitInv, <1>1, PTL DEF Spec

(* enter() and exit() of locks.cpp keep two live processes from being       *)
(* inside at once, deaths included, and resets too that had the semaphore   *)
(* to themselves.                                                           *)
THEOREM SemaphoreMutualExclusion == Spec => []MutualExclusion
<1>1. Inv => MutualExclusion
  BY DEF Inv, Safety
<1> QED BY Invariance, <1>1, PTL

(* No operation of locks.cpp posts twice or forgets a post; only a death    *)
(* inside the section or in a reset takes one away, and a reset that had    *)
(* the semaphore to itself leaves one post, neither none nor two.           *)
THEOREM SemaphoreBalance == Spec => []PostsBalance
<1>1. Inv => PostsBalance
  BY DEF Inv, Safety
<1> QED BY Invariance, <1>1, PTL

(* The flags, the counter and the seconds of every wait keep their types:   *)
(* no wait of sem_timedwait() outlasts its deadline.                        *)
THEOREM SemaphoreTypes == Spec => []TypeOK
<1>1. Inv => TypeOK
  BY DEF Inv
<1> QED BY Invariance, <1>1, PTL
=============================================================================
