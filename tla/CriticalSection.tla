-------------------------- MODULE CriticalSection --------------------------
(***************************************************************************)
(* locks::CriticalSection (locks.cpp, locks.hpp): one POSIX named semaphore *)
(* shared by the processes of the server.  The semaphore does not know its  *)
(* owner: each process remembers in unlock_needed that it owes a sem_post.  *)
(*                                                                          *)
(* enter() waits at most WAIT_FOR_LOCK_SEC seconds and then throws          *)
(* CANT_LOCK; exit() and the destructors of CriticalSection and AutoCloser  *)
(* post only if unlock_needed; a process that dies posts nothing, and the   *)
(* only repair is reset_not_for_production().                               *)
(*                                                                          *)
(* The operators below are the operations.  SemaphoreUse.tla is the lock    *)
(* alone, with users that enter and leave it for ever and with the reset;   *)
(* Table.tla uses them for the lock of a table.                             *)
(***************************************************************************)
EXTENDS Integers

CONSTANTS
    Procs,              \* the server processes
    WAIT_FOR_LOCK_SEC   \* locks.hpp: 30

ASSUME WaitAssumption == WAIT_FOR_LOCK_SEC \in Nat

VARIABLES
    sem,            \* value of the named semaphore
    unlock_needed,  \* the processes whose unlock_needed is true: those inside
    waited          \* seconds p has spent in sem_timedwait, or NotWaiting

csVars == <<sem, unlock_needed, waited>>

NotWaiting == -1

CSTypeOK ==
    /\ sem \in Nat
    /\ unlock_needed \subseteq Procs
    /\ waited \in [Procs -> NotWaiting..WAIT_FOR_LOCK_SEC]

(* sem_open(O_CREAT, 1) by the first process that names the semaphore. *)
CSInit ==
    /\ sem = 1
    /\ unlock_needed = {}
    /\ waited = [p \in Procs |-> NotWaiting]

Waiting(p) == waited[p] # NotWaiting

-----------------------------------------------------------------------------
(* Operations                                                               *)

(* semaphore_accuire() computes the deadline and calls sem_timedwait(). *)
StartWaiting(p) == waited' = [waited EXCEPT ![p] = 0]

(* A slip: entering without waiting for the semaphore to be free. *)
AcquireUnguarded(p) ==
    /\ Waiting(p)
    /\ sem' = IF sem > 0 THEN sem - 1 ELSE 0
    /\ unlock_needed' = unlock_needed \union {p}
    /\ waited' = [waited EXCEPT ![p] = NotWaiting]

(* sem_timedwait() returns 0 and enter() sets unlock_needed.  It does so at *)
(* once when the semaphore is free, even if the deadline has passed.        *)
Acquire(p) ==
    /\ Waiting(p)
    /\ sem > 0
    /\ sem' = sem - 1
    /\ unlock_needed' = unlock_needed \union {p}
    /\ waited' = [waited EXCEPT ![p] = NotWaiting]

(* A slip: sem_wait() in place of sem_timedwait(). *)
NeverGivesUp(p) == FALSE

(* The deadline passes while the semaphore is taken. *)
DeadlinePassed(p) ==
    /\ Waiting(p)
    /\ sem = 0
    /\ waited[p] = WAIT_FOR_LOCK_SEC

(* exit(), ~AutoCloser() and ~CriticalSection() post what is owed. *)
Exit(p) ==
    /\ sem' = IF p \in unlock_needed THEN sem + 1 ELSE sem
    /\ unlock_needed' = unlock_needed \ {p}

(* The exception CANT_LOCK: the waiter gives up and holds nothing. *)
CantLock(p) ==
    /\ DeadlinePassed(p)
    /\ waited' = [waited EXCEPT ![p] = NotWaiting]
    /\ UNCHANGED <<sem, unlock_needed>>

(* The process is killed or calls std::exit: nothing is posted for it. *)
Die(p) ==
    /\ unlock_needed' = unlock_needed \ {p}
    /\ waited' = [waited EXCEPT ![p] = NotWaiting]
    /\ UNCHANGED sem

(* A slip: the wait goes on past the deadline. *)
WaitPastDeadline ==
    waited' = [p \in Procs |-> IF Waiting(p) THEN waited[p] + 1 ELSE waited[p]]

(* A second passes for everyone inside sem_timedwait(). *)
WaitOneSecond ==
    waited' = [p \in Procs |->
                 IF Waiting(p) /\ waited[p] < WAIT_FOR_LOCK_SEC
                 THEN waited[p] + 1 ELSE waited[p]]

(* At most one process is between enter() and exit(). *)
OneInside == \A p, q \in unlock_needed : p = q
=============================================================================
