---------------------------- MODULE SemaphoreUse ----------------------------
(***************************************************************************)
(* Processes that enter and leave one CriticalSection for ever, any of      *)
(* which may be killed at any point and started again, or may run           *)
(* reset_not_for_production() while it is outside ("deals_server test" does, *)
(* for the locks of the three production tables, beside whatever servers    *)
(* are running).                                                            *)
(*                                                                          *)
(* reset_not_for_production() takes no lock.  It is the loop                *)
(*     while (sem_trywait(lock) == -1) sem_post(lock);   sem_post(lock);    *)
(* and every call in it is a step of its own, between which the others      *)
(* enter, leave, die and reset too.                                         *)
(***************************************************************************)
EXTENDS CriticalSection

VARIABLES
    reset,       \* the next call of p's reset_not_for_production()
    lost,        \* history: processes that died with a post that is owed
    disturbances \* history: what a reset has met that it does not allow for

vars == <<csVars, reset, lost, disturbances>>

\* "trywait" and "post" are the loop, "last" is the post after it: the
\* semaphore is then in the hands of the resetting process.
ResetSteps == {"none", "trywait", "post", "last"}

Resetting(p) == reset[p] # "none"
Holders == {p \in Procs : reset[p] = "last"}

\* "owner":   a live process was inside the section when a reset began
\* "entry":   a process entered the section while a reset ran
\* "overlap": a reset began while another ran
Disturbances == {"owner", "entry", "overlap"}

TypeOK ==
    /\ CSTypeOK
    /\ reset \in [Procs -> ResetSteps]
    /\ lost \subseteq Procs
    /\ disturbances \subseteq Disturbances

Init ==
    /\ CSInit
    /\ reset = [p \in Procs |-> "none"]
    /\ lost = {}
    /\ disturbances = {}

(* The process runs neither enter(), nor the section, nor a reset. *)
Outside(p) == ~Waiting(p) /\ p \notin unlock_needed /\ ~Resetting(p)

enter(p) ==
    /\ Outside(p)
    /\ StartWaiting(p)
    /\ UNCHANGED <<sem, unlock_needed, reset, lost, disturbances>>

semaphore_accuire(p) ==
    /\ \/ /\ Acquire(p)
          /\ disturbances' = IF \E q \in Procs : Resetting(q)
                             THEN disturbances \union {"entry"} ELSE disturbances
       \/ CantLock(p) /\ UNCHANGED disturbances
    /\ UNCHANGED <<reset, lost>>

(* A slip: an exit() that forgets to post. *)
exitForgets(p) ==
    /\ p \in unlock_needed
    /\ unlock_needed' = unlock_needed \ {p}
    /\ UNCHANGED <<sem, waited, reset, lost, disturbances>>

exit(p) ==
    /\ p \in unlock_needed
    /\ Exit(p)
    /\ UNCHANGED <<waited, reset, lost, disturbances>>

(* SIGKILL, a crash, or the second SIGTERM (std::exit in signalHandler). *)
Killed(p) ==
    /\ Die(p)
    /\ reset' = [reset EXCEPT ![p] = "none"]
    /\ lost' = lost \union ((unlock_needed \union Holders) \intersect {p})
    /\ UNCHANGED disturbances

reset_not_for_production(p) ==
    /\ Outside(p)
    /\ reset' = [reset EXCEPT ![p] = "trywait"]
    /\ disturbances' = disturbances
         \union (IF unlock_needed # {} THEN {"owner"} ELSE {})
         \union (IF \E q \in Procs : Resetting(q) THEN {"overlap"} ELSE {})
    /\ UNCHANGED <<csVars, lost>>

(* The condition of the loop: sem_trywait() takes the semaphore or fails. *)
ResetTryWait(p) ==
    /\ reset[p] = "trywait"
    /\ reset' = [reset EXCEPT ![p] = IF sem = 0 THEN "post" ELSE "last"]
    /\ sem' = IF sem = 0 THEN sem ELSE sem - 1
    /\ UNCHANGED <<unlock_needed, waited, lost, disturbances>>

(* The body of the loop puts a post in the place of what the dead took. *)
ResetPost(p) ==
    /\ reset[p] = "post"
    /\ reset' = [reset EXCEPT ![p] = "trywait"]
    /\ sem' = sem + 1
    /\ lost' = {}
    /\ UNCHANGED <<unlock_needed, waited, disturbances>>

(* The post after the loop. *)
ResetLast(p) ==
    /\ reset[p] = "last"
    /\ reset' = [reset EXCEPT ![p] = "none"]
    /\ sem' = sem + 1
    /\ UNCHANGED <<unlock_needed, waited, lost, disturbances>>

Tick ==
    /\ WaitOneSecond
    /\ UNCHANGED <<sem, unlock_needed, reset, lost, disturbances>>

Next ==
    \/ \E p \in Procs :
         \/ enter(p) \/ semaphore_accuire(p) \/ exit(p) \/ Killed(p)
         \/ reset_not_for_production(p)
         \/ ResetTryWait(p) \/ ResetPost(p) \/ ResetLast(p)
    \/ Tick

(* Time passes, and a process inside sem_timedwait() that can return does.  *)
(* Nothing is assumed of the processes that hold the lock: they may keep it *)
(* for ever or die; nor of those that reset it, which may stop in the loop. *)
Spec ==
    /\ Init
    /\ [][Next]_vars
    /\ WF_vars(Tick)
    /\ \A p \in Procs : WF_vars(semaphore_accuire(p))

-----------------------------------------------------------------------------
(* At most one live process is between enter() and exit(), whoever has died *)
(* and however often the semaphore was reset, as long as every reset had    *)
(* the semaphore to itself: no live process was inside when it began, none  *)
(* entered before it ended, and no other reset ran.  The code of            *)
(* reset_not_for_production() ensures none of the three.  It does not keep  *)
(* the promise of the comment above it, to repair what a killed owner has   *)
(* left, when a process waits for the lock: the waiter takes the post of    *)
(* the loop, the loop finds the semaphore taken again and posts once more.  *)
MutualExclusion == disturbances = {} => OneInside

(* The semaphore is taken exactly when one live process owes a post, a dead *)
(* one has taken its post with it, or a reset is about to give it back:     *)
(* exit(), the two destructors and CANT_LOCK never post twice and never     *)
(* forget to, a death inside the section or in a reset closes it for        *)
(* everyone until a reset, and a reset with the semaphore to itself leaves  *)
(* exactly one post behind, wherever it was killed.                         *)
PostsBalance ==
    disturbances = {} =>
        /\ sem \in {0, 1}
        /\ sem = 0 <=> (lost \union unlock_needed \union Holders # {})
        /\ lost = {} \/ unlock_needed \union Holders = {}
        /\ unlock_needed = {} \/ Holders = {}

(* enter() always returns, with the lock or with CANT_LOCK, even when the   *)
(* owner is dead or others take the semaphore again and again (the deadline *)
(* of semaphore_accuire).                                                   *)
EnterReturns == \A p \in Procs : Waiting(p) ~> ~Waiting(p)

=============================================================================
