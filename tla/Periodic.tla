------------------------------ MODULE Periodic ------------------------------
(***************************************************************************)
(* One row of periodic_tasks and the schedulers that fire it: every one of *)
(* them runs check_periodic, none is elected.  A check reads the due row,  *)
(* enqueues its job under a unique key made of the task's name and the     *)
(* scheduler's own now, and moves the row to the next run counted from     *)
(* that now, three statements with no transaction around them.  A cron     *)
(* expression is the period of its slots.                                  *)
(***************************************************************************)
EXTENDS Naturals

CONSTANTS
    Firers,      \* schedulers
    Crons,       \* the schedules the task is declared with, as periods
    MaxNow       \* bound on the clock

ASSUME PeriodicAssumption == Crons \subseteq Nat \ {0} /\ MaxNow \in Nat

VARIABLES
    perNow,
    schedule,   \* the row: cron_expr, next_run, enabled
    check,      \* per scheduler: the step its check is at, its now, the row it read
    fired       \* jobs enqueued: the now in their key and the slot read as due

perVars == <<perNow, schedule, check, fired>>

(* next_run(cron, now): the first slot after now.                          *)
NextRun(cron, t) == cron * ((t \div cron) + 1)

PerIdle == [at |-> "idle", stamp |-> 0, cron |-> 0, slot |-> 0]

PeriodicTypeOK ==
    /\ perNow \in 0..MaxNow
    /\ schedule \in [cron : Crons, next : Nat, enabled : BOOLEAN]
    /\ check \in [Firers -> [at : {"idle", "fire", "advance"}, stamp : 0..MaxNow,
                             cron : Crons \cup {0}, slot : Nat]]
    /\ fired \subseteq [stamp : 0..MaxNow, slot : Nat]

PeriodicInit ==
    /\ perNow = 0
    /\ \E c \in Crons : schedule = [cron |-> c, next |-> NextRun(c, 0), enabled |-> TRUE]
    /\ check = [s \in Firers |-> PerIdle]
    /\ fired = {}

-----------------------------------------------------------------------------
PerTick ==
    /\ perNow < MaxNow /\ perNow' = perNow + 1
    /\ UNCHANGED <<schedule, check, fired>>

(* get_due_periodic.                                                       *)
ReadDue(s) ==
    /\ check[s] = PerIdle /\ schedule.enabled /\ schedule.next <= perNow
    /\ check' = [check EXCEPT ![s] = [at |-> "fire", stamp |-> perNow,
                                      cron |-> schedule.cron, slot |-> schedule.next]]
    /\ UNCHANGED <<perNow, schedule, fired>>

Enqueued(s) == {[stamp |-> check[s].stamp, slot |-> check[s].slot]}

(* Mutant: an enqueue that failed is logged, and the row advances anyway.  *)
fire_periodic_GoesOn(s) ==
    /\ check[s].at = "fire"
    /\ \E new \in {Enqueued(s), {}} : fired' = fired \cup new
    /\ check' = [check EXCEPT ![s].at = "advance"]
    /\ UNCHANGED <<perNow, schedule>>

(* The unique key names the task and the stamp: a job that already carries *)
(* it is answered for, and the check goes on.  An enqueue that fails ends  *)
(* the task's check.                                                       *)
fire_periodic(s) ==
    /\ check[s].at = "fire"
    /\ \/ /\ fired' = IF \E f \in fired : f.stamp = check[s].stamp
                      THEN fired ELSE fired \cup Enqueued(s)
          /\ check' = [check EXCEPT ![s].at = "advance"]
       \/ fired' = fired /\ check' = [check EXCEPT ![s] = PerIdle]
    /\ UNCHANGED <<perNow, schedule>>

(* update_periodic_schedule: whatever the row holds by now.                *)
update_periodic_schedule(s) ==
    /\ check[s].at = "advance"
    /\ schedule' = [schedule EXCEPT !.next = NextRun(check[s].cron, check[s].stamp)]
    /\ check' = [check EXCEPT ![s] = PerIdle]
    /\ UNCHANGED <<perNow, fired>>

PerCrash(s) ==
    /\ check[s].at # "idle"
    /\ check' = [check EXCEPT ![s] = PerIdle]
    /\ UNCHANGED <<perNow, schedule, fired>>

(* A worker starts and declares the task: next_run is its own if the cron  *)
(* changed, the stored one otherwise, and enabled is the operator's.       *)
declare_periodic(c) ==
    /\ schedule' = [schedule EXCEPT !.cron = c,
                        !.next = IF c = schedule.cron THEN @ ELSE NextRun(c, perNow)]
    /\ UNCHANGED <<perNow, check, fired>>

set_periodic_enabled ==
    /\ schedule' = [schedule EXCEPT !.enabled = ~@]
    /\ UNCHANGED <<perNow, check, fired>>

PeriodicNext ==
    \/ PerTick \/ set_periodic_enabled
    \/ \E c \in Crons : declare_periodic(c)
    \/ \E s \in Firers : \/ ReadDue(s) \/ fire_periodic(s)
                         \/ update_periodic_schedule(s) \/ PerCrash(s)

PeriodicSpec == PeriodicInit /\ [][PeriodicNext]_perVars

-----------------------------------------------------------------------------
(* A slot is not skipped: a check moves the schedule on only past slots    *)
(* for which a job has been enqueued, through crashes, failed enqueues,    *)
(* pauses and checks that overlap.  The one exception is a check that read *)
(* the row before the cron was changed, and overwrites the new schedule.   *)
NoSlotSkipped ==
    [][\A s \in Firers :
          (/\ check[s].at = "advance" /\ check'[s].at = "idle"
           /\ check[s].cron = schedule.cron)
              => \A t \in schedule.next..(schedule'.next - 1) :
                     t % schedule.cron = 0 => \E f \in fired : f.stamp >= t]_perVars

(* One job per slot, as fire_periodic's comment has it: the unique key     *)
(* makes two schedulers firing the same slot one job.                      *)
OneJobPerSlot == \A f, g \in fired : f.slot = g.slot => f = g
=============================================================================
