------------------------------ MODULE Scheduler ------------------------------
(***************************************************************************)
(* The job scheduler (crates/soksak-schedule/src/lib.rs) with the commands   *)
(* and the persistence its host wraps around it                               *)
(* (frameworks/tauri/src/schedule.rs).                                         *)
(*                                                                            *)
(* One thread claims due jobs and parks until the next is due; every claimed    *)
(* fire runs its command on a thread of its own, outside the lock; command       *)
(* threads register, cancel and poke.  A method of ScheduleState is one           *)
(* critical section; a command is several of them and a write to the store.        *)
(***************************************************************************)
EXTENDS Integers, FiniteSets, Functions

CONSTANTS
  Names,       \* ids that clients choose
  MaxAuto,     \* bound: registrations without an id, which get "sch-1", "sch-2", ...
  Specs,       \* the job specifications clients use
  Callers,     \* command threads
  Never, NoJob, NoSpec, Idle,
  Horizon,     \* how far ahead a cron expression is searched for its next slot
  MaxBackoff,  \* Retry.max_ms
  MaxTime,     \* bound: the clock
  MaxRegs,     \* bound: jobs a process creates
  MaxRestarts  \* bound: crashes of the process

Autos == 1..MaxAuto
Ids   == Names \cup Autos

Times == Nat \cup {Never}

\* Job
Jobs == [spec : Specs, epoch : Nat, nextAt : Times, lastDue : Nat, seq : BOOLEAN,
         running : BOOLEAN, pending : BOOLEAN, attempt : Nat]

\* What a command thread has left to do.
Work == [op : {"save"}, id : Ids, spec : Specs] \cup [op : {"remove", "forget"}, id : Ids]

(* A specification: its trigger - once at `time`, every `time`, a cron expression    *)
(* whose slots are `time` apart, or poked -, whether the fire holds a process, the    *)
(* retries, and whether the core owns it.                                              *)
ASSUME SchedulerAssumption ==
  /\ Specs \subseteq [kind : {"at", "every", "cron", "reconcile"}, time : Nat \ {0},
                      lease : BOOLEAN, retries : Nat, core : BOOLEAN]
  /\ Names \cap Nat = {} /\ IsFiniteSet(Names)
  /\ Never \notin Nat /\ NoSpec \notin Specs /\ NoJob \notin Jobs /\ Idle \notin Work
  /\ {MaxAuto, Horizon, MaxBackoff, MaxTime, MaxRegs, MaxRestarts} \subseteq Nat

VARIABLES
  now,
  jobs,       \* Inner.jobs: id -> Job or NoJob
  nextEpoch,  \* Inner.next_epoch: one counter for all ids
  autoSeq,    \* Inner.seq
  fires,      \* fires under way: [id, epoch, step], steps below
  loop,       \* the scheduler thread: "claim" | "park" | "wait"
  wakeAt,     \* what it waits for
  caller,     \* per command thread: Idle, or what it has left to do
  disk,       \* the store: id -> spec or NoSpec
  restarts,
  raced,      \* history: ids last registered while another command or the end of a
              \* fire still had that id's record to write or remove
  unsaved     \* history: ids whose record the store did not take

memVars   == <<jobs, nextEpoch, autoSeq>>
loopVars  == <<loop, wakeAt>>
bootVars  == <<restarts, raced, unsaved>>
vars == <<now, memVars, fires, loopVars, caller, disk, bootVars>>

Init ==
  /\ now = 0
  /\ jobs = [i \in Ids |-> NoJob]
  /\ nextEpoch = 0
  /\ autoSeq = 0
  /\ fires = {}
  /\ loop = "claim" /\ wakeAt = Never
  /\ caller = [c \in Callers |-> Idle]
  /\ disk = [i \in Ids |-> NoSpec]
  /\ restarts = 0 /\ raced = {} /\ unsaved = {}

Exists(i)  == jobs[i] # NoJob
Running(i) == Exists(i) /\ jobs[i].running
Due(i)     == Exists(i) /\ ~jobs[i].running /\ jobs[i].nextAt # Never /\ jobs[i].nextAt <= now

\* The fire belongs to the job as it is now, not to one that was replaced.
Current(f) == Exists(f.id) /\ jobs[f.id].epoch = f.epoch

\* cv.notify_all, with the lock held at the change it announces.
Notify == loop' = (IF loop = "wait" THEN "claim" ELSE loop) /\ wakeAt' = Never

\* The first slot of the trigger strictly after t.  A cron expression has none when
\* it cannot be read or finds no minute within the horizon (cron_next: None).
NextAfter(spec, t) ==
  LET slot == (t \div spec.time + 1) * spec.time
  IN  IF spec.kind = "every" \/ (spec.kind = "cron" /\ slot <= t + Horizon)
      THEN slot ELSE Never

FirstFire(spec, t) == IF spec.kind = "at" THEN spec.time ELSE NextAfter(spec, t)

Backoff(n) == IF 2^(n - 1) \in 1..MaxBackoff THEN 2^(n - 1) ELSE MaxBackoff

NewJob(spec, e) ==
  [spec |-> spec, epoch |-> e, nextAt |-> FirstFire(spec, now), lastDue |-> 0,
   seq |-> FALSE, running |-> FALSE, pending |-> FALSE, attempt |-> 0]

\* should_persist
Persistent(spec) == spec.kind # "reconcile" /\ spec.core

------------------------------------------------------------------------------
(* schedule_register. *)

\* Somebody else still has the record of i to write or to remove.
Unsettled(i) == \/ \E f \in fires : f.id = i /\ f.step = "forget"
                \/ \E c \in Callers : caller[c] # Idle /\ caller[c].id = i

\* Mutant: a running job is replaced like an idle one.
PutReplaces(i, spec) ==
  /\ nextEpoch' = nextEpoch + 1
  /\ jobs' = [jobs EXCEPT ![i] = NewJob(spec, nextEpoch')]

\* ScheduleState::register.  A running job only takes over the specification: its
\* fire goes on and its lease stays.  Anything else is replaced.
Put(i, spec) ==
  \/ /\ Running(i)
     /\ jobs' = [jobs EXCEPT ![i].spec = spec]
     /\ UNCHANGED nextEpoch
  \/ /\ ~Running(i)
     /\ nextEpoch' = nextEpoch + 1
     /\ jobs' = [jobs EXCEPT ![i] = NewJob(spec, nextEpoch')]

\* The first half of the command; the record is written afterwards.
Enter(c, i, spec) ==
  /\ caller[c] = Idle
  /\ nextEpoch < MaxRegs
  /\ Put(i, spec)
  /\ Notify
  /\ caller' = [caller EXCEPT ![c] = [op |-> "save", id |-> i, spec |-> spec]]
  /\ raced' = IF Unsettled(i) THEN raced \cup {i} ELSE raced \ {i}
  /\ UNCHANGED <<now, fires, disk, restarts, unsaved>>

\* The ids a client can use: its own, one it was given, one it sees in the list.
Known == Names \cup 1..autoSeq \cup {i \in Ids : Exists(i)}

Register(c, i, spec) ==
  /\ i \in Known
  /\ Enter(c, i, spec)
  /\ UNCHANGED autoSeq

\* Without an id: the next of the process's counter.
RegisterAuto(c, spec) ==
  /\ autoSeq < MaxAuto
  /\ autoSeq' = autoSeq + 1
  /\ Enter(c, autoSeq + 1, spec)

\* persist_save: the store takes the record or - it cannot be opened, the write
\* fails - does not, and the caller is answered all the same.
Save(c) ==
  /\ caller[c] # Idle /\ caller[c].op = "save"
  /\ \/ /\ Persistent(caller[c].spec)
        /\ disk' = [disk EXCEPT ![caller[c].id] = caller[c].spec]
        /\ unsaved' = unsaved \ {caller[c].id}
     \/ /\ Persistent(caller[c].spec)
        /\ unsaved' = unsaved \cup {caller[c].id}
        /\ UNCHANGED disk
     \/ ~Persistent(caller[c].spec) /\ UNCHANGED <<disk, unsaved>>
  /\ caller' = [caller EXCEPT ![c] = Idle]
  /\ UNCHANGED <<now, memVars, fires, loopVars, restarts, raced>>

------------------------------------------------------------------------------
(* schedule_cancel. *)

\* take_seq, and close the fire's channel if it was there.
CancelTake(c, i) ==
  /\ caller[c] = Idle
  /\ i \in Known
  /\ \/ /\ Exists(i) /\ jobs[i].seq
        /\ jobs' = [jobs EXCEPT ![i].seq = FALSE]
        /\ fires' = {IF Current(f) /\ f.id = i /\ f.step = "waiting"
                     THEN [f EXCEPT !.step = "cut"] ELSE f : f \in fires}
     \/ /\ ~(Exists(i) /\ jobs[i].seq)
        /\ UNCHANGED <<jobs, fires>>
  /\ caller' = [caller EXCEPT ![c] = [op |-> "remove", id |-> i]]
  /\ UNCHANGED <<now, nextEpoch, autoSeq, loopVars, disk, bootVars>>

\* Take the jobs ss out of the table.
Drop(ss) == jobs' = [i \in Ids |-> IF i \in ss THEN NoJob ELSE jobs[i]]

CancelRemove(c) ==
  /\ caller[c] # Idle /\ caller[c].op = "remove"
  /\ Drop({caller[c].id})
  /\ IF Exists(caller[c].id) THEN Notify ELSE UNCHANGED loopVars
  /\ caller' = [caller EXCEPT ![c] = [op |-> "forget", id |-> caller[c].id]]
  /\ UNCHANGED <<now, nextEpoch, autoSeq, fires, disk, bootVars>>

\* persist_delete: the record goes, or the store does not answer and it stays.
Erase(i) == UNCHANGED disk \/ disk' = [disk EXCEPT ![i] = NoSpec]

CancelForget(c) ==
  /\ caller[c] # Idle /\ caller[c].op = "forget"
  /\ Erase(caller[c].id)
  /\ caller' = [caller EXCEPT ![c] = Idle]
  /\ UNCHANGED <<now, memVars, fires, loopVars, bootVars>>

\* cancel_by_owner: a plugin's service is unbound.  Its fires are not cut.
Owned == {i \in Ids : Exists(i) /\ ~jobs[i].spec.core}

CancelByOwner ==
  /\ Owned # {}
  /\ Drop(Owned)
  /\ Notify
  /\ UNCHANGED <<now, nextEpoch, autoSeq, fires, caller, disk, bootVars>>

------------------------------------------------------------------------------
(* Poke: one job, every reconcile job, or those of an owner. *)

Reconciles == {i \in Ids : Exists(i) /\ jobs[i].spec.kind = "reconcile"}

\* Mutant: the thread is not told.
PokeQuietly(ss) ==
  /\ ss # {}
  /\ jobs' = [i \in Ids |->
               IF i \notin ss THEN jobs[i]
               ELSE IF jobs[i].running THEN [jobs[i] EXCEPT !.pending = TRUE]
               ELSE [jobs[i] EXCEPT !.nextAt = now]]
  /\ UNCHANGED <<now, nextEpoch, autoSeq, fires, loopVars, caller, disk, bootVars>>

PokeJobs(ss) ==
  /\ ss # {}
  /\ jobs' = [i \in Ids |->
               IF i \notin ss THEN jobs[i]
               ELSE IF jobs[i].running THEN [jobs[i] EXCEPT !.pending = TRUE]
               ELSE [jobs[i] EXCEPT !.nextAt = now]]
  /\ Notify
  /\ UNCHANGED <<now, nextEpoch, autoSeq, fires, caller, disk, bootVars>>

Poke == \/ \E i \in Ids : Exists(i) /\ PokeJobs({i})
        \/ PokeJobs(Reconciles)
        \/ PokeJobs(Reconciles \cap Owned)

------------------------------------------------------------------------------
(* The scheduler thread. *)

\* claim_due
Claim ==
  /\ loop = "claim"
  /\ jobs' = [i \in Ids |->
               IF Due(i) THEN [jobs[i] EXCEPT !.running = TRUE, !.lastDue = jobs[i].nextAt,
                                              !.nextAt = Never, !.seq = FALSE]
               ELSE jobs[i]]
  /\ fires' = fires \cup {[id |-> i, epoch |-> jobs[i].epoch,
                           step |-> IF jobs[i].spec.lease THEN "open" ELSE "request"]
                          : i \in {j \in Ids : Due(j)}}
  /\ loop' = "park"
  /\ UNCHANGED <<now, nextEpoch, autoSeq, wakeAt, caller, disk, bootVars>>

\* earliest_wake
Armed == {jobs[i].nextAt : i \in {j \in Ids : Exists(j) /\ ~jobs[j].running}} \ {Never}

\* Mutant: what became due since the claim is not looked at.
ParkUnchecked ==
  /\ loop = "park"
  /\ loop' = "wait"
  /\ wakeAt' = IF {t \in Armed : t > now} = {} THEN Never
               ELSE CHOOSE t \in Armed : t > now /\ \A u \in Armed : u > now => t <= u
  /\ UNCHANGED <<now, memVars, fires, caller, disk, bootVars>>

\* park_until_due: look and wait in one critical section.  The cap of an hour on
\* the wait is a net that nothing here relies on.
Park ==
  /\ loop = "park"
  /\ IF \E i \in Ids : Due(i)
     THEN loop' = "claim" /\ UNCHANGED wakeAt
     ELSE /\ loop' = "wait"
          /\ \/ Armed = {} /\ wakeAt' = Never
             \/ wakeAt' \in Armed /\ \A t \in Armed : wakeAt' <= t
  /\ UNCHANGED <<now, memVars, fires, caller, disk, bootVars>>

WaitOver ==
  /\ loop = "wait" /\ wakeAt # Never /\ wakeAt <= now
  /\ loop' = "claim" /\ wakeAt' = Never
  /\ UNCHANGED <<now, memVars, fires, caller, disk, bootVars>>

------------------------------------------------------------------------------
(* A fire's thread. *)

\* What complete makes of the job: retry after a pause, or its next slot; a poke
\* that came meanwhile is one more fire at once.
After(job, ok) ==
  LET freed == [job EXCEPT !.running = FALSE, !.seq = FALSE]
  IN  IF ~ok /\ job.attempt < job.spec.retries
      THEN [freed EXCEPT !.attempt = @ + 1, !.nextAt = now + Backoff(job.attempt + 1)]
      ELSE [freed EXCEPT !.attempt = 0, !.pending = FALSE,
                         !.nextAt = IF job.pending THEN now
                                    ELSE NextAfter(job.spec, job.lastDue)]

\* A job of one fire that has none left is removed.
Finished(job) == job.spec.kind = "at" /\ job.nextAt = Never

\* Mutant: every completion removes the record.
CompleteForgets(f, ok) ==
  /\ fires' = (fires \ {f}) \cup {[f EXCEPT !.step = "forget"]}
  /\ \/ /\ Current(f)
        /\ LET job == After(jobs[f.id], ok)
           IN  jobs' = [jobs EXCEPT ![f.id] = IF Finished(job) THEN NoJob ELSE job]
        /\ Notify
     \/ ~Current(f) /\ UNCHANGED <<jobs, loopVars>>
  /\ UNCHANGED <<now, nextEpoch, autoSeq, caller, disk, bootVars>>

\* complete: nothing at all if the job is gone or another instance.
Complete(f, ok) ==
  /\ \/ /\ Current(f)
        /\ LET job == After(jobs[f.id], ok)
           IN  \/ /\ Finished(job)
                  /\ jobs' = [jobs EXCEPT ![f.id] = NoJob]
                  /\ fires' = (fires \ {f}) \cup {[f EXCEPT !.step = "forget"]}
               \/ /\ ~Finished(job)
                  /\ jobs' = [jobs EXCEPT ![f.id] = job]
                  /\ fires' = fires \ {f}
        /\ Notify
     \/ /\ ~Current(f)
        /\ fires' = fires \ {f}
        /\ UNCHANGED <<jobs, loopVars>>
  /\ UNCHANGED <<now, nextEpoch, autoSeq, caller, disk, bootVars>>

\* fire_simple's request returned, or timed out.
Answered(f, ok) == f.step = "request" /\ Complete(f, ok)

\* fire_process: the delivery fails ...
OpenFails(f) == f.step = "open" /\ Complete(f, FALSE)

\* ... or there is a channel to wait on ...
Opened(f) ==
  /\ f.step = "open"
  /\ fires' = (fires \ {f}) \cup {[f EXCEPT !.step = "opened"]}
  /\ UNCHANGED <<now, memVars, loopVars, caller, disk, bootVars>>

\* ... which the job is told of, if it is still the same.
SetSeq(f) ==
  /\ f.step = "opened"
  /\ fires' = (fires \ {f}) \cup {[f EXCEPT !.step = "waiting"]}
  /\ jobs' = IF Current(f) THEN [jobs EXCEPT ![f.id].seq = TRUE] ELSE jobs
  /\ UNCHANGED <<now, nextEpoch, autoSeq, loopVars, caller, disk, bootVars>>

\* The process exited, or the zombie backstop ran out (ok is FALSE) ...
Exited(f, ok) == f.step = "waiting" /\ Complete(f, ok)

\* ... or a cancellation closed the channel.
Cut(f) == f.step = "cut" /\ Complete(f, FALSE)

\* forget_persisted
Forget(f) ==
  /\ f.step = "forget"
  /\ Erase(f.id)
  /\ fires' = fires \ {f}
  /\ UNCHANGED <<now, memVars, loopVars, caller, bootVars>>

------------------------------------------------------------------------------
Saved == {i \in Ids : disk[i] # NoSpec}

\* The process dies, and on its next start reload_persisted registers what the
\* store has, in some order.
Restart ==
  /\ restarts < MaxRestarts
  /\ restarts' = restarts + 1
  /\ nextEpoch' = Cardinality(Saved)
  /\ \E e \in [Saved -> 1..Cardinality(Saved)] :
       /\ IsInjective(e)
       /\ jobs' = [i \in Ids |-> IF i \in Saved THEN NewJob(disk[i], e[i]) ELSE NoJob]
  /\ autoSeq' = 0
  /\ fires' = {}
  /\ loop' = "claim" /\ wakeAt' = Never
  /\ caller' = [c \in Callers |-> Idle]
  /\ raced' = {} /\ unsaved' = {}
  /\ UNCHANGED <<now, disk>>

Tick ==
  /\ now < MaxTime
  /\ now' = now + 1
  /\ UNCHANGED <<memVars, fires, loopVars, caller, disk, bootVars>>

Command(c) ==
  \/ \E s \in Specs : RegisterAuto(c, s) \/ \E i \in Ids : Register(c, i, s)
  \/ \E i \in Ids : CancelTake(c, i)
  \/ Save(c) \/ CancelRemove(c) \/ CancelForget(c)

Fire(f) == \/ \E ok \in BOOLEAN : Answered(f, ok) \/ Exited(f, ok)
           \/ OpenFails(f) \/ Opened(f) \/ SetSeq(f) \/ Cut(f) \/ Forget(f)

Loop == Claim \/ Park \/ WaitOver

Next == \/ \E c \in Callers : Command(c)
        \/ CancelByOwner \/ Poke
        \/ Loop
        \/ \E f \in fires : Fire(f)
        \/ Restart \/ Tick

Spec == Init /\ [][Next]_vars

(* The scheduler's thread runs; nothing else is owed here. *)
FairSpec == Spec /\ WF_vars(Loop)

------------------------------------------------------------------------------
(* Properties. *)

\* Type invariant; no job is retried more often than some specification allows (a
\* job registered anew while it runs may have had more retries before).
TypeOK ==
  /\ now \in Nat
  /\ jobs \in [Ids -> Jobs \cup {NoJob}]
  /\ \A i \in Ids : Exists(i) => \E s \in Specs : jobs[i].attempt <= s.retries
  /\ nextEpoch \in Nat
  /\ autoSeq \in 0..MaxAuto
  /\ fires \subseteq [id : Ids, epoch : Nat,
                      step : {"request", "open", "opened", "waiting", "cut", "forget"}]
  /\ loop \in {"claim", "park", "wait"} /\ wakeAt \in Times
  /\ caller \in [Callers -> Work \cup {Idle}]
  /\ disk \in [Ids -> Specs \cup {NoSpec}]
  /\ raced \subseteq Ids /\ unsaved \subseteq Ids

Live == {f \in fires : f.step # "forget"}

\* The lease is exact: a job is running if and only if one fire of its instance is
\* under way, and then only one - no double fire, and no lease that nobody is left
\* to give back, whatever registrations, cancellations and late completions of
\* older instances come between (lib.rs: a job never runs twice at once).
LeaseIsHeld ==
  \A i \in Ids : Exists(i) =>
    LET mine == {f \in Live : f.id = i /\ f.epoch = jobs[i].epoch}
    IN  Cardinality(mine) = IF jobs[i].running THEN 1 ELSE 0

\* A fire loses its job only to a cancellation: registering over a running job
\* leaves the fire its job (register: 발화 중 재등록).
OrphanIsCancelled ==
  [][\A f \in fires \cap fires' : Current(f) => Current(f)' \/ jobs'[f.id] = NoJob]_vars

\* No wake-up is missed: while the thread waits, no job becomes due earlier than it
\* wakes (park_until_due, notify_all).
NoMissedWakeup ==
  loop = "wait" =>
    \A i \in Ids : Exists(i) /\ ~jobs[i].running /\ jobs[i].nextAt # Never
                     => wakeAt # Never /\ wakeAt <= jobs[i].nextAt

\* The trigger of the job had no next slot when it was asked for.
RanOut(job) == \E t \in 0..now : job.spec.kind = "cron" /\ NextAfter(job.spec, t) = Never

MustFire(job) == \/ job.spec.kind # "reconcile" /\ ~RanOut(job)
                 \/ job.pending

\* A job with a clock is never left without a next time, unless its cron expression
\* had no slot to offer, and a poke that came during a fire is not forgotten: the
\* next fire is armed or the job runs (register, complete, rearm).
JobsStayArmed ==
  \A i \in Ids :
    Exists(i) /\ MustFire(jobs[i])
      => jobs[i].running \/ jobs[i].nextAt # Never

\* A job is fired neither twice at once nor never, between its clock, pokes, new
\* registrations and the sleeping thread (register, claim_due, complete, poke,
\* park_until_due).
FiresAreExact == LeaseIsHeld /\ JobsStayArmed /\ NoMissedWakeup

\* Once the commands on its id were answered a job that must survive the process is
\* in the store, as it was last registered - unless the store did not take the
\* record, or the registration met another command on that id, or the end of a fire,
\* that was still about to write or remove it (persist_save, persist_delete).
AckIsDurable ==
  \A i \in Ids \ (raced \cup unsaved) :
    Exists(i) /\ Persistent(jobs[i].spec)
      /\ (\A c \in Callers : caller[c] = Idle \/ caller[c].id # i)
        => disk[i] = jobs[i].spec

\* Whatever is due is fired, or goes: again and again nothing is left to fire.
DueIsFired == []<>(\A i \in Ids : ~Due(i))

\* Not checked (README, known disagreements): a registration without an id does not replace another job (register: only a
\* given id replaces).
AutoIdIsFresh == [][autoSeq' > autoSeq => jobs[autoSeq'] = NoJob]_vars
==============================================================================
