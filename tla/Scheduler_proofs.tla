--------------------------- MODULE Scheduler_proofs ---------------------------
(***************************************************************************)
(* Theorems about the job scheduler, for any ids, specifications, number of *)
(* command threads and crashes.                                             *)
(*                                                                          *)
(* That a job's lease is exact rests on the epochs: a fire that runs for a  *)
(* job as it is now is the only one with that job's id and epoch, and no    *)
(* epoch was given out twice (FiresAreLinked).  That the store has what was *)
(* acknowledged rests on who is about to write or to remove (StoreIsCurrent).*)
(***************************************************************************)
EXTENDS Scheduler, FiniteSetTheorems, TLAPS

FireType == [id : Ids, epoch : Nat,
             step : {"request", "open", "opened", "waiting", "cut", "forget"}]

\* A fire belongs to an epoch that was given out; the one of a running job is under way
\* and alone; one that has removed its job is of no job there is.
FiresAreLinked ==
  /\ \A i \in Ids : Exists(i) => jobs[i].epoch <= nextEpoch
  /\ \A f \in fires : f.epoch <= nextEpoch
  /\ \A f \in fires : f.step = "forget" => ~Current(f)
  /\ \A i \in Ids : Running(i) => \E f \in Live : f.id = i /\ f.epoch = jobs[i].epoch
  /\ \A f \in Live : Current(f) => jobs[f.id].running
  /\ \A f, g \in Live : f.id = g.id /\ f.epoch = g.epoch => f = g

\* What a job was last fired for is past: the slots it was rearmed from are.
DuesArePast == \A i \in Ids : Exists(i) => jobs[i].lastDue <= now

SchedInv == TypeOK /\ FiresAreLinked /\ DuesArePast /\ JobsStayArmed /\ NoMissedWakeup

-----------------------------------------------------------------------------
(* Clocks. *)

LEMMA NextAfterFacts ==
  ASSUME NEW spec \in Specs, NEW t \in Nat
  PROVE  /\ NextAfter(spec, t) \in Times /\ FirstFire(spec, t) \in Times
         /\ spec.kind = "every" => NextAfter(spec, t) # Never
         /\ spec.kind \notin {"cron", "reconcile"} => FirstFire(spec, t) # Never
         /\ spec.kind = "cron" => FirstFire(spec, t) = NextAfter(spec, t)
<1>1. /\ spec.time \in Nat \ {0} /\ spec.kind \in {"at", "every", "cron", "reconcile"}
      /\ Never \notin Nat
  BY SchedulerAssumption
<1>2. \A d \in Nat \ {0} : (t \div d + 1) * d \in Nat
  <2>1. \A d \in Nat \ {0} : t \div d \in Nat
    OBVIOUS
  <2>2. \A a, b \in Nat : a * b \in Nat
    OBVIOUS
  <2>3. QED
    BY <2>1, <2>2
<1>3. QED
  BY <1>1, <1>2 DEF NextAfter, FirstFire, Times

LEMMA BackoffFacts == \A n \in Nat : Backoff(n) \in Nat
BY SchedulerAssumption DEF Backoff

\* A new job, and what a completed one becomes.
LEMMA NewJobFacts ==
  ASSUME TypeOK, NEW spec \in Specs, NEW e \in Nat
  PROVE  LET j == NewJob(spec, e) IN
         /\ j \in Jobs /\ j.spec = spec /\ j.epoch = e /\ ~j.running /\ ~j.pending
         /\ j.attempt = 0 /\ j.lastDue = 0 /\ (MustFire(j) => j.nextAt # Never)
<1>1. now \in Nat /\ now \in 0..now
  BY DEF TypeOK
<1>2. /\ spec.kind \in {"at", "every", "cron", "reconcile"}
      /\ FirstFire(spec, now) \in Times
      /\ spec.kind \notin {"cron", "reconcile"} => FirstFire(spec, now) # Never
      /\ spec.kind = "cron" => FirstFire(spec, now) = NextAfter(spec, now)
  BY <1>1, SchedulerAssumption, NextAfterFacts
<1> DEFINE j == NewJob(spec, e)
<1>3. /\ j \in Jobs /\ j.spec = spec /\ j.epoch = e /\ ~j.running /\ ~j.pending
      /\ j.attempt = 0 /\ j.lastDue = 0 /\ j.nextAt = FirstFire(spec, now)
  BY <1>2 DEF NewJob, Jobs
<1> HIDE DEF j
<1>4. MustFire(j) => j.nextAt # Never
  BY <1>1, <1>2, <1>3 DEF MustFire, RanOut
<1>5. QED
  BY <1>3, <1>4 DEF j

LEMMA AfterFacts ==
  ASSUME TypeOK, NEW job \in Jobs, NEW ok \in BOOLEAN, job.lastDue <= now,
         \E s \in Specs : job.attempt <= s.retries
  PROVE  LET j == After(job, ok) IN
         /\ j \in Jobs /\ j.spec = job.spec /\ j.epoch = job.epoch /\ ~j.running
         /\ j.lastDue = job.lastDue
         /\ \E s \in Specs : j.attempt <= s.retries
         /\ MustFire(j) /\ ~Finished(j) => j.nextAt # Never
<1> DEFINE freed == [job EXCEPT !.running = FALSE, !.seq = FALSE]
           again == [freed EXCEPT !.attempt = job.attempt + 1,
                                  !.nextAt = now + Backoff(job.attempt + 1)]
           at == IF job.pending THEN now ELSE NextAfter(job.spec, job.lastDue)
           done == [freed EXCEPT !.attempt = 0, !.pending = FALSE, !.nextAt = at]
<1>1. /\ now \in Nat /\ job.spec \in Specs /\ job.attempt \in Nat /\ job.lastDue \in Nat
      /\ job.spec.kind \in {"at", "every", "cron", "reconcile"} /\ job.spec.retries \in Nat
      /\ Never \notin Nat /\ job.lastDue \in 0..now
  BY SchedulerAssumption DEF TypeOK, Jobs
<1>2. CASE ~ok /\ job.attempt < job.spec.retries
  <2>1. After(job, ok) = again
    BY <1>2 DEF After, Jobs
  <2>2. now + Backoff(job.attempt + 1) \in Nat /\ job.attempt + 1 \in Nat
    BY <1>1, BackoffFacts
  <2>3. /\ again \in Jobs /\ again.spec = job.spec /\ again.epoch = job.epoch /\ ~again.running
        /\ again.attempt = job.attempt + 1 /\ again.nextAt \in Nat
        /\ again.lastDue = job.lastDue
    BY <2>2 DEF Jobs, Times
  <2>4. again.attempt <= job.spec.retries
    BY <1>1, <1>2, <2>3
  <2> HIDE DEF again
  <2>5. QED
    BY <1>1, <2>1, <2>3, <2>4
<1>3. CASE ~(~ok /\ job.attempt < job.spec.retries)
  <2>1. After(job, ok) = done
    BY <1>3 DEF After, Jobs
  <2>2. /\ at \in Times /\ (job.spec.kind = "every" => at # Never)
        /\ job.spec.kind = "cron" => at # Never \/ NextAfter(job.spec, job.lastDue) = Never
    BY <1>1, NextAfterFacts DEF Times
  <2> HIDE DEF at
  <2>3. /\ done \in Jobs /\ done.spec = job.spec /\ done.epoch = job.epoch /\ ~done.running
        /\ done.attempt = 0 /\ done.nextAt = at /\ ~done.pending
        /\ done.lastDue = job.lastDue
    BY <2>2 DEF Jobs
  <2> HIDE DEF done
  <2>4. MustFire(done) /\ ~Finished(done) => done.nextAt # Never
    BY <1>1, <2>2, <2>3 DEF Finished, MustFire, RanOut
  <2>5. done.attempt <= job.spec.retries
    BY <1>1, <2>3
  <2>6. QED
    BY <1>1, <2>1, <2>3, <2>4, <2>5
<1>4. QED
  BY <1>2, <1>3

LEMMA NotifyFacts ==
  ASSUME TypeOK, Notify
  PROVE  loop' \in {"claim", "park"} /\ wakeAt' \in Times
BY DEF TypeOK, Notify, Times

\* The invariant implies that fires are exact.
LEMMA SchedInvImplies == SchedInv => FiresAreExact
<1> SUFFICES ASSUME SchedInv PROVE LeaseIsHeld
  BY DEF SchedInv, FiresAreExact
<1> SUFFICES ASSUME NEW i \in Ids, Exists(i)
             PROVE  Cardinality({f \in Live : f.id = i /\ f.epoch = jobs[i].epoch})
                       = IF jobs[i].running THEN 1 ELSE 0
  BY DEF LeaseIsHeld
<1> DEFINE mine == {f \in Live : f.id = i /\ f.epoch = jobs[i].epoch}
<1>1. CASE jobs[i].running
  <2>1. PICK f \in Live : f.id = i /\ f.epoch = jobs[i].epoch
    BY <1>1 DEF SchedInv, FiresAreLinked, Running
  <2>2. mine = {f}
    BY <2>1 DEF SchedInv, FiresAreLinked
  <2>3. QED
    BY <1>1, <2>2, FS_Singleton
<1>2. CASE ~jobs[i].running
  <2>1. mine = {}
    BY <1>2 DEF SchedInv, FiresAreLinked, Current
  <2>2. QED
    BY <1>2, <2>1, FS_EmptySet
<1>3. QED
  BY <1>1, <1>2

-----------------------------------------------------------------------------
(* Commands. *)

\* A registration: the running job takes the specification, any other is replaced by
\* one of a new epoch, which no fire has.
LEMMA EnterKeeps ==
  ASSUME SchedInv, NEW c \in Callers, NEW i \in Ids, NEW spec \in Specs, Enter(c, i, spec),
         autoSeq' \in 0..MaxAuto
  PROVE  SchedInv'
<1> USE DEF SchedInv
<1>1. /\ jobs \in [Ids -> Jobs \cup {NoJob}] /\ nextEpoch \in Nat /\ NoJob \notin Jobs
      /\ UNCHANGED <<now, fires, disk>> /\ caller \in [Callers -> Work \cup {Idle}]
  BY SchedulerAssumption DEF TypeOK, Enter
<1>2. loop' \in {"claim", "park"} /\ wakeAt' \in Times
  BY NotifyFacts DEF Enter
<1>3. /\ caller' \in [Callers -> Work \cup {Idle}] /\ raced' \subseteq Ids
      /\ unsaved' \subseteq Ids
  BY <1>1 DEF Enter, Work, TypeOK
<1>4. CASE Running(i) /\ jobs' = [jobs EXCEPT ![i].spec = spec] /\ UNCHANGED nextEpoch
  <2>1. jobs[i] \in Jobs /\ jobs[i].running
    BY <1>1, <1>4 DEF Running, Exists
  <2>2. /\ jobs' \in [Ids -> Jobs \cup {NoJob}] /\ jobs'[i] \in Jobs
        /\ jobs'[i].epoch = jobs[i].epoch /\ jobs'[i].running = jobs[i].running
        /\ jobs'[i].attempt = jobs[i].attempt /\ jobs'[i].lastDue = jobs[i].lastDue
        /\ \A k \in Ids : k # i => jobs'[k] = jobs[k]
    BY <1>1, <1>4, <2>1 DEF Jobs
  <2>3. \A k \in Ids : /\ Exists(k)' <=> Exists(k)
                       /\ Exists(k) => /\ jobs'[k].epoch = jobs[k].epoch
                                       /\ jobs'[k].running = jobs[k].running
                                       /\ jobs'[k].attempt = jobs[k].attempt
                                       /\ jobs'[k].lastDue = jobs[k].lastDue
    <3>1. Exists(i) /\ Exists(i)'
      BY <1>1, <2>1, <2>2 DEF Exists
    <3>2. \A k \in Ids : k # i => (Exists(k)' <=> Exists(k))
      BY <2>2 DEF Exists
    <3>3. QED
      BY <2>2, <3>1, <3>2
  <2>4. TypeOK'
    BY <1>1, <1>2, <1>3, <1>4, <2>2, <2>3 DEF TypeOK
  <2>5. FiresAreLinked'
    <3>1. fires' = fires /\ nextEpoch' = nextEpoch /\ Live' = Live
      BY <1>1, <1>4 DEF Live
    <3>2. \A f \in fires : f.id \in Ids
      BY DEF TypeOK
    <3>3. \A f \in fires : Current(f)' <=> Current(f)
      BY <2>3, <3>2 DEF Current
    <3>4. \A f \in Live : f \in fires
      BY DEF Live
    <3>5. QED
      BY <2>3, <3>1, <3>2, <3>3, <3>4 DEF FiresAreLinked, Running, Current
  <2>6. JobsStayArmed'
    <3>1. jobs'[i].running
      BY <2>1, <2>2
    <3>2. \A k \in Ids : k # i => jobs'[k] = jobs[k] /\ (Exists(k)' <=> Exists(k))
      BY <2>2 DEF Exists
    <3>3. QED
      BY <1>1, <3>1, <3>2 DEF JobsStayArmed, MustFire, RanOut
  <2>7. DuesArePast'
    BY <1>1, <2>3 DEF DuesArePast
  <2>8. QED
    BY <1>2, <2>4, <2>5, <2>6, <2>7 DEF NoMissedWakeup
<1>5. CASE /\ ~Running(i) /\ nextEpoch' = nextEpoch + 1
           /\ jobs' = [jobs EXCEPT ![i] = NewJob(spec, nextEpoch')]
  <2> DEFINE new == NewJob(spec, nextEpoch')
  <2>1. /\ new \in Jobs /\ new.spec = spec /\ new.epoch = nextEpoch + 1 /\ ~new.running
        /\ ~new.pending /\ new.attempt = 0 /\ (MustFire(new) => new.nextAt # Never)
        /\ new.lastDue = 0
    BY <1>1, <1>5, NewJobFacts
  <2> HIDE DEF new
  <2>2. /\ jobs' \in [Ids -> Jobs \cup {NoJob}] /\ jobs'[i] = new
        /\ \A k \in Ids : k # i => jobs'[k] = jobs[k]
    BY <1>1, <1>5, <2>1 DEF new
  <2>3. TypeOK'
    <3>1. 0 <= spec.retries
      BY SchedulerAssumption
    <3>2. \A k \in Ids : Exists(k)' => \E s \in Specs : jobs'[k].attempt <= s.retries
      <4>1. jobs'[i].attempt <= spec.retries
        BY <2>1, <2>2, <3>1
      <4>2. \A k \in Ids : k # i /\ Exists(k)' => \E s \in Specs : jobs'[k].attempt <= s.retries
        BY <2>2 DEF TypeOK, Exists
      <4>3. QED
        BY <4>1, <4>2
    <3>3. QED
      BY <1>1, <1>2, <1>3, <1>5, <2>2, <3>2 DEF TypeOK
  <2>4. FiresAreLinked'
    <3>1. fires' = fires /\ Live' = Live /\ Live \subseteq fires
      BY <1>1 DEF Live
    <3>2. \A f \in fires : f.id \in Ids /\ f.epoch \in Nat /\ f.epoch <= nextEpoch
      BY DEF TypeOK, FiresAreLinked
    <3>3. \A f \in fires : Current(f)' => f.id # i /\ Current(f)
      BY <1>1, <2>1, <2>2, <3>2 DEF Current, Exists
    <3>4. \A k \in Ids : Exists(k)' => jobs'[k].epoch <= nextEpoch'
      <4>1. \A k \in Ids : Exists(k) => jobs[k].epoch \in Nat
        BY <1>1 DEF Exists, Jobs
      <4>2. QED
        BY <1>1, <1>5, <2>1, <2>2, <4>1 DEF Exists, FiresAreLinked
    <3>5. \A k \in Ids : Running(k)' => k # i /\ Running(k)
      BY <2>1, <2>2 DEF Running, Exists
    <3>6. \A f \in fires : f.epoch <= nextEpoch'
      BY <1>1, <1>5, <3>2
    <3>7. QED
      BY <2>2, <3>1, <3>2, <3>3, <3>4, <3>5, <3>6 DEF FiresAreLinked
  <2>5. JobsStayArmed'
    <3>1. MustFire(jobs'[i]) => jobs'[i].nextAt # Never
      BY <2>1, <2>2
    <3>2. \A k \in Ids : k # i => jobs'[k] = jobs[k] /\ (Exists(k)' <=> Exists(k))
      BY <2>2 DEF Exists
    <3>3. QED
      BY <1>1, <3>1, <3>2 DEF JobsStayArmed, MustFire, RanOut
  <2>6. DuesArePast'
    <3>1. 0 <= now /\ now' = now
      BY <1>1 DEF TypeOK
    <3>2. QED
      BY <2>1, <2>2, <3>1 DEF DuesArePast, Exists
  <2>7. QED
    BY <1>2, <2>3, <2>4, <2>5, <2>6 DEF NoMissedWakeup
<1>6. QED
  BY <1>4, <1>5 DEF Enter, Put

\* Jobs are only taken away.
LEMMA DropKeeps ==
  ASSUME SchedInv, NEW ss \in SUBSET Ids, Drop(ss),
         UNCHANGED <<now, nextEpoch, autoSeq, fires, disk, raced, unsaved>>,
         caller' \in [Callers -> Work \cup {Idle}],
         loop' \in {"claim", "park", "wait"}, wakeAt' \in Times,
         loop' # "wait" \/ UNCHANGED <<loop, wakeAt>>
  PROVE  SchedInv'
<1> USE DEF SchedInv
<1>1. /\ jobs' \in [Ids -> Jobs \cup {NoJob}]
      /\ \A i \in Ids : jobs'[i] = IF i \in ss THEN NoJob ELSE jobs[i]
  BY DEF TypeOK, Drop
<1>2. \A i \in Ids : Exists(i)' => Exists(i) /\ jobs'[i] = jobs[i]
  BY <1>1 DEF Exists
<1>3. TypeOK'
  BY <1>1, <1>2 DEF TypeOK
<1>4. FiresAreLinked'
  <2>1. fires' = fires /\ nextEpoch' = nextEpoch /\ Live' = Live
    BY DEF Live
  <2>2. \A f \in fires : f.id \in Ids
    BY DEF TypeOK
  <2>3. \A f \in fires : Current(f)' => Current(f) /\ jobs'[f.id] = jobs[f.id]
    BY <1>2, <2>2 DEF Current
  <2>4. \A f \in Live : f \in fires
    BY DEF Live
  <2>5. QED
    BY <1>2, <2>1, <2>2, <2>3, <2>4 DEF FiresAreLinked, Running
<1>5. JobsStayArmed' /\ DuesArePast'
  BY <1>2 DEF JobsStayArmed, MustFire, RanOut, DuesArePast
<1>6. NoMissedWakeup'
  BY <1>2 DEF NoMissedWakeup
<1>7. QED
  BY <1>3, <1>4, <1>5, <1>6

\* A step that leaves jobs, fires and the thread alone.
LEMMA JobsUntouched ==
  ASSUME SchedInv, UNCHANGED <<memVars, fires, raced>>, unsaved' \subseteq Ids,
         now' \in Nat, now <= now', disk' \in [Ids -> Specs \cup {NoSpec}],
         caller' \in [Callers -> Work \cup {Idle}],
         loop' \in {"claim", "park", "wait"}, wakeAt' \in Times,
         loop' # "wait" \/ UNCHANGED <<loop, wakeAt>>
  PROVE  SchedInv'
<1> USE DEF SchedInv
<1>1. UNCHANGED <<jobs, nextEpoch, autoSeq, fires, raced>>
  BY DEF memVars
<1>2. TypeOK'
  BY <1>1 DEF TypeOK, Exists
<1>3. FiresAreLinked'
  BY <1>1 DEF FiresAreLinked, Live, Current, Running, Exists
<1>4. DuesArePast' /\ NoMissedWakeup'
  <2>1. \A i \in Ids : Exists(i) => jobs[i].lastDue \in Nat /\ now \in Nat
    BY SchedulerAssumption DEF TypeOK, Exists, Jobs
  <2>2. QED
    BY <1>1, <2>1 DEF DuesArePast, NoMissedWakeup, Exists
<1>5. JobsStayArmed'
  <2>1. 0..now \subseteq 0..now'
    BY DEF TypeOK
  <2>2. QED
    BY <1>1, <2>1 DEF JobsStayArmed, MustFire, RanOut, Exists
<1>6. QED
  BY <1>2, <1>3, <1>4, <1>5

\* Jobs as they were, but for who is told.
JobsAlike ==
  /\ jobs' \in [Ids -> Jobs \cup {NoJob}]
  /\ \A i \in Ids : /\ Exists(i)' <=> Exists(i)
                    /\ Exists(i) => /\ jobs'[i].epoch = jobs[i].epoch
                                    /\ jobs'[i].running = jobs[i].running
                                    /\ jobs'[i].attempt = jobs[i].attempt
                                    /\ jobs'[i].spec = jobs[i].spec
                                    /\ jobs'[i].pending = jobs[i].pending
                                    /\ jobs'[i].nextAt = jobs[i].nextAt
                                    /\ jobs'[i].lastDue = jobs[i].lastDue

\* Fires that go on: each is of the id and epoch it was, and none joins or leaves the
\* living.
FiresAlike ==
  /\ fires' \subseteq FireType
  /\ \A g \in fires' : \E f \in fires : /\ g.id = f.id /\ g.epoch = f.epoch
                                        /\ (g.step = "forget" <=> f.step = "forget")
  /\ \A f \in Live : \E g \in Live' : g.id = f.id /\ g.epoch = f.epoch
  /\ \A g, h \in Live' : g.id = h.id /\ g.epoch = h.epoch => g = h

LEMMA MovedFires ==
  ASSUME SchedInv, UNCHANGED <<now, nextEpoch, autoSeq, loopVars, disk, bootVars>>,
         caller' \in [Callers -> Work \cup {Idle}], JobsAlike, FiresAlike
  PROVE  SchedInv'
<1> USE DEF JobsAlike, FiresAlike
<1> USE DEF SchedInv
<1>1. UNCHANGED <<loop, wakeAt, restarts, raced, unsaved>>
  BY DEF loopVars, bootVars
<1>2. TypeOK'
  BY <1>1 DEF TypeOK, FireType
<1>3. FiresAreLinked'
  <2>1. \A f \in fires : f.id \in Ids
    BY DEF TypeOK
  <2>2. \A g \in fires' : g.epoch <= nextEpoch'
    BY DEF FiresAreLinked
  <2>3. \A g \in fires' : g.step = "forget" => ~Current(g)'
    BY <2>1 DEF FiresAreLinked, Current
  <2>4. \A i \in Ids : Running(i)' => \E g \in Live' : g.id = i /\ g.epoch = jobs'[i].epoch
    BY DEF FiresAreLinked, Running
  <2>5. \A g \in Live' : Current(g)' => jobs'[g.id].running
    BY <2>1 DEF FiresAreLinked, Current, Live
  <2>6. \A i \in Ids : Exists(i)' => jobs'[i].epoch <= nextEpoch'
    BY DEF FiresAreLinked
  <2>7. QED
    BY <2>2, <2>3, <2>4, <2>5, <2>6 DEF FiresAreLinked
<1>4. JobsStayArmed' /\ DuesArePast'
  BY DEF JobsStayArmed, MustFire, RanOut, DuesArePast
<1>5. NoMissedWakeup'
  BY <1>1 DEF NoMissedWakeup
<1>6. QED
  BY <1>2, <1>3, <1>4, <1>5

LEMMA CancelTakeKeeps ==
  ASSUME SchedInv, NEW c \in Callers, NEW i \in Ids, CancelTake(c, i)
  PROVE  SchedInv'
<1> USE DEF SchedInv
<1>1. /\ jobs \in [Ids -> Jobs \cup {NoJob}] /\ NoJob \notin Jobs /\ fires \subseteq FireType
      /\ UNCHANGED <<now, nextEpoch, autoSeq, loopVars, disk, bootVars>>
      /\ caller \in [Callers -> Work \cup {Idle}]
  BY SchedulerAssumption DEF TypeOK, CancelTake, FireType
<1>2. caller' \in [Callers -> Work \cup {Idle}]
  BY <1>1 DEF CancelTake, Work
<1>3. CASE UNCHANGED <<jobs, fires>>
  <2>1. UNCHANGED <<memVars, fires, raced>> /\ UNCHANGED <<loop, wakeAt>>
    BY <1>1, <1>3 DEF memVars, loopVars, bootVars
  <2>2. /\ now' \in Nat /\ now <= now' /\ disk' \in [Ids -> Specs \cup {NoSpec}]
        /\ unsaved' \subseteq Ids /\ loop' \in {"claim", "park", "wait"} /\ wakeAt' \in Times
    BY <1>1, <2>1 DEF TypeOK, bootVars
  <2>3. QED
    BY <1>2, <2>1, <2>2, JobsUntouched
<1>4. CASE /\ Exists(i) /\ jobs' = [jobs EXCEPT ![i].seq = FALSE]
           /\ fires' = {IF Current(f) /\ f.id = i /\ f.step = "waiting"
                        THEN [f EXCEPT !.step = "cut"] ELSE f : f \in fires}
  <2> DEFINE cut(f) == IF Current(f) /\ f.id = i /\ f.step = "waiting"
                       THEN [f EXCEPT !.step = "cut"] ELSE f
  <2>1. JobsAlike
    <3>1. /\ jobs' \in [Ids -> Jobs \cup {NoJob}] /\ jobs[i] \in Jobs
          /\ jobs'[i] = [jobs[i] EXCEPT !.seq = FALSE] /\ jobs'[i] \in Jobs
          /\ \A k \in Ids : k # i => jobs'[k] = jobs[k]
      BY <1>1, <1>4 DEF Exists, Jobs
    <3>2. QED
      BY <1>1, <3>1 DEF JobsAlike, Exists, Jobs
  <2>2. \A f \in fires : /\ cut(f) \in FireType /\ cut(f).id = f.id /\ cut(f).epoch = f.epoch
                         /\ cut(f).step = "forget" <=> f.step = "forget"
    BY <1>1 DEF FireType
  <2>3. fires' = {cut(f) : f \in fires}
    BY <1>4
  <2> HIDE DEF cut
  <2>4. /\ fires' \subseteq FireType
        /\ \A g \in fires' : \E f \in fires : /\ g.id = f.id /\ g.epoch = f.epoch
                                              /\ (g.step = "forget" <=> f.step = "forget")
    BY <2>2, <2>3
  <2>5. \A f \in Live : \E g \in Live' : g.id = f.id /\ g.epoch = f.epoch
    BY <2>2, <2>3 DEF Live
  <2>6. \A g, h \in Live' : g.id = h.id /\ g.epoch = h.epoch => g = h
    <3> SUFFICES ASSUME NEW g \in Live', NEW h \in Live', g.id = h.id, g.epoch = h.epoch
                 PROVE  g = h
      OBVIOUS
    <3>1. PICK f \in fires : g = cut(f)
      BY <2>3 DEF Live
    <3>2. PICK e \in fires : h = cut(e)
      BY <2>3 DEF Live
    <3>3. f \in Live /\ e \in Live /\ f.id = e.id /\ f.epoch = e.epoch
      BY <2>2, <3>1, <3>2 DEF Live
    <3>4. QED
      BY <3>1, <3>2, <3>3 DEF FiresAreLinked
  <2>7. QED
    <3>1. FiresAlike
      BY <2>4, <2>5, <2>6 DEF FiresAlike
    <3>2. QED
      BY <1>1, <1>2, <2>1, <3>1, MovedFires
<1>5. QED
  BY <1>3, <1>4 DEF CancelTake

LEMMA PokeKeeps ==
  ASSUME SchedInv, NEW ss \in SUBSET Ids, \A i \in ss : Exists(i), PokeJobs(ss)
  PROVE  SchedInv'
<1> USE DEF SchedInv
<1>1. /\ jobs \in [Ids -> Jobs \cup {NoJob}] /\ NoJob \notin Jobs /\ now \in Nat
      /\ UNCHANGED <<now, nextEpoch, autoSeq, fires, caller, disk, bootVars>>
      /\ loop' \in {"claim", "park"} /\ wakeAt' \in Times /\ Never \notin Nat
  BY SchedulerAssumption, NotifyFacts DEF TypeOK, PokeJobs
<1>2. \A i \in Ids : jobs'[i] = IF i \notin ss THEN jobs[i]
                                ELSE IF jobs[i].running THEN [jobs[i] EXCEPT !.pending = TRUE]
                                ELSE [jobs[i] EXCEPT !.nextAt = now]
  BY DEF PokeJobs
<1>3. \A i \in ss : jobs[i] \in Jobs
  BY <1>1 DEF Exists
<1>4. \A i \in Ids : /\ jobs'[i] \in Jobs \cup {NoJob}
                     /\ Exists(i)' <=> Exists(i)
                     /\ Exists(i) => /\ jobs'[i].epoch = jobs[i].epoch
                                     /\ jobs'[i].running = jobs[i].running
                                     /\ jobs'[i].attempt = jobs[i].attempt
                                     /\ jobs'[i].spec = jobs[i].spec
                                     /\ jobs'[i].lastDue = jobs[i].lastDue
                                     /\ i \in ss => jobs[i].running \/ jobs'[i].nextAt # Never
  <2>1. ASSUME NEW i \in ss
        PROVE  /\ jobs'[i] \in Jobs
               /\ jobs'[i].epoch = jobs[i].epoch /\ jobs'[i].running = jobs[i].running
               /\ jobs'[i].attempt = jobs[i].attempt /\ jobs'[i].spec = jobs[i].spec
               /\ jobs'[i].lastDue = jobs[i].lastDue
               /\ jobs[i].running \/ jobs'[i].nextAt # Never
    <3>1. jobs[i] \in Jobs /\ i \in Ids /\ now \in Times
      BY <1>1, <1>3 DEF Times
    <3>2. CASE jobs[i].running
      <4>1. jobs'[i] = [jobs[i] EXCEPT !.pending = TRUE]
        BY <1>2, <3>1, <3>2
      <4>2. QED
        BY <3>1, <3>2, <4>1 DEF Jobs
    <3>3. CASE ~jobs[i].running
      <4>1. jobs'[i] = [jobs[i] EXCEPT !.nextAt = now]
        BY <1>2, <3>1, <3>3
      <4>2. QED
        BY <1>1, <3>1, <4>1 DEF Jobs
    <3>4. QED
      BY <3>2, <3>3
  <2>2. \A i \in Ids \ ss : jobs'[i] = jobs[i]
    BY <1>2
  <2>3. QED
    BY <1>1, <1>3, <2>1, <2>2 DEF Exists
<1>5. jobs' \in [Ids -> Jobs \cup {NoJob}]
  BY <1>4 DEF PokeJobs
<1>6. TypeOK'
  BY <1>1, <1>4, <1>5 DEF TypeOK, bootVars
<1>7. FiresAreLinked'
  <2>1. fires' = fires /\ nextEpoch' = nextEpoch /\ Live' = Live
    BY <1>1 DEF Live
  <2>2. \A f \in fires : f.id \in Ids
    BY DEF TypeOK
  <2>3. \A f \in fires : Current(f)' <=> Current(f)
    BY <1>4, <2>2 DEF Current
  <2>4. \A f \in Live : f \in fires
    BY DEF Live
  <2>5. QED
    BY <1>4, <2>1, <2>2, <2>3, <2>4 DEF FiresAreLinked, Running, Current
<1>8. JobsStayArmed'
  <2>1. \A i \in Ids \ ss : jobs'[i] = jobs[i]
    BY <1>2
  <2>2. QED
    BY <1>1, <1>4, <2>1 DEF JobsStayArmed, MustFire, RanOut
<1>9. DuesArePast'
  BY <1>1, <1>4 DEF DuesArePast
<1>10. QED
  BY <1>1, <1>6, <1>7, <1>8, <1>9 DEF NoMissedWakeup

-----------------------------------------------------------------------------
(* The scheduler thread and the fires. *)

LEMMA ClaimKeeps == ASSUME SchedInv, Claim PROVE SchedInv'
<1> USE DEF SchedInv
<1> DEFINE new(i) == [id |-> i, epoch |-> jobs[i].epoch,
                      step |-> IF jobs[i].spec.lease THEN "open" ELSE "request"]
<1>1. /\ jobs \in [Ids -> Jobs \cup {NoJob}] /\ NoJob \notin Jobs /\ fires \subseteq FireType
      /\ UNCHANGED <<now, nextEpoch, autoSeq, wakeAt, caller, disk, restarts, raced, unsaved>>
      /\ loop' = "park"
      /\ \A i \in Ids : jobs'[i] = IF Due(i)
                          THEN [jobs[i] EXCEPT !.running = TRUE, !.lastDue = jobs[i].nextAt,
                                               !.nextAt = Never, !.seq = FALSE]
                          ELSE jobs[i]
      /\ fires' = fires \cup {new(i) : i \in {j \in Ids : Due(j)}}
  BY SchedulerAssumption DEF TypeOK, Claim, FireType, bootVars
<1>2. \A i \in Ids : Due(i) => /\ jobs[i] \in Jobs /\ jobs[i].nextAt \in Nat /\ ~jobs[i].running
                               /\ jobs[i].nextAt <= now
  BY <1>1 DEF Due, Exists, Jobs, Times
<1>3. \A i \in Ids : Due(i) => /\ jobs'[i] \in Jobs /\ jobs'[i].running = TRUE
                               /\ jobs'[i].epoch = jobs[i].epoch
                               /\ jobs'[i].attempt = jobs[i].attempt
                               /\ jobs'[i].spec = jobs[i].spec
                               /\ jobs'[i].lastDue = jobs[i].nextAt
  <2> SUFFICES ASSUME NEW i \in Ids, Due(i)
               PROVE  /\ jobs'[i] \in Jobs /\ jobs'[i].running = TRUE
                      /\ jobs'[i].epoch = jobs[i].epoch
                      /\ jobs'[i].attempt = jobs[i].attempt
                      /\ jobs'[i].spec = jobs[i].spec
                      /\ jobs'[i].lastDue = jobs[i].nextAt
    OBVIOUS
  <2>1. /\ jobs[i] \in Jobs /\ jobs[i].nextAt \in Nat /\ Never \in Times
        /\ jobs'[i] = [jobs[i] EXCEPT !.running = TRUE, !.lastDue = jobs[i].nextAt,
                                      !.nextAt = Never, !.seq = FALSE]
    BY <1>1, <1>2 DEF Times
  <2>2. QED
    BY <2>1 DEF Jobs
<1>4. /\ \A i \in Ids : ~Due(i) => jobs'[i] = jobs[i]
      /\ \A i \in Ids : Exists(i)' <=> Exists(i)
  BY <1>1, <1>2, <1>3 DEF Exists
<1>5. jobs' \in [Ids -> Jobs \cup {NoJob}]
  <2>1. \A i \in Ids : jobs'[i] \in Jobs \cup {NoJob}
    BY <1>1, <1>3, <1>4
  <2>2. QED
    BY <2>1 DEF Claim
<1>6. \A i \in Ids : Due(i) => /\ new(i) \in FireType /\ new(i).step # "forget"
                               /\ new(i).id = i /\ new(i).epoch = jobs[i].epoch
  BY <1>2 DEF Jobs, FireType
<1>7. TypeOK'
  <2>1. fires' \subseteq FireType
    BY <1>1, <1>6
  <2>2. \A i \in Ids : Exists(i)' => \E s \in Specs : jobs'[i].attempt <= s.retries
    BY <1>3, <1>4 DEF TypeOK
  <2>3. QED
    BY <1>1, <1>5, <2>1, <2>2 DEF TypeOK, FireType
<1>8. FiresAreLinked'
  <2> HIDE DEF new
  <2>1. \A g \in fires' : g \in fires \/ \E i \in Ids : Due(i) /\ g = new(i)
    BY <1>1
  <2>2. \A i \in Ids : Due(i) => Exists(i) /\ jobs'[i].running /\ new(i) \in fires'
    BY <1>1, <1>3 DEF Due
  <2>3. \A f \in fires : f.id \in Ids /\ f \in fires'
    BY <1>1 DEF FireType
  <2>4. \A i \in Ids : Exists(i)' => jobs'[i].epoch <= nextEpoch'
    BY <1>1, <1>3, <1>4 DEF FiresAreLinked
  <2>5. \A g \in fires' : g.epoch <= nextEpoch'
    <3>1. \A i \in Ids : Due(i) => new(i).epoch <= nextEpoch
      BY <1>6, <2>2 DEF FiresAreLinked
    <3>2. \A f \in fires : f.epoch <= nextEpoch
      BY DEF FiresAreLinked
    <3>3. nextEpoch' = nextEpoch
      BY <1>1
    <3>4. QED
      BY <2>1, <3>1, <3>2, <3>3
  <2>6. \A f \in fires : Current(f)' <=> Current(f)
    BY <1>3, <1>4, <2>3 DEF Current
  <2>7. \A g \in fires' : g.step = "forget" => ~Current(g)'
    BY <1>6, <2>1, <2>6 DEF FiresAreLinked
  <2>8. \A i \in Ids : Running(i)' => \E g \in Live' : g.id = i /\ g.epoch = jobs'[i].epoch
    <3> SUFFICES ASSUME NEW i \in Ids, Running(i)'
                 PROVE  \E g \in Live' : g.id = i /\ g.epoch = jobs'[i].epoch
      OBVIOUS
    <3>1. CASE Due(i)
      BY <3>1, <1>3, <1>6, <2>2 DEF Live
    <3>2. CASE ~Due(i)
      BY <3>2, <1>4, <2>3 DEF FiresAreLinked, Running, Live
    <3>3. QED
      BY <3>1, <3>2
  <2>9. \A g \in Live' : Current(g)' => jobs'[g.id].running
    <3> SUFFICES ASSUME NEW g \in Live', Current(g)'
                 PROVE  jobs'[g.id].running
      OBVIOUS
    <3>1. CASE g \in fires
      <4>1. g \in Live /\ Current(g) /\ jobs[g.id].running
        BY <3>1, <2>6 DEF Live, FiresAreLinked
      <4>2. ~Due(g.id)
        BY <4>1, <1>2, <2>3, <3>1
      <4>3. QED
        BY <4>1, <4>2, <1>4, <2>3, <3>1
    <3>2. CASE \E i \in Ids : Due(i) /\ g = new(i)
      BY <3>2, <1>6, <2>2
    <3>3. QED
      BY <3>1, <3>2, <2>1 DEF Live
  <2>10. \A g, h \in Live' : g.id = h.id /\ g.epoch = h.epoch => g = h
    <3>1. \A g \in Live', i \in Ids : Due(i) /\ g.id = i /\ g.epoch = jobs[i].epoch => g = new(i)
      <4> SUFFICES ASSUME NEW g \in Live', NEW i \in Ids, Due(i), g.id = i,
                          g.epoch = jobs[i].epoch, g # new(i)
                   PROVE  FALSE
        OBVIOUS
      <4>1. g \in Live
        BY <1>6, <2>1 DEF Live
      <4>2. Current(g)
        BY <2>2 DEF Current
      <4>3. QED
        BY <4>1, <4>2, <1>2 DEF FiresAreLinked
    <3>2. \A g \in Live' : g \in Live \/ \E i \in Ids : Due(i) /\ g = new(i)
      BY <2>1 DEF Live
    <3>3. QED
      BY <3>1, <3>2, <1>6 DEF FiresAreLinked
  <2>11. QED
    BY <2>4, <2>5, <2>7, <2>8, <2>9, <2>10 DEF FiresAreLinked
<1>9. JobsStayArmed'
  <2>1. \A i \in Ids : Due(i) => jobs'[i].running
    BY <1>3
  <2>2. QED
    BY <1>1, <1>4, <2>1 DEF JobsStayArmed, MustFire, RanOut
<1>10. DuesArePast'
  BY <1>1, <1>2, <1>3, <1>4 DEF DuesArePast
<1>11. QED
  BY <1>1, <1>7, <1>8, <1>9, <1>10 DEF NoMissedWakeup

\* The thread looks and waits in one section, for the earliest.
LEMMA ParkKeeps == ASSUME SchedInv, Park PROVE SchedInv'
<1> USE DEF SchedInv
<1>1. UNCHANGED <<now, memVars, fires, caller, disk, raced, unsaved, restarts>>
  BY DEF Park, bootVars
<1>2. /\ now \in Nat /\ disk \in [Ids -> Specs \cup {NoSpec}] /\ wakeAt \in Times
      /\ unsaved \subseteq Ids
      /\ caller \in [Callers -> Work \cup {Idle}] /\ jobs \in [Ids -> Jobs \cup {NoJob}]
  BY DEF TypeOK
<1>3. CASE \E i \in Ids : Due(i)
  <2>1. loop' = "claim" /\ wakeAt' = wakeAt
    BY <1>3 DEF Park
  <2>2. QED
    BY <1>1, <1>2, <2>1, JobsUntouched
<1>4. CASE ~\E i \in Ids : Due(i)
  <2>1. /\ loop' = "wait"
        /\ \/ Armed = {} /\ wakeAt' = Never
           \/ wakeAt' \in Armed /\ \A t \in Armed : wakeAt' <= t
    BY <1>4 DEF Park
  <2>2. Armed \subseteq Nat /\ Never \notin Nat
    BY <1>2, SchedulerAssumption DEF Armed, Exists, Jobs, Times
  <2>3. wakeAt' \in Times
    BY <2>1, <2>2 DEF Times
  <2>4. TypeOK'
    BY <1>1, <2>1, <2>3 DEF TypeOK, memVars, Exists
  <2>5. FiresAreLinked' /\ JobsStayArmed' /\ DuesArePast'
    <3>1. FiresAreLinked'
      BY <1>1 DEF FiresAreLinked, Live, Current, Running, Exists, memVars
    <3>2. JobsStayArmed' /\ DuesArePast'
      BY <1>1 DEF Exists, memVars, JobsStayArmed, MustFire, RanOut, DuesArePast
    <3>3. QED
      BY <3>1, <3>2
  <2>6. NoMissedWakeup'
    <3>1. \A i \in Ids : Exists(i) /\ ~jobs[i].running /\ jobs[i].nextAt # Never
                           => jobs[i].nextAt \in Armed
      BY DEF Armed
    <3>2. \A i \in Ids : Exists(i) /\ ~jobs[i].running /\ jobs[i].nextAt # Never
                           => wakeAt' # Never /\ wakeAt' <= jobs[i].nextAt
      BY <3>1, <2>1, <2>2
    <3>3. jobs' = jobs
      BY <1>1 DEF memVars
    <3>4. QED
      BY <3>2, <3>3 DEF NoMissedWakeup, Exists
  <2>7. QED
    BY <2>4, <2>5, <2>6
<1>5. QED
  BY <1>3, <1>4

\* A fire ends: its job is freed or gone, or was gone before.
LEMMA CompleteKeeps ==
  ASSUME SchedInv, NEW f \in Live, NEW ok \in BOOLEAN, Complete(f, ok) PROVE SchedInv'
<1> USE DEF SchedInv
<1> DEFINE job == After(jobs[f.id], ok)
           i == f.id
<1>1. /\ jobs \in [Ids -> Jobs \cup {NoJob}] /\ NoJob \notin Jobs /\ fires \subseteq FireType
      /\ UNCHANGED <<now, nextEpoch, autoSeq, caller, disk, restarts, raced, unsaved>>
      /\ f \in fires /\ i \in Ids /\ f \in FireType
  BY SchedulerAssumption DEF TypeOK, Complete, FireType, bootVars, Live
<1>2. ASSUME ~Current(f), fires' = fires \ {f}, UNCHANGED <<jobs, loopVars>>
      PROVE  SchedInv'
  <2>1. TypeOK'
    BY <1>1, <1>2 DEF TypeOK, loopVars, Exists, FireType
  <2>2. FiresAreLinked'
    BY <1>1, <1>2 DEF FiresAreLinked, Live, Current, Running, Exists
  <2>3. JobsStayArmed' /\ DuesArePast' /\ NoMissedWakeup'
    BY <1>1, <1>2 DEF JobsStayArmed, MustFire, RanOut, DuesArePast, NoMissedWakeup, Exists,
                      loopVars
  <2>4. QED
    BY <2>1, <2>2, <2>3
<1>3. ASSUME Current(f), Notify,
             \/ /\ Finished(job) /\ jobs' = [jobs EXCEPT ![i] = NoJob]
                /\ fires' = (fires \ {f}) \cup {[f EXCEPT !.step = "forget"]}
             \/ /\ ~Finished(job) /\ jobs' = [jobs EXCEPT ![i] = job]
                /\ fires' = fires \ {f}
      PROVE  SchedInv'
  <2>1. /\ jobs[i] \in Jobs /\ jobs[i].epoch = f.epoch /\ jobs[i].epoch \in Nat
        /\ Exists(i) /\ jobs[i].lastDue <= now
        /\ \E s \in Specs : jobs[i].attempt <= s.retries
    BY <1>1, <1>3 DEF Current, Exists, TypeOK, Jobs, DuesArePast
  <2>2. /\ job \in Jobs /\ job.epoch = jobs[i].epoch /\ ~job.running /\ job.spec = jobs[i].spec
        /\ \E s \in Specs : job.attempt <= s.retries
        /\ MustFire(job) /\ ~Finished(job) => job.nextAt # Never
        /\ job.lastDue = jobs[i].lastDue
    BY <2>1, AfterFacts
  <2> HIDE DEF job
  <2>3. /\ \A k \in Ids : k # i => jobs'[k] = jobs[k] /\ (Exists(k)' <=> Exists(k))
        /\ jobs' \in [Ids -> Jobs \cup {NoJob}]
        /\ Exists(i)' => jobs'[i] = job /\ ~Finished(job)
    BY <1>1, <1>3, <2>2 DEF Exists
  <2>4. loop' \in {"claim", "park"} /\ wakeAt' \in Times
    BY <1>3, NotifyFacts
  <2>5. /\ [f EXCEPT !.step = "forget"] \in FireType
        /\ [f EXCEPT !.step = "forget"].step = "forget"
        /\ [f EXCEPT !.step = "forget"].id = i /\ [f EXCEPT !.step = "forget"].epoch = f.epoch
    BY <1>1 DEF FireType
  <2>6. /\ fires' \subseteq FireType /\ Live' = Live \ {f}
        /\ \A g \in fires' : g \in fires \/ (g.step = "forget" /\ g.id = i /\ g.epoch = f.epoch
                                              /\ ~Exists(i)')
    <3>1. CASE Finished(job)
      <4>1. /\ fires' = (fires \ {f}) \cup {[f EXCEPT !.step = "forget"]}
            /\ jobs' = [jobs EXCEPT ![i] = NoJob]
        BY <1>3, <3>1
      <4>2. ~Exists(i)'
        BY <1>1, <4>1 DEF Exists
      <4>3. QED
        BY <1>1, <2>5, <4>1, <4>2 DEF Live
    <3>2. CASE ~Finished(job)
      BY <1>1, <1>3, <3>2 DEF Live
    <3>3. QED
      BY <3>1, <3>2
  <2>7. TypeOK'
    <3>1. \A k \in Ids : Exists(k)' => \E s \in Specs : jobs'[k].attempt <= s.retries
      BY <2>2, <2>3 DEF TypeOK
    <3>2. QED
      BY <1>1, <2>3, <2>4, <2>6, <3>1 DEF TypeOK, FireType
  <2>8. FiresAreLinked'
    <3>1. \A k \in Ids : Exists(k)' => /\ Exists(k) /\ jobs'[k].epoch = jobs[k].epoch
                                       /\ (jobs'[k].running => jobs[k].running /\ k # i)
      BY <2>1, <2>2, <2>3
    <3>2. \A g \in Live : g \in fires /\ g.id \in Ids
      BY <1>1 DEF Live, FireType
    <3>3. \A g \in Live' : Current(g)' => g \in Live /\ Current(g) /\ g.id # i
      <4> SUFFICES ASSUME NEW g \in Live', Current(g)' PROVE g \in Live /\ Current(g) /\ g.id # i
        OBVIOUS
      <4>1. g \in Live /\ g # f /\ g.id \in Ids
        BY <2>6, <3>2
      <4>2. Current(g)
        BY <3>1, <4>1 DEF Current
      <4>3. ASSUME g.id = i PROVE FALSE
        <5>1. g.epoch = f.epoch
          BY <4>2, <4>3, <2>1 DEF Current
        <5>2. QED
          BY <4>1, <4>3, <5>1 DEF FiresAreLinked
      <4>4. QED
        BY <4>1, <4>2, <4>3
    <3>4. \A g \in fires' : g.step = "forget" => ~Current(g)'
      <4> SUFFICES ASSUME NEW g \in fires', g.step = "forget", Current(g)' PROVE FALSE
        OBVIOUS
      <4>1. g \in fires
        BY <2>6 DEF Current
      <4>2. Current(g)
        BY <1>1, <3>1, <4>1 DEF Current, FireType
      <4>3. QED
        BY <4>1, <4>2 DEF FiresAreLinked
    <3>5. \A k \in Ids : Running(k)' => \E g \in Live' : g.id = k /\ g.epoch = jobs'[k].epoch
      BY <2>6, <3>1 DEF Running, FiresAreLinked
    <3>6. \A g \in fires' : g.epoch <= nextEpoch'
      BY <1>1, <2>6 DEF FiresAreLinked
    <3>7. \A k \in Ids : Exists(k)' => jobs'[k].epoch <= nextEpoch'
      BY <1>1, <3>1 DEF FiresAreLinked
    <3>8. \A g \in Live' : Current(g)' => jobs'[g.id].running
      BY <2>3, <3>2, <3>3 DEF FiresAreLinked
    <3>9. \A g, h \in Live' : g.id = h.id /\ g.epoch = h.epoch => g = h
      BY <2>6 DEF FiresAreLinked
    <3>10. QED
      BY <3>4, <3>5, <3>6, <3>7, <3>8, <3>9 DEF FiresAreLinked
  <2>9. JobsStayArmed' /\ DuesArePast'
    <3>1. JobsStayArmed'
      BY <1>1, <2>2, <2>3 DEF JobsStayArmed, MustFire, RanOut
    <3>2. DuesArePast'
      BY <1>1, <2>1, <2>2, <2>3 DEF DuesArePast
    <3>3. QED
      BY <3>1, <3>2
  <2>10. QED
    BY <2>4, <2>7, <2>8, <2>9 DEF NoMissedWakeup
<1>4. QED
  BY <1>2, <1>3 DEF Complete

LEMMA OpenedKeeps ==
  ASSUME SchedInv, NEW f \in fires, Opened(f) \/ SetSeq(f) PROVE SchedInv'
<1> USE DEF SchedInv
<1> DEFINE g == [f EXCEPT !.step = IF f.step = "open" THEN "opened" ELSE "waiting"]
<1>1. /\ jobs \in [Ids -> Jobs \cup {NoJob}] /\ NoJob \notin Jobs /\ fires \subseteq FireType
      /\ UNCHANGED <<now, nextEpoch, autoSeq, loopVars, caller, disk, bootVars>>
      /\ caller \in [Callers -> Work \cup {Idle}] /\ f \in Live /\ f \in FireType
      /\ fires' = (fires \ {f}) \cup {g}
  BY SchedulerAssumption DEF TypeOK, Opened, SetSeq, FireType, Live, memVars
<1>2. JobsAlike
  <2>1. CASE jobs' = jobs
    BY <1>1, <2>1 DEF JobsAlike, Exists
  <2>2. CASE Current(f) /\ jobs' = [jobs EXCEPT ![f.id].seq = TRUE]
    <3>1. f.id \in Ids /\ jobs[f.id] \in Jobs
      BY <1>1, <2>2 DEF Current, Exists, FireType
    <3>2. /\ jobs' \in [Ids -> Jobs \cup {NoJob}]
          /\ jobs'[f.id] = [jobs[f.id] EXCEPT !.seq = TRUE] /\ jobs'[f.id] \in Jobs
          /\ \A k \in Ids : k # f.id => jobs'[k] = jobs[k]
      BY <1>1, <2>2, <3>1 DEF Jobs
    <3>3. QED
      BY <1>1, <3>1, <3>2 DEF JobsAlike, Exists, Jobs
  <2>3. QED
    BY <2>1, <2>2 DEF Opened, SetSeq, memVars
<1>3. g \in FireType /\ g.id = f.id /\ g.epoch = f.epoch /\ g.step # "forget"
  BY <1>1 DEF FireType
<1> HIDE DEF g
<1>4. FiresAlike
  <2>1. Live' = (Live \ {f}) \cup {g}
    BY <1>1, <1>3 DEF Live
  <2>2. fires' \subseteq FireType
    BY <1>1, <1>3
  <2>3. \A h \in fires' : \E e \in fires : /\ h.id = e.id /\ h.epoch = e.epoch
                                           /\ (h.step = "forget" <=> e.step = "forget")
    BY <1>1, <1>3 DEF Live
  <2>4. \A e \in Live : \E h \in Live' : h.id = e.id /\ h.epoch = e.epoch
    BY <1>3, <2>1
  <2>5. \A h, e \in Live' : h.id = e.id /\ h.epoch = e.epoch => h = e
    BY <1>1, <1>3, <2>1 DEF FiresAreLinked
  <2>6. QED
    BY <2>2, <2>3, <2>4, <2>5 DEF FiresAlike
<1>5. caller' \in [Callers -> Work \cup {Idle}]
  BY <1>1
<1>6. QED
  BY <1>1, <1>2, <1>4, <1>5, MovedFires

LEMMA ForgetKeeps == ASSUME SchedInv, NEW f \in fires, Forget(f) PROVE SchedInv'
<1> USE DEF SchedInv
<1>1. /\ UNCHANGED <<now, memVars, loopVars, caller, bootVars>> /\ fires' = fires \ {f}
      /\ f.step = "forget" /\ (disk' = disk \/ disk' = [disk EXCEPT ![f.id] = NoSpec])
  BY DEF Forget, Erase
<1>2. TypeOK'
  BY <1>1 DEF TypeOK, memVars, loopVars, bootVars, Exists
<1>3. FiresAreLinked'
  BY <1>1 DEF FiresAreLinked, Live, Current, Running, Exists, memVars
<1>4. JobsStayArmed' /\ DuesArePast' /\ NoMissedWakeup'
  BY <1>1 DEF JobsStayArmed, MustFire, RanOut, DuesArePast, NoMissedWakeup, Exists, memVars,
              loopVars
<1>5. QED
  BY <1>2, <1>3, <1>4

\* What the store has is registered anew, each job with an epoch of its own.
LEMMA RestartKeeps == ASSUME SchedInv, Restart PROVE SchedInv'
<1> USE DEF SchedInv
<1>1. /\ disk \in [Ids -> Specs \cup {NoSpec}] /\ NoSpec \notin Specs /\ NoJob \notin Jobs
      /\ now \in Nat /\ MaxAuto \in Nat
  BY SchedulerAssumption DEF TypeOK
<1>2. Cardinality(Saved) \in Nat
  <2>1. IsFiniteSet(Autos)
    BY <1>1, FS_Interval DEF Autos
  <2>2. IsFiniteSet(Ids)
    BY <2>1, SchedulerAssumption, FS_Union DEF Ids
  <2>3. QED
    BY <2>2, FS_Subset, FS_CardinalityType DEF Saved
<1>3. PICK e \in [Saved -> 1..Cardinality(Saved)] :
         jobs' = [i \in Ids |-> IF i \in Saved THEN NewJob(disk[i], e[i]) ELSE NoJob]
  BY DEF Restart
<1>4. /\ nextEpoch' = Cardinality(Saved) /\ autoSeq' = 0 /\ fires' = {}
      /\ loop' = "claim" /\ wakeAt' = Never /\ caller' = [c \in Callers |-> Idle]
      /\ raced' = {} /\ unsaved' = {} /\ UNCHANGED <<now, disk>>
  BY DEF Restart
<1>5. \A i \in Saved : /\ i \in Ids /\ disk[i] \in Specs /\ e[i] \in Nat
                       /\ e[i] <= Cardinality(Saved)
  BY <1>1, <1>2, <1>3 DEF Saved
<1>6. \A i \in Saved : /\ jobs'[i] \in Jobs /\ ~jobs'[i].running /\ ~jobs'[i].pending
                       /\ jobs'[i].epoch = e[i] /\ jobs'[i].attempt = 0
                       /\ jobs'[i].spec \in Specs
                       /\ (MustFire(jobs'[i]) => jobs'[i].nextAt # Never)
                       /\ jobs'[i].lastDue = 0
  <2>1. \A i \in Saved : jobs'[i] = NewJob(disk[i], e[i])
    BY <1>3, <1>5
  <2>2. QED
    BY <1>5, <2>1, NewJobFacts
<1>7. \A i \in Ids : Exists(i)' => i \in Saved
  BY <1>3 DEF Exists
<1>8. jobs' \in [Ids -> Jobs \cup {NoJob}]
  BY <1>3, <1>6
<1>9. TypeOK'
  <2>1. \A i \in Ids : Exists(i)' => \E s \in Specs : jobs'[i].attempt <= s.retries
    <3>1. \A s \in Specs : 0 <= s.retries
      BY SchedulerAssumption
    <3>2. QED
      BY <1>6, <1>7, <3>1
  <2>2. QED
    BY <1>1, <1>2, <1>4, <1>8, <2>1 DEF TypeOK, Times
<1>10. FiresAreLinked'
  <2>1. Live' = {}
    BY <1>4 DEF Live
  <2>2. QED
    BY <1>4, <1>5, <1>6, <1>7, <2>1 DEF FiresAreLinked, Running
<1>11. JobsStayArmed' /\ DuesArePast' /\ NoMissedWakeup'
  BY <1>1, <1>4, <1>6, <1>7 DEF JobsStayArmed, MustFire, RanOut, DuesArePast, NoMissedWakeup
<1>12. QED
  BY <1>9, <1>10, <1>11

LEMMA SchedStarts == Init => SchedInv
<1> SUFFICES ASSUME Init PROVE SchedInv
  OBVIOUS
<1>1. TypeOK
  BY SchedulerAssumption DEF Init, TypeOK, Exists, Times
<1>2. FiresAreLinked
  BY DEF Init, FiresAreLinked, Exists, Running, Live
<1>3. JobsStayArmed /\ DuesArePast /\ NoMissedWakeup
  BY DEF Init, JobsStayArmed, DuesArePast, NoMissedWakeup, Exists
<1>4. QED
  BY <1>1, <1>2, <1>3 DEF SchedInv

LEMMA SchedSteps == SchedInv /\ [Next]_vars => SchedInv'
<1> SUFFICES ASSUME SchedInv, [Next]_vars PROVE SchedInv'
  OBVIOUS
<1>1. /\ now \in Nat /\ disk \in [Ids -> Specs \cup {NoSpec}] /\ wakeAt \in Times
      /\ caller \in [Callers -> Work \cup {Idle}] /\ loop \in {"claim", "park", "wait"}
      /\ autoSeq \in 0..MaxAuto /\ MaxAuto \in Nat /\ unsaved \subseteq Ids
  BY SchedulerAssumption DEF SchedInv, TypeOK
<1>2. ASSUME NEW c \in Callers, NEW s \in Specs, RegisterAuto(c, s) PROVE SchedInv'
  <2>1. autoSeq + 1 \in Ids /\ autoSeq' \in 0..MaxAuto /\ Enter(c, autoSeq + 1, s)
    BY <1>1, <1>2 DEF RegisterAuto, Ids, Autos
  <2>2. QED
    BY <2>1, EnterKeeps
<1>3. ASSUME NEW c \in Callers, NEW s \in Specs, NEW i \in Ids, Register(c, i, s) PROVE SchedInv'
  BY <1>1, <1>3, EnterKeeps DEF Register
<1>4. ASSUME NEW c \in Callers, NEW i \in Ids, CancelTake(c, i) PROVE SchedInv'
  BY <1>4, CancelTakeKeeps
<1>5. ASSUME NEW c \in Callers, Save(c) \/ CancelForget(c) PROVE SchedInv'
  <2>1. /\ UNCHANGED <<now, memVars, fires, loop, wakeAt, raced>>
        /\ caller' = [caller EXCEPT ![c] = Idle]
        /\ unsaved' \subseteq unsaved \cup {caller[c].id}
    BY <1>5 DEF Save, CancelForget, loopVars, bootVars
  <2>2. caller[c] \in Work /\ caller' \in [Callers -> Work \cup {Idle}]
    BY <1>1, <1>5, <2>1 DEF Save, CancelForget
  <2>3. caller[c].id \in Ids /\ (caller[c].op = "save" => caller[c].spec \in Specs)
    BY <2>2 DEF Work
  <2>4. disk' \in [Ids -> Specs \cup {NoSpec}] /\ unsaved' \subseteq Ids
    BY <1>1, <1>5, <2>1, <2>3 DEF Save, CancelForget, Erase
  <2>5. QED
    BY <1>1, <2>1, <2>2, <2>4, JobsUntouched
<1>6. ASSUME NEW c \in Callers, CancelRemove(c) PROVE SchedInv'
  <2>1. /\ UNCHANGED <<now, nextEpoch, autoSeq, fires, disk, raced, unsaved>> /\ Drop({caller[c].id})
        /\ caller' = [caller EXCEPT ![c] = [op |-> "forget", id |-> caller[c].id]]
        /\ caller[c] # Idle /\ (Notify \/ UNCHANGED loopVars)
    BY <1>6 DEF CancelRemove, bootVars
  <2>2. caller[c].id \in Ids
    BY <1>1, <2>1, <1>6 DEF Work, CancelRemove
  <2>3. caller' \in [Callers -> Work \cup {Idle}]
    BY <1>1, <2>1, <2>2 DEF Work
  <2>4. /\ loop' \in {"claim", "park", "wait"} /\ wakeAt' \in Times
        /\ loop' # "wait" \/ UNCHANGED <<loop, wakeAt>>
    BY <1>1, <1>6, NotifyFacts DEF CancelRemove, loopVars, SchedInv
  <2>5. QED
    BY <2>1, <2>2, <2>3, <2>4, DropKeeps
<1>7. CASE CancelByOwner
  <2>1. /\ UNCHANGED <<now, nextEpoch, autoSeq, fires, disk, raced, unsaved, caller>> /\ Drop(Owned)
        /\ Notify /\ Owned \in SUBSET Ids
    BY <1>7 DEF CancelByOwner, bootVars, Owned
  <2>2. loop' \in {"claim", "park"} /\ wakeAt' \in Times
    BY <2>1, NotifyFacts DEF SchedInv
  <2>3. QED
    BY <1>1, <2>1, <2>2, DropKeeps
<1>8. CASE Poke
  BY <1>8, PokeKeeps DEF Poke, Reconciles
<1>9. CASE Claim \/ Park
  BY <1>9, ClaimKeeps, ParkKeeps
<1>10. CASE WaitOver
  <2>1. /\ UNCHANGED <<now, memVars, fires, caller, disk, raced, unsaved>>
        /\ loop' = "claim" /\ wakeAt' \in Times
    BY <1>10 DEF WaitOver, bootVars, Times
  <2>2. QED
    BY <1>1, <2>1, JobsUntouched
<1>11. ASSUME NEW f \in fires, NEW ok \in BOOLEAN,
              Answered(f, ok) \/ Exited(f, ok) \/ OpenFails(f) \/ Cut(f)
       PROVE  SchedInv'
  <2>1. f \in Live
    BY <1>11 DEF Live, Answered, Exited, OpenFails, Cut
  <2>2. QED
    BY <1>11, <2>1, CompleteKeeps DEF Answered, Exited, OpenFails, Cut
<1>12. ASSUME NEW f \in fires, Opened(f) \/ SetSeq(f) PROVE SchedInv'
  BY <1>12, OpenedKeeps
<1>13. ASSUME NEW f \in fires, Forget(f) PROVE SchedInv'
  BY <1>13, ForgetKeeps
<1>14. CASE Restart
  BY <1>14, RestartKeeps
<1>15. CASE Tick
  <2>1. UNCHANGED <<memVars, fires, loop, wakeAt, caller, disk, raced, unsaved>> /\ now' = now + 1
    BY <1>15 DEF Tick, loopVars, bootVars
  <2>2. QED
    BY <1>1, <2>1, JobsUntouched
<1>16. CASE UNCHANGED vars
  <2>1. UNCHANGED <<now, memVars, fires, loop, wakeAt, caller, disk, raced, unsaved>>
    BY <1>16 DEF vars, loopVars, bootVars
  <2>2. QED
    BY <1>1, <2>1, JobsUntouched
<1>17. QED
  BY <1>2, <1>3, <1>4, <1>5, <1>6, <1>7, <1>8, <1>9, <1>10, <1>11, <1>12, <1>13, <1>14, <1>15,
     <1>16 DEF Next, Command, Fire, Loop

\* No job is fired twice at once and none is left without its next fire, and the thread
\* misses no wake-up (register, claim_due, complete, poke, park_until_due).
THEOREM TheFiresAreExact == Spec => []FiresAreExact
<1>1. SchedInv => FiresAreExact
  BY SchedInvImplies
<1>2. QED
  BY <1>1, SchedStarts, SchedSteps, PTL DEF Spec

-----------------------------------------------------------------------------
(* Who loses a job, and what is stored. *)

\* A fire keeps its job, or the job is gone.
Kept == \A f \in fires \cap fires' : Current(f) => Current(f)' \/ jobs'[f.id] = NoJob

LEMMA KeptJobs ==
  ASSUME \A f \in fires : Current(f) => jobs'[f.id] = NoJob \/ jobs'[f.id].epoch = jobs[f.id].epoch
  PROVE  Kept
BY DEF Kept, Current, Exists

LEMMA StepsKeep == SchedInv /\ [Next]_vars => Kept
<1> SUFFICES ASSUME SchedInv, [Next]_vars PROVE Kept
  OBVIOUS
<1>1. /\ jobs \in [Ids -> Jobs \cup {NoJob}] /\ NoJob \notin Jobs
      /\ \A f \in fires : f.id \in Ids /\ (Current(f) => jobs[f.id] \in Jobs)
      /\ \A f \in fires : Current(f) => f \in Live /\ jobs[f.id].running
  BY SchedulerAssumption DEF SchedInv, TypeOK, Current, Exists, FiresAreLinked, Live
<1>2. ASSUME jobs' = jobs PROVE Kept
  BY <1>2, KeptJobs
<1>3. ASSUME NEW c \in Callers, NEW i \in Ids, NEW s \in Specs, Enter(c, i, s) PROVE Kept
  <2>1. CASE Running(i) /\ jobs' = [jobs EXCEPT ![i].spec = s]
    <3>1. \A f \in fires : Current(f) => jobs'[f.id].epoch = jobs[f.id].epoch
      BY <1>1, <2>1 DEF Jobs
    <3>2. QED
      BY <3>1, KeptJobs
  <2>2. CASE ~Running(i) /\ jobs' = [jobs EXCEPT ![i] = NewJob(s, nextEpoch')]
    <3>1. \A f \in fires : Current(f) => f.id # i
      BY <1>1, <2>2 DEF Running, Current
    <3>2. QED
      BY <1>1, <2>2, <3>1, KeptJobs
  <2>3. QED
    BY <1>3, <2>1, <2>2 DEF Enter, Put
<1>4. ASSUME NEW c \in Callers, NEW i \in Ids, CancelTake(c, i) PROVE Kept
  <2>1. CASE jobs' = [jobs EXCEPT ![i].seq = FALSE]
    <3>1. \A f \in fires : Current(f) => jobs'[f.id].epoch = jobs[f.id].epoch
      BY <1>1, <2>1 DEF Jobs
    <3>2. QED
      BY <3>1, KeptJobs
  <2>2. QED
    BY <1>2, <1>4, <2>1 DEF CancelTake
<1>5. ASSUME NEW ss, Drop(ss) PROVE Kept
  BY <1>1, <1>5, KeptJobs DEF Drop
<1>6. ASSUME NEW ss, PokeJobs(ss) PROVE Kept
  <2>1. \A f \in fires : Current(f) => jobs'[f.id].epoch = jobs[f.id].epoch
    BY <1>1, <1>6 DEF PokeJobs, Jobs
  <2>2. QED
    BY <2>1, KeptJobs
<1>7. CASE Claim
  <2>1. \A f \in fires : Current(f) => jobs'[f.id].epoch = jobs[f.id].epoch
    BY <1>1, <1>7 DEF Claim, Jobs
  <2>2. QED
    BY <2>1, KeptJobs
<1>8. ASSUME NEW f \in Live, NEW ok \in BOOLEAN, Complete(f, ok) PROVE Kept
  <2>1. CASE UNCHANGED jobs
    BY <1>2, <2>1
  <2>2. CASE jobs' = [jobs EXCEPT ![f.id] = NoJob]
    BY <1>1, <2>2, KeptJobs
  <2>3. CASE Current(f) /\ jobs' = [jobs EXCEPT ![f.id] = After(jobs[f.id], ok)]
    <3>1. f \in fires /\ f.id \in Ids
      BY <1>1 DEF Live
    <3>2. /\ jobs[f.id] \in Jobs /\ jobs[f.id].lastDue <= now
          /\ \E s \in Specs : jobs[f.id].attempt <= s.retries
      BY <1>1, <2>3, <3>1 DEF SchedInv, TypeOK, Current, DuesArePast
    <3>3. After(jobs[f.id], ok).epoch = jobs[f.id].epoch
      BY <3>2, AfterFacts DEF SchedInv
    <3>4. \A e \in fires : Current(e) => jobs'[e.id].epoch = jobs[e.id].epoch
      BY <1>1, <2>3, <3>1, <3>3
    <3>5. QED
      BY <3>4, KeptJobs
  <2>4. QED
    BY <1>8, <2>1, <2>2, <2>3 DEF Complete
<1>9. ASSUME NEW f \in fires, SetSeq(f) PROVE Kept
  <2>1. CASE Current(f) /\ jobs' = [jobs EXCEPT ![f.id].seq = TRUE]
    <3>1. \A e \in fires : Current(e) => jobs'[e.id].epoch = jobs[e.id].epoch
      BY <1>1, <2>1 DEF Jobs
    <3>2. QED
      BY <3>1, KeptJobs
  <2>2. QED
    BY <1>2, <1>9, <2>1 DEF SetSeq
<1>10. CASE Restart
  BY <1>10 DEF Restart, Kept
<1>11. ASSUME NEW c \in Callers, Command(c) PROVE Kept
  <2>1. autoSeq \in Nat /\ autoSeq + 1 \in Nat /\ MaxAuto \in Nat
    BY SchedulerAssumption DEF SchedInv, TypeOK
  <2>2. ASSUME NEW s \in Specs, RegisterAuto(c, s) PROVE Kept
    <3>1. autoSeq + 1 \in Ids
      BY <2>1, <2>2 DEF RegisterAuto, Ids, Autos
    <3>2. QED
      BY <1>3, <2>2, <3>1 DEF RegisterAuto
  <2>3. ASSUME NEW s \in Specs, NEW i \in Ids, Register(c, i, s) PROVE Kept
    BY <1>3, <2>3 DEF Register
  <2>4. QED
    BY <1>2, <1>4, <1>5, <1>11, <2>2, <2>3 DEF Command, Save, CancelForget, CancelRemove, memVars
<1>12. ASSUME NEW f \in fires, Fire(f) PROVE Kept
  <2>1. ASSUME NEW ok \in BOOLEAN, Answered(f, ok) \/ Exited(f, ok) PROVE Kept
    BY <1>8, <2>1 DEF Answered, Exited, Live
  <2>2. CASE OpenFails(f) \/ Cut(f)
    BY <1>8, <2>2 DEF OpenFails, Cut, Live
  <2>3. CASE Opened(f) \/ Forget(f)
    BY <1>2, <2>3 DEF Opened, Forget, memVars
  <2>4. QED
    BY <1>9, <1>12, <2>1, <2>2, <2>3 DEF Fire
<1>13. CASE CancelByOwner \/ Poke
  BY <1>5, <1>6, <1>13 DEF CancelByOwner, Poke
<1>14. CASE Park \/ WaitOver \/ Tick \/ UNCHANGED vars
  BY <1>2, <1>14 DEF Park, WaitOver, Tick, vars, memVars
<1>15. QED
  BY <1>7, <1>10, <1>11, <1>12, <1>13, <1>14 DEF Next, Loop

\* A fire loses its job only to a cancellation (register: a job that runs is not replaced).
THEOREM OrphansAreCancelled == Spec => OrphanIsCancelled
<1>1. SchedInv /\ [Next]_vars => [Kept]_vars
  BY StepsKeep
<1>2. [][Kept]_vars => OrphanIsCancelled
  BY PTL DEF OrphanIsCancelled, Kept
<1>3. QED
  BY <1>1, <1>2, SchedStarts, SchedSteps, PTL DEF Spec

\* Whose record is being written, or removed: the store has every job that must survive,
\* or is about to, or did not take it; and what commands and fires are about to do to a
\* record fits the job as it is, if its last registration met nobody else's.
StoreIsCurrent ==
  /\ \A i \in Ids \ raced : Exists(i) /\ Persistent(jobs[i].spec) =>
        \/ disk[i] = jobs[i].spec \/ i \in unsaved
        \/ \E c \in Callers : caller[c] # Idle /\ caller[c].op = "save" /\ caller[c].id = i
  /\ \A c \in Callers : caller[c] # Idle /\ caller[c].id \notin raced =>
        /\ caller[c].op = "save" /\ Exists(caller[c].id)
             => jobs[caller[c].id].spec = caller[c].spec
        /\ caller[c].op = "forget" => ~Exists(caller[c].id)
  /\ \A f \in fires : f.step = "forget" /\ f.id \notin raced => ~Exists(f.id)

\* A step that starts no job, writes nothing and gives no caller anything.
LEMMA StoreStays ==
  ASSUME SchedInv, StoreIsCurrent, UNCHANGED <<caller, disk, raced, unsaved>>,
         \A i \in Ids : Exists(i)' => Exists(i) /\ jobs'[i].spec = jobs[i].spec,
         \A g \in fires' : g.step = "forget" =>
            /\ g.id \in Ids
            /\ ~Exists(g.id)' \/ \E f \in fires : f.step = "forget" /\ f.id = g.id
  PROVE  StoreIsCurrent'
<1>1. \A c \in Callers : caller[c] # Idle => caller[c].id \in Ids
  BY DEF SchedInv, TypeOK, Work
<1>2. QED
  BY <1>1 DEF StoreIsCurrent, Persistent

LEMMA StoreSteps == SchedInv /\ StoreIsCurrent /\ [Next]_vars => StoreIsCurrent'
<1> SUFFICES ASSUME SchedInv, StoreIsCurrent, [Next]_vars PROVE StoreIsCurrent'
  OBVIOUS
<1>1. /\ jobs \in [Ids -> Jobs \cup {NoJob}] /\ NoJob \notin Jobs /\ fires \subseteq FireType
      /\ \A i \in Ids : Exists(i) => jobs[i] \in Jobs
      /\ disk \in [Ids -> Specs \cup {NoSpec}] /\ Idle \notin Work
      /\ caller \in [Callers -> Work \cup {Idle}]
      /\ \A c \in Callers : caller[c] # Idle => caller[c].id \in Ids
  BY SchedulerAssumption DEF SchedInv, TypeOK, Exists, FireType, Work
<1>2. ASSUME fires' \subseteq fires, UNCHANGED <<caller, disk, raced, unsaved>>,
             \A i \in Ids : Exists(i)' => Exists(i) /\ jobs'[i].spec = jobs[i].spec
      PROVE  StoreIsCurrent'
  BY <1>1, <1>2, StoreStays DEF FireType
<1>3. ASSUME jobs' = jobs, UNCHANGED <<caller, disk, raced, unsaved>>, fires' \subseteq fires
      PROVE  StoreIsCurrent'
  BY <1>2, <1>3 DEF Exists
<1>4. ASSUME NEW c \in Callers, NEW i \in Ids, NEW s \in Specs, Enter(c, i, s)
      PROVE  StoreIsCurrent'
  <2> DEFINE w == [op |-> "save", id |-> i, spec |-> s]
  <2>1. /\ caller[c] = Idle /\ caller' = [caller EXCEPT ![c] = w] /\ w \in Work
        /\ UNCHANGED <<fires, disk, unsaved>> /\ nextEpoch' \in Nat
        /\ raced' = IF Unsettled(i) THEN raced \cup {i} ELSE raced \ {i}
    BY <1>1, <1>4 DEF Enter, Work, Put, SchedInv, TypeOK
  <2>2. /\ caller'[c] = w /\ caller'[c] # Idle
        /\ \A d \in Callers : d # c => caller'[d] = caller[d]
    BY <1>1, <2>1
  <2>3. /\ jobs'[i].spec = s /\ \A k \in Ids : k # i => jobs'[k] = jobs[k]
    <3>1. CASE Running(i) /\ jobs' = [jobs EXCEPT ![i].spec = s]
      <4>1. jobs[i] \in Jobs
        BY <1>1, <3>1 DEF Running
      <4>2. QED
        BY <1>1, <3>1, <4>1 DEF Jobs
    <3>2. CASE jobs' = [jobs EXCEPT ![i] = NewJob(s, nextEpoch')]
      <4>1. NewJob(s, nextEpoch').spec = s
        BY <2>1, NewJobFacts DEF SchedInv
      <4>2. QED
        BY <1>1, <3>2, <4>1
    <3>3. QED
      BY <1>4, <3>1, <3>2 DEF Enter, Put
  <2>4. \A k \in Ids : k # i => (Exists(k)' <=> Exists(k))
    BY <2>3 DEF Exists
  <2>5. w.op = "save" /\ w.id = i /\ w.spec = s
    OBVIOUS
  <2> HIDE DEF w
  <2>6. /\ \A k \in Ids : k # i => (k \in raced' <=> k \in raced)
        /\ i \notin raced' => ~Unsettled(i)
    BY <2>1
  <2>7. \A k \in Ids \ raced' : Exists(k)' /\ Persistent(jobs'[k].spec) =>
          \/ disk'[k] = jobs'[k].spec \/ k \in unsaved'
          \/ \E d \in Callers : caller'[d] # Idle /\ caller'[d].op = "save" /\ caller'[d].id = k
    <3> SUFFICES ASSUME NEW k \in Ids, k \notin raced', Exists(k)', Persistent(jobs'[k].spec),
                        k # i, disk'[k] # jobs'[k].spec, k \notin unsaved'
                 PROVE  \E d \in Callers : /\ caller'[d] # Idle /\ caller'[d].op = "save"
                                           /\ caller'[d].id = k
      BY <2>2, <2>5
    <3>1. k \notin raced /\ Exists(k) /\ jobs'[k] = jobs[k]
      BY <2>3, <2>4, <2>6
    <3>2. PICK d \in Callers : caller[d] # Idle /\ caller[d].op = "save" /\ caller[d].id = k
      BY <2>1, <3>1 DEF StoreIsCurrent
    <3>3. caller'[d] = caller[d]
      BY <2>1, <2>2, <3>2
    <3>4. QED
      BY <3>2, <3>3
  <2>8. \A f \in fires' : f.step = "forget" /\ f.id \notin raced' => ~Exists(f.id)'
    BY <1>1, <2>1, <2>4, <2>6 DEF StoreIsCurrent, Unsettled, FireType
  <2>9. \A d \in Callers : caller'[d] # Idle /\ caller'[d].id \notin raced' =>
          /\ caller'[d].op = "save" /\ Exists(caller[d].id)'
               => jobs'[caller'[d].id].spec = caller'[d].spec
          /\ caller'[d].op = "forget" => ~Exists(caller[d].id)'
    <3> SUFFICES ASSUME NEW d \in Callers, d # c, caller[d] # Idle, caller[d].id \notin raced'
                 PROVE  /\ caller[d].op = "save" /\ Exists(caller[d].id)'
                             => jobs'[caller[d].id].spec = caller[d].spec
                        /\ caller[d].op = "forget" => ~Exists(caller[d].id)'
      BY <2>2, <2>3, <2>5
    <3>1. caller[d].id \in Ids /\ caller[d].id # i
      BY <1>1, <2>6 DEF Unsettled
    <3>2. /\ caller[d].id \notin raced /\ jobs'[caller[d].id] = jobs[caller[d].id]
          /\ Exists(caller[d].id)' <=> Exists(caller[d].id)
      BY <2>2, <2>3, <2>4, <2>6, <3>1
    <3>3. QED
      BY <3>2 DEF StoreIsCurrent
  <2>10. QED
    BY <2>7, <2>8, <2>9 DEF StoreIsCurrent
<1>5. ASSUME NEW c \in Callers, Save(c) PROVE StoreIsCurrent'
  <2> DEFINE w == caller[c]
  <2>1. /\ w # Idle /\ w.op = "save" /\ w.id \in Ids
        /\ caller' = [caller EXCEPT ![c] = Idle] /\ UNCHANGED <<jobs, fires, raced>>
        /\ \/ Persistent(w.spec) /\ disk' = [disk EXCEPT ![w.id] = w.spec]
              /\ unsaved' = unsaved \ {w.id}
           \/ Persistent(w.spec) /\ disk' = disk /\ unsaved' = unsaved \cup {w.id}
           \/ ~Persistent(w.spec) /\ disk' = disk /\ unsaved' = unsaved
    BY <1>1, <1>5 DEF Save, memVars
  <2>2. w.id \notin raced /\ Exists(w.id) => jobs[w.id].spec = w.spec
    BY <2>1 DEF StoreIsCurrent
  <2>3. \A d \in Callers : caller'[d] # Idle => d # c /\ caller'[d] = caller[d]
    BY <1>1, <2>1
  <2> HIDE DEF w
  <2>4. \A i \in Ids \ raced : Exists(i) /\ Persistent(jobs[i].spec) =>
           \/ disk'[i] = jobs[i].spec \/ i \in unsaved'
           \/ \E d \in Callers : caller'[d] # Idle /\ caller'[d].op = "save" /\ caller'[d].id = i
    <3> SUFFICES ASSUME NEW i \in Ids, i \notin raced, Exists(i), Persistent(jobs[i].spec),
                        disk'[i] # jobs[i].spec, i \notin unsaved'
                 PROVE  \E d \in Callers : /\ caller'[d] # Idle /\ caller'[d].op = "save"
                                           /\ caller'[d].id = i
      OBVIOUS
    <3>1. i # w.id
      BY <1>1, <2>1, <2>2
    <3>2. disk'[i] = disk[i] /\ (i \in unsaved' <=> i \in unsaved)
      BY <1>1, <2>1, <3>1
    <3>3. PICK d \in Callers : caller[d] # Idle /\ caller[d].op = "save" /\ caller[d].id = i
      BY <3>2 DEF StoreIsCurrent
    <3>4. caller'[d] = caller[d]
      BY <1>1, <2>1, <3>1, <3>3 DEF w
    <3>5. QED
      BY <3>3, <3>4
  <2>5. QED
    BY <2>1, <2>3, <2>4 DEF StoreIsCurrent, Exists
<1>6. ASSUME NEW c \in Callers, CancelForget(c) PROVE StoreIsCurrent'
  <2> DEFINE w == caller[c]
  <2>1. /\ w # Idle /\ w.op = "forget" /\ w.id \in Ids
        /\ caller' = [caller EXCEPT ![c] = Idle] /\ UNCHANGED <<jobs, fires, raced, unsaved>>
        /\ disk' = disk \/ disk' = [disk EXCEPT ![w.id] = NoSpec]
    BY <1>1, <1>6 DEF CancelForget, Erase, memVars, bootVars
  <2>2. w.id \in raced \/ ~Exists(w.id)
    BY <2>1 DEF StoreIsCurrent
  <2>3. \A d \in Callers : /\ caller'[d] # Idle => d # c /\ caller'[d] = caller[d]
                           /\ caller[d] # Idle /\ caller[d].op = "save" => caller'[d] = caller[d]
    <3>1. c # c \/ caller[c].op # "save"
      BY <2>1
    <3>2. QED
      BY <1>1, <2>1, <3>1
  <2> HIDE DEF w
  <2>4. \A i \in Ids \ raced : Exists(i) => disk'[i] = disk[i]
    BY <1>1, <2>1, <2>2
  <2>5. QED
    BY <2>1, <2>3, <2>4 DEF StoreIsCurrent, Exists
<1>7. ASSUME NEW c \in Callers, NEW i \in Ids, CancelTake(c, i) PROVE StoreIsCurrent'
  <2> DEFINE w == [op |-> "remove", id |-> i]
  <2>1. /\ caller[c] = Idle /\ caller' = [caller EXCEPT ![c] = w] /\ w.op = "remove"
        /\ UNCHANGED <<disk, raced, unsaved>>
    BY <1>1, <1>7 DEF CancelTake, bootVars
  <2>2. \A k \in Ids : (Exists(k)' <=> Exists(k)) /\ (Exists(k) => jobs'[k].spec = jobs[k].spec)
    <3>1. CASE Exists(i) /\ jobs' = [jobs EXCEPT ![i].seq = FALSE]
      <4>1. /\ jobs[i] \in Jobs /\ jobs'[i] \in Jobs /\ jobs'[i].spec = jobs[i].spec
            /\ \A k \in Ids : k # i => jobs'[k] = jobs[k]
        BY <1>1, <3>1 DEF Jobs
      <4>2. QED
        BY <1>1, <3>1, <4>1 DEF Exists
    <3>2. QED
      BY <1>7, <3>1 DEF CancelTake, Exists
  <2>3. \A g \in fires' : g.step = "forget" => \E f \in fires : f.step = "forget" /\ f.id = g.id
    <3>1. CASE fires' = {IF Current(f) /\ f.id = i /\ f.step = "waiting"
                         THEN [f EXCEPT !.step = "cut"] ELSE f : f \in fires}
      <4>1. \A f \in fires : [f EXCEPT !.step = "cut"].step # "forget"
        BY <1>1 DEF FireType
      <4>2. QED
        BY <3>1, <4>1
    <3>2. QED
      BY <1>7, <3>1 DEF CancelTake
  <2> HIDE DEF w
  <2>4. /\ \A d \in Callers : caller[d] # Idle => caller'[d] = caller[d]
        /\ \A d \in Callers : /\ caller'[d] # Idle
                               /\ caller'[d].op \in {"save", "forget"}
                                => caller[d] = caller'[d]
    BY <1>1, <2>1
  <2>5. \A k \in Ids \ raced' : Exists(k)' /\ Persistent(jobs'[k].spec) =>
           \/ disk'[k] = jobs'[k].spec \/ k \in unsaved'
           \/ \E d \in Callers : caller'[d] # Idle /\ caller'[d].op = "save" /\ caller'[d].id = k
    BY <2>1, <2>2, <2>4 DEF StoreIsCurrent
  <2>6. \A g \in fires' : g.step = "forget" /\ g.id \notin raced' => ~Exists(g.id)'
    BY <1>1, <2>1, <2>2, <2>3 DEF StoreIsCurrent, FireType
  <2>7. \A d \in Callers : caller'[d] # Idle /\ caller'[d].id \notin raced' =>
          /\ caller'[d].op = "save" /\ Exists(caller[d].id)'
               => jobs'[caller'[d].id].spec = caller'[d].spec
          /\ caller'[d].op = "forget" => ~Exists(caller[d].id)'
    BY <1>1, <2>1, <2>2, <2>4 DEF StoreIsCurrent
  <2>8. QED
    BY <2>4, <2>5, <2>6, <2>7 DEF StoreIsCurrent
<1>8. ASSUME NEW c \in Callers, CancelRemove(c) PROVE StoreIsCurrent'
  <2> DEFINE w == [op |-> "forget", id |-> caller[c].id]
  <2>1. /\ caller[c] # Idle /\ caller[c].op = "remove" /\ caller[c].id \in Ids
        /\ caller' = [caller EXCEPT ![c] = w] /\ w.op = "forget" /\ w.id = caller[c].id
        /\ UNCHANGED <<disk, raced, unsaved, fires>>
        /\ Drop({caller[c].id})
    BY <1>1, <1>8 DEF CancelRemove, bootVars
  <2> HIDE DEF w
  <2>2. /\ jobs'[w.id] = NoJob /\ \A k \in Ids : Exists(k)' => Exists(k) /\ jobs'[k] = jobs[k]
    <3>1. \A k \in Ids : jobs'[k] = IF k = w.id THEN NoJob ELSE jobs[k]
      BY <2>1 DEF Drop
    <3>2. w.id \in Ids
      BY <2>1
    <3>3. QED
      BY <3>1, <3>2 DEF Exists
  <2>3. \A d \in Callers : /\ caller[d].op = "save" => caller'[d] = caller[d]
                           /\ caller'[d] # caller[d] => caller'[d] = w
    <3>1. caller[c].op # "save"
      BY <2>1
    <3>2. QED
      BY <1>1, <2>1, <3>1
  <2>4. \A k \in Ids \ raced' : Exists(k)' /\ Persistent(jobs'[k].spec) =>
           \/ disk'[k] = jobs'[k].spec \/ k \in unsaved'
           \/ \E d \in Callers : caller'[d] # Idle /\ caller'[d].op = "save" /\ caller'[d].id = k
    BY <2>1, <2>2, <2>3 DEF StoreIsCurrent
  <2>5. \A f \in fires' : f.step = "forget" /\ f.id \notin raced' => ~Exists(f.id)'
    BY <1>1, <2>1, <2>2 DEF StoreIsCurrent, FireType
  <2>6. \A d \in Callers : caller'[d] # Idle /\ caller'[d].id \notin raced' =>
          /\ caller'[d].op = "save" /\ Exists(caller[d].id)'
               => jobs'[caller'[d].id].spec = caller'[d].spec
          /\ caller'[d].op = "forget" => ~Exists(caller[d].id)'
    <3> SUFFICES ASSUME NEW d \in Callers, caller'[d] # Idle, caller'[d].id \notin raced'
                 PROVE  /\ caller'[d].op = "save" /\ Exists(caller[d].id)'
                             => jobs'[caller'[d].id].spec = caller'[d].spec
                        /\ caller'[d].op = "forget" => ~Exists(caller[d].id)'
      OBVIOUS
    <3>1. CASE caller'[d] = w
      BY <2>1, <2>2, <3>1 DEF Exists
    <3>2. CASE caller'[d] = caller[d]
      BY <1>1, <2>1, <2>2, <3>2 DEF StoreIsCurrent
    <3>3. QED
      BY <2>3, <3>1, <3>2
  <2>7. QED
    BY <2>4, <2>5, <2>6 DEF StoreIsCurrent
<1>9. ASSUME NEW ss, Drop(ss), UNCHANGED <<caller, disk, raced, unsaved, fires>> PROVE StoreIsCurrent'
  <2>1. \A k \in Ids : Exists(k)' => Exists(k) /\ jobs'[k].spec = jobs[k].spec
    BY <1>9 DEF Drop, Exists
  <2>2. QED
    BY <1>2, <1>9, <2>1
<1>10. ASSUME NEW ss, PokeJobs(ss), \A i \in ss : Exists(i) PROVE StoreIsCurrent'
  <2>1. \A k \in Ids : Exists(k)' => Exists(k) /\ jobs'[k].spec = jobs[k].spec
    BY <1>1, <1>10 DEF PokeJobs, Exists, Jobs
  <2>2. UNCHANGED <<caller, disk, raced, unsaved, fires>>
    BY <1>10 DEF PokeJobs, bootVars
  <2>3. QED
    BY <1>2, <2>1, <2>2
<1>11. CASE Claim
  <2>1. \A k \in Ids : Exists(k)' => Exists(k) /\ jobs'[k].spec = jobs[k].spec
    BY <1>1, <1>11 DEF Claim, Due, Exists, Jobs
  <2>2. UNCHANGED <<caller, disk, raced, unsaved>>
    BY <1>11 DEF Claim, bootVars
  <2>3. \A g \in fires' : g.step = "forget" => g \in fires
    <3>1. \A i \in Ids : [id |-> i, epoch |-> jobs[i].epoch,
                         step |-> IF jobs[i].spec.lease THEN "open" ELSE "request"].step # "forget"
      OBVIOUS
    <3>2. \A g \in fires' : g \in fires \/ \E i \in Ids :
             g = [id |-> i, epoch |-> jobs[i].epoch,
                  step |-> IF jobs[i].spec.lease THEN "open" ELSE "request"]
      BY <1>11 DEF Claim
    <3>3. QED
      BY <3>1, <3>2
  <2>4. QED
    BY <1>1, <2>1, <2>2, <2>3, StoreStays DEF FireType
<1>12. ASSUME NEW f \in Live, NEW ok \in BOOLEAN, Complete(f, ok) PROVE StoreIsCurrent'
  <2>1. f \in fires /\ f \in FireType /\ f.id \in Ids /\ UNCHANGED <<caller, disk, raced, unsaved>>
    BY <1>1, <1>12 DEF Live, FireType, Complete, bootVars
  <2>2. CASE UNCHANGED jobs /\ fires' = fires \ {f}
    BY <1>3, <2>1, <2>2
  <2>3. CASE /\ Current(f) /\ jobs' = [jobs EXCEPT ![f.id] = After(jobs[f.id], ok)]
             /\ fires' = fires \ {f}
    <3>1. /\ jobs[f.id] \in Jobs /\ Exists(f.id) /\ jobs[f.id].lastDue <= now
          /\ \E s \in Specs : jobs[f.id].attempt <= s.retries
      BY <1>1, <2>1, <2>3 DEF SchedInv, TypeOK, Current, DuesArePast
    <3>2. After(jobs[f.id], ok).spec = jobs[f.id].spec
      BY <3>1, AfterFacts DEF SchedInv
    <3>3. \A k \in Ids : Exists(k)' => Exists(k) /\ jobs'[k].spec = jobs[k].spec
      BY <1>1, <2>1, <2>3, <3>1, <3>2 DEF Exists
    <3>4. QED
      BY <1>2, <2>1, <2>3, <3>3
  <2>4. CASE /\ jobs' = [jobs EXCEPT ![f.id] = NoJob]
             /\ fires' = (fires \ {f}) \cup {[f EXCEPT !.step = "forget"]}
    <3>1. [f EXCEPT !.step = "forget"].id = f.id
      BY <2>1 DEF FireType
    <3>2. \A k \in Ids : Exists(k)' => Exists(k) /\ jobs'[k] = jobs[k]
      BY <1>1, <2>1, <2>4 DEF Exists
    <3>3. ~Exists(f.id)'
      BY <1>1, <2>1, <2>4 DEF Exists
    <3>4. \A g \in fires' : g.step = "forget" =>
            /\ g.id \in Ids
            /\ ~Exists(g.id)' \/ \E e \in fires : e.step = "forget" /\ e.id = g.id
      BY <1>1, <2>1, <2>4, <3>1, <3>3 DEF FireType
    <3>5. QED
      BY <2>1, <3>2, <3>4, StoreStays
  <2>5. QED
    BY <1>12, <2>2, <2>3, <2>4 DEF Complete
<1>13. ASSUME NEW f \in fires, Opened(f) \/ SetSeq(f) PROVE StoreIsCurrent'
  <2>1. /\ UNCHANGED <<caller, disk, raced, unsaved>> /\ f \in FireType /\ f.id \in Ids
        /\ \A g \in fires' : g.step = "forget" => g \in fires
    BY <1>1, <1>13 DEF Opened, SetSeq, bootVars, FireType
  <2>2. \A k \in Ids : Exists(k)' => Exists(k) /\ jobs'[k].spec = jobs[k].spec
    <3>1. CASE jobs' = jobs
      BY <3>1 DEF Exists
    <3>2. CASE Current(f) /\ jobs' = [jobs EXCEPT ![f.id].seq = TRUE]
      BY <1>1, <2>1, <3>2 DEF Current, Exists, Jobs
    <3>3. QED
      BY <1>13, <3>1, <3>2 DEF Opened, SetSeq, memVars
  <2>3. QED
    BY <1>1, <2>1, <2>2, StoreStays DEF FireType
<1>14. ASSUME NEW f \in fires, Forget(f) PROVE StoreIsCurrent'
  <2>1. /\ UNCHANGED <<jobs, caller, raced, unsaved>> /\ fires' = fires \ {f}
        /\ f.step = "forget" /\ (disk' = disk \/ disk' = [disk EXCEPT ![f.id] = NoSpec])
    BY <1>14 DEF Forget, Erase, memVars, bootVars
  <2>2. \A i \in Ids \ raced : Exists(i) => disk'[i] = disk[i]
    BY <1>1, <2>1 DEF StoreIsCurrent
  <2>3. QED
    BY <2>1, <2>2 DEF StoreIsCurrent, Exists
<1>15. CASE Restart
  <2>1. /\ fires' = {} /\ disk' = disk /\ raced' = {}
        /\ \A c \in Callers : caller'[c] = Idle
    BY <1>15 DEF Restart
  <2>2. \A i \in Ids : Exists(i)' => jobs'[i].spec = disk[i]
    <3>1. PICK e : jobs' = [i \in Ids |-> IF i \in Saved THEN NewJob(disk[i], e[i]) ELSE NoJob]
      BY <1>15 DEF Restart
    <3>2. QED
      BY <3>1 DEF Exists, NewJob
  <2>3. QED
    BY <2>1, <2>2 DEF StoreIsCurrent
<1>16. ASSUME NEW c \in Callers, Command(c) PROVE StoreIsCurrent'
  <2>1. autoSeq \in Nat /\ autoSeq + 1 \in Nat /\ MaxAuto \in Nat
    BY SchedulerAssumption DEF SchedInv, TypeOK
  <2>2. ASSUME NEW s \in Specs, RegisterAuto(c, s) PROVE StoreIsCurrent'
    <3>1. autoSeq + 1 \in Ids
      BY <2>1, <2>2 DEF RegisterAuto, Ids, Autos
    <3>2. QED
      BY <1>4, <2>2, <3>1 DEF RegisterAuto
  <2>3. ASSUME NEW s \in Specs, NEW i \in Ids, Register(c, i, s) PROVE StoreIsCurrent'
    BY <1>4, <2>3 DEF Register
  <2>4. QED
    BY <1>5, <1>6, <1>7, <1>8, <1>16, <2>2, <2>3 DEF Command
<1>17. ASSUME NEW f \in fires, Fire(f) PROVE StoreIsCurrent'
  <2>1. ASSUME NEW ok \in BOOLEAN, Answered(f, ok) \/ Exited(f, ok) PROVE StoreIsCurrent'
    BY <1>12, <2>1 DEF Answered, Exited, Live
  <2>2. CASE OpenFails(f) \/ Cut(f)
    BY <1>12, <2>2 DEF OpenFails, Cut, Live
  <2>3. QED
    BY <1>13, <1>14, <1>17, <2>1, <2>2 DEF Fire
<1>18. CASE CancelByOwner
  BY <1>9, <1>18 DEF CancelByOwner, bootVars
<1>19. CASE Poke
  BY <1>10, <1>19 DEF Poke, Reconciles
<1>20. CASE Park \/ WaitOver \/ Tick \/ UNCHANGED vars
  BY <1>3, <1>20 DEF Park, WaitOver, Tick, vars, memVars, bootVars
<1>21. QED
  BY <1>11, <1>15, <1>16, <1>17, <1>18, <1>19, <1>20 DEF Next, Loop

\* A job whose commands were answered is stored as it was last registered, whatever other
\* commands and fires do to other ids, unless the store did not take the record or its last
\* registration met another command, or the end of a fire, on the same id
\* (schedule_register, schedule_cancel, persist_save, persist_delete).
THEOREM AcknowledgedIsStored == Spec => []AckIsDurable
<1>1. SchedInv /\ StoreIsCurrent => AckIsDurable
  BY DEF StoreIsCurrent, AckIsDurable
<1>2. Init => StoreIsCurrent
  BY DEF Init, StoreIsCurrent, Exists
<1>3. SchedInv /\ StoreIsCurrent /\ [Next]_vars => StoreIsCurrent'
  BY StoreSteps
<1>4. QED
  BY <1>1, <1>2, <1>3, SchedStarts, SchedSteps, PTL DEF Spec
=============================================================================
