----------------------------- MODULE MCScheduler -----------------------------
(* Instances of Scheduler for TLC. *)
EXTENDS Scheduler

CONSTANTS c1, c2

NoName     == {}
TwoCallers == {c1, c2}

Job(kind, time, lease, retries, core) ==
  [kind |-> kind, time |-> time, lease |-> lease, retries |-> retries, core |-> core]

\* A core job of one fire with a retry, a plugin's recurring job that holds a
\* process, a plugin's reconcile job, and a core cron job that finds its slot at time
\* 2 from time 1 but not from time 0.
FourSpecs == {Job("at", 1, FALSE, 1, TRUE), Job("every", 1, TRUE, 0, FALSE),
              Job("reconcile", 1, FALSE, 0, FALSE), Job("cron", 2, FALSE, 0, TRUE)}
==============================================================================
