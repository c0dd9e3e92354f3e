--------------------------- MODULE PhoneWorkflows ---------------------------
(***************************************************************************)
(* The gateway's durable phone requests (phone_workflows.py) with the       *)
(* native cron jobs and scripts that execute them and the daemon that       *)
(* places their calls.                                                      *)
(*                                                                          *)
(* The gateway is an event loop (the scripts' requests, the coroutine       *)
(* run() of each attempt, the recovery loop) and threads: the owner's       *)
(* tools, the agent that decides about an attempt, and the voice session    *)
(* that asks for a callback.  They share the SQLite store, whose every      *)
(* transaction is one step here; between two transactions the others move.  *)
(* A change of native jobs runs in several steps under the firing fences of *)
(* those jobs: a fenced job does not start.                                 *)
(*                                                                          *)
(* Time: run_at is one of a few moments, a job may fire at any step once    *)
(* armed, and the deadline, which is common to the chain, passes at some    *)
(* step.  Root is the owner's request; the other keys are callbacks that    *)
(* recipients asked for, and form its chain.  The attempt n of request k is *)
(* <<k, n>>, and so is the native execution that fires it.                  *)
(***************************************************************************)
EXTENDS Naturals, FiniteSets, Functions

CONSTANTS
  Keys, Root,   \* requests of one chain
  Tries,        \* bound: attempts of each request
  Delays,       \* retry_delays_minutes: automatic retries of the chain
  Scenarios     \* what a behaviour may contain: see Scenario

\* reminder: kind is "reminder"; notify: a linked gateway reminder at the due
\* time (notify_at_due); quiet: delivery mode "call", nothing is sent.
Plan == [reminder : BOOLEAN, notify : BOOLEAN, quiet : BOOLEAN]

\* The bounds of a behaviour: the kinds of request the owner schedules, the
\* values of run_at, whether the deadline passes, the attempts whose recipient may
\* ask for a callback, what attempts may come to, and how many retries,
\* cancellations, moves (and repeated schedulings), faults and crashes are left.
Counters == {"retries", "cancels", "moves", "faults", "crashes"}
Outcomes == {"talked", "missed", "unknown", "failed"}
Scenario == [plans : SUBSET Plan, moments : SUBSET (Nat \ {0}), expires : BOOLEAN,
             asks : SUBSET (Keys \X Nat), outcomes : SUBSET Outcomes,
             retries : Nat, cancels : Nat, moves : Nat, faults : Nat, crashes : Nat]

Attempts == UNION {{k} \X (1..Tries[k]) : k \in Keys}
Threads == {"owner", "agent", "voice", "loop"}

ASSUME RootAssumption == Root \in Keys
ASSUME TriesAssumption == Tries \in [Keys -> Nat \ {0}] /\ Delays \in Nat
ASSUME ScenarioAssumption == \A b \in Scenarios :
  /\ DOMAIN b = {"plans", "moments", "expires", "asks", "outcomes"} \cup Counters
  /\ b.plans \subseteq Plan /\ b.moments \subseteq Nat \ {0} /\ b.expires \in BOOLEAN
  /\ b.outcomes \subseteq Outcomes /\ \A counter \in Counters : b[counter] \in Nat

VARIABLES
  row,      \* the table phone_workflows
  att,      \* the attempts in its rows
  jobs,     \* the profile's native cron jobs and their scripts
  thread,   \* what each thread is in the middle of
  worker,   \* the coroutine run() of each attempt
  daemon,   \* the daemon's request for an attempt
  line, told, \* the attempt's call and outcome: AttemptReceipts
  late,     \* the deadline has passed
  bound     \* the scenario, with what is left of it

vars == <<row, att, jobs, thread, worker, daemon, line, told, late, bound>>

Receipts == INSTANCE AttemptReceipts

NoMoment == 0
NoKey == "nobody"
FINAL == {"completed", "declined", "cancelled", "expired", "exhausted"}
Statuses == FINAL \cup {"absent", "holding", "scheduled", "firing", "uncertain", "needs_guidance"}

\* Native jobs by the marker in their script's name: the call of an attempt,
\* the linked reminder of a request, the report of an attempt.
CallJob(k, n) == <<"call", k, n>>
ReminderJob(k) == <<"reminder", k, 0>>
ReportJob(k, n) == <<"report", k, n>>
Jobs == {CallJob(a[1], a[2]) : a \in Attempts} \cup {ReportJob(a[1], a[2]) : a \in Attempts}
          \cup {ReminderJob(k) : k \in Keys}

\* running: fired, its script has not reached the gateway; polling: its
\* script waits for the report; ended: last_run_at is set.
JobStates == {"absent", "paused", "scheduled", "running", "polling", "ended"}
Firing == {"running", "polling"}

\* change, pending, components: schedule_change, the last move: the time asked
\* for, whether it is still pending, and the jobs it moves.
NoRow == [status |-> "absent", plan |-> [reminder |-> FALSE, notify |-> FALSE, quiet |-> FALSE], run_at |-> NoMoment,
          revision |-> 0, attempts |-> 0, job |-> 0, notification |-> NoMoment,
          notified |-> FALSE, used |-> 0, auto |-> FALSE, change |-> NoMoment,
          pending |-> FALSE, components |-> {}]
NoAttempt == [status |-> "none", outcome |-> "none", decision |-> "none", run |-> "none",
              revision |-> 0, child |-> NoKey, report |-> "none", claimed |-> FALSE,
              report_job |-> FALSE]
\* n: the attempt concerned; queue: the requests still to reconcile or to revoke.
Idle == [pc |-> "idle", key |-> NoKey, n |-> 0, todo |-> {}, fence |-> {},
         target |-> NoMoment, revision |-> 0, queue |-> {}]

Init ==
  /\ row = [k \in Keys |-> NoRow]
  /\ att = [a \in Attempts |-> NoAttempt]
  /\ jobs = [j \in Jobs |-> [state |-> "absent", at |-> NoMoment]]
  /\ thread = [t \in Threads |-> Idle]
  /\ worker = [a \in Attempts |-> "none"]
  /\ daemon = [a \in Attempts |-> "idle"]
  /\ Receipts!ReceiptsInit
  /\ late = FALSE
  /\ bound \in Scenarios

TypeOK ==
  /\ \A k \in Keys : /\ row[k].status \in Statuses
                     /\ row[k].run_at \in bound.moments \cup {NoMoment}
                     /\ row[k].attempts \in 0..Tries[k] /\ row[k].job \in 0..Tries[k]
                     /\ row[k].used \in 0..Delays
                     /\ row[k].components \subseteq Jobs
  /\ \A a \in Attempts : /\ att[a].status \in {"none", "admitted", "observing", "deciding", "decided"}
                         /\ att[a].decision \in {"none", "retry", "close", "ask_owner"}
                         /\ att[a].report \in {"none", "empty", "text"}
                         /\ att[a].child \in Keys \cup {NoKey}
  /\ \A j \in Jobs : jobs[j].state \in JobStates
  /\ Receipts!ReceiptsTypeOK

----------------------------------------------------------------------------
(* The store and the native jobs.                                           *)
\* authorize(): the deadline and the status of the request.
Authorized(k) == row[k].status \notin FINAL \cup {"absent"} /\ ~late

\* _under_fire_fence: a firing job refuses, another holder is waited for.
Fenced(j) == \E t \in Threads : j \in thread[t].fence
Free(set) == \A j \in set : ~Fenced(j)
NoneFires(set) == \A j \in set : jobs[j].state \notin Firing

\* The loop serves requests and coroutines unless one of them is publishing or
\* about to write the report of what it concluded.
LoopFree == /\ thread["loop"].pc = "idle"
            /\ \A a \in Attempts : worker[a] \notin {"published", "concluded"}

Use(counter) == bound[counter] > 0 /\ bound' = [bound EXCEPT ![counter] = @ - 1]
Faulty == Use("faults")

\* A thread is through, or its change raised; a recovery takes the next one.
Resting(queue) == IF queue = {} THEN Idle ELSE [Idle EXCEPT !.pc = "reconcile", !.queue = queue]
Leave(t) == thread' = [thread EXCEPT ![t] = Resting(@.queue)]

\* The state of a row's execution that a change of its schedule concerns.
PendingComponents(k) ==
  {j \in {CallJob(k, row[k].job)} : row[k].job # 0}
  \cup {j \in {ReminderJob(k)} : /\ row[k].notification # NoMoment /\ ~row[k].notified
                                 /\ jobs[j].state # "ended"}

\* The rest of a request's attempts and calls.
phoneVars == <<worker, daemon, line, told, late>>

----------------------------------------------------------------------------
(* schedule() and _publish(): create, link, arm and verify, then schedule.  *)
\* publish() works with the row as its caller holds it: the attempt and the
\* time; the linked reminder comes with the first attempt only.
Publishing(k, saved) ==
  [Idle EXCEPT !.pc = "publish", !.key = k, !.n = saved.attempts + 1, !.target = saved.run_at,
               !.todo = {CallJob(k, saved.attempts + 1)}
                          \cup {j \in {ReminderJob(k)} : saved.plan.notify /\ saved.attempts = 0}]
PublishedJobs(t) == {CallJob(thread[t].key, thread[t].n)}
                  \cup {j \in {ReminderJob(thread[t].key)} :
                          row[thread[t].key].plan.notify /\ thread[t].n = 1}

\* create() and schedule() up to the held row; publish() follows.  The same
\* request asked for again publishes the row that is still held.
Schedule(plan, at) ==
  /\ thread["owner"].pc = "idle" /\ ~late
  /\ \/ /\ row[Root].status = "absent"
        /\ row' = [row EXCEPT ![Root] = [NoRow EXCEPT !.status = "holding", !.plan = plan, !.run_at = at]]
        /\ UNCHANGED bound
     \/ row[Root].status = "holding" /\ Use("moves") /\ UNCHANGED row
  /\ thread' = [thread EXCEPT !["owner"] = Publishing(Root, row'[Root])]
  /\ UNCHANGED <<att, jobs, phoneVars>>

\* The call's job, then the reminder, is created paused or found by its
\* marker, and linked if it has the time and did not run.  The answer of the
\* native store may be lost after the job was created.
PublishLink(t) ==
  LET k == thread[t].key
      j == IF CallJob(k, thread[t].n) \in thread[t].todo THEN CallJob(k, thread[t].n)
           ELSE ReminderJob(k)
      found == IF jobs[j].state = "absent" THEN [state |-> "paused", at |-> thread[t].target]
               ELSE jobs[j]
  IN /\ thread[t].pc = "publish" /\ thread[t].todo # {}
     /\ jobs' = [jobs EXCEPT ![j] = found]
     /\ \/ /\ found.at = thread[t].target /\ found.state # "ended"
           /\ row' = IF j = ReminderJob(k) THEN [row EXCEPT ![k].notification = found.at]
                     ELSE [row EXCEPT ![k].job = thread[t].n]
           /\ thread' = [thread EXCEPT ![t].todo = @ \ {j}]
           /\ UNCHANGED bound
        \/ /\ found.at # thread[t].target \/ found.state = "ended"
           /\ Leave(t) /\ UNCHANGED <<row, bound>>
        \/ Faulty /\ Leave(t) /\ UNCHANGED row
     /\ UNCHANGED <<att, phoneVars>>

\* Under the fences of all components: arm them, and look at them again.
PublishArm(t) ==
  LET set == PublishedJobs(t)
  IN /\ thread[t].pc = "publish" /\ thread[t].todo = {}
     /\ Free(set)
     /\ IF NoneFires(set)
          THEN /\ jobs' = [j \in Jobs |-> IF j \in set /\ jobs[j].state = "paused"
                                          THEN [jobs[j] EXCEPT !.state = "scheduled"] ELSE jobs[j]]
               /\ IF \A j \in set : jobs'[j] = [state |-> "scheduled", at |-> thread[t].target]
                    THEN thread' = [thread EXCEPT ![t].pc = "commit", ![t].fence = set]
                    ELSE Leave(t)
          ELSE Leave(t) /\ UNCHANGED jobs
     /\ UNCHANGED <<row, att, phoneVars, bound>>


\* Still held: scheduled.  Otherwise the request changed and stays as it is.
PublishCommit(t) ==
  LET k == thread[t].key
  IN /\ thread[t].pc = "commit"
     /\ row' = IF row[k].status = "holding" THEN [row EXCEPT ![k].status = "scheduled"] ELSE row
     /\ Leave(t)
     /\ UNCHANGED <<att, jobs, phoneVars, bound>>

----------------------------------------------------------------------------
(* reschedule(): the same three phases around the native moves.             *)
RescheduleBegin(t, k, at) ==
  /\ Authorized(k)
  /\ thread' = [thread EXCEPT ![t] = [Idle EXCEPT !.pc = "move", !.key = k, !.target = at,
                                        !.todo = PendingComponents(k), !.revision = row[k].revision]]

Reschedule(k, at) == /\ thread["owner"].pc = "idle" /\ Use("moves")
                     /\ RescheduleBegin("owner", k, at)
                     /\ UNCHANGED <<row, att, jobs, phoneVars>>

Expected(k, j) == IF j = ReminderJob(k) THEN row[k].notification ELSE row[k].run_at

\* The checks of change(), all under the fences.
Movable(k, set, revision) ==
  /\ row[k].revision = revision /\ row[k].status = "scheduled" /\ ~late
  /\ \A j \in set : jobs[j].state = "scheduled" /\ jobs[j].at = Expected(k, j)

\* Mutant: the fences are taken but the row is not held while jobs move.
MoveHoldOpen(t) ==
  LET k == thread[t].key
      set == thread[t].todo
  IN /\ thread[t].pc = "move" /\ Free(set)
     /\ IF NoneFires(set) /\ Movable(k, set, thread[t].revision)
          THEN /\ row' = [row EXCEPT ![k].revision = @ + 1, ![k].change = thread[t].target,
                                     ![k].pending = TRUE, ![k].components = set]
               /\ thread' = [thread EXCEPT ![t].pc = "moving", ![t].fence = set]
          ELSE Leave(t) /\ UNCHANGED row
     /\ UNCHANGED <<att, jobs, phoneVars, bound>>

\* The row is held, with the pending change in it.
MoveHold(t) ==
  LET k == thread[t].key
      set == thread[t].todo
  IN /\ thread[t].pc = "move" /\ Free(set)
     /\ IF NoneFires(set) /\ Movable(k, set, thread[t].revision)
          THEN /\ row' = [row EXCEPT ![k].status = "holding", ![k].revision = @ + 1,
                                     ![k].change = thread[t].target, ![k].pending = TRUE,
                                     ![k].components = set]
               /\ thread' = [thread EXCEPT ![t].pc = "moving", ![t].fence = set]
          ELSE Leave(t) /\ UNCHANGED row
     /\ UNCHANGED <<att, jobs, phoneVars, bound>>

\* Each component is moved; the answer may be lost, and the row stays held.
MoveJob(t, j) ==
  /\ thread[t].pc = "moving" /\ j \in thread[t].todo
  /\ jobs' = [jobs EXCEPT ![j].at = thread[t].target]
  /\ \/ thread' = [thread EXCEPT ![t].todo = @ \ {j}] /\ UNCHANGED bound
     \/ Faulty /\ Leave(t)
  /\ UNCHANGED <<row, att, phoneVars>>

\* The change applies if the row is still held by it.  The recovery does not
\* ask for the revision.
MoveSettle(t) ==
  LET k == thread[t].key
      moved == [row[k] EXCEPT !.status = "scheduled", !.run_at = thread[t].target, !.auto = FALSE,
                  !.pending = FALSE,
                  !.notification = IF ReminderJob(k) \in row[k].components
                                     THEN thread[t].target ELSE @]
  IN /\ thread[t].pc = "moving" /\ thread[t].todo = {}
     /\ row' = IF row[k].status = "holding" /\ (t = "loop" \/ row[k].revision = thread[t].revision + 1)
                 THEN [row EXCEPT ![k] = moved] ELSE row
     /\ Leave(t)
     /\ UNCHANGED <<att, jobs, phoneVars, bound>>

----------------------------------------------------------------------------
(* cancel(): revoke, pause what is pending, then the peers of the chain.    *)

Revoked(k) == [row EXCEPT ![k].status = "cancelled", ![k].revision = @ + 1]

Cancel(k) ==
  /\ thread["owner"].pc = "idle" /\ row[k].status # "absent" /\ Use("cancels")
  /\ row' = Revoked(k)
  /\ thread' = [thread EXCEPT !["owner"] = [Idle EXCEPT !.pc = "cancel", !.key = k,
                                              !.todo = PendingComponents(k)]]
  /\ UNCHANGED <<att, jobs, phoneVars>>

\* A pending job is paused under its fence, unless it fires or is over.
CancelPause(j) ==
  /\ thread["owner"].pc \in {"cancel", "cascade"} /\ j \in thread["owner"].todo /\ ~Fenced(j)
  /\ jobs' = IF jobs[j].state = "scheduled" THEN [jobs EXCEPT ![j].state = "paused"] ELSE jobs
  /\ thread' = [thread EXCEPT !["owner"].todo = @ \ {j}]
  /\ UNCHANGED <<row, att, phoneVars, bound>>

\* The peers to revoke: those of the chain that were there, and not cancelled,
\* when the request's own jobs were done.
PeersLeft ==
  IF thread["owner"].pc = "cascade" THEN thread["owner"].queue
  ELSE {p \in Keys \ {thread["owner"].key} : row[p].status \notin {"absent", "cancelled"}}

CancelPeer(p) ==
  /\ thread["owner"].pc \in {"cancel", "cascade"} /\ thread["owner"].todo = {} /\ p \in PeersLeft
  /\ row' = Revoked(p)
  /\ thread' = [thread EXCEPT !["owner"].pc = "cascade", !["owner"].queue = PeersLeft \ {p},
                              !["owner"].todo = PendingComponents(p)]
  /\ UNCHANGED <<att, jobs, phoneVars, bound>>

CancelReturns ==
  /\ thread["owner"].pc \in {"cancel", "cascade"} /\ thread["owner"].todo = {} /\ PeersLeft = {}
  /\ Leave("owner")
  /\ UNCHANGED <<row, att, jobs, phoneVars, bound>>

----------------------------------------------------------------------------
(* Native cron: it fires an armed job, runs its script, gives up on it.     *)
Fire(j) == /\ jobs[j].state = "scheduled" /\ ~Fenced(j)
           /\ jobs' = [jobs EXCEPT ![j].state = "running"]
           /\ UNCHANGED <<row, att, thread, phoneVars, bound>>

\* The script raises, times out or is killed: also before it posts.
Abandon(j) == /\ jobs[j].state \in Firing /\ Faulty
              /\ jobs' = [jobs EXCEPT ![j].state = "ended"]
              /\ UNCHANGED <<row, att, thread, phoneVars>>

ScriptEnds(j) == jobs' = [jobs EXCEPT ![j].state = "ended"]

\* admit() and claim(): this job is the request's, at its present time.
MayClaim(k, n) == /\ Authorized(k) /\ n = row[k].attempts + 1
                  /\ jobs[CallJob(k, n)].at = row[k].run_at
                  /\ row[k].status = "scheduled" /\ row[k].job = n

\* POST execute: a new attempt and its coroutine; or a refusal, which ends
\* the script; an automatic retry at night asks for guidance instead.
Execute(k, n) ==
  LET j == CallJob(k, n)
      a == <<k, n>>
  IN /\ jobs[j].state = "running" /\ LoopFree
     /\ \/ /\ MayClaim(k, n)
           /\ att' = [att EXCEPT ![a].status = "admitted"]
           /\ row' = [row EXCEPT ![k].status = "firing", ![k].revision = @ + 1, ![k].attempts = n]
           /\ worker' = [worker EXCEPT ![a] = "begin"]
           /\ jobs' = [jobs EXCEPT ![j].state = "polling"]
        \/ /\ Authorized(k) /\ row[k].auto /\ n = row[k].attempts + 1
           /\ jobs[j].at = row[k].run_at
           /\ row' = IF row[k].status \in {"scheduled", "firing"}
                       THEN [row EXCEPT ![k].status = "needs_guidance", ![k].revision = @ + 1]
                       ELSE row
           /\ ScriptEnds(j) /\ UNCHANGED <<att, worker>>
        \/ /\ ~MayClaim(k, n)
           /\ ScriptEnds(j) /\ UNCHANGED <<att, row, worker>>
     /\ UNCHANGED <<thread, daemon, line, told, late, bound>>

\* POST notification: the reminder is claimed, then delivered.
Notify(k) ==
  LET j == ReminderJob(k)
      good == /\ row[k].status \notin {"absent", "holding", "cancelled", "expired"} /\ ~late
              /\ row[k].notification # NoMoment /\ jobs[j].at = row[k].notification
              /\ ~row[k].notified
  IN /\ jobs[j].state = "running" /\ LoopFree
     /\ ScriptEnds(j)
     /\ row' = IF good THEN [row EXCEPT ![k].notified = TRUE] ELSE row
     /\ UNCHANGED <<att, thread, worker, daemon, line, told, late, bound>>

----------------------------------------------------------------------------
(* run(): one attempt, from its dial to its report.                         *)
Go(a, pc) == worker' = [worker EXCEPT ![a] = pc]
workerIdle == <<jobs, thread, daemon, line, told, late, bound>>

\* run() begins: after a restart it never asks the daemon to dial.
RunBegins(a) ==
  LET k == a[1]
  IN /\ worker[a] \in {"begin", "recover"} /\ LoopFree
     /\ Go(a, IF att[a].decision # "none" /\ row[k].status # "holding" THEN "finish"
              ELSE IF ~Authorized(k) THEN "guidance"
              ELSE IF worker[a] = "begin" /\ att[a].status = "admitted" THEN "call"
              ELSE IF att[a].outcome # "none" THEN "routine" ELSE "observe")
     /\ daemon' = IF worker'[a] = "call" THEN [daemon EXCEPT ![a] = "asking"] ELSE daemon
     /\ UNCHANGED <<row, att, jobs, thread, line, told, late, bound>>

\* daemon_authority(): the daemon asks before it dials.
Granted(a) == /\ Authorized(a[1]) /\ row[a[1]].status = "firing"
              /\ att[a].status \in {"admitted", "observing"}
              /\ jobs[CallJob(a[1], a[2])].state \in Firing
              /\ jobs[CallJob(a[1], a[2])].at = row[a[1]].run_at

DaemonAsks(a) ==
  /\ daemon[a] = "asking" /\ LoopFree
  /\ daemon' = [daemon EXCEPT ![a] = IF Granted(a) THEN "started" ELSE "refused"]
  /\ UNCHANGED <<row, att, jobs, thread, worker, line, told, late, bound>>

\* The daemon's answer arrives, or the request to it fails.
Called(a) ==
  /\ worker[a] = "call" /\ LoopFree
  /\ \/ /\ daemon[a] = "started" /\ Go(a, "observe")
        /\ att' = [att EXCEPT ![a].status = "observing"] /\ UNCHANGED bound
     \/ /\ daemon[a] = "refused" /\ Go(a, "guidance") /\ UNCHANGED <<att, bound>>
     \/ /\ Faulty /\ Go(a, "guidance") /\ UNCHANGED att
  /\ UNCHANGED <<row, jobs, thread, daemon, line, told, late>>

\* The daemon's side, as AttemptReceipts promises it.
Dials(a) == /\ daemon[a] = "started" /\ Receipts!Place(a)
            /\ UNCHANGED <<row, att, jobs, thread, worker, daemon, late, bound>>
CallEnds(a) == /\ Receipts!HangUp(a)
               /\ UNCHANGED <<row, att, jobs, thread, worker, daemon, late, bound>>

\* enrich_outcome(): unfinished tasks of the call make an outcome uncertain.
\* A call that was not connected was missed, or failed for another reason.
Enriched(answer) == {answer, "unknown"} \cup {f \in {"failed"} : answer = "missed"}

\* Mutant: an attempt whose outcome is not known counts as missed.
NoOutcomeMissed == "missed"

\* The outcome when observation ends without one: uncertain.
NoOutcome == "unknown"

\* A recipient who asks for a callback has answered.
Answered(a) == \/ att[a].child # NoKey
               \/ thread["voice"].pc = "asked" /\ <<thread["voice"].key, thread["voice"].n>> = a

\* Timing: a call takes longer than the native store takes to answer, so an
\* attempt does not end before the publications of its job have linked it.
Linked(a) == \A t \in Threads :
  thread[t].pc = "publish" => CallJob(a[1], a[2]) \notin thread[t].todo

\* run() polls the outcome: it is finished; or its observation times out, or
\* after a restart the daemon knows nothing of the attempt.  Then it looks
\* whether the request is still open.
Observe(a) ==
  /\ worker[a] = "observe" /\ LoopFree /\ Linked(a)
  /\ \/ /\ daemon[a] = "started"
        /\ UNCHANGED bound
        /\ \E answer \in Receipts!Answers :
             /\ Receipts!Tell(a, answer) /\ (Answered(a) => answer # "missed")
             /\ \E outcome \in Enriched(answer) \cap bound.outcomes : att' = [att EXCEPT ![a].outcome = outcome]
     \/ /\ daemon[a] = "started" => Faulty
        /\ daemon[a] # "started" => UNCHANGED bound
        /\ att' = [att EXCEPT ![a].outcome = NoOutcome]
        /\ UNCHANGED <<line, told>>
  /\ Go(a, IF Authorized(a[1]) THEN "routine" ELSE "guidance")
  /\ UNCHANGED <<row, jobs, thread, daemon, late>>

\* The outcomes that programmed policy handles without a model.
Routinely(a) == \/ att[a].decision # "none" \/ att[a].child # NoKey
                \/ att[a].outcome \in {"missed", "unknown"} \/ row[a[1]].plan.reminder

\* Mutant: the retries of the chain are not counted.
RetriedUncounted(k, at) == [row EXCEPT ![k].status = "holding", ![k].run_at = at, ![k].auto = TRUE,
                                       ![k].revision = @ + 1]

\* A missed call is tried again, at the chain's expense.
Retried(k, at) == [row EXCEPT ![Root].used = @ + 1,
                              ![k].status = "holding", ![k].run_at = at, ![k].auto = TRUE,
                              ![k].revision = @ + 1]

Concluded(k, status) == [row EXCEPT ![k].status = status, ![k].revision = @ + 1]

Decided(a, decision) == att' = [att EXCEPT ![a].decision = decision, ![a].status = "decided"]

\* What the policy does with a first decision, and whether it publishes.
Policy(a) ==
  LET k == a[1]
      child == att[a].child
      conclude(status, decision) ==
        /\ row' = Concluded(k, status) /\ Decided(a, decision) /\ UNCHANGED <<thread, bound>>
        /\ Go(a, "concluded")
  IN IF child # NoKey
       THEN conclude(IF row[child].status = "scheduled" THEN "completed" ELSE "needs_guidance", "close")
     ELSE IF row[Root].status = "cancelled" THEN conclude("cancelled", "close")
     ELSE IF att[a].outcome = "unknown" THEN conclude("uncertain", "ask_owner")
     ELSE IF att[a].outcome = "missed" /\ row[Root].used < Delays
       THEN \/ \E at \in bound.moments :
                 /\ row[k].attempts < Tries[k] /\ Use("retries")
                 /\ row' = Retried(k, at)
                 /\ Decided(a, "retry") /\ Go(a, "published")
                 /\ thread' = [thread EXCEPT !["loop"] = Publishing(k, row'[k])]
            \/ conclude("expired", "close")
     ELSE IF att[a].outcome = "missed" THEN conclude("exhausted", "close")
     ELSE IF att[a].outcome = "talked" THEN conclude("completed", "close")
     ELSE conclude("needs_guidance", "ask_owner")

\* routine_decision(), or a decision that is there after a restart.
Routine(a) ==
  LET k == a[1]
  IN /\ worker[a] = "routine" /\ LoopFree
     /\ \/ /\ Routinely(a) /\ att[a].decision = "none" /\ Policy(a)
        \/ /\ att[a].decision # "none"
           /\ IF row[k].status = "holding" /\ att[a].decision = "retry"
                THEN /\ Go(a, "published")
                     /\ thread' = [thread EXCEPT !["loop"] = Publishing(k, row[k])]
                ELSE Go(a, "concluded") /\ UNCHANGED thread
           /\ UNCHANGED <<row, att, bound>>
        \/ /\ ~Routinely(a) /\ Go(a, "ask") /\ UNCHANGED <<row, att, thread, bound>>
     /\ UNCHANGED <<jobs, daemon, line, told, late>>

\* publish() has returned, or raised.
PublishReturns(a) ==
  /\ thread["loop"].pc = "idle" /\ worker[a] = "published"
  /\ Go(a, IF row[a[1]].status = "holding" THEN "guidance" ELSE "concluded")
  /\ UNCHANGED <<row, att, workerIdle>>

----------------------------------------------------------------------------
(* A connected objective: a Hermes run decides.                             *)
\* The native run is posted once; its prompt carries the row's revision.
AskHermes(a) ==
  /\ worker[a] = "ask" /\ LoopFree
  /\ \/ /\ att[a].run = "none"
        /\ att' = [att EXCEPT ![a].status = "deciding", ![a].run = "live",
                              ![a].revision = row[a[1]].revision]
        /\ Go(a, "await") /\ UNCHANGED bound
     \/ /\ att[a].run # "none" /\ Go(a, "await") /\ UNCHANGED <<att, bound>>
     \/ /\ Faulty /\ Go(a, "guidance") /\ UNCHANGED att
  /\ UNCHANGED <<row, jobs, thread, daemon, line, told, late>>

\* decision_authority() and the checks of apply().
MayDecide(a) == /\ att[a].status = "deciding" /\ att[a].run = "live"
                /\ Authorized(a[1]) /\ row[a[1]].revision = att[a].revision

\* apply(), in the agent's thread.  Talking is the evidence that lets it
\* close; a retry is automatic, or at a time the recipient or owner named.
Apply(a) ==
  LET k == a[1]
  IN /\ thread["agent"].pc = "idle" /\ MayDecide(a)
     /\ \/ \E status \in {"completed", "declined"} :
             /\ att[a].outcome = "talked"
             /\ row' = Concluded(k, status) /\ Decided(a, "close") /\ UNCHANGED <<thread, bound>>
        \/ \E status \in {"uncertain", "needs_guidance"} :
             /\ row' = Concluded(k, status) /\ Decided(a, "ask_owner") /\ UNCHANGED <<thread, bound>>
        \/ \E at \in bound.moments :
             /\ att[a].outcome # "unknown" /\ row[k].attempts < Tries[k]
             /\ \/ row[Root].used < Delays /\ row' = Retried(k, at)
                \/ row' = [row EXCEPT ![k].status = "holding", ![k].run_at = at, ![k].auto = FALSE,
                                      ![k].revision = @ + 1]
             /\ Decided(a, "retry") /\ Use("retries")
             /\ thread' = [thread EXCEPT !["agent"] = Publishing(k, row'[k])]
     /\ UNCHANGED <<jobs, phoneVars>>

\* run() looks for the decision every half second.  A held row, a closed
\* request, a run that ended without a decision and two minutes end it.
Await(a) ==
  /\ worker[a] = "await" /\ LoopFree
  /\ \/ /\ att[a].decision # "none"
        /\ Go(a, IF row[a[1]].status = "holding" THEN "guidance" ELSE "finish")
     \/ /\ att[a].decision = "none" /\ Go(a, "guidance")
  /\ UNCHANGED <<row, att, workerIdle>>

\* Mutant: a retry that could not be published stays held.
GuidanceKeepsHeld(a) ==
  LET k == a[1]
  IN /\ worker[a] = "guidance" /\ LoopFree
     /\ IF att[a].decision = "none" \/ row[k].status = "holding"
          THEN /\ Decided(a, "ask_owner")
               /\ row' = Concluded(k, IF row[k].status \in FINAL \cup {"holding"}
                                        THEN row[k].status ELSE "uncertain")
          ELSE UNCHANGED <<row, att>>
     /\ Go(a, "finish")
     /\ UNCHANGED workerIdle

\* set_guidance(): only if nothing is decided, or what is stays unpublished.
Guidance(a) ==
  LET k == a[1]
  IN /\ worker[a] = "guidance" /\ LoopFree
     /\ IF att[a].decision = "none" \/ row[k].status = "holding"
          THEN /\ Decided(a, "ask_owner")
               /\ row' = Concluded(k, IF row[k].status \in FINAL THEN row[k].status ELSE "uncertain")
          ELSE UNCHANGED <<row, att>>
     /\ Go(a, "finish")
     /\ UNCHANGED workerIdle

----------------------------------------------------------------------------
(* Reports.                                                                 *)
\* user_report(): what is worth telling the owner.
WorthTelling(k) ==
  \/ row[k].status \in {"exhausted", "expired"}
  \/ /\ row[k].status \notin {"scheduled", "completed", "declined", "cancelled"}
     /\ \A p \in Keys : row[p].status # "scheduled"

\* finish_report(): an empty report counts as delivered.
Finish(a) ==
  LET worth == WorthTelling(a[1])
  IN /\ \/ worker[a] = "concluded" /\ thread["loop"].pc = "idle"
        \/ worker[a] = "finish" /\ LoopFree
     /\ att' = [att EXCEPT ![a].report = IF worth THEN "text" ELSE "empty",
                           ![a].claimed = IF worth THEN @ ELSE TRUE]
     /\ Go(a, "none")
     /\ UNCHANGED <<row, workerIdle>>

\* A retained text is claimed, then returned for native delivery.
ReportOut(a, j) ==
  /\ att[a].report = "text" /\ ~att[a].claimed
  /\ ~row[a[1]].plan.quiet
  /\ row[a[1]].plan.notify => j = ReportJob(a[1], a[2])
  /\ att' = [att EXCEPT ![a].claimed = TRUE]

Silent(a, j) == \/ att[a].report = "empty" \/ att[a].claimed
                \/ att[a].report = "text" /\ row[a[1]].plan.quiet
                \/ att[a].report = "text" /\ row[a[1]].plan.notify /\ j = CallJob(a[1], a[2])

\* POST report, by the call's own script or by a later report job.
Report(a, j) ==
  /\ LoopFree
  /\ \/ j = CallJob(a[1], a[2]) /\ jobs[j].state = "polling"
     \/ j = ReportJob(a[1], a[2]) /\ jobs[j].state = "running" /\ att[a].report_job
  /\ \/ ReportOut(a, j)
     \/ Silent(a, j) /\ UNCHANGED att
  /\ ScriptEnds(j)
  /\ UNCHANGED <<row, thread, worker, daemon, line, told, late, bound>>

\* recover_report(): the original execution is over and the report is not
\* claimed: a job of its own is created, linked and armed.
RecoverReport(a) ==
  LET j == ReportJob(a[1], a[2])
  IN /\ LoopFree
     /\ att[a].report = "text" /\ ~att[a].claimed /\ ~row[a[1]].plan.quiet
     /\ jobs[CallJob(a[1], a[2])].state = "ended"
     /\ jobs[j].state \in {"absent", "paused"} /\ ~Fenced(j)
     /\ jobs' = [jobs EXCEPT ![j] = [state |-> "scheduled", at |-> NoMoment]]
     /\ att' = [att EXCEPT ![a].report_job = TRUE]
     /\ UNCHANGED <<row, thread, phoneVars, bound>>

\* request_callback(): the recipient of a live call asks to be called again.
AskCallback(a, at) ==
  /\ thread["voice"].pc = "idle" /\ LoopFree /\ a \in bound.asks
  /\ Granted(a) /\ line[a] = "up" /\ told[a] = "none"
  /\ thread' = [thread EXCEPT !["voice"] = [Idle EXCEPT !.pc = "asked", !.key = a[1], !.n = a[2],
                                              !.target = at]]
  /\ UNCHANGED <<row, att, jobs, phoneVars, bound>>


\* The transaction looks at the request and its root again.
CallbackOpen(k) == Authorized(k) /\ row[Root].status # "cancelled"

\* A child request and the pointer to it, in one transaction; or a move of
\* the child that is there; or the request was closed meanwhile.
SaveCallback(child) ==
  LET k == thread["voice"].key
      a == <<k, thread["voice"].n>>
      at == thread["voice"].target
      open == CallbackOpen(k)
  IN /\ thread["voice"].pc = "asked"
     /\ \/ /\ open /\ att[a].child = NoKey /\ row[child].status = "absent" /\ child # Root
           /\ att' = [att EXCEPT ![a].child = child]
           /\ row' = [row EXCEPT ![child] = [NoRow EXCEPT !.status = "holding",
                                               !.plan = row[k].plan, !.run_at = at]]
           /\ thread' = [thread EXCEPT !["voice"] = Publishing(child, row'[child])]
           /\ UNCHANGED bound
        \/ /\ open /\ att[a].child = child
           /\ Use("moves")
           /\ RescheduleBegin("voice", child, at)
           /\ UNCHANGED <<row, att>>
        \/ /\ ~open \/ (att[a].child # NoKey /\ row[att[a].child].status # "scheduled")
           /\ Leave("voice") /\ UNCHANGED <<row, att, bound>>
     /\ UNCHANGED <<jobs, phoneVars>>

----------------------------------------------------------------------------
(* Time, and the restart of the gateway.                                    *)
DeadlinePasses == /\ bound.expires /\ ~late /\ late' = TRUE
                  /\ UNCHANGED <<row, att, jobs, thread, worker, daemon, line, told, bound>>

\* expire_requests(), in the recovery loop.
Expire(k) == /\ LoopFree /\ late
             /\ row[k].status \notin FINAL \cup {"absent", "firing"}
             /\ row' = Concluded(k, "expired")
             /\ UNCHANGED <<att, jobs, thread, phoneVars, bound>>

\* start(): the attempts that were under way, or whose report is missing.
RecoveredWorker(a) == IF \/ att[a].status \in {"admitted", "observing", "deciding"}
                         \/ att[a].status = "decided" /\ att[a].report = "none"
                        THEN "recover" ELSE "none"

\* The gateway dies and starts again: the store, the native jobs and the
\* daemon stay; fences are released; reconcile_schedules() comes first.
Restart ==
  /\ Use("crashes")
  /\ thread' = [t \in Threads |-> IF t = "loop" THEN Resting({k \in Keys : row[k].status = "holding"})
                                   ELSE Idle]
  /\ worker' = [a \in Attempts |-> RecoveredWorker(a)]
  /\ att' = [a \in Attempts |-> [att[a] EXCEPT !.run = IF @ = "live" THEN "dead" ELSE @]]
  /\ UNCHANGED <<row, jobs, daemon, line, told, late>>

\* reconcile_schedules(), one held request: resume its pending change, or
\* publish it again while its time is still to come; otherwise it stays held.
Reconcile(k) ==
  LET set == row[k].components
      rest == [Idle EXCEPT !.queue = thread["loop"].queue \ {k}]
      resumed == [rest EXCEPT !.pc = "moving", !.key = k, !.target = row[k].change,
                              !.todo = set, !.fence = set]
      movable == Free(set) /\ \A j \in set : jobs[j].state = "scheduled"
  IN /\ thread["loop"].pc = "reconcile" /\ k \in thread["loop"].queue
     /\ \/ /\ Authorized(k) /\ row[k].status = "holding" /\ row[k].pending /\ movable
           /\ thread' = [thread EXCEPT !["loop"] = resumed]
        \/ /\ Authorized(k) /\ row[k].status = "holding" /\ ~row[k].pending
           /\ thread' = [thread EXCEPT !["loop"] = [Publishing(k, row[k]) EXCEPT !.queue = rest.queue]]
        \/ thread' = [thread EXCEPT !["loop"] = Resting(rest.queue)]
     /\ UNCHANGED <<row, att, jobs, phoneVars, bound>>

----------------------------------------------------------------------------
OwnerNext == \/ \E p \in bound.plans, m \in bound.moments : Schedule(p, m)
             \/ \E k \in Keys, m \in bound.moments : Reschedule(k, m)
             \/ \E k \in Keys : Cancel(k)
             \/ \E j \in thread["owner"].todo : CancelPause(j)
             \/ \E k \in Keys : CancelPeer(k)
             \/ CancelReturns
ThreadNext == \E t \in Threads : \/ PublishLink(t) \/ PublishArm(t) \/ PublishCommit(t)
                                 \/ MoveHold(t) \/ MoveSettle(t)
                                 \/ \E j \in thread[t].todo : MoveJob(t, j)
CronNext == \/ \E j \in Jobs : Fire(j) \/ Abandon(j)
            \/ \E a \in Attempts : Execute(a[1], a[2])
            \/ \E k \in Keys : Notify(k)
RunNext == \E a \in Attempts :
  \/ RunBegins(a) \/ DaemonAsks(a) \/ Called(a) \/ Observe(a) \/ Routine(a)
  \/ PublishReturns(a) \/ AskHermes(a) \/ Await(a) \/ Guidance(a) \/ Finish(a)
PhoneNext == \E a \in Attempts : \/ Dials(a) \/ CallEnds(a)
                                 \/ \E m \in bound.moments : AskCallback(a, m)
ReportNext == \E a \in Attempts :
  \/ RecoverReport(a)
  \/ \E j \in {CallJob(a[1], a[2]), ReportJob(a[1], a[2])} : Report(a, j)

Next == \/ OwnerNext \/ ThreadNext \/ CronNext \/ RunNext \/ PhoneNext \/ ReportNext
        \/ \E a \in Attempts : Apply(a)
        \/ DeadlinePasses
        \/ \E k \in Keys : SaveCallback(k)
        \/ \E k \in Keys : Expire(k) \/ Reconcile(k)
        \/ Restart

Spec == Init /\ [][Next]_vars

----------------------------------------------------------------------------
\* An attempt of the request has not been decided about.
Undecided(k) == \E a \in Attempts : a[1] = k /\ att[a].status \in {"admitted", "observing", "deciding"}

PhaseOf == [status \in Statuses |->
  CASE status = "absent" -> "absent" [] status = "holding" -> "held" [] status = "scheduled" -> "due"
    [] status = "firing" -> "firing" [] OTHER -> "stopped"]

Phase(k) == IF row[k].status = "cancelled" /\ Undecided(k) THEN "revoked" ELSE PhaseOf[row[k].status]

Request == INSTANCE PhoneRequest WITH
             phase <- [k \in Keys |-> Phase(k)],
             fired <- [k \in Keys |-> row[k].attempts]


\* The jobs that the row's last move concerned did not include a call.
MovedNoCall(k) == row[k].run_at = row[k].change /\ \A j \in row[k].components : j[1] # "call"

\* A due request has a native job for its next attempt that fires at the time
\* the request says, through lost answers, half-done moves and restarts; except
\* that a move begun before the job was linked gives the request a time of its own.
DueIsArmed == \A k \in Keys :
  row[k].status = "scheduled" =>
    /\ row[k].job = row[k].attempts + 1
    /\ jobs[CallJob(k, row[k].job)].at = row[k].run_at \/ MovedNoCall(k)

\* Refuted by TLC: reschedule()'s verified receipt: a due request's job fires at
\* its time whoever moved it, also before it was linked.
DueIsTimed == \A k \in Keys :
  row[k].status = "scheduled" => jobs[CallJob(k, row[k].job)].at = row[k].run_at

\* Requests that only programmed policy retries make no more attempts than
\* there are requests in the chain and configured retries, whatever is redone
\* after a restart.
WithinBudget ==
  (\A k \in Keys : row[k].status # "absent" => row[k].plan.reminder) =>
    FoldFunction(+, 0, [k \in Keys |-> row[k].attempts])
      <= Cardinality({k \in Keys : row[k].status # "absent"}) + Delays

Live == {"holding", "scheduled", "firing"}

\* An attempt that was decided to be the last, by policy, by Hermes or for lack of
\* a decision, is the last: nothing that was held or in publication then is
\* published by the thread that held it, by a recovery or by a move.
DecisionIsFinal == \A a \in Attempts :
  att[a].decision \in {"close", "ask_owner"} =>
    row[a[1]].attempts = a[2] /\ row[a[1]].status \notin Live

\* While a call of a request is up, no other call of that request is.
OneCallUp == \A a, b \in Attempts :
  a[1] = b[1] /\ line[a] = "up" /\ line[b] = "up" => a = b

\* What every state satisfies: the types, jobs that agree with their requests, a
\* bounded number of attempts, and one call at a time.
Inv == TypeOK /\ DueIsArmed /\ WithinBudget /\ OneCallUp

\* Refuted by TLC: "hfp_phone_cancel_callback prevents all future attempts, including late
\* agent decisions": a cancelled request is never revived.
CancelSticks == [][\A k \in Keys : row[k].status = "cancelled" => row'[k].status \notin Live]_vars

=============================================================================
