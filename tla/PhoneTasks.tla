----------------------------- MODULE PhoneTasks -----------------------------
(***************************************************************************)
(* The tasks a caller gives to the Hermes gateway (phone_tasks.py): the     *)
(* registry that survives the call and the gateway, the capacity that all   *)
(* gateways of the host share, and the native runs that do the work.        *)
(*                                                                          *)
(* One event loop serves the caller's requests (submit, cancel, continue,   *)
(* steer, status, a reset of the conversation), the launch of each run, the *)
(* middleware that admits it, the observer watch() and the deliveries; they *)
(* interleave where they await.  row, granted, mapped and slots are SQLite  *)
(* tables and outlive the process.                                          *)
(*                                                                          *)
(* The run of attempt a of task t, its child binding and its idempotency    *)
(* key are all called <<t, a>>: attempt 0 does the request, a later one a   *)
(* correction that the run before it ended without taking.  Tasks are       *)
(* numbered in the order of their submission.                               *)
(***************************************************************************)
EXTENDS Naturals, FiniteSets, FiniteSetsExt

CONSTANTS
  MaxTask,      \* bound: requests of the caller
  Corrections,  \* texts the caller steers with
  Limit,        \* max_phone_tasks
  Scenarios     \* what a behaviour may contain

Tasks == 1..MaxTask
Attempts == 0..Cardinality(Corrections)
Runs == Tasks \X Attempts

\* The bounds of a behaviour: requests, cancellations, corrections, status requests,
\* slots taken by another gateway, lost answers, crashes; whether the caller asks
\* for continuation, hangs up, lets it expire, resets the conversation.
Scenario == [submits : Nat, cancels : Nat, steers : Nat, polls : Nat, peers : Nat, faults : Nat,
             crashes : Nat, continues : BOOLEAN, hangs : BOOLEAN, lapses : BOOLEAN,
             resets : BOOLEAN]

ASSUME LimitAssumption == Limit \in Nat \ {0} /\ MaxTask \in Nat
ASSUME CorrectionsAssumption == IsFiniteSet(Corrections)
ASSUME ScenarioAssumption == \A b \in Scenarios : b \in Scenario

VARIABLES
  row,      \* phone_tasks
  granted,  \* the child bindings that are active
  mapped,   \* run_bindings: the runs a tool call may act for
  call,     \* the caller's own binding, and its phone conversation
  lapsed,   \* continued tasks past expires_at
  slots,    \* phone_task_slots: tasks, and 0 for each one of another gateway
  native,   \* the runs of Hermes (external)
  posts,    \* POST v1/runs of each run: its client and its server side
  stops,    \* runs a stop request is on its way to
  gate,     \* the gateway: up, the holder of admission_lock, deliveries
  watch,    \* watch(): the row it is at
  poll,     \* a status refresh and a correction, each under its task's run_lock
  heard,    \* corrections a run took, and how often; notices sent for each task
  bound     \* what is left of the scenario

vars == <<row, granted, mapped, call, lapsed, slots, native, posts, stops, gate, watch, poll,
          heard, bound>>

TERMINAL == {"completed", "failed", "cancelled", "interrupted", "uncertain"}
Ended == TERMINAL \cup {"stopping"}
Over == {"completed", "failed", "cancelled", "interrupted"}  \* of a native run

NoRow == [status |-> "absent", attempt |-> 0, run |-> FALSE, continued |-> FALSE,
          delivery |-> "none", steer |-> {}, session |-> 0]
NoRun == [status |-> "none", steer |-> {}]
NoPost == [client |-> FALSE, server |-> "none", text |-> {}]
NoOp == [kind |-> "none", task |-> 0, continued |-> FALSE, session |-> 0, todo |-> {}]
NoWatch == [pc |-> "asleep", task |-> 0, rows |-> [t \in Tasks |-> NoRow]]
NoPoll == [task |-> 0, state |-> NoRun, text |-> {}]
Pollers == {"watch", "status", "steer"}

Init ==
  /\ row = [t \in Tasks |-> NoRow]
  /\ granted = {} /\ mapped = {} /\ lapsed = {} /\ slots = {} /\ stops = {}
  /\ call = [parent |-> TRUE, active |-> TRUE]
  /\ native = [r \in Runs |-> NoRun]
  /\ posts = [r \in Runs |-> NoPost]
  /\ gate = [up |-> TRUE, op |-> NoOp, sending |-> [t \in Tasks |-> "none"]]
  /\ watch = NoWatch
  /\ poll = [p \in Pollers |-> NoPoll]
  /\ heard = [taken |-> [c \in Corrections |-> 0], notices |-> [t \in Tasks |-> 0], given |-> {}]
  /\ bound \in Scenarios

Has(R, t) == R[t].status \notin {"absent", "deleted"}
Active(R) == {t \in Tasks : Has(R, t) /\ R[t].status \notin TERMINAL}
Run(t) == <<t, row[t].attempt>>
Locked(t) == \E p \in Pollers : poll[p].task = t

\* run_binding: the run is mapped, its binding active, the conversation not retired.
Bound(r) == r \in mapped /\ r \in granted /\ call.active
\* May a tool call act for run r?  authority() looks the row up by its run, so it says
\* nothing of a run the row has left, whose own binding is not active.
Authorised(r) ==
  LET t == r[1] IN
  /\ Bound(r)
  /\ Has(row, t) /\ row[t].run /\ Run(t) = r =>
       /\ row[t].status \notin Ended
       /\ IF row[t].continued THEN t \notin lapsed ELSE call.parent

\* The observer leaves the task alone: its call, or its continuation, goes on.
Entitled(R, t) == IF R[t].continued THEN t \notin lapsed ELSE call.parent
Owned == gate.up /\ call.parent /\ call.active

-----------------------------------------------------------------------------
(* Admission *)
Occupied(n) == \E t \in Active(row) : row[t].session = n

\* submit: the checks; then it awaits the creation of the native session.  A new
\* request takes the primary session 1, an independent one the first that is free, a
\* follow-up the session of the task it follows.
Submit(continued, relation) ==
  /\ Owned /\ gate.op = NoOp /\ bound.submits > 0
  /\ continued => bound.continues
  /\ Cardinality(Active(row)) < Limit
  /\ \E t \in Tasks, session \in 1..MaxTask :
       /\ row[t] = NoRow /\ \A u \in 1..(t - 1) : row[u] # NoRow
       /\ ~Occupied(session)
       /\ \/ relation = "new" /\ Active(row) = {} /\ session = 1
          \/ relation = "independent" /\ \A n \in 1..(session - 1) : Occupied(n)
          \/ /\ relation = "follow_up"
             /\ \E u \in Tasks : row[u].status \in TERMINAL /\ row[u].session = session
       /\ gate' = [gate EXCEPT !.op = [NoOp EXCEPT !.kind = "submit", !.task = t,
                                         !.continued = continued, !.session = session]]
  /\ bound' = [bound EXCEPT !.submits = @ - 1]
  /\ UNCHANGED <<row, granted, mapped, call, lapsed, slots, native, posts, stops, watch, poll, heard>>

Reserved(t) == slots \cup {t}
\* The rest of submit: the slot is taken, the row saved, the launch spawned; or the
\* capacity is used up by other gateways and nothing was queued.
SubmitReserves ==
  LET op == gate.op
      t == op.task
  IN  /\ op.kind = "submit"
      /\ gate' = [gate EXCEPT !.op = NoOp]
      /\ \/ /\ Cardinality(slots) >= Limit
            /\ UNCHANGED <<row, granted, slots, posts>>
         \/ /\ Cardinality(slots) < Limit
            /\ slots' = Reserved(t)
            /\ granted' = granted \cup {<<t, 0>>}
            /\ row' = [row EXCEPT ![t] =
                 [NoRow EXCEPT !.status = "submitting", !.continued = op.continued,
                               !.session = op.session,
                               !.delivery = IF op.continued THEN "pending" ELSE "not_requested"]]
            /\ posts' = [posts EXCEPT ![<<t, 0>>] = [NoPost EXCEPT !.client = TRUE, !.server = "arriving"]]
      /\ UNCHANGED <<mapped, call, lapsed, native, stops, watch, poll, heard, bound>>

\* Mutant: an uncertain task keeps its slot.
LaunchFailsOnly(r) ==
  LET t == r[1] IN
  /\ row' = IF Has(row, t) /\ Run(t) = r /\ ~row[t].run
            THEN [row EXCEPT ![t].status = "uncertain"] ELSE row
  /\ granted' = IF row' # row THEN granted \ {r} ELSE granted
  /\ UNCHANGED slots
\* launch(): no answer, or a refusal.  A row whose run is not known is uncertain now,
\* and its authority and slot are given back.
LaunchFails(r) ==
  LET t == r[1] IN
  IF Has(row, t) /\ Run(t) = r /\ ~row[t].run
  THEN /\ row' = [row EXCEPT ![t].status = "uncertain"]
       /\ granted' = granted \ {r}
       /\ slots' = slots \ {t}
  ELSE UNCHANGED <<row, granted, slots>>

\* The answer does not come in time; the request goes on in the server.
LaunchTimesOut(r) ==
  /\ posts[r].client /\ bound.faults > 0
  /\ LaunchFails(r)
  /\ posts' = [posts EXCEPT ![r].client = FALSE]
  /\ bound' = [bound EXCEPT !.faults = @ - 1]
  /\ UNCHANGED <<mapped, call, lapsed, native, stops, gate, watch, poll, heard>>

Refused(r) ==
  /\ IF posts[r].client THEN LaunchFails(r) ELSE UNCHANGED <<row, granted, slots>>
  /\ posts' = [posts EXCEPT ![r] = NoPost]

\* bind_native_run, before the native handler is awaited.
Admissible(r) ==
  LET t == r[1] IN
  /\ call.active /\ r \in granted
  /\ Has(row, t) /\ Run(t) = r /\ row[t].status \in {"submitting", "accepted"}
  /\ row[t].continued \/ call.parent
PostArrives(r) ==
  /\ posts[r].server = "arriving"
  /\ IF Admissible(r)
     THEN /\ posts' = [posts EXCEPT ![r].server = "handling"]
          /\ UNCHANGED <<row, granted, slots>>
     ELSE Refused(r)
  /\ UNCHANGED <<mapped, call, lapsed, native, stops, gate, watch, poll, heard, bound>>

\* Hermes does not take the run.
PostRefused(r) ==
  /\ posts[r].server = "handling" /\ bound.faults > 0
  /\ Refused(r)
  /\ bound' = [bound EXCEPT !.faults = @ - 1]
  /\ UNCHANGED <<mapped, call, lapsed, native, stops, gate, watch, poll, heard>>

\* Mutant: a late admission revives a task that has ended.
AdmittedAnyway(t) ==
  /\ row' = [row EXCEPT ![t].run = TRUE, ![t].status = "accepted"]
  /\ UNCHANGED stops
\* admitted: a task that was stopped or reported meanwhile gets its run stopped.
Admitted(t) ==
  IF row[t].status \in Ended
  THEN /\ row' = [row EXCEPT ![t].run = TRUE, ![t].status = "stopping"]
       /\ stops' = stops \cup {Run(t)}
  ELSE /\ row' = [row EXCEPT ![t].run = TRUE, ![t].status = "accepted"]
       /\ UNCHANGED stops

\* bind_run, which checks the conversation and the binding once more.
Mapped(r) == IF call.active /\ r \in granted THEN mapped \cup {r} ELSE mapped
\* The native handler has answered 202: the run exists, the mapping is written before it
\* begins.  Nothing is left of a task whose conversation was deleted: its run stays.
PostHandled(r) ==
  LET t == r[1]
      known == Has(row, t) /\ Run(t) = r
  IN  /\ posts[r].server = "handling"
      /\ native' = [native EXCEPT ![r].status = "running"]
      /\ heard' = [heard EXCEPT !.taken = [c \in Corrections |-> @[c] + (IF c \in posts[r].text THEN 1 ELSE 0)]]
      /\ IF known THEN Admitted(t) ELSE UNCHANGED <<row, stops>>
      /\ mapped' = IF known /\ row[t].status \notin Ended THEN Mapped(r) ELSE mapped
      /\ posts' = [posts EXCEPT ![r] = NoPost]
      /\ UNCHANGED <<granted, call, lapsed, slots, gate, watch, poll, bound>>

-----------------------------------------------------------------------------
(* The end of a task *)
\* stop(), up to the request to Hermes: without a run there is none to make.
Stopped(t) ==
  /\ granted' = granted \ {Run(t)}
  /\ IF row[t].run
     THEN /\ row' = [row EXCEPT ![t].status = "stopping", ![t].continued = FALSE,
                                ![t].delivery = "cancelled"]
          /\ stops' = stops \cup {Run(t)}
          /\ UNCHANGED slots
     ELSE /\ row' = [row EXCEPT ![t].status = "cancelled", ![t].continued = FALSE,
                                ![t].delivery = "cancelled"]
          /\ slots' = slots \ {t}
          /\ UNCHANGED stops

\* The caller cancels, or replaces the task.
Cancel(t) ==
  /\ Owned /\ t \in Active(row) /\ bound.cancels > 0
  /\ Stopped(t)
  /\ bound' = [bound EXCEPT !.cancels = @ - 1]
  /\ UNCHANGED <<mapped, call, lapsed, native, posts, gate, watch, poll, heard>>

\* Who awaits the stop of r, and what the answer means to them.
WatchAwaits(r) == watch.pc = "stopping" /\ Run(watch.task) = r
NextRow(w) ==
  LET later == {t \in Tasks : t > w.task /\ w.rows[t] # NoRow} IN
  IF later = {} THEN NoWatch
  ELSE [pc |-> "row", task |-> Min(later), rows |-> [w.rows EXCEPT ![w.task] = NoRow]]
StopArrives(r) ==
  /\ r \in stops
  /\ native' = [native EXCEPT ![r].status = IF @ = "running" THEN "cancelled" ELSE @]
  /\ stops' = stops \ {r}
  /\ watch' = IF WatchAwaits(r) THEN [watch EXCEPT !.pc = "refresh"] ELSE watch
  /\ UNCHANGED <<row, granted, mapped, call, lapsed, slots, posts, gate, poll, heard, bound>>
StopLost(r) ==
  /\ r \in stops /\ bound.faults > 0
  /\ stops' = stops \ {r}
  /\ watch' = IF WatchAwaits(r) THEN NextRow(watch) ELSE watch
  /\ gate' = IF gate.op.kind = "reset" THEN [gate EXCEPT !.op = NoOp] ELSE gate
  /\ bound' = [bound EXCEPT !.faults = @ - 1]
  /\ UNCHANGED <<row, granted, mapped, call, lapsed, slots, native, posts, poll, heard>>

\* start_correction, of an authorised run that ended without the texts: the row gets a new
\* binding that takes over the old one's grant, and the next run is launched.
StartCorrection(t, texts) ==
  LET old == Run(t)
      new == <<t, row[t].attempt + 1>>
  IN  /\ row' = [row EXCEPT ![t].attempt = @ + 1, ![t].run = FALSE, ![t].status = "submitting",
                            ![t].steer = texts]
      /\ granted' = (granted \ {old}) \cup {new}
      /\ posts' = [posts EXCEPT ![new] = [client |-> TRUE, server |-> "arriving", text |-> texts]]
      /\ UNCHANGED slots

\* Mutant: the texts a completed run did not take are not looked at.
OutcomeAsIs(state) == state.status
\* The status a refresh reports for a run that is over.
Outcome(state) == IF state.status = "completed" /\ state.steer # {} THEN "failed" ELSE state.status

\* refresh_run with the answer of Hermes about the task's run.  The row is still there:
\* a deletion waits until its task has ended.
Corrects(t, state) == state.status = "completed" /\ state.steer # {} /\ Authorised(Run(t))
Reports(t, state) == state.status \in Over /\ ~Corrects(t, state)
Final(t, state) == [row EXCEPT ![t].status = Outcome(state), ![t].steer = state.steer]
Retires(t) ==
  /\ granted' = granted \ {Run(t)}
  /\ slots' = slots \ {t}
  /\ UNCHANGED posts
GoesOn(t, state) ==
  \/ Corrects(t, state) /\ StartCorrection(t, state.steer)
  \/ /\ state.status \notin Over
     /\ row' = [row EXCEPT ![t].status = IF @ = "stopping" THEN @ ELSE "accepted"]
     /\ UNCHANGED <<granted, slots, posts>>

\* refresh takes run_lock and asks Hermes, unless there is nothing to ask.
Askable(t) == t \in Active(row) /\ row[t].run
Asks(p, t) ==
  /\ ~Locked(t) /\ Askable(t)
  /\ poll' = [poll EXCEPT ![p] = [task |-> t, state |-> native[Run(t)], text |-> {}]]

\* A status request of the caller, or the settling of a reset conversation.
StatusAsks(t) ==
  /\ gate.up /\ poll["status"] = NoPoll /\ bound.polls > 0
  /\ Asks("status", t)
  /\ bound' = [bound EXCEPT !.polls = @ - 1]
  /\ UNCHANGED <<row, granted, mapped, call, lapsed, slots, native, posts, stops, gate, watch, heard>>
StatusTakes ==
  LET p == poll["status"] IN
  /\ p # NoPoll
  /\ \/ GoesOn(p.task, p.state)
     \/ Reports(p.task, p.state) /\ row' = Final(p.task, p.state) /\ Retires(p.task)
  /\ poll' = [poll EXCEPT !["status"] = NoPoll]
  /\ UNCHANGED <<mapped, call, lapsed, native, stops, gate, watch, heard, bound>>

-----------------------------------------------------------------------------
(* The caller's other requests *)
\* continue: the task may go on after the call.
Continue(t) ==
  /\ Owned /\ bound.continues
  /\ t \in Active(row) /\ row[t].status # "stopping" /\ ~row[t].continued
  /\ row' = [row EXCEPT ![t].continued = TRUE, ![t].delivery = "pending"]
  /\ UNCHANGED <<granted, mapped, call, lapsed, slots, native, posts, stops, gate, watch, poll, heard, bound>>

\* steer, under run_lock: a run that works accepts the text and takes it when it can; one
\* that is over refuses (409) and is looked at once more.
Steer(t, c) ==
  LET r == Run(t) IN
  /\ Owned /\ c \notin heard.given /\ poll["steer"] = NoPoll /\ bound.steers > 0
  /\ ~Locked(t) /\ Askable(t) /\ row[t].status # "stopping"
  /\ IF native[r].status = "running"
     THEN /\ native' = [native EXCEPT ![r].steer = @ \cup {c}]
          /\ UNCHANGED poll
     ELSE /\ poll' = [poll EXCEPT !["steer"] = [task |-> t, state |-> native[r], text |-> {c}]]
          /\ UNCHANGED native
  /\ heard' = [heard EXCEPT !.given = @ \cup {c}]
  /\ bound' = [bound EXCEPT !.steers = @ - 1]
  /\ UNCHANGED <<row, granted, mapped, call, lapsed, slots, posts, stops, gate, watch>>

\* Only a run that completed with nothing untaken is followed by the correction.
SteerFollows ==
  LET p == poll["steer"] IN
  /\ p # NoPoll
  /\ IF /\ p.state.status = "completed" /\ p.state.steer = {}
        /\ Has(row, p.task) /\ Authorised(Run(p.task))
     THEN StartCorrection(p.task, p.text)
     ELSE UNCHANGED <<row, granted, slots, posts>>
  /\ poll' = [poll EXCEPT !["steer"] = NoPoll]
  /\ UNCHANGED <<mapped, call, lapsed, native, stops, gate, watch, heard, bound>>

\* The caller's conversation is deleted, or archived (session_control): retired first, then
\* its tasks are stopped in turn, each stop awaited, then they settle.
Reset ==
  /\ Owned /\ gate.op = NoOp /\ bound.resets
  /\ call' = [call EXCEPT !.active = FALSE]
  /\ gate' = [gate EXCEPT !.op = [NoOp EXCEPT !.kind = "reset", !.todo = Active(row)]]
  /\ UNCHANGED <<row, granted, mapped, lapsed, slots, native, posts, stops, watch, poll, heard, bound>>
ResetStops ==
  LET t == Min(gate.op.todo) IN
  /\ gate.op.kind = "reset" /\ gate.op.todo # {}
  /\ gate.op.task # 0 => Run(gate.op.task) \notin stops
  /\ gate' = [gate EXCEPT !.op.todo = @ \ {t}, !.op.task = t]
  /\ IF t \in Active(row) THEN Stopped(t) ELSE UNCHANGED <<row, granted, slots, stops>>
  /\ UNCHANGED <<mapped, call, lapsed, native, posts, watch, poll, heard, bound>>
Cleared == [t \in Tasks |-> IF Has(row, t) THEN [NoRow EXCEPT !.status = "deleted"] ELSE row[t]]
\* settle_conversation has seen every task end, and the rows go; or it gave up, or the
\* conversation was only archived.
ResetEnds(deletes) ==
  /\ gate.op.kind = "reset" /\ gate.op.todo = {}
  /\ gate.op.task # 0 => Run(gate.op.task) \notin stops
  /\ deletes => Active(row) = {}
  /\ row' = IF deletes THEN Cleared ELSE row
  /\ gate' = [gate EXCEPT !.op = NoOp]
  /\ UNCHANGED <<granted, mapped, call, lapsed, slots, native, posts, stops, watch, poll, heard, bound>>

HangUp ==
  /\ bound.hangs /\ call.parent
  /\ call' = [call EXCEPT !.parent = FALSE]
  /\ UNCHANGED <<row, granted, mapped, lapsed, slots, native, posts, stops, gate, watch, poll, heard, bound>>
Lapse(t) ==
  /\ bound.lapses /\ Has(row, t) /\ row[t].continued /\ t \notin lapsed
  /\ lapsed' = lapsed \cup {t}
  /\ UNCHANGED <<row, granted, mapped, call, slots, native, posts, stops, gate, watch, poll, heard, bound>>

-----------------------------------------------------------------------------
(* watch(): the observer, one row after the other *)
WatchBegins ==
  LET rows == [t \in Tasks |-> IF Has(row, t) THEN row[t] ELSE NoRow] IN
  /\ gate.up /\ watch.pc = "asleep" /\ \E t \in Tasks : Has(row, t)
  /\ watch' = NextRow([NoWatch EXCEPT !.rows = rows])
  /\ UNCHANGED <<row, granted, mapped, call, lapsed, slots, native, posts, stops, gate, poll, heard, bound>>

WatchAt(pc) == watch.pc = pc
Seen == watch.rows[watch.task]

\* The notice of a finished task is claimed in the row before it is sent.
Claims(R, t) == [R EXCEPT ![t].delivery = "uncertain"]
\* Mutant: a notice whose outcome is not known is sent again.
NotifiableAgain(r) == r.status \in TERMINAL /\ r.continued /\ r.delivery \in {"pending", "uncertain"}
Notifiable(r) == r.status \in TERMINAL /\ r.continued /\ r.delivery = "pending"
\* The watch is done with its row, of which it knows r; R is the table by now.
Passes(R, r) ==
  LET t == watch.task IN
  /\ watch' = NextRow(watch)
  /\ IF Notifiable(r) /\ Has(R, t)
     THEN /\ row' = Claims(R, t)
          /\ gate' = [gate EXCEPT !.sending[t] = "claimed"]
     ELSE row' = R /\ UNCHANGED gate

\* A row that has ended is only looked at for its notice, as it was when the pass began.
WatchPasses ==
  /\ WatchAt("row") /\ Seen.status \in TERMINAL
  /\ Passes(row, Seen)
  /\ UNCHANGED <<granted, mapped, call, lapsed, slots, native, posts, stops, poll, heard, bound>>

\* A task whose call or continuation is over, as the pass saw it, is stopped.
WatchStops ==
  LET t == watch.task IN
  /\ WatchAt("row") /\ Seen.status \notin TERMINAL /\ ~Entitled(watch.rows, t)
  /\ IF t \in Active(row) THEN Stopped(t) ELSE UNCHANGED <<row, granted, slots, stops>>
  /\ watch' = IF ~Has(row, t) THEN NextRow(watch)
              ELSE [watch EXCEPT !.pc = IF t \in Active(row) /\ row[t].run THEN "stopping" ELSE "refresh"]
  /\ UNCHANGED <<mapped, call, lapsed, native, posts, gate, poll, heard, bound>>
WatchKeeps ==
  /\ WatchAt("row") /\ Seen.status \notin TERMINAL /\ Entitled(watch.rows, watch.task)
  /\ watch' = [watch EXCEPT !.pc = "refresh"]
  /\ UNCHANGED <<row, granted, mapped, call, lapsed, slots, native, posts, stops, gate, poll, heard, bound>>

\* run_lock is taken, or waited for.
WatchWaits ==
  /\ WatchAt("refresh") /\ Locked(watch.task)
  /\ watch' = [watch EXCEPT !.pc = "waiting"]
  /\ UNCHANGED <<row, granted, mapped, call, lapsed, slots, native, posts, stops, gate, poll, heard, bound>>
Refreshing == watch.pc \in {"refresh", "waiting"}
WatchAsks ==
  /\ Refreshing
  /\ Asks("watch", watch.task)
  /\ watch' = [watch EXCEPT !.pc = "asking"]
  /\ UNCHANGED <<row, granted, mapped, call, lapsed, slots, native, posts, stops, gate, heard, bound>>
\* There is nothing to ask: the row is as refresh found it, or deleted.
WatchSkips ==
  LET t == watch.task IN
  /\ Refreshing /\ ~Locked(t) /\ ~Askable(t)
  /\ Passes(row, row[t])
  /\ UNCHANGED <<granted, mapped, call, lapsed, slots, native, posts, stops, poll, heard, bound>>
WatchTakes ==
  LET t == watch.task
      state == poll["watch"].state
  IN  /\ WatchAt("asking")
      /\ poll' = [poll EXCEPT !["watch"] = NoPoll]
      /\ \/ /\ Reports(t, state) /\ Retires(t)
            /\ Passes(Final(t, state), Final(t, state)[t])
         \/ /\ GoesOn(t, state)
            /\ watch' = NextRow(watch)
            /\ UNCHANGED gate
      /\ UNCHANGED <<mapped, call, lapsed, native, stops, heard, bound>>
\* Hermes does not answer a refresh: the row stays as it is.
AskLost(p) ==
  /\ p # "steer" /\ poll[p] # NoPoll /\ bound.faults > 0
  /\ poll' = [poll EXCEPT ![p] = NoPoll]
  /\ watch' = IF p = "watch" THEN NextRow(watch) ELSE watch
  /\ bound' = [bound EXCEPT !.faults = @ - 1]
  /\ UNCHANGED <<row, granted, mapped, call, lapsed, slots, native, posts, stops, gate, heard>>

\* deliver(): one message, to the caller's configured destination; its outcome may stay
\* unknown, and is recorded only when it is known.
DeliverSends(t) ==
  /\ gate.sending[t] = "claimed"
  /\ \/ /\ row[t].delivery = "uncertain" /\ call.active
        /\ heard' = [heard EXCEPT !.notices[t] = @ + 1]
        /\ \E outcome \in {"sent"} \cup (IF bound.faults > 0 THEN {"none"} ELSE {}) :
             /\ gate' = [gate EXCEPT !.sending[t] = outcome]
             /\ bound' = IF outcome = "none" THEN [bound EXCEPT !.faults = @ - 1] ELSE bound
     \/ /\ ~(row[t].delivery = "uncertain" /\ call.active)
        /\ gate' = [gate EXCEPT !.sending[t] = "none"]
        /\ UNCHANGED <<heard, bound>>
  /\ UNCHANGED <<row, granted, mapped, call, lapsed, slots, native, posts, stops, watch, poll>>
DeliverRecords(t) ==
  /\ gate.sending[t] = "sent"
  /\ gate' = [gate EXCEPT !.sending[t] = "none"]
  /\ row' = IF Has(row, t) THEN [row EXCEPT ![t].delivery = "sent"] ELSE row
  /\ UNCHANGED <<granted, mapped, call, lapsed, slots, native, posts, stops, watch, poll, heard, bound>>

-----------------------------------------------------------------------------
(* Hermes, other gateways, crashes *)
\* A run takes the texts it was steered with, or ends without them.
NativeTakes(r) ==
  /\ native[r].status = "running" /\ native[r].steer # {}
  /\ heard' = [heard EXCEPT !.taken =
       [c \in Corrections |-> @[c] + (IF c \in native[r].steer THEN 1 ELSE 0)]]
  /\ native' = [native EXCEPT ![r].steer = {}]
  /\ UNCHANGED <<row, granted, mapped, call, lapsed, slots, posts, stops, gate, watch, poll, bound>>
NativeEnds(r, status) ==
  /\ native[r].status = "running"
  /\ native' = [native EXCEPT ![r].status = status]
  /\ UNCHANGED <<row, granted, mapped, call, lapsed, slots, posts, stops, gate, watch, poll, heard, bound>>

\* The slots of another gateway are counted by a number that is no task.
PeerReserves ==
  /\ bound.peers > 0 /\ Cardinality(slots) < Limit /\ 0 \notin slots
  /\ slots' = slots \cup {0}
  /\ bound' = [bound EXCEPT !.peers = @ - 1]
  /\ UNCHANGED <<row, granted, mapped, call, lapsed, native, posts, stops, gate, watch, poll, heard>>
PeerReleases ==
  /\ 0 \in slots
  /\ slots' = slots \ {0}
  /\ UNCHANGED <<row, granted, mapped, call, lapsed, native, posts, stops, gate, watch, poll, heard, bound>>

\* The gateway goes down, and with it every request, delivery and native worker.
Crash ==
  /\ gate.up /\ bound.crashes > 0
  /\ gate' = [up |-> FALSE, op |-> NoOp, sending |-> [t \in Tasks |-> "none"]]
  /\ posts' = [r \in Runs |-> NoPost]
  /\ stops' = {} /\ watch' = NoWatch /\ poll' = [p \in Pollers |-> NoPoll]
  /\ native' = [r \in Runs |-> IF native[r].status = "running"
                               THEN [native[r] EXCEPT !.status = "interrupted"] ELSE native[r]]
  /\ bound' = [bound EXCEPT !.crashes = @ - 1]
  /\ UNCHANGED <<row, granted, mapped, call, lapsed, slots, heard>>

Reconciled(R) == (slots \cap {0}) \cup Active(R)
\* start(): an admission that was not confirmed is uncertain, never repeated; the slots
\* become those of the active rows.
Restart ==
  LET lost == {t \in Active(row) : ~row[t].run} IN
  /\ ~gate.up
  /\ gate' = [gate EXCEPT !.up = TRUE]
  /\ row' = [t \in Tasks |-> IF t \in lost THEN [row[t] EXCEPT !.status = "uncertain"] ELSE row[t]]
  /\ granted' = granted \ {Run(t) : t \in lost}
  /\ slots' = Reconciled(row')
  /\ UNCHANGED <<mapped, call, lapsed, native, posts, stops, watch, poll, heard, bound>>

-----------------------------------------------------------------------------
Posts == \E r \in Runs : PostArrives(r) \/ PostHandled(r)
Answers == StatusTakes \/ SteerFollows \/ \E t \in Tasks : DeliverSends(t) \/ DeliverRecords(t)
Stopping == \E r \in Runs : StopArrives(r)
\* The watch, where it does not await: nothing else of the loop moves.
Running == watch.pc \in {"row", "refresh"}
Observes == \/ WatchBegins \/ WatchPasses \/ WatchStops \/ WatchKeeps \/ WatchWaits \/ WatchAsks
            \/ WatchSkips \/ WatchTakes
Requests ==
  \/ \E continued \in BOOLEAN, relation \in {"new", "independent", "follow_up"} : Submit(continued, relation)
  \/ SubmitReserves \/ Reset \/ ResetStops \/ \E deletes \in BOOLEAN : ResetEnds(deletes)
  \/ \E t \in Tasks : Cancel(t) \/ Continue(t) \/ StatusAsks(t) \/ \E c \in Corrections : Steer(t, c)
Events ==
  \/ HangUp \/ PeerReserves \/ PeerReleases \/ Crash
  \/ \E t \in Tasks : Lapse(t)
  \/ \E p \in Pollers : AskLost(p)
  \/ \E r \in Runs : \/ LaunchTimesOut(r) \/ PostRefused(r) \/ StopLost(r) \/ NativeTakes(r)
                     \/ \E status \in {"completed", "failed"} : NativeEnds(r, status)

Next ==
  \/ Observes
  \/ ~Running /\ (Posts \/ Answers \/ Stopping \/ Restart \/ Requests \/ Events)

Spec == Init /\ [][Next]_vars
\* The loop runs what is ready and Hermes answers, but for the lost answers; the caller need
\* not do anything, and no run need end by itself.
LiveSpec == Spec /\ WF_vars(Posts) /\ WF_vars(Answers) /\ WF_vars(Stopping) /\ WF_vars(Observes)
                 /\ WF_vars(Restart)

-----------------------------------------------------------------------------
(* Properties *)
TypeOK ==
  /\ \A t \in Tasks : /\ row[t].status \in Ended \cup {"absent", "submitting", "accepted", "deleted"}
                      /\ row[t].delivery \in {"none", "not_requested", "pending", "cancelled", "uncertain", "sent"}
  /\ granted \subseteq Runs /\ mapped \subseteq Runs /\ stops \subseteq Runs
  /\ slots \subseteq Tasks \cup {0} /\ lapsed \subseteq Tasks
  /\ \A r \in Runs : native[r].status \in Over \cup {"none", "running"}
  /\ bound \in Scenario

\* A run that may use tools has its task's slot, and no more of them than the limit
\* run at once, whatever other gateways, late admissions and restarts do.
CapacityHeld ==
  LET able == {r \in Runs : Authorised(r)} IN
  /\ \A r \in able : r[1] \in slots
  /\ Cardinality(able) <= Limit

\* No two runs that may use tools work on the same native session.
OneRunPerSession ==
  \A r, s \in Runs : Authorised(r) /\ Authorised(s) /\ r # s => row[r[1]].session # row[s[1]].session

\* A correction reaches the work once at most, by the run it was sent to or by the
\* one that follows, and a task is completed only when it took all it had accepted.
CorrectedOnce == \A c \in Corrections : heard.taken[c] <= 1
CompletedMeansTaken ==
  \A t \in Tasks : row[t].status = "completed" =>
    /\ native[Run(t)].status = "completed"
    /\ \A a \in Attempts : native[<<t, a>>].steer \subseteq
         {c \in Corrections : a < row[t].attempt /\ heard.taken[c] = 1}

\* The result of a continued task is sent once at most, over crashes and lost answers.
NoticeOnce == \A t \in Tasks : heard.notices[t] <= 1

\* What every state satisfies: the types, and the five above.
Inv == TypeOK /\ CapacityHeld /\ OneRunPerSession /\ CorrectedOnce /\ CompletedMeansTaken /\ NoticeOnce

\* A task that was told to stop or reported as ended never gets a run that may act,
\* however late its admission is confirmed.
EndedStays ==
  [][\A t \in Tasks : row[t].status \in Ended => row'[t].status \in Ended \cup {"deleted"}]_vars

\* A task whose call, or whose continuation, is over comes to its end: its run no
\* longer works and its slot is free.
Settled(t) ==
  Has(row, t) /\ ~Entitled(row, t) =>
    row[t].status \in TERMINAL /\ t \notin slots /\ native[Run(t)].status # "running"
Settles == <>[](\A t \in Tasks : Settled(t))

\* The observer stops no task that may go on: "Hangup stops call-bound work; authorized
\* continued work retains its separate bounded grant" (docs/phone-routing.md:710).
ContinuationKept == [][WatchStops => \A t \in Active(row) : row'[t] # row[t] => ~Entitled(row, t)]_vars
=============================================================================
