-------------------------- MODULE PhoneTasksProofs --------------------------
(***************************************************************************)
(* PhoneTasks for any number of requests and corrections, any capacity and  *)
(* any scenario: what every state satisfies, and that a task which ended    *)
(* stays ended.                                                             *)
(*                                                                         *)
(* The argument: a run that may act is the run of a row that works, because *)
(* a binding is taken from the old run when the row moves to a new one; the *)
(* rows that work hold a slot each, and only an admission adds one.  A text *)
(* of the caller that no run took is in one place, a run, a post or the     *)
(* correction under way, and every attempt after the first has used one up. *)
(***************************************************************************)
EXTENDS PhoneTasks, FiniteSetTheorems, WellFoundedInduction, TLAPS

-----------------------------------------------------------------------------
(* The types *)

Statuses == Ended \cup {"absent", "submitting", "accepted", "deleted"}
Deliveries == {"none", "not_requested", "pending", "cancelled", "uncertain", "sent"}
RowType == [status : Statuses, attempt : Attempts, run : BOOLEAN, continued : BOOLEAN,
            delivery : Deliveries, steer : SUBSET Corrections, session : 0..MaxTask]
NativeType == [status : Over \cup {"none", "running"}, steer : SUBSET Corrections]
PostType == [client : BOOLEAN, server : {"none", "arriving", "handling"}, text : SUBSET Corrections]
OpType == [kind : {"none", "submit", "reset"}, task : 0..MaxTask, continued : BOOLEAN,
           session : 0..MaxTask, todo : SUBSET Tasks]
GateType == [up : BOOLEAN, op : OpType, sending : [Tasks -> {"none", "claimed", "sent"}]]
WatchType == [pc : {"asleep", "row", "refresh", "waiting", "asking", "stopping"},
              task : 0..MaxTask, rows : [Tasks -> RowType]]
PollType == [task : 0..MaxTask, state : NativeType, text : SUBSET Corrections]
HeardType == [taken : [Corrections -> Nat], notices : [Tasks -> Nat], given : SUBSET Corrections]

\* The registry and the runs; the gateway that works on them.
TablesTyped ==
  /\ row \in [Tasks -> RowType]
  /\ granted \subseteq Runs /\ mapped \subseteq Runs /\ stops \subseteq Runs
  /\ slots \subseteq Tasks \cup {0} /\ lapsed \subseteq Tasks
  /\ native \in [Runs -> NativeType] /\ posts \in [Runs -> PostType]
LoopTyped ==
  /\ call \in [parent : BOOLEAN, active : BOOLEAN]
  /\ gate \in GateType /\ watch \in WatchType /\ poll \in [Pollers -> PollType]
  /\ heard \in HeardType /\ bound \in Scenario
Types == TablesTyped /\ LoopTyped

-----------------------------------------------------------------------------
(* The invariant *)

\* The tasks that work: they have not been told to stop.
Working(R) == {t \in Tasks : Has(R, t) /\ R[t].status \notin Ended}

\* The request that holds admission_lock, over the await in it.  A reset retires the
\* conversation before it deletes a row.
OpOK ==
  LET op == gate.op IN
  /\ op.kind = "submit" => /\ op.task \in Tasks /\ row[op.task] = NoRow
                           /\ \A u \in Working(row) : row[u].session # op.session
  /\ op.kind = "reset" => ~call.active
  /\ \A t \in Tasks : row[t].status = "deleted" => ~call.active

\* Whoever holds a run_lock asks about a task whose run is known and that has not been
\* reported; nobody else does.
PollsOK ==
  /\ \A p \in Pollers : poll[p].task = 0 => poll[p] = NoPoll
  /\ \A p \in Pollers : poll[p].task # 0 => Askable(poll[p].task)
  /\ \A p, q \in Pollers : p # q /\ poll[p].task # 0 => poll[p].task # poll[q].task
  /\ \A p \in Pollers : poll[p].task # 0 => (poll[p].text # {} <=> p = "steer")
  /\ watch.pc = "asleep" \/ watch.task \in Tasks
  /\ watch.pc = "asking" => poll["watch"].task = watch.task

\* A run that is mapped and granted is the one of its row.
BindingsOK ==
  /\ \A r \in mapped : row[r[1]].status # "absent" /\ (Has(row, r[1]) => r[2] <= row[r[1]].attempt)
  /\ call.active => \A r \in mapped \cap granted : Has(row, r[1]) /\ row[r[1]].run /\ Run(r[1]) = r

\* The tasks that work have slots, and sessions of their own.
SlotsOK ==
  /\ Working(row) \subseteq slots
  /\ Cardinality(Working(row)) <= Limit
  /\ \A t, u \in Working(row) : t # u => row[t].session # row[u].session

\* A notice is pending, in the row or in the observer's copy of it, only before it is
\* claimed, and it is claimed when the task has ended.
Unsent(t) == heard.notices[t] = 0 /\ gate.sending[t] = "none"
Gone(t) == row[t].status \in Ended \cup {"deleted"}
NoticesOK == \A t \in Tasks :
  /\ heard.notices[t] <= 1
  /\ gate.sending[t] = "claimed" => heard.notices[t] = 0
  /\ ~Unsent(t) => Gone(t)
  /\ row[t].delivery = "pending" => Unsent(t)
  /\ watch.rows[t].delivery = "pending" => Unsent(t)
  /\ watch.rows[t].status \in TERMINAL => Gone(t)

\* The runs of a task: those before the row's completed, the later ones do not exist.
\* Only the run that the row waits for is being posted.
RunOK(t, a) ==
  LET r == <<t, a>> IN
  /\ posts[r].server = "none" => posts[r] = NoPost
  /\ posts[r].server # "none" => native[r] = NoRun
  /\ row[t].status # "deleted" =>
       /\ a # row[t].attempt \/ row[t].run \/ row[t].status = "absent" => posts[r] = NoPost
       /\ a > row[t].attempt \/ (a = row[t].attempt /\ ~row[t].run) => native[r] = NoRun
       /\ a < row[t].attempt => native[r].status = "completed"
RunsOK == \A t \in Tasks, a \in Attempts : RunOK(t, a)
\* What Hermes answered about a run that is over is still so when the answer is used.
AnswersOK == \A p \in Pollers :
  poll[p].task # 0 /\ poll[p].state.status \in Over => native[Run(poll[p].task)] = poll[p].state

\* The places of a text that is not taken.
Current(r) == Has(row, r[1]) /\ Run(r[1]) = r
InRun(c, r) == c \in native[r].steer /\ (native[r].status = "running" \/ Current(r))
InPost(c, r) == c \in posts[r].text
InPoll(c) == c \in poll["steer"].text
TextOK(c) ==
  /\ heard.taken[c] <= 1
  /\ heard.taken[c] = 1 => c \in heard.given
  /\ InPoll(c) \/ (\E r \in Runs : InRun(c, r) \/ InPost(c, r)) => c \in heard.given /\ heard.taken[c] = 0
  /\ \A r, s \in Runs : /\ InRun(c, r) /\ InRun(c, s) => r = s
                        /\ InPost(c, r) /\ InPost(c, s) => r = s
                        /\ ~(InRun(c, r) /\ InPost(c, s))
  /\ \A r \in Runs : ~(InPoll(c) /\ (InRun(c, r) \/ InPost(c, r)))
TextsOK == \A c \in Corrections : TextOK(c)

\* What a run ended without is taken by the next, or on its way to it.
Taken == {c \in Corrections : heard.taken[c] = 1}
ChainOK == \A t \in Tasks : Has(row, t) =>
  /\ \A a \in Attempts : a < row[t].attempt =>
       IF a + 1 < row[t].attempt \/ row[t].run
       THEN native[<<t, a>>].steer \subseteq Taken
       ELSE posts[Run(t)].server # "none" => native[<<t, a>>].steer \subseteq posts[Run(t)].text
  /\ row[t].status = "completed" =>
       row[t].run /\ native[Run(t)].status = "completed" /\ native[Run(t)].steer = {}

\* Every attempt after the first has used up a text.
Waiting == {c \in Corrections : InPoll(c) \/ \E t \in Tasks : Has(row, t) /\ c \in native[Run(t)].steer}
AttemptsOK == \A t \in Tasks : row[t].attempt <= Cardinality(heard.given \ Waiting)

IInv == /\ Types /\ OpOK /\ PollsOK /\ BindingsOK /\ SlotsOK /\ NoticesOK
        /\ RunsOK /\ AnswersOK /\ TextsOK /\ ChainOK /\ AttemptsOK

-----------------------------------------------------------------------------
(* What a step does to the registry, the runs and the answers.  Forty actions do
   fifteen things. *)

Texts == <<heard.taken, heard.given>>
Retiring == call'.active => call.active

ENothing ==
  /\ slots' \cap Tasks = slots \cap Tasks /\ slots' \subseteq slots \cup {0}
  /\ UNCHANGED <<row, granted, mapped, native, posts, poll, Texts>>
EReserves(t) ==
  LET op == gate.op IN
  /\ op.kind = "submit" /\ t = op.task /\ Cardinality(slots) < Limit /\ gate'.op = NoOp
  /\ slots' = slots \cup {t} /\ granted' = granted \cup {<<t, 0>>}
  /\ row' = [row EXCEPT ![t] =
       [NoRow EXCEPT !.status = "submitting", !.continued = op.continued, !.session = op.session,
                     !.delivery = IF op.continued THEN "pending" ELSE "not_requested"]]
  /\ posts' = [posts EXCEPT ![<<t, 0>>] = [NoPost EXCEPT !.client = TRUE, !.server = "arriving"]]
  /\ UNCHANGED <<mapped, native, poll, Texts>>
\* The answer of POST v1/runs is a failure, or none, or the run is let in.
EAnswers(r) ==
  /\ posts[r].server # "none"
  /\ LaunchFails(r) \/ UNCHANGED <<row, granted, slots>>
  /\ \/ posts' = [posts EXCEPT ![r] = NoPost]
     \/ posts' = [posts EXCEPT ![r].client = FALSE]
     \/ posts' = [posts EXCEPT ![r].server = "handling"]
  /\ UNCHANGED <<mapped, native, poll, Texts>>
EHandles(r) == PostHandled(r)
EStops(t) == t \in Active(row) /\ Stopped(t) /\ UNCHANGED <<mapped, native, posts, poll, Texts>>
\* A refresh gets its answer, and sends a correction after it, reports it, or waits on.
ECorrects(p) ==
  LET t == poll[p].task IN
  /\ p # "steer" /\ t # 0 /\ Corrects(t, poll[p].state) /\ StartCorrection(t, poll[p].state.steer)
  /\ poll' = [poll EXCEPT ![p] = NoPoll] /\ UNCHANGED <<mapped, native, Texts>>
EReports(p) ==
  LET t == poll[p].task
      state == poll[p].state
  IN  /\ p # "steer" /\ t # 0 /\ state.status \in Over /\ Retires(t)
      /\ row' = Final(t, state) \/ row' = Claims(Final(t, state), t)
      /\ poll' = [poll EXCEPT ![p] = NoPoll] /\ UNCHANGED <<mapped, native, Texts>>
EContinues(p) ==
  LET t == poll[p].task IN
  /\ p # "steer" /\ t # 0 /\ poll[p].state.status \notin Over
  /\ row' = [row EXCEPT ![t].status = IF @ = "stopping" THEN @ ELSE "accepted"]
  /\ poll' = [poll EXCEPT ![p] = NoPoll]
  /\ UNCHANGED <<granted, mapped, slots, native, posts, Texts>>
EFollows ==
  LET t == poll["steer"].task
      state == poll["steer"].state
  IN  /\ t # 0 /\ state.status = "completed" /\ state.steer = {}
      /\ Authorised(Run(t)) /\ StartCorrection(t, poll["steer"].text)
      /\ poll' = [poll EXCEPT !["steer"] = NoPoll] /\ UNCHANGED <<mapped, native, Texts>>
EDrops(p) ==
  /\ poll' = [poll EXCEPT ![p] = NoPoll]
  /\ UNCHANGED <<row, granted, mapped, slots, native, posts, Texts>>
EAsks(p, t) ==
  /\ p # "steer" /\ Asks(p, t)
  /\ UNCHANGED <<row, granted, mapped, slots, native, posts, Texts>>
ESteers(t, c) == Steer(t, c)
\* Columns of the row that only the notice is about.
EMarks(t, continued, delivery) ==
  /\ Has(row, t) /\ row' = [row EXCEPT ![t].continued = continued, ![t].delivery = delivery]
  /\ delivery = "pending" => t \in Active(row) /\ row[t].status # "stopping"
  /\ UNCHANGED <<granted, mapped, slots, native, posts, poll, Texts>>
EClears ==
  /\ Active(row) = {} /\ gate.op.kind = "reset" /\ row' = Cleared
  /\ UNCHANGED <<granted, mapped, slots, native, posts, poll, Texts>>
ERestarts == Restart
ECrashes == Crash
\* A run takes its texts, or comes to its end.
ETakes(r) == NativeTakes(r)
EEnds(r, status) ==
  /\ native[r].status = "running" /\ native' = [native EXCEPT ![r].status = status]
  /\ UNCHANGED <<row, granted, mapped, slots, posts, poll, Texts>>

Effect ==
  \/ ENothing \/ EFollows \/ EClears \/ ERestarts \/ ECrashes
  \/ \E r \in Runs : EAnswers(r) \/ EHandles(r) \/ ETakes(r) \/ \E status \in Over : EEnds(r, status)
  \/ \E p \in Pollers : ECorrects(p) \/ EReports(p) \/ EContinues(p) \/ EDrops(p)
  \/ \E t \in Tasks : \/ EReserves(t) \/ EStops(t)
                      \/ \E p \in Pollers : EAsks(p, t)
                      \/ \E c \in Corrections : ESteers(t, c)
                      \/ \E continued \in BOOLEAN, delivery \in Deliveries : EMarks(t, continued, delivery)

LEMMA Effects ==
  ASSUME Types, OpOK, PollsOK, RunsOK, [Next]_vars
  PROVE  Effect /\ Retiring
<1> USE DEF Retiring, Texts
<1>r. row \in [Tasks -> RowType] /\ posts \in [Runs -> PostType] /\ native \in [Runs -> NativeType]
  BY DEF Types, TablesTyped
<1>p. poll \in [Pollers -> PollType] /\ call \in [parent : BOOLEAN, active : BOOLEAN]
  BY DEF Types, LoopTyped
<1>w. watch \in WatchType /\ (watch.pc = "asleep" \/ watch.task \in Tasks)
  BY DEF Types, LoopTyped, PollsOK
<1>0. CASE UNCHANGED vars
  BY <1>0 DEF vars, Effect, ENothing
<1>1. CASE WatchBegins \/ WatchKeeps \/ WatchWaits \/ HangUp \/ PeerReserves \/ PeerReleases \/ Reset
           \/ \E t \in Tasks : DeliverSends(t) \/ Lapse(t)
  <2>1. slots' \cap Tasks = slots \cap Tasks /\ slots' \subseteq slots \cup {0}
    BY <1>1 DEF WatchBegins, WatchKeeps, WatchWaits, HangUp, PeerReserves, PeerReleases, Reset,
             DeliverSends, Lapse, Tasks
  <2>2. UNCHANGED <<row, granted, mapped, native, posts, poll>>
    BY <1>1 DEF WatchBegins, WatchKeeps, WatchWaits, HangUp, PeerReserves, PeerReleases, Reset,
             DeliverSends, Lapse
  <2>3. heard'.taken = heard.taken /\ heard'.given = heard.given
    <3>1. ASSUME NEW t \in Tasks, DeliverSends(t) PROVE heard'.taken = heard.taken /\ heard'.given = heard.given
      BY <3>1 DEF DeliverSends, Types, LoopTyped, HeardType
    <3> QED
      BY <1>1, <3>1 DEF WatchBegins, WatchKeeps, WatchWaits, HangUp, PeerReserves, PeerReleases, Reset, Lapse
  <2>4. Retiring
    BY <1>1, <1>p DEF WatchBegins, WatchKeeps, WatchWaits, HangUp, PeerReserves, PeerReleases, Reset,
             DeliverSends, Lapse
  <2> QED BY <2>1, <2>2, <2>3, <2>4 DEF Effect, ENothing
<1>2. CASE \/ \E continued \in BOOLEAN, relation \in {"new", "independent", "follow_up"} : Submit(continued, relation)
           \/ \E r \in Runs : StopLost(r)
  BY <1>2 DEF Submit, StopLost, Effect, ENothing
<1>3. CASE SubmitReserves
  <2>1. gate'.op = NoOp
    BY <1>3 DEF SubmitReserves, Types, LoopTyped, GateType
  <2> QED BY <1>3, <2>1 DEF SubmitReserves, Reserved, Effect, ENothing, EReserves, OpOK
<1>4. CASE \E r \in Runs : LaunchTimesOut(r) \/ PostArrives(r) \/ PostRefused(r)
  <2>1. PICK r \in Runs : LaunchTimesOut(r) \/ PostArrives(r) \/ PostRefused(r)
    BY <1>4
  <2>2. posts[r].server # "none"
    <3>1. r = <<r[1], r[2]>> /\ r[1] \in Tasks /\ r[2] \in Attempts
      BY DEF Runs
    <3>2. posts[r].server = "none" => posts[r] = NoPost
      BY <3>1 DEF RunsOK, RunOK
    <3> QED BY <2>1, <3>2 DEF LaunchTimesOut, PostArrives, PostRefused, NoPost
  <2>3. EAnswers(r) /\ UNCHANGED call
    BY <2>1, <2>2 DEF LaunchTimesOut, PostArrives, PostRefused, Refused, EAnswers
  <2> QED BY <2>3 DEF Effect
<1>5. CASE \E r \in Runs : PostHandled(r) \/ NativeTakes(r)
  BY <1>5 DEF Effect, EHandles, ETakes, PostHandled, NativeTakes
<1>6. CASE (\E t \in Tasks : Cancel(t)) \/ ResetStops \/ WatchStops
  BY <1>6 DEF Cancel, ResetStops, WatchStops, Effect, EStops, ENothing, Active
<1>7. CASE StatusTakes
  <2>1. poll["status"].task # 0
    BY <1>7 DEF StatusTakes, PollsOK, Pollers
  <2>2. ECorrects("status") \/ EReports("status") \/ EContinues("status")
    BY <1>7, <2>1 DEF StatusTakes, ECorrects, EReports, EContinues, GoesOn, Reports
  <2> QED BY <1>7, <2>2 DEF StatusTakes, Effect, Pollers
<1>8. CASE WatchTakes
  <2>1. poll["watch"].task # 0 /\ poll["watch"].task = watch.task
    BY <1>8, <1>w DEF WatchTakes, WatchAt, PollsOK, Tasks
  <2>2. ECorrects("watch") \/ EReports("watch") \/ EContinues("watch")
    BY <1>8, <2>1 DEF WatchTakes, ECorrects, EReports, EContinues, GoesOn, Reports, Passes
  <2> QED BY <1>8, <2>2 DEF WatchTakes, Effect, Pollers
<1>9. CASE SteerFollows
  BY <1>9 DEF SteerFollows, EFollows, EDrops, Effect, Pollers, PollsOK
<1>10. CASE \E p \in Pollers : AskLost(p)
  BY <1>10 DEF AskLost, EDrops, Effect
<1>11. CASE WatchAsks \/ \E t \in Tasks : StatusAsks(t)
  <2>1. ASSUME WatchAsks PROVE Effect
    BY <2>1, <1>w DEF WatchAsks, Refreshing, EAsks, Effect, Pollers
  <2> QED BY <1>11, <2>1 DEF WatchAsks, StatusAsks, EAsks, Effect, Pollers
<1>12. CASE \E t \in Tasks, c \in Corrections : Steer(t, c)
  BY <1>12 DEF Steer, ESteers, Effect
<1>13. CASE \E t \in Tasks : Continue(t)
  <2>1. PICK t \in Tasks : Continue(t)
    BY <1>13
  <2>2. EMarks(t, TRUE, "pending")
    BY <2>1 DEF Continue, EMarks, Active
  <2> QED BY <2>1, <2>2 DEF Effect, Deliveries, Continue
<1>14. CASE \E t \in Tasks : DeliverRecords(t)
  <2>1. PICK t \in Tasks : DeliverRecords(t)
    BY <1>14
  <2>2. CASE ~Has(row, t)
    BY <2>1, <2>2 DEF DeliverRecords, Effect, ENothing
  <2>3. CASE Has(row, t)
    <3>1. row' = [row EXCEPT ![t].continued = row[t].continued, ![t].delivery = "sent"]
      BY <2>1, <2>3, <1>r DEF DeliverRecords, RowType
    <3>2. EMarks(t, row[t].continued, "sent")
      BY <2>1, <2>3, <3>1 DEF DeliverRecords, EMarks
    <3>3. row[t].continued \in BOOLEAN
      BY <1>r DEF RowType
    <3> QED BY <2>1, <3>2, <3>3 DEF Effect, Deliveries, DeliverRecords
  <2> QED BY <2>2, <2>3
<1>15. CASE WatchPasses \/ WatchSkips
  <2> DEFINE t == watch.task
  <2>1. t \in Tasks
    BY <1>15, <1>w DEF WatchPasses, WatchSkips, WatchAt, Refreshing
  <2>2. /\ UNCHANGED <<granted, mapped, slots, native, posts, poll, Texts, call>>
        /\ (row' = row) \/ (Has(row, t) /\ row' = Claims(row, t))
    BY <1>15 DEF WatchPasses, WatchSkips, Passes
  <2>3. CASE row' = row
    BY <2>2, <2>3 DEF Effect, ENothing
  <2>4. CASE Has(row, t) /\ row' = Claims(row, t)
    <3>1. row' = [row EXCEPT ![t].continued = row[t].continued, ![t].delivery = "uncertain"]
      BY <2>1, <2>4, <1>r DEF Claims, RowType
    <3>2. EMarks(t, row[t].continued, "uncertain")
      BY <2>2, <2>4, <3>1 DEF EMarks
    <3>3. row[t].continued \in BOOLEAN
      BY <1>r, <2>1 DEF RowType
    <3> QED BY <2>1, <2>2, <3>2, <3>3 DEF Effect, Deliveries
  <2> QED BY <2>2, <2>3, <2>4
<1>16. CASE \E deletes \in BOOLEAN : ResetEnds(deletes)
  BY <1>16 DEF ResetEnds, Effect, EClears, ENothing
<1>17. CASE Restart \/ Crash
  BY <1>17 DEF Restart, Crash, Effect, ERestarts, ECrashes
<1>18. CASE \E r \in Runs, status \in {"completed", "failed"} : NativeEnds(r, status)
  BY <1>18 DEF NativeEnds, EEnds, Effect, Over
<1>19. CASE \E r \in Runs : StopArrives(r)
  <2>1. PICK r \in Runs : StopArrives(r)
    BY <1>19
  <2>2. CASE native[r].status = "running"
    <3>1. EEnds(r, "cancelled")
      BY <2>1, <2>2, <1>r DEF StopArrives, EEnds
    <3> QED BY <2>1, <3>1 DEF Effect, Over, StopArrives
  <2>3. CASE native[r].status # "running"
    <3>1. native' = native
      BY <2>1, <2>3, <1>r DEF StopArrives, NativeType
    <3> QED BY <2>1, <3>1 DEF StopArrives, Effect, ENothing
  <2> QED BY <2>2, <2>3
<1> QED
  BY <1>0, <1>1, <1>2, <1>3, <1>4, <1>5, <1>6, <1>7, <1>8, <1>9, <1>10, <1>11, <1>12, <1>13, <1>14,
     <1>15, <1>16, <1>17, <1>18, <1>19
     DEF Next, Observes, Posts, Answers, Stopping, Requests, Events

-----------------------------------------------------------------------------
(* Corrections *)

LEMMA CorrectionsCounted ==
  /\ IsFiniteSet(Corrections) /\ Cardinality(Corrections) \in Nat
  /\ Attempts = 0..Cardinality(Corrections)
  /\ Attempts \subseteq Nat
<1>1. IsFiniteSet(Corrections)
  BY CorrectionsAssumption
<1>2. Cardinality(Corrections) \in Nat
  BY <1>1, FS_CardinalityType
<1> QED BY <1>1, <1>2 DEF Attempts

\* There is an attempt left for a text that waits.
LEMMA Room ==
  ASSUME Types, TextsOK, AttemptsOK, NEW t \in Tasks, NEW c \in Waiting, Waiting \subseteq heard.given
  PROVE  row[t].attempt + 1 \in Attempts
<1> DEFINE used == heard.given \ Waiting
           others == Corrections \ {c}
<1>1. heard.given \subseteq Corrections /\ row[t].attempt \in Nat
  BY CorrectionsCounted DEF Types, LoopTyped, HeardType, TablesTyped, RowType
<1>2. c \in Corrections
  BY DEF Waiting
<1>3. IsFiniteSet(others) /\ Cardinality(others) = Cardinality(Corrections) - 1
  BY <1>2, CorrectionsCounted, FS_RemoveElement
<1>4. Cardinality(used) <= Cardinality(others) /\ Cardinality(used) \in Nat
  <2>1. used \in SUBSET others
    BY <1>1
  <2>2. IsFiniteSet(used) /\ Cardinality(used) <= Cardinality(others)
    BY <2>1, <1>3, FS_Subset
  <2> QED BY <2>2, FS_CardinalityType
<1>5. row[t].attempt <= Cardinality(used)
  BY DEF AttemptsOK
<1> HIDE DEF used, others
<1> QED BY <1>1, <1>3, <1>4, <1>5, CorrectionsCounted

\* A correction follows run r of task t: the texts are those that r ended without, or the
\* one that came too late for r.
Follows(p, t, texts) ==
  /\ t = poll[p].task /\ Askable(t) /\ Authorised(Run(t))
  /\ row[t].attempt + 1 \in Attempts
  /\ texts # {} /\ texts \in SUBSET Waiting
  /\ \/ p # "steer" /\ texts = native[Run(t)].steer
     \/ p = "steer" /\ texts = poll["steer"].text /\ native[Run(t)].steer = {}
  /\ native[Run(t)].status = "completed"
  /\ StartCorrection(t, texts) /\ poll' = [poll EXCEPT ![p] = NoPoll]
  /\ UNCHANGED <<mapped, native, Texts>>

LEMMA RunIsRun ==
  ASSUME Types, NEW t \in Tasks
  PROVE  Run(t) \in Runs /\ row[t].attempt \in Attempts /\ Run(t)[1] = t /\ Run(t)[2] = row[t].attempt
BY DEF Types, TablesTyped, RowType, Run, Runs

LEMMA WaitingIsGiven ==
  ASSUME Types, TextsOK
  PROVE  Waiting \subseteq heard.given
<1> SUFFICES ASSUME NEW c \in Waiting PROVE c \in heard.given
  OBVIOUS
<1>1. CASE InPoll(c)
  BY <1>1 DEF TextsOK, TextOK, Waiting
<1>2. ASSUME NEW t \in Tasks, Has(row, t), c \in native[Run(t)].steer PROVE c \in heard.given
  <2>1. InRun(c, Run(t)) /\ Run(t) \in Runs
    BY <1>2, RunIsRun DEF InRun, Current
  <2> QED BY <2>1 DEF TextsOK, TextOK, Waiting
<1> QED BY <1>1, <1>2 DEF Waiting

LEMMA CorrectionFollows ==
  ASSUME Types, PollsOK, AnswersOK, TextsOK, AttemptsOK,
         EFollows \/ \E p \in Pollers : ECorrects(p)
  PROVE  \E p \in Pollers, t \in Tasks, texts \in SUBSET Corrections : Follows(p, t, texts)
<1>q. poll \in [Pollers -> PollType]
  BY DEF Types, LoopTyped
<1>w. Waiting \subseteq Corrections
  BY DEF Waiting
<1>1. CASE EFollows
  <2> DEFINE t == poll["steer"].task
             texts == poll["steer"].text
  <2>1. "steer" \in Pollers /\ t # 0
    BY <1>1 DEF EFollows, Pollers
  <2>2. Askable(t) /\ t \in Tasks /\ texts # {}
    BY <2>1 DEF PollsOK, Askable, Active
  <2>3. texts \in SUBSET Waiting
    BY <1>q, <2>1 DEF PollType, Waiting, InPoll
  <2>4. native[Run(t)] = poll["steer"].state
    BY <1>1, <2>1 DEF AnswersOK, EFollows, Over
  <2>5. row[t].attempt + 1 \in Attempts
    <3>1. PICK c \in texts : TRUE
      BY <2>2
    <3> HIDE DEF t, texts
    <3> QED BY <3>1, <2>2, <2>3, Room, WaitingIsGiven
  <2>6. Follows("steer", t, texts)
    BY <1>1, <2>2, <2>3, <2>4, <2>5 DEF Follows, EFollows
  <2> QED BY <2>1, <2>2, <2>3, <2>6, <1>w
<1>2. ASSUME NEW p \in Pollers, ECorrects(p)
      PROVE  \E t \in Tasks, texts \in SUBSET Corrections : Follows(p, t, texts)
  <2> DEFINE t == poll[p].task
             texts == poll[p].state.steer
  <2>1. t # 0 /\ poll[p].state.status = "completed" /\ texts # {}
    BY <1>2 DEF ECorrects, Corrects
  <2>2. Askable(t) /\ t \in Tasks
    BY <2>1 DEF PollsOK, Askable, Active
  <2>3. native[Run(t)] = poll[p].state
    BY <2>1 DEF AnswersOK, Over
  <2>4. texts \in SUBSET Corrections
    BY <1>q DEF PollType, NativeType
  <2>5. texts \in SUBSET Waiting
    BY <2>2, <2>3, <2>4 DEF Waiting, Askable, Active
  <2>6. row[t].attempt + 1 \in Attempts
    <3>1. PICK c \in texts : TRUE
      BY <2>1
    <3> HIDE DEF t, texts
    <3> QED BY <3>1, <2>2, <2>5, Room, WaitingIsGiven
  <2>7. Follows(p, t, texts)
    BY <1>2, <2>1, <2>2, <2>3, <2>5, <2>6 DEF Follows, ECorrects, Corrects
  <2> QED BY <2>2, <2>4, <2>7
<1> QED BY <1>1, <1>2 DEF Pollers

-----------------------------------------------------------------------------
(* The row that a step changes, field by field *)

\* Only the row of t changes, and these of its fields do not.
Only(t) == row' \in [Tasks -> RowType] /\ \A u \in Tasks : u # t => row'[u] = row[u]
SameRun(t) == row'[t].attempt = row[t].attempt /\ row'[t].run = row[t].run
SameNotice(t) == row'[t].delivery = row[t].delivery
SameSession(t) == row'[t].session = row[t].session

LEMMA OneRow ==
  ASSUME Types, NEW t \in Tasks, NEW x \in RowType, row' = [row EXCEPT ![t] = x]
  PROVE  Only(t) /\ row'[t] = x
BY DEF Types, TablesTyped, Only

LEMMA RowTyped ==
  ASSUME Types, NEW t \in Tasks
  PROVE  /\ row[t] \in RowType
         /\ row[t] = [status |-> row[t].status, attempt |-> row[t].attempt, run |-> row[t].run,
                      continued |-> row[t].continued, delivery |-> row[t].delivery,
                      steer |-> row[t].steer, session |-> row[t].session]
         /\ row[t].status \in Statuses /\ row[t].attempt \in Attempts /\ row[t].run \in BOOLEAN
         /\ row[t].continued \in BOOLEAN /\ row[t].delivery \in Deliveries
         /\ row[t].steer \in SUBSET Corrections /\ row[t].session \in 0..MaxTask
<1>1. row[t] \in RowType
  BY DEF Types, TablesTyped
<1> QED BY <1>1 DEF RowType

LEMMA ReservesRow ==
  ASSUME Types, OpOK, NEW t \in Tasks, EReserves(t)
  PROVE  /\ Only(t) /\ row[t] = NoRow /\ row'[t].status = "submitting"
         /\ row'[t].attempt = 0 /\ row'[t].run = FALSE /\ row'[t].session = gate.op.session
<1> DEFINE x == [NoRow EXCEPT !.status = "submitting", !.continued = gate.op.continued,
                              !.session = gate.op.session,
                              !.delivery = IF gate.op.continued THEN "pending" ELSE "not_requested"]
<1>1. gate.op.continued \in BOOLEAN /\ gate.op.session \in 0..MaxTask
  BY DEF Types, LoopTyped, GateType, OpType
<1>2. 0 \in Attempts
  BY CorrectionsCounted
<1>3. x \in RowType
  BY <1>1, <1>2 DEF RowType, NoRow, Statuses, Deliveries
<1>4. x.status = "submitting" /\ x.attempt = 0 /\ x.run = FALSE /\ x.session = gate.op.session
  BY DEF NoRow
<1>5. row' = [row EXCEPT ![t] = x] /\ row[t] = NoRow
  BY DEF EReserves, OpOK
<1> HIDE DEF x
<1> QED BY <1>3, <1>4, <1>5, OneRow

LEMMA AnswersRow ==
  ASSUME Types, NEW r \in Runs, EAnswers(r)
  PROVE  \/ UNCHANGED <<row, granted, slots>>
         \/ /\ Current(r) /\ ~row[r[1]].run
            /\ Only(r[1]) /\ SameRun(r[1]) /\ SameNotice(r[1]) /\ SameSession(r[1])
            /\ row'[r[1]].status = "uncertain"
            /\ granted' = granted \ {r} /\ slots' = slots \ {r[1]}
<1> DEFINE t == r[1]
           x == [row[t] EXCEPT !.status = "uncertain"]
<1>1. t \in Tasks
  BY DEF Runs
<1>2. CASE UNCHANGED <<row, granted, slots>>
  BY <1>2
<1>3. CASE ~ UNCHANGED <<row, granted, slots>>
  <2>1. LaunchFails(r) /\ Has(row, t) /\ Run(t) = r /\ ~row[t].run
    BY <1>3 DEF EAnswers, LaunchFails
  <2>2. row' = [row EXCEPT ![t] = x] /\ granted' = granted \ {r} /\ slots' = slots \ {t}
    BY <2>1 DEF LaunchFails
  <2>3. x \in RowType /\ x.status = "uncertain" /\ x.attempt = row[t].attempt /\ x.run = row[t].run
        /\ x.delivery = row[t].delivery /\ x.session = row[t].session
    BY <1>1, RowTyped DEF RowType, Statuses, Ended, TERMINAL
  <2> HIDE DEF x, t
  <2>4. Only(t) /\ row'[t] = x
    BY <1>1, <2>2, <2>3, OneRow
  <2> QED BY <2>1, <2>2, <2>3, <2>4 DEF t, Current, SameRun, SameNotice, SameSession
<1> QED BY <1>2, <1>3

LEMMA HandlesRow ==
  ASSUME Types, NEW r \in Runs, EHandles(r)
  PROVE  \/ ~Current(r) /\ UNCHANGED <<row, mapped>>
         \/ /\ Current(r)
            /\ Only(r[1]) /\ SameNotice(r[1]) /\ SameSession(r[1])
            /\ row'[r[1]].attempt = row[r[1]].attempt /\ row'[r[1]].run = TRUE
            /\ row'[r[1]].status = IF row[r[1]].status \in Ended THEN "stopping" ELSE "accepted"
<1> DEFINE t == r[1]
           status == IF row[t].status \in Ended THEN "stopping" ELSE "accepted"
           x == [row[t] EXCEPT !.run = TRUE, !.status = status]
<1>1. t \in Tasks
  BY DEF Runs
<1>2. CASE ~Current(r)
  BY <1>2 DEF EHandles, PostHandled, Current
<1>3. CASE Current(r)
  <2>1. row' = [row EXCEPT ![t] = x]
    BY <1>1, <1>3, RowTyped DEF EHandles, PostHandled, Current, Admitted
  <2>2. status \in Statuses
    BY DEF Statuses, Ended
  <2> HIDE DEF status
  <2>r. row[t] \in RowType
    BY <1>1, RowTyped
  <2>3. x \in RowType /\ x.status = status /\ x.attempt = row[t].attempt /\ x.run = TRUE
        /\ x.delivery = row[t].delivery /\ x.session = row[t].session
    BY <2>r, <2>2 DEF RowType
  <2> HIDE DEF x, t
  <2>4. Only(t) /\ row'[t] = x
    BY <1>1, <2>1, <2>3, OneRow
  <2> QED BY <1>3, <2>3, <2>4 DEF t, status, SameNotice, SameSession
<1> QED BY <1>2, <1>3

LEMMA StopsRow ==
  ASSUME Types, NEW t \in Tasks, EStops(t)
  PROVE  /\ t \in Active(row) /\ Only(t) /\ SameRun(t) /\ SameSession(t)
         /\ row'[t].status = IF row[t].run THEN "stopping" ELSE "cancelled"
         /\ row'[t].delivery = "cancelled"
         /\ granted' = granted \ {Run(t)} /\ slots' \in {slots, slots \ {t}}
<1> DEFINE status == IF row[t].run THEN "stopping" ELSE "cancelled"
           x == [row[t] EXCEPT !.status = status, !.continued = FALSE, !.delivery = "cancelled"]
<1>1. row' = [row EXCEPT ![t] = x]
  BY RowTyped DEF EStops, Stopped
<1>2. x \in RowType /\ x.status = status /\ x.attempt = row[t].attempt /\ x.run = row[t].run
      /\ x.delivery = "cancelled" /\ x.session = row[t].session
  BY RowTyped DEF RowType, Statuses, Ended, TERMINAL, Deliveries
<1> HIDE DEF x
<1>3. Only(t) /\ row'[t] = x
  BY <1>1, <1>2, OneRow
<1> QED BY <1>2, <1>3 DEF EStops, Stopped, SameRun, SameSession

LEMMA FollowsRow ==
  ASSUME Types, NEW t \in Tasks, NEW p, NEW texts \in SUBSET Corrections, Follows(p, t, texts)
  PROVE  /\ Only(t) /\ SameNotice(t) /\ SameSession(t)
         /\ row'[t].status = "submitting" /\ row'[t].run = FALSE
         /\ row'[t].attempt = row[t].attempt + 1
         /\ <<t, row[t].attempt + 1>> \in Runs
<1> DEFINE x == [row[t] EXCEPT !.attempt = row[t].attempt + 1, !.run = FALSE,
                               !.status = "submitting", !.steer = texts]
<1>1. row' = [row EXCEPT ![t] = x] /\ row[t].attempt + 1 \in Attempts
  BY RowTyped DEF Follows, StartCorrection
<1>2. x \in RowType /\ x.status = "submitting" /\ x.attempt = row[t].attempt + 1 /\ x.run = FALSE
      /\ x.delivery = row[t].delivery /\ x.session = row[t].session
  BY <1>1, RowTyped DEF RowType, Statuses
<1> HIDE DEF x
<1>3. Only(t) /\ row'[t] = x
  BY <1>1, <1>2, OneRow
<1> QED BY <1>1, <1>2, <1>3 DEF SameNotice, SameSession, Runs

LEMMA ReportsRow ==
  ASSUME Types, PollsOK, NEW p \in Pollers, EReports(p), NEW t, t = poll[p].task
  PROVE  /\ t \in Tasks /\ Askable(t) /\ Only(t) /\ SameRun(t) /\ SameSession(t)
         /\ row'[t].status = Outcome(poll[p].state) /\ row'[t].status \in Over
         /\ row'[t].delivery \in {row[t].delivery, "uncertain"}
<1> DEFINE state == poll[p].state
           x(d) == [row[t] EXCEPT !.status = Outcome(state), !.steer = state.steer, !.delivery = d]
<1>1. t # 0 /\ state.status \in Over
  BY DEF EReports
<1>2. Askable(t) /\ t \in Tasks
  BY <1>1 DEF PollsOK, Askable, Active
<1>3. Outcome(state) \in Over
  BY <1>1 DEF Outcome, Over
<1>4. state.steer \in SUBSET Corrections
  BY DEF Types, LoopTyped, PollType, NativeType
<1>5. PICK d \in {row[t].delivery, "uncertain"} : row' = [row EXCEPT ![t] = x(d)]
  <2>1. CASE row' = Final(t, state)
    <3>1. row' = [row EXCEPT ![t] = x(row[t].delivery)]
      BY <1>2, <2>1, RowTyped DEF Final
    <3> QED BY <3>1
  <2>2. CASE row' = Claims(Final(t, state), t)
    <3>1. row' = [row EXCEPT ![t] = x("uncertain")]
      BY <1>2, <2>2, RowTyped DEF Final, Claims, Types, TablesTyped
    <3> QED BY <3>1
  <2> QED BY <2>1, <2>2 DEF EReports
<1>6. d \in Deliveries
  BY <1>2, RowTyped DEF Deliveries
<1>s. Outcome(state) \in Statuses
  BY <1>3 DEF Statuses, Ended, TERMINAL, Over
<1> HIDE DEF state
<1>r. row[t] \in RowType
  BY <1>2, RowTyped
<1>7. x(d) \in RowType /\ x(d).status = Outcome(state) /\ x(d).attempt = row[t].attempt
      /\ x(d).run = row[t].run /\ x(d).delivery = d /\ x(d).session = row[t].session
  BY <1>r, <1>s, <1>4, <1>6 DEF RowType
<1> HIDE DEF x
<1>8. Only(t) /\ row'[t] = x(d)
  BY <1>2, <1>5, <1>7, OneRow
<1> QED BY <1>2, <1>3, <1>5, <1>7, <1>8 DEF SameRun, SameSession, state

LEMMA ContinuesRow ==
  ASSUME Types, PollsOK, NEW p \in Pollers, EContinues(p), NEW t, t = poll[p].task
  PROVE  /\ t \in Tasks /\ Askable(t)
         /\ Only(t) /\ SameRun(t) /\ SameNotice(t) /\ SameSession(t)
         /\ row'[t].status = IF row[t].status = "stopping" THEN "stopping" ELSE "accepted"
<1> DEFINE status == IF row[t].status = "stopping" THEN "stopping" ELSE "accepted"
           x == [row[t] EXCEPT !.status = status]
<1>1. t # 0
  BY DEF EContinues
<1>2. Askable(t) /\ t \in Tasks
  BY <1>1 DEF PollsOK, Askable, Active
<1>3. row' = [row EXCEPT ![t] = x]
  BY <1>2, RowTyped DEF EContinues
<1>s. status \in Statuses
  BY DEF Statuses, Ended
<1> HIDE DEF status
<1>r. row[t] \in RowType
  BY <1>2, RowTyped
<1>4. x \in RowType /\ x.status = status /\ x.attempt = row[t].attempt /\ x.run = row[t].run
      /\ x.delivery = row[t].delivery /\ x.session = row[t].session
  BY <1>r, <1>s DEF RowType
<1> HIDE DEF x
<1>5. Only(t) /\ row'[t] = x
  BY <1>2, <1>3, <1>4, OneRow
<1> QED BY <1>2, <1>4, <1>5 DEF SameRun, SameNotice, SameSession, status

LEMMA MarksRow ==
  ASSUME Types, NEW t \in Tasks, NEW continued \in BOOLEAN, NEW delivery \in Deliveries,
         EMarks(t, continued, delivery)
  PROVE  /\ Has(row, t) /\ Only(t) /\ SameRun(t) /\ SameSession(t)
         /\ row'[t].status = row[t].status /\ row'[t].delivery = delivery
<1> DEFINE x == [row[t] EXCEPT !.continued = continued, !.delivery = delivery]
<1>1. row' = [row EXCEPT ![t] = x] /\ Has(row, t)
  BY RowTyped DEF EMarks
<1>2. x \in RowType /\ x.status = row[t].status /\ x.attempt = row[t].attempt /\ x.run = row[t].run
      /\ x.delivery = delivery /\ x.session = row[t].session
  BY RowTyped DEF RowType
<1> HIDE DEF x
<1>3. Only(t) /\ row'[t] = x
  BY <1>1, <1>2, OneRow
<1> QED BY <1>1, <1>2, <1>3 DEF SameRun, SameSession

LEMMA ClearsRows ==
  ASSUME Types, EClears, NEW t \in Tasks
  PROVE  /\ row' \in [Tasks -> RowType]
         /\ \/ ~Has(row, t) /\ row'[t] = row[t]
            \/ Has(row, t) /\ row'[t] = [NoRow EXCEPT !.status = "deleted"]
<1>1. [NoRow EXCEPT !.status = "deleted"] \in RowType
  <2>1. 0 \in Attempts /\ 0 \in 0..MaxTask
    BY CorrectionsCounted, LimitAssumption
  <2> QED BY <2>1 DEF RowType, NoRow, Statuses, Deliveries
<1>2. row' = [u \in Tasks |-> IF Has(row, u) THEN [NoRow EXCEPT !.status = "deleted"] ELSE row[u]]
  BY DEF EClears, Cleared
<1> QED BY <1>1, <1>2 DEF Types, TablesTyped

LEMMA RestartsRows ==
  ASSUME Types, ERestarts, NEW t \in Tasks
  PROVE  /\ row' \in [Tasks -> RowType] /\ SameRun(t) /\ SameNotice(t) /\ SameSession(t)
         /\ \/ t \in Active(row) /\ ~row[t].run /\ row'[t].status = "uncertain"
            \/ ~(t \in Active(row) /\ ~row[t].run) /\ row'[t] = row[t]
<1> DEFINE x(u) == IF u \in Active(row) /\ ~row[u].run THEN [row[u] EXCEPT !.status = "uncertain"] ELSE row[u]
<1>1. row' = [u \in Tasks |-> x(u)]
  BY DEF ERestarts, Restart, Active
<1>2. \A u \in Tasks : x(u) \in RowType
  BY RowTyped DEF RowType, Statuses, Ended, TERMINAL
<1>3. row'[t] = x(t) /\ row' \in [Tasks -> RowType]
  BY <1>1, <1>2
<1> QED BY <1>3, RowTyped DEF SameRun, SameNotice, SameSession, RowType

-----------------------------------------------------------------------------
(* What no step does to a row *)

\* To end what ended, revive what is gone, bring a notice back, or begin to work, but by
\* the admission of the task.
RowStep(t) ==
  /\ row[t].status \in Ended => row'[t].status \in Ended \cup {"deleted"}
  /\ row[t].status = "deleted" => row'[t].status = "deleted"
  /\ row'[t].status = "deleted" => row[t].status = "deleted" \/ ~call.active
  /\ row[t].status = "absent" => row'[t] = row[t] \/ EReserves(t)
  /\ row'[t].delivery = "pending" => row[t].delivery = "pending" \/ ~Gone(t)
  /\ t \in Working(row') => \/ t \in Working(row) /\ row'[t].session = row[t].session
                            \/ EReserves(t)

LEMMA RowSteps ==
  ASSUME Types, OpOK, PollsOK, AnswersOK, TextsOK, AttemptsOK, Effect
  PROVE  \A t \in Tasks : RowStep(t)
<1> SUFFICES ASSUME NEW u \in Tasks PROVE RowStep(u)
  OBVIOUS
<1>0. ASSUME row'[u] = row[u] PROVE RowStep(u)
  BY <1>0 DEF RowStep, Working, Gone, Has
\* A row that is there changes.
<1>c. ASSUME row[u].status \notin {"absent", "deleted"}, row'[u].status # "deleted", row'[u].session = row[u].session,
             row[u].status \in Ended => row'[u].status \in Ended,
             row'[u].delivery = "pending" => row[u].delivery = "pending" \/ row[u].status \notin Ended
      PROVE  RowStep(u)
  BY <1>c DEF RowStep, Gone, Working, Has
<1>1. CASE ENothing \/ ECrashes \/ \E r \in Runs : ETakes(r) \/ \E status \in Over : EEnds(r, status)
  BY <1>0, <1>1 DEF ENothing, ECrashes, Crash, ETakes, NativeTakes, EEnds
<1>2. CASE \/ \E p \in Pollers : EDrops(p)
           \/ \E t \in Tasks : (\E p \in Pollers : EAsks(p, t)) \/ (\E c \in Corrections : ESteers(t, c))
  BY <1>0, <1>2 DEF EDrops, EAsks, ESteers, Steer
<1>3. ASSUME NEW t \in Tasks, EReserves(t) PROVE RowStep(u)
  <2>1. u # t => row'[u] = row[u]
    BY <1>3, ReservesRow DEF Only
  <2>r. row[t] = NoRow
    BY <1>3, ReservesRow
  <2>2. u = t => row[u].status = "absent"
    BY <2>r DEF NoRow
  <2>3. row'[t].status = "submitting"
    BY <1>3, ReservesRow
  <2> QED BY <1>3, <2>1, <2>2, <2>3, <1>0 DEF RowStep, Gone, Ended, TERMINAL
<1>4. ASSUME NEW r \in Runs, EAnswers(r) PROVE RowStep(u)
  BY <1>4, <1>0, <1>c, AnswersRow DEF Only, SameSession, SameNotice, Current, Has, Ended, TERMINAL
<1>5. ASSUME NEW r \in Runs, EHandles(r) PROVE RowStep(u)
  BY <1>5, <1>0, <1>c, HandlesRow DEF Only, SameSession, SameNotice, Current, Has, Ended
<1>6. ASSUME NEW t \in Tasks, EStops(t) PROVE RowStep(u)
  BY <1>6, <1>0, <1>c, StopsRow DEF Only, SameSession, Active, Has, Ended, TERMINAL
<1>7. CASE EFollows \/ \E p \in Pollers : ECorrects(p)
  <2>1. PICK p \in Pollers, t \in Tasks, texts \in SUBSET Corrections : Follows(p, t, texts)
    BY <1>7, CorrectionFollows
  <2>2. Has(row, t) /\ row[t].status \notin Ended
    BY <2>1 DEF Follows, Askable, Active, Authorised, Run
  <2> QED BY <2>1, <2>2, <1>0, <1>c, FollowsRow DEF Only, SameSession, SameNotice, Has
<1>8. ASSUME NEW p \in Pollers, EReports(p) PROVE RowStep(u)
  <2>1. Only(poll[p].task) /\ SameSession(poll[p].task) /\ Has(row, poll[p].task)
    BY <1>8, ReportsRow DEF Askable, Active
  <2>2. row'[poll[p].task].status \in Ended /\ row'[poll[p].task].delivery \in {row[poll[p].task].delivery, "uncertain"}
    BY <1>8, ReportsRow DEF Over, Ended, TERMINAL
  <2> QED BY <2>1, <2>2, <1>0, <1>c DEF Only, SameSession, Has, Ended, TERMINAL
<1>9. ASSUME NEW p \in Pollers, EContinues(p) PROVE RowStep(u)
  <2> DEFINE t == poll[p].task
  <2>1. Only(t) /\ SameSession(t) /\ SameNotice(t) /\ Askable(t)
        /\ row'[t].status = IF row[t].status = "stopping" THEN "stopping" ELSE "accepted"
    BY <1>9, ContinuesRow
  <2> HIDE DEF t
  <2> QED BY <2>1, <1>0, <1>c DEF Only, SameSession, SameNotice, Askable, Active, Has, Ended
<1>10. ASSUME NEW t \in Tasks, NEW continued \in BOOLEAN, NEW delivery \in Deliveries,
              EMarks(t, continued, delivery)
       PROVE  RowStep(u)
  <2>1. delivery = "pending" => row[t].status \notin Ended
    BY <1>10 DEF EMarks, Active, Ended
  <2> QED BY <1>10, <2>1, <1>0, <1>c, MarksRow DEF Only, SameSession, Has
<1>11. CASE EClears
  <2>1. CASE ~Has(row, u)
    BY <1>11, <2>1, <1>0, ClearsRows
  <2>2. CASE Has(row, u)
    <3>1. row'[u].status = "deleted" /\ row'[u].delivery = "none"
      BY <1>11, <2>2, ClearsRows DEF NoRow
    <3>2. ~call.active
      BY <1>11 DEF EClears, OpOK
    <3> QED BY <2>2, <3>1, <3>2 DEF RowStep, Has, Working
  <2> QED BY <2>1, <2>2
<1>12. CASE ERestarts
  BY <1>12, <1>0, <1>c, RestartsRows DEF SameSession, SameNotice, Active, Has, Ended, TERMINAL
<1> QED
  BY <1>1, <1>2, <1>3, <1>4, <1>5, <1>6, <1>7, <1>8, <1>9, <1>10, <1>11, <1>12 DEF Effect

-----------------------------------------------------------------------------
(* Slots and sessions *)

\* A slot is given back by a task that ends.
LEMMA SlotsStay ==
  ASSUME Types, OpOK, PollsOK, AnswersOK, TextsOK, AttemptsOK, Effect,
         NEW u \in Tasks, u \in slots, u \in Working(row')
  PROVE  u \in slots'
<1>1. CASE ENothing \/ ECrashes \/ \E r \in Runs : ETakes(r) \/ \E status \in Over : EEnds(r, status)
  BY <1>1 DEF ENothing, ECrashes, Crash, ETakes, NativeTakes, EEnds
<1>2. CASE \/ \E p \in Pollers : EDrops(p)
           \/ \E t \in Tasks : (\E p \in Pollers : EAsks(p, t)) \/ (\E c \in Corrections : ESteers(t, c))
  BY <1>2 DEF EDrops, EAsks, ESteers, Steer
<1>3. ASSUME NEW t \in Tasks, EReserves(t) PROVE u \in slots'
  BY <1>3 DEF EReserves
<1>4. ASSUME NEW r \in Runs, EAnswers(r) PROVE u \in slots'
  BY <1>4, AnswersRow DEF Working, Ended, TERMINAL
<1>5. ASSUME NEW r \in Runs, EHandles(r) PROVE u \in slots'
  BY <1>5 DEF EHandles, PostHandled
<1>6. ASSUME NEW t \in Tasks, EStops(t) PROVE u \in slots'
  BY <1>6, StopsRow DEF Working, Ended, TERMINAL
<1>7. CASE EFollows \/ \E p \in Pollers : ECorrects(p)
  BY <1>7 DEF EFollows, ECorrects, StartCorrection
<1>8. ASSUME NEW p \in Pollers, EReports(p) PROVE u \in slots'
  <2>1. row'[poll[p].task].status \in Ended
    BY <1>8, ReportsRow DEF Over, Ended, TERMINAL
  <2>2. slots' = slots \ {poll[p].task}
    BY <1>8 DEF EReports, Retires
  <2> QED BY <2>1, <2>2 DEF Working
<1>9. ASSUME NEW p \in Pollers, EContinues(p) PROVE u \in slots'
  BY <1>9 DEF EContinues
<1>10. CASE EClears \/ \E t \in Tasks, continued \in BOOLEAN, delivery \in Deliveries : EMarks(t, continued, delivery)
  BY <1>10 DEF EClears, EMarks
<1>11. CASE ERestarts
  BY <1>11 DEF ERestarts, Restart, Reconciled, Working, Active, Ended, Has
<1> QED
  BY <1>1, <1>2, <1>3, <1>4, <1>5, <1>6, <1>7, <1>8, <1>9, <1>10, <1>11 DEF Effect

LEMMA FiniteTasks ==
  ASSUME Types
  PROVE  /\ IsFiniteSet(Tasks) /\ IsFiniteSet(slots) /\ Cardinality(slots) \in Nat
         /\ IsFiniteSet(Working(row)) /\ Cardinality(Working(row)) \in Nat
<1>1. IsFiniteSet(Tasks) /\ IsFiniteSet(Tasks \cup {0})
  <2>1. IsFiniteSet(1..MaxTask)
    BY LimitAssumption, FS_Interval
  <2> QED BY <2>1, FS_AddElement DEF Tasks
<1>2. slots \in SUBSET (Tasks \cup {0}) /\ Working(row) \in SUBSET Tasks
  BY DEF Types, TablesTyped, Working
<1>3. IsFiniteSet(slots) /\ IsFiniteSet(Working(row))
  BY <1>1, <1>2, FS_Subset
<1> QED BY <1>1, <1>3, FS_CardinalityType

LEMMA SlotsStep ==
  ASSUME Types, OpOK, PollsOK, AnswersOK, TextsOK, AttemptsOK, SlotsOK, Effect
  PROVE  SlotsOK'
<1>1. \A t \in Tasks : RowStep(t)
  BY RowSteps
<1>2. CASE \E t \in Tasks : EReserves(t)
  <2>1. PICK t \in Tasks : EReserves(t)
    BY <1>2
  <2>2. slots' = slots \cup {t} /\ Cardinality(slots) < Limit /\ gate.op.kind = "submit" /\ t = gate.op.task
    BY <2>1 DEF EReserves
  <2>3. \A u \in Tasks : u # t => row'[u] = row[u]
    BY <2>1, ReservesRow DEF Only
  <2>4. Working(row') \subseteq Working(row) \cup {t} /\ row'[t].session = gate.op.session
    BY <2>1, <2>3, ReservesRow DEF Working, Has
  <2>5. Working(row') \subseteq slots'
    BY <2>2, <2>4 DEF SlotsOK
  <2>6. Cardinality(Working(row')) <= Limit
    <3>1. Working(row') \in SUBSET (slots \cup {t})
      BY <2>2, <2>5
    <3>2. IsFiniteSet(slots \cup {t}) /\ Cardinality(slots \cup {t}) <= Cardinality(slots) + 1
      <4>1. IsFiniteSet(slots) /\ Cardinality(slots) \in Nat
        BY FiniteTasks
      <4>2. Cardinality(slots \cup {t}) = IF t \in slots THEN Cardinality(slots) ELSE Cardinality(slots) + 1
        BY <4>1, FS_AddElement
      <4>3. IsFiniteSet(slots \cup {t})
        BY <4>1, FS_AddElement
      <4> QED BY <4>1, <4>2, <4>3
    <3>3. IsFiniteSet(Working(row')) /\ Cardinality(Working(row')) <= Cardinality(slots \cup {t})
      BY <3>1, <3>2, FS_Subset
    <3>4. Cardinality(Working(row')) \in Nat /\ Cardinality(slots \cup {t}) \in Nat
      BY <3>2, <3>3, FS_CardinalityType
    <3> QED BY <2>2, <3>2, <3>3, <3>4, FiniteTasks, LimitAssumption
  <2>7. \A u \in Working(row) : row[u].session # gate.op.session
    BY <2>2 DEF OpOK
  <2>8. \A u, v \in Working(row') : u # v => row'[u].session # row'[v].session
    <3>1. \A u \in Working(row') : u # t => u \in Working(row) /\ row'[u] = row[u] /\ u \in Tasks
      BY <2>3, <2>4 DEF Working
    <3> QED BY <2>4, <2>7, <3>1 DEF SlotsOK
  <2> QED BY <2>5, <2>6, <2>8 DEF SlotsOK
<1>3. CASE ~ \E t \in Tasks : EReserves(t)
  <2>1. \A t \in Working(row') : t \in Tasks /\ t \in Working(row) /\ row'[t].session = row[t].session
    BY <1>1, <1>3 DEF RowStep, Working
  <2>2. Working(row') \subseteq slots'
    BY <2>1, SlotsStay DEF SlotsOK
  <2>3. Cardinality(Working(row')) <= Limit
    <3>1. Working(row') \in SUBSET Working(row)
      BY <2>1
    <3>2. IsFiniteSet(Working(row')) /\ Cardinality(Working(row')) <= Cardinality(Working(row))
      BY <3>1, FiniteTasks, FS_Subset
    <3>3. Cardinality(Working(row')) \in Nat
      BY <3>2, FS_CardinalityType
    <3> QED BY <3>2, <3>3, FiniteTasks, LimitAssumption DEF SlotsOK
  <2>4. \A u, v \in Working(row') : u # v => row'[u].session # row'[v].session
    BY <2>1 DEF SlotsOK
  <2> QED BY <2>2, <2>3, <2>4 DEF SlotsOK
<1> QED BY <1>2, <1>3

-----------------------------------------------------------------------------
(* Bindings *)

\* A binding that is mapped and granted after the step was so before it, and its row has
\* not moved on; or it has just been mapped.
LEMMA BindingsStep ==
  ASSUME Types, OpOK, PollsOK, AnswersOK, TextsOK, AttemptsOK, BindingsOK, Effect, Retiring
  PROVE  BindingsOK'
<1> DEFINE Known(r) == row'[r[1]].status # "absent" /\ (Has(row', r[1]) => r[2] <= row'[r[1]].attempt)
           Live(r) == Has(row', r[1]) /\ row'[r[1]].run /\ <<r[1], row'[r[1]].attempt>> = r
<1>g. ASSUME \A r \in mapped' : Known(r), call'.active => \A r \in mapped' \cap granted' : Live(r)
      PROVE  BindingsOK'
  BY <1>g DEF BindingsOK, Run
<1>m. ASSUME NEW r \in mapped
      PROVE  /\ r \in Runs /\ r[1] \in Tasks /\ r[2] \in Attempts /\ r = <<r[1], r[2]>>
             /\ row[r[1]].status # "absent" /\ (Has(row, r[1]) => r[2] <= row[r[1]].attempt)
             /\ r \in granted /\ call.active => Has(row, r[1]) /\ row[r[1]].run /\ r[2] = row[r[1]].attempt
  <2>1. r \in Runs
    BY DEF Types, TablesTyped
  <2> QED BY <2>1 DEF BindingsOK, Run, Runs
\* The row of the run stays as it is, so far as bindings go.
<1>k. ASSUME NEW r \in mapped, row'[r[1]].status # "absent",
             Has(row', r[1]) => Has(row, r[1]) /\ row'[r[1]].attempt = row[r[1]].attempt
      PROVE  Known(r)
  BY <1>k, <1>m
<1>l. ASSUME NEW r \in mapped, r \in granted, call.active,
             Has(row', r[1]), row'[r[1]].attempt = row[r[1]].attempt, row[r[1]].run => row'[r[1]].run
      PROVE  Live(r)
  BY <1>l, <1>m
<1> HIDE DEF Known, Live
<1>c. call'.active => call.active
  BY DEF Retiring
\* A step that adds no binding and leaves the attempts alone.
<1>s. ASSUME mapped' = mapped, granted' \subseteq granted,
             \A t \in Tasks : \/ row'[t] = row[t]
                              \/ Has(row, t) /\ Has(row', t) /\ SameRun(t)
      PROVE  BindingsOK'
  <2>1. \A r \in mapped' : Known(r)
    BY <1>s, <1>k, <1>m DEF SameRun, Has
  <2>2. ASSUME call'.active, NEW r \in mapped' \cap granted' PROVE Live(r)
    <3>1. r \in mapped /\ r \in granted /\ call.active
      BY <1>c, <1>s, <2>2
    <3> QED BY <1>s, <1>l, <1>m, <3>1 DEF SameRun, Has
  <2> QED BY <1>g, <2>1, <2>2
<1>1. CASE ENothing \/ ECrashes \/ \E r \in Runs : ETakes(r) \/ \E status \in Over : EEnds(r, status)
  BY <1>1, <1>s DEF ENothing, ECrashes, Crash, ETakes, NativeTakes, EEnds
<1>2. CASE \/ \E p \in Pollers : EDrops(p)
           \/ \E t \in Tasks : (\E p \in Pollers : EAsks(p, t)) \/ (\E c \in Corrections : ESteers(t, c))
  BY <1>2, <1>s DEF EDrops, EAsks, ESteers, Steer
<1>3. ASSUME NEW t \in Tasks, EReserves(t) PROVE BindingsOK'
  <2>1. row[t] = NoRow /\ Only(t) /\ row'[t].status = "submitting"
    BY <1>3, ReservesRow
  <2>2. mapped' = mapped /\ granted' = granted \cup {<<t, 0>>}
    BY <1>3 DEF EReserves
  <2>3. row[t].status = "absent"
    BY <2>1 DEF NoRow
  <2>4. ASSUME NEW r \in mapped PROVE r[1] # t /\ r # <<t, 0>> /\ row'[r[1]] = row[r[1]]
    BY <1>m, <2>1, <2>3 DEF Only
  <2>5. \A r \in mapped' : Known(r)
    BY <1>k, <1>m, <2>2, <2>4 DEF Has
  <2>6. ASSUME call'.active, NEW r \in mapped' \cap granted' PROVE Live(r)
    <3>1. r \in mapped /\ r \in granted /\ call.active
      BY <1>c, <2>2, <2>4, <2>6
    <3> QED BY <1>l, <1>m, <2>4, <3>1 DEF Has
  <2> QED BY <1>g, <2>5, <2>6
<1>4. ASSUME NEW r \in Runs, EAnswers(r) PROVE BindingsOK'
  BY <1>4, <1>s, AnswersRow DEF EAnswers, Only, Current, Has, SameRun
<1>5. ASSUME NEW r \in Runs, EHandles(r) PROVE BindingsOK'
  <2>1. granted' = granted /\ mapped' \in {mapped, Mapped(r)} /\ (~Current(r) => mapped' = mapped)
    BY <1>5 DEF EHandles, PostHandled, Current
  <2>2. CASE ~Current(r)
    BY <1>5, <2>1, <2>2, <1>s, HandlesRow
  <2>3. CASE Current(r)
    <3>1. Only(r[1]) /\ row'[r[1]].attempt = row[r[1]].attempt /\ row'[r[1]].run /\ Has(row', r[1])
          /\ Has(row, r[1]) /\ r = <<r[1], row[r[1]].attempt>> /\ r[1] \in Tasks /\ row[r[1]].attempt \in Nat
      BY <1>5, <2>3, HandlesRow, RowTyped, CorrectionsCounted DEF Current, Has, Run, Runs, Ended
    <3>2. mapped' \subseteq mapped \cup {r}
      BY <2>1 DEF Mapped
    <3>3. \A s \in mapped' : Known(s)
      <4>1. Known(r)
        BY <3>1 DEF Known, Has
      <4> QED BY <1>k, <1>m, <3>1, <3>2, <4>1 DEF Only, Has
    <3>4. ASSUME call'.active, NEW s \in mapped' \cap granted' PROVE Live(s)
      <4>1. Live(r)
        BY <3>1 DEF Live
      <4>2. CASE s \in mapped
        BY <1>c, <1>l, <1>m, <2>1, <3>1, <3>4, <4>2 DEF Only, Has
      <4> QED BY <3>2, <4>1, <4>2
    <3> QED BY <1>g, <3>3, <3>4
  <2> QED BY <2>2, <2>3
<1>6. ASSUME NEW t \in Tasks, EStops(t) PROVE BindingsOK'
  <2>1. Only(t) /\ SameRun(t) /\ Has(row, t) /\ Has(row', t) /\ granted' \subseteq granted
    BY <1>6, StopsRow DEF Active, Has
  <2> QED BY <1>6, <2>1, <1>s DEF EStops, Only
<1>7. CASE EFollows \/ \E p \in Pollers : ECorrects(p)
  <2>1. PICK p \in Pollers, t \in Tasks, texts \in SUBSET Corrections : Follows(p, t, texts)
    BY <1>7, CorrectionFollows
  <2> DEFINE new == <<t, row[t].attempt + 1>>
  <2>2. mapped' = mapped /\ granted' = (granted \ {Run(t)}) \cup {new} /\ Has(row, t)
    BY <2>1 DEF Follows, StartCorrection, Askable, Active
  <2>3. Only(t) /\ row'[t].attempt = row[t].attempt + 1 /\ row'[t].status = "submitting"
    BY <2>1, FollowsRow
  <2>4. row[t].attempt \in Nat
    BY RowTyped, CorrectionsCounted
  <2>5. new \notin mapped
    BY <1>m, <2>2, <2>4
  <2>6. ASSUME NEW r \in mapped PROVE Known(r)
    <3>1. CASE r[1] = t
      BY <1>m, <2>2, <2>3, <2>4, <3>1, CorrectionsCounted DEF Known
    <3>2. CASE r[1] # t
      BY <1>m, <1>k, <2>3, <3>2 DEF Only, Has
    <3> QED BY <3>1, <3>2
  <2>7. ASSUME call'.active, NEW r \in mapped' \cap granted' PROVE Live(r)
    <3>1. r \in mapped /\ r \in granted /\ r # Run(t) /\ call.active
      BY <1>c, <2>2, <2>5, <2>7
    <3>2. r[1] # t
      BY <1>m, <3>1 DEF Run
    <3> QED BY <1>m, <1>l, <2>3, <3>1, <3>2 DEF Only, Has
  <2> QED BY <1>g, <2>2, <2>6, <2>7
<1>8. ASSUME NEW p \in Pollers, EReports(p) PROVE BindingsOK'
  <2> DEFINE t == poll[p].task
  <2>1. Only(t) /\ SameRun(t) /\ Has(row, t) /\ t \in Tasks /\ row'[t].status \in Over
    BY <1>8, ReportsRow DEF Askable, Active
  <2>2. mapped' = mapped /\ granted' \subseteq granted
    BY <1>8 DEF EReports, Retires
  <2> HIDE DEF t
  <2> QED BY <2>1, <2>2, <1>s DEF Only, Has, Over
<1>9. ASSUME NEW p \in Pollers, EContinues(p) PROVE BindingsOK'
  <2> DEFINE t == poll[p].task
  <2>1. Only(t) /\ SameRun(t) /\ Has(row, t) /\ t \in Tasks /\ row'[t].status \in {"stopping", "accepted"}
    BY <1>9, ContinuesRow DEF Askable, Active
  <2>2. mapped' = mapped /\ granted' = granted
    BY <1>9 DEF EContinues
  <2> HIDE DEF t
  <2> QED BY <2>1, <2>2, <1>s DEF Only, Has
<1>10. ASSUME NEW t \in Tasks, NEW continued \in BOOLEAN, NEW delivery \in Deliveries,
              EMarks(t, continued, delivery)
       PROVE  BindingsOK'
  BY <1>10, <1>s, MarksRow DEF EMarks, Only, Has
<1>11. CASE EClears
  <2>1. mapped' = mapped /\ granted' = granted /\ ~call'.active
    BY <1>11, <1>c DEF EClears, OpOK
  <2>2. ASSUME NEW r \in mapped PROVE Known(r)
    <3>1. CASE Has(row, r[1])
      <4>1. row'[r[1]].status = "deleted"
        BY <1>11, <1>m, <3>1, ClearsRows DEF NoRow
      <4> QED BY <4>1 DEF Known, Has
    <3>2. CASE ~Has(row, r[1])
      BY <1>11, <1>m, <1>k, <3>2, ClearsRows DEF Has
    <3> QED BY <3>1, <3>2
  <2> QED BY <1>g, <2>1, <2>2
<1>12. CASE ERestarts
  <2>1. mapped' = mapped /\ granted' \subseteq granted
    BY <1>12 DEF ERestarts, Restart
  <2>2. \A t \in Tasks : (row'[t] = row[t]) \/ (Has(row, t) /\ Has(row', t) /\ SameRun(t))
    BY <1>12, RestartsRows DEF Active, Has
  <2> QED BY <2>1, <2>2, <1>s
<1> QED
  BY <1>1, <1>2, <1>3, <1>4, <1>5, <1>6, <1>7, <1>8, <1>9, <1>10, <1>11, <1>12 DEF Effect

-----------------------------------------------------------------------------
(* The request that holds admission_lock *)

LEMMA OpMoves ==
  ASSUME Types, OpOK, [Next]_vars
  PROVE  \/ gate'.op \in {gate.op, NoOp}
         \/ /\ gate'.op.task \in Tasks /\ row[gate'.op.task] = NoRow /\ gate'.op.kind = "submit"
            /\ \A u \in Working(row) : row[u].session # gate'.op.session
            /\ UNCHANGED <<row, call>>
         \/ gate'.op.kind = "reset" /\ ~call'.active
<1>g. gate \in GateType /\ call \in [parent : BOOLEAN, active : BOOLEAN]
  BY DEF Types, LoopTyped
<1>t. gate = [up |-> gate.up, op |-> gate.op, sending |-> gate.sending]
  BY <1>g DEF GateType
<1>1. ASSUME NEW continued, NEW relation, Submit(continued, relation)
      PROVE  /\ gate'.op.task \in Tasks /\ row[gate'.op.task] = NoRow /\ gate'.op.kind = "submit"
             /\ \A u \in Working(row) : row[u].session # gate'.op.session
             /\ UNCHANGED <<row, call>>
  <2>1. PICK t \in Tasks, session \in 1..MaxTask :
          /\ row[t] = NoRow /\ ~Occupied(session)
          /\ gate' = [gate EXCEPT !.op = [NoOp EXCEPT !.kind = "submit", !.task = t,
                                            !.continued = continued, !.session = session]]
    BY <1>1 DEF Submit
  <2>2. gate'.op = [NoOp EXCEPT !.kind = "submit", !.task = t, !.continued = continued, !.session = session]
    BY <2>1, <1>t
  <2>3. gate'.op.task = t /\ gate'.op.kind = "submit" /\ gate'.op.session = session
    BY <2>2 DEF NoOp
  <2>4. \A u \in Working(row) : row[u].session # session
    BY <2>1 DEF Occupied, Working, Active, Ended
  <2> QED BY <1>1, <2>1, <2>3, <2>4 DEF Submit
<1>2. ASSUME Reset PROVE gate'.op.kind = "reset" /\ ~call'.active
  <2>1. gate'.op = [NoOp EXCEPT !.kind = "reset", !.todo = Active(row)]
    BY <1>2, <1>t DEF Reset
  <2>2. call'.active = FALSE
    BY <1>2, <1>g DEF Reset
  <2> QED BY <2>1, <2>2 DEF NoOp
<1>3. ASSUME ResetStops PROVE gate'.op.kind = "reset" /\ ~call'.active
  <2>1. gate'.op.kind = gate.op.kind
    BY <1>3, <1>g DEF ResetStops, GateType, OpType
  <2>2. gate.op.kind = "reset" /\ call' = call
    BY <1>3 DEF ResetStops
  <2> QED BY <2>1, <2>2 DEF OpOK
<1>4. CASE SubmitReserves \/ (\E r \in Runs : StopLost(r)) \/ (\E deletes \in BOOLEAN : ResetEnds(deletes))
           \/ Crash \/ Restart
  BY <1>4, <1>t DEF SubmitReserves, StopLost, ResetEnds, Crash, Restart
<1>5. CASE WatchPasses \/ WatchSkips \/ WatchTakes \/ \E t \in Tasks : DeliverSends(t) \/ DeliverRecords(t)
  BY <1>5, <1>t DEF WatchPasses, WatchSkips, WatchTakes, Passes, DeliverSends, DeliverRecords
<1>6. CASE \/ WatchBegins \/ WatchStops \/ WatchKeeps \/ WatchWaits \/ WatchAsks
           \/ StatusTakes \/ SteerFollows \/ HangUp \/ PeerReserves \/ PeerReleases
           \/ (\E p \in Pollers : AskLost(p)) \/ UNCHANGED vars
  BY <1>6 DEF WatchBegins, WatchStops, WatchKeeps, WatchWaits, WatchAsks, StatusTakes, SteerFollows,
           HangUp, PeerReserves, PeerReleases, AskLost, vars
<1>7. CASE \E t \in Tasks : \/ Lapse(t) \/ Cancel(t) \/ Continue(t) \/ StatusAsks(t)
                            \/ \E c \in Corrections : Steer(t, c)
  BY <1>7 DEF Lapse, Cancel, Continue, StatusAsks, Steer
<1>8. CASE \E r \in Runs : \/ PostArrives(r) \/ PostHandled(r) \/ StopArrives(r) \/ LaunchTimesOut(r)
                           \/ PostRefused(r) \/ NativeTakes(r)
                           \/ \E status \in {"completed", "failed"} : NativeEnds(r, status)
  BY <1>8 DEF PostArrives, PostHandled, StopArrives, LaunchTimesOut, PostRefused, NativeTakes, NativeEnds
<1> QED BY <1>1, <1>2, <1>3, <1>4, <1>5, <1>6, <1>7, <1>8
           DEF Next, Observes, Posts, Answers, Stopping, Requests, Events

LEMMA OpStep ==
  ASSUME Types, OpOK, PollsOK, RunsOK, AnswersOK, TextsOK, AttemptsOK, [Next]_vars
  PROVE  OpOK'
<1>1. Effect /\ Retiring
  BY Effects
<1>2. \A t \in Tasks : RowStep(t)
  BY <1>1, RowSteps
<1>3. \A t \in Tasks : row'[t].status = "deleted" => ~call'.active
  BY <1>1, <1>2 DEF RowStep, OpOK, Retiring
<1>4. CASE gate'.op = NoOp
  BY <1>3, <1>4 DEF OpOK, NoOp
<1>5. CASE gate'.op = gate.op /\ gate.op # NoOp
  <2>1. ~ \E t \in Tasks : EReserves(t)
    BY <1>5 DEF EReserves
  <2>2. ASSUME gate.op.kind = "submit" PROVE gate.op.task \in Tasks /\ row'[gate.op.task] = NoRow
    <3>1. gate.op.task \in Tasks /\ row[gate.op.task] = NoRow
      BY <2>2 DEF OpOK
    <3> QED BY <1>2, <2>1, <3>1 DEF RowStep, NoRow
  <2>3. ASSUME gate.op.kind = "submit", NEW u \in Working(row') PROVE row'[u].session # gate.op.session
    BY <1>2, <2>1, <2>3 DEF RowStep, OpOK, Working
  <2>4. gate.op.kind = "reset" => ~call'.active
    BY <1>1 DEF OpOK, Retiring
  <2> QED BY <1>3, <1>5, <2>2, <2>3, <2>4 DEF OpOK
<1>6. CASE /\ gate'.op.task \in Tasks /\ row[gate'.op.task] = NoRow /\ gate'.op.kind = "submit"
           /\ \A u \in Working(row) : row[u].session # gate'.op.session
           /\ UNCHANGED <<row, call>>
  <2>1. Working(row') = Working(row)
    BY <1>6
  <2> QED BY <1>3, <1>6, <2>1 DEF OpOK
<1>7. CASE gate'.op.kind = "reset" /\ ~call'.active
  BY <1>3, <1>7 DEF OpOK
<1> QED BY <1>4, <1>5, <1>6, <1>7, OpMoves

-----------------------------------------------------------------------------
(* The observer's place *)

LEMMA MinIn ==
  ASSUME NEW S \in SUBSET Nat, S # {}
  PROVE  Min(S) \in S
<1>1. PICK x \in S : \A y \in S : <<y, x>> \notin OpToRel(<, Nat)
  BY WFMin, NatLessThanWellFounded
<1>2. \A y \in S : ~(y < x)
  BY <1>1 DEF OpToRel
<1>3. \A y \in S : x <= y
  BY <1>2
<1> QED BY <1>3 DEF Min

LEMMA NoRowTyped == NoRow \in RowType
<1>1. 0 \in Attempts /\ 0 \in 0..MaxTask
  BY CorrectionsCounted, LimitAssumption
<1> QED BY <1>1 DEF RowType, NoRow, Statuses, Deliveries

\* The next row of a pass: what was copied of it, and nothing more of the row before.
LEMMA NextRowIs ==
  ASSUME NEW w, NEW rows \in [Tasks -> RowType], NEW n \in 0..MaxTask, w.rows = rows, w.task = n
  PROVE  /\ NextRow(w) \in WatchType /\ NextRow(w).pc \in {"asleep", "row"}
         /\ NextRow(w).pc = "asleep" \/ NextRow(w).task \in Tasks
         /\ \A u \in Tasks : /\ NextRow(w).rows[u] \in {NoRow, rows[u]}
                             /\ u = n => NextRow(w).rows[u] = NoRow
<1> DEFINE later == {t \in Tasks : t > n /\ rows[t] # NoRow}
           left == [rows EXCEPT ![n] = NoRow]
<1>1. CASE later = {}
  <2>1. NextRow(w) = NoWatch
    BY <1>1 DEF NextRow
  <2>2. NoWatch.pc = "asleep" /\ NoWatch.task = 0 /\ NoWatch.rows = [t \in Tasks |-> NoRow]
    BY DEF NoWatch
  <2>3. NoWatch \in WatchType
    BY NoRowTyped, LimitAssumption DEF NoWatch, WatchType
  <2> QED BY <2>1, <2>2, <2>3
<1>2. CASE later # {}
  <2>1. NextRow(w) = [pc |-> "row", task |-> Min(later), rows |-> left]
    BY <1>2 DEF NextRow
  <2>2. Min(later) \in Tasks /\ Min(later) \in 0..MaxTask
    <3>1. later \in SUBSET Nat
      BY LimitAssumption DEF Tasks
    <3>2. Min(later) \in later
      BY <1>2, <3>1, MinIn
    <3>3. later \subseteq Tasks
      OBVIOUS
    <3>4. Tasks \subseteq 0..MaxTask
      BY LimitAssumption DEF Tasks
    <3> HIDE DEF later
    <3> QED BY <3>2, <3>3, <3>4
  <2>3. left \in [Tasks -> RowType] /\ \A u \in Tasks : left[u] = IF u = n THEN NoRow ELSE rows[u]
    BY NoRowTyped
  <2> HIDE DEF later, left
  <2> QED BY <2>1, <2>2, <2>3 DEF WatchType
<1> QED BY <1>1, <1>2

\* Where a step leaves the observer.
WatchOK(w, P) ==
  /\ w \in WatchType
  /\ w.pc = "asleep" \/ w.task \in Tasks
  /\ w.pc = "asking" => P["watch"].task = w.task

LEMMA WatchMoves ==
  ASSUME Types, PollsOK, [Next]_vars
  PROVE  WatchOK(watch', poll')
<1>w. watch \in WatchType /\ watch.rows \in [Tasks -> RowType] /\ watch.task \in 0..MaxTask
  BY DEF Types, LoopTyped, WatchType
<1>p. poll \in [Pollers -> PollType]
  BY DEF Types, LoopTyped
<1>o. WatchOK(watch, poll)
  BY <1>w DEF WatchOK, PollsOK
<1>t. watch = [pc |-> watch.pc, task |-> watch.task, rows |-> watch.rows]
  BY <1>w DEF WatchType
<1>n. ASSUME watch' = NextRow(watch) PROVE WatchOK(watch', poll')
  BY <1>n, <1>w, NextRowIs DEF WatchOK
\* A step of the observer at its row.
<1>s. ASSUME NEW pc \in {"refresh", "waiting", "stopping"}, watch.pc # "asleep", watch' = [watch EXCEPT !.pc = pc]
      PROVE  WatchOK(watch', poll')
  <2>1. watch' \in WatchType /\ watch'.pc = pc /\ watch'.task = watch.task
    BY <1>s, <1>w DEF WatchType
  <2> QED BY <1>s, <1>o, <2>1 DEF WatchOK
<1>k. ASSUME watch' = watch, poll'["watch"] = poll["watch"] PROVE WatchOK(watch', poll')
  BY <1>k, <1>o DEF WatchOK
<1>1. CASE WatchBegins
  <2> DEFINE rows == [t \in Tasks |-> IF Has(row, t) THEN row[t] ELSE NoRow]
             w == [NoWatch EXCEPT !.rows = rows]
  <2>1. watch' = NextRow(w)
    BY <1>1 DEF WatchBegins
  <2>2. rows \in [Tasks -> RowType]
    BY RowTyped, NoRowTyped
  <2>3. w.rows = rows /\ w.task = 0 /\ 0 \in 0..MaxTask
    BY LimitAssumption DEF NoWatch
  <2> HIDE DEF w, rows
  <2> QED BY <2>1, <2>2, <2>3, NextRowIs DEF WatchOK
<1>2. CASE WatchPasses \/ WatchSkips
  BY <1>2, <1>n DEF WatchPasses, WatchSkips, Passes
<1>3. CASE WatchTakes
  BY <1>3, <1>n DEF WatchTakes, Passes
<1>4. CASE WatchStops
  <2>1. watch' = NextRow(watch) \/ \E pc \in {"stopping", "refresh"} : watch' = [watch EXCEPT !.pc = pc]
    BY <1>4 DEF WatchStops
  <2>2. watch.pc = "row"
    BY <1>4 DEF WatchStops, WatchAt
  <2> QED BY <2>1, <2>2, <1>n, <1>s
<1>5. CASE WatchKeeps \/ WatchWaits
  BY <1>5, <1>s DEF WatchKeeps, WatchWaits, WatchAt
<1>6. CASE WatchAsks
  <2>1. watch.pc \in {"refresh", "waiting"} /\ watch' = [watch EXCEPT !.pc = "asking"]
    BY <1>6 DEF WatchAsks, Refreshing
  <2>2. poll'["watch"].task = watch.task
    <3>1. poll' = [poll EXCEPT !["watch"] = [task |-> watch.task, state |-> native[Run(watch.task)], text |-> {}]]
      BY <1>6 DEF WatchAsks, Asks
    <3> QED BY <1>p, <3>1 DEF Pollers
  <2>3. watch' \in WatchType /\ watch'.task = watch.task
    BY <2>1, <1>w DEF WatchType
  <2> QED BY <2>1, <2>2, <2>3, <1>o DEF WatchOK
<1>7. CASE \E p \in Pollers : AskLost(p)
  BY <1>7, <1>n, <1>k, <1>p DEF AskLost, Pollers
<1>8. CASE \E r \in Runs : StopArrives(r) \/ StopLost(r)
  <2>1. UNCHANGED poll
    BY <1>8 DEF StopArrives, StopLost
  <2>2. watch' = watch \/ watch' = NextRow(watch)
        \/ (watch.pc = "stopping" /\ watch' = [watch EXCEPT !.pc = "refresh"])
    BY <1>8 DEF StopArrives, StopLost, WatchAwaits
  <2> QED BY <2>1, <2>2, <1>n, <1>k, <1>s
<1>9. CASE Crash
  <2>1. NoWatch \in WatchType /\ NoWatch.pc = "asleep"
    BY NoRowTyped, LimitAssumption DEF NoWatch, WatchType
  <2> QED BY <1>9, <2>1 DEF Crash, WatchOK
<1>10. CASE StatusTakes \/ SteerFollows \/ \E t \in Tasks : StatusAsks(t) \/ \E c \in Corrections : Steer(t, c)
  BY <1>10, <1>k, <1>p DEF StatusTakes, SteerFollows, StatusAsks, Asks, Steer, Pollers
<1>11. CASE UNCHANGED vars
  BY <1>11, <1>k DEF vars
<1>12. CASE \/ SubmitReserves \/ Reset \/ ResetStops \/ (\E deletes \in BOOLEAN : ResetEnds(deletes))
            \/ HangUp \/ PeerReserves \/ PeerReleases \/ Restart
            \/ \E continued \in BOOLEAN, relation \in {"new", "independent", "follow_up"} : Submit(continued, relation)
  BY <1>12, <1>k DEF SubmitReserves, Reset, ResetStops, ResetEnds, HangUp, PeerReserves, PeerReleases, Restart, Submit
<1>13. CASE \E t \in Tasks : Lapse(t) \/ Cancel(t) \/ Continue(t) \/ DeliverSends(t) \/ DeliverRecords(t)
  BY <1>13, <1>k DEF Lapse, Cancel, Continue, DeliverSends, DeliverRecords
<1>14. CASE \E r \in Runs : \/ PostArrives(r) \/ PostHandled(r) \/ LaunchTimesOut(r)
                            \/ PostRefused(r) \/ NativeTakes(r)
                            \/ \E status \in {"completed", "failed"} : NativeEnds(r, status)
  BY <1>14, <1>k DEF PostArrives, PostHandled, LaunchTimesOut, PostRefused, NativeTakes, NativeEnds
<1> QED BY <1>1, <1>2, <1>3, <1>4, <1>5, <1>6, <1>7, <1>8, <1>9, <1>10, <1>11, <1>12, <1>13, <1>14
           DEF Next, Observes, Posts, Answers, Stopping, Requests, Events

-----------------------------------------------------------------------------
(* The holders of the run locks *)

\* While its lock is held, and kept, no step but the holder's ends a task or takes its run.
LEMMA AskableStays ==
  ASSUME Types, OpOK, PollsOK, AnswersOK, TextsOK, AttemptsOK, Effect,
         NEW q \in Pollers, poll[q].task # 0, poll'[q] = poll[q], poll'[q] # NoPoll
  PROVE  /\ poll[q].task \in Active(row') /\ row'[poll[q].task].run
         /\ row'[poll[q].task].attempt = row[poll[q].task].attempt
<1> DEFINE u == poll[q].task
           Goal == u \in Active(row') /\ row'[u].run /\ row'[u].attempt = row[u].attempt
<1> SUFFICES Goal
  OBVIOUS
<1>u. u \in Tasks /\ u \in Active(row) /\ Has(row, u) /\ row[u].run /\ row[u].status \notin TERMINAL
  BY DEF PollsOK, Askable, Active
<1>d. \A p \in Pollers : p # q /\ poll[p].task # 0 => poll[p].task # u
  BY DEF PollsOK
<1>p. poll \in [Pollers -> PollType]
  BY DEF Types, LoopTyped
<1>0. ASSUME row'[u] = row[u] PROVE Goal
  BY <1>0, <1>u DEF Active, Has
<1>c. ASSUME row'[u].run, row'[u].status \in {"stopping", "accepted"},
             row'[u].attempt = row[u].attempt
      PROVE  Goal
  BY <1>c, <1>u DEF Active, Has, TERMINAL
<1> HIDE DEF Goal
<1>h. ASSUME NEW p \in Pollers, poll' = [poll EXCEPT ![p] = NoPoll] PROVE p # q
  BY <1>h, <1>p
<1> HIDE DEF u
<1>1. CASE ENothing \/ ECrashes \/ \E r \in Runs : ETakes(r) \/ \E status \in Over : EEnds(r, status)
  BY <1>0, <1>1 DEF ENothing, ECrashes, Crash, ETakes, NativeTakes, EEnds
<1>2. CASE \/ \E p \in Pollers : EDrops(p)
           \/ \E t \in Tasks : (\E p \in Pollers : EAsks(p, t)) \/ (\E c \in Corrections : ESteers(t, c))
  BY <1>0, <1>2 DEF EDrops, EAsks, ESteers, Steer
<1>3. ASSUME NEW t \in Tasks, EReserves(t) PROVE Goal
  <2>1. row[t] = NoRow /\ (u # t => row'[u] = row[u])
    BY <1>3, <1>u, ReservesRow DEF Only
  <2> QED BY <2>1, <1>0, <1>u DEF Has, NoRow
<1>4. ASSUME NEW r \in Runs, EAnswers(r) PROVE Goal
  BY <1>4, <1>0, <1>u, AnswersRow DEF Only
<1>5. ASSUME NEW r \in Runs, EHandles(r) PROVE Goal
  BY <1>5, <1>0, <1>c, <1>u, HandlesRow DEF Only
<1>6. ASSUME NEW t \in Tasks, EStops(t) PROVE Goal
  BY <1>6, <1>0, <1>c, <1>u, StopsRow DEF Only, SameRun
<1>7. CASE EFollows \/ \E p \in Pollers : ECorrects(p)
  <2>1. PICK p \in Pollers, t \in Tasks, texts \in SUBSET Corrections : Follows(p, t, texts)
    BY <1>7, CorrectionFollows
  <2>2. u # t
    <3>1. t = poll[p].task /\ p # q /\ t # 0
      <4>1. t = poll[p].task /\ poll' = [poll EXCEPT ![p] = NoPoll]
        BY <2>1 DEF Follows
      <4>2. t # 0
        BY LimitAssumption DEF Tasks
      <4> QED BY <4>1, <4>2, <1>h
    <3> QED BY <3>1, <1>d
  <2> QED BY <2>1, <2>2, <1>0, <1>u, FollowsRow DEF Only
<1>8. ASSUME NEW p \in Pollers, EReports(p) PROVE Goal
  <2>1. u # poll[p].task
    BY <1>8, <1>h, <1>d DEF EReports
  <2> QED BY <1>8, <2>1, <1>0, <1>u, ReportsRow DEF Only
<1>9. ASSUME NEW p \in Pollers, EContinues(p) PROVE Goal
  <2>1. u # poll[p].task
    BY <1>9, <1>h, <1>d DEF EContinues
  <2> QED BY <1>9, <2>1, <1>0, <1>u, ContinuesRow DEF Only
<1>10. ASSUME NEW t \in Tasks, NEW continued \in BOOLEAN, NEW delivery \in Deliveries,
              EMarks(t, continued, delivery)
       PROVE  Goal
  BY <1>10, <1>0, <1>u, MarksRow DEF Only, SameRun, Goal, Active, Has
<1>11. CASE EClears
  BY <1>11, <1>u DEF EClears
<1>12. CASE ERestarts
  BY <1>12, <1>0, <1>u, RestartsRows
<1> QED
  BY <1>1, <1>2, <1>3, <1>4, <1>5, <1>6, <1>7, <1>8, <1>9, <1>10, <1>11, <1>12 DEF Effect

LEMMA PollsStep ==
  ASSUME Types, OpOK, PollsOK, RunsOK, AnswersOK, TextsOK, AttemptsOK, [Next]_vars
  PROVE  PollsOK'
<1>e. Effect
  BY Effects
<1>p. poll \in [Pollers -> PollType]
  BY DEF Types, LoopTyped
<1>n. NoPoll.task = 0
  BY DEF NoPoll
\* What became of the locks: one was let go, or taken for a task that nobody held.
<1>1. /\ DOMAIN poll' = Pollers
      /\ \A q \in Pollers :
           \/ poll'[q] = NoPoll \/ poll'[q] = poll[q]
           \/ /\ poll'[q].task # 0 /\ (poll'[q].text # {} <=> q = "steer")
              /\ row' = row /\ Askable(poll'[q].task)
              /\ \A s \in Pollers : s # q => poll'[s] = poll[s] /\ poll[s].task # poll'[q].task
  <2>1. CASE poll' = poll
    BY <2>1, <1>p
  <2>2. ASSUME NEW s \in Pollers, poll' = [poll EXCEPT ![s] = NoPoll] PROVE <1>1
    BY <2>2, <1>p
  <2>3. ASSUME NEW s \in Pollers, NEW t \in Tasks, NEW state, NEW text, text # {} <=> s = "steer",
               row' = row, Askable(t), ~Locked(t),
               poll' = [poll EXCEPT ![s] = [task |-> t, state |-> state, text |-> text]]
        PROVE  <1>1
    BY <2>3, <1>p DEF Locked, Tasks
  <2>4. CASE \/ ENothing \/ EClears \/ ERestarts
             \/ \E r \in Runs : EAnswers(r) \/ EHandles(r) \/ ETakes(r) \/ \E status \in Over : EEnds(r, status)
             \/ \E t \in Tasks : \/ EReserves(t) \/ EStops(t)
                                 \/ \E continued \in BOOLEAN, delivery \in Deliveries : EMarks(t, continued, delivery)
    BY <2>1, <2>4 DEF ENothing, EClears, ERestarts, Restart, EAnswers, EHandles, PostHandled, ETakes,
             NativeTakes, EEnds, EReserves, EStops, EMarks
  <2>5. CASE EFollows \/ \E p \in Pollers : ECorrects(p) \/ EReports(p) \/ EContinues(p) \/ EDrops(p)
    BY <2>2, <2>5 DEF EFollows, ECorrects, EReports, EContinues, EDrops, Pollers
  <2>6. CASE ECrashes
    BY <2>6 DEF ECrashes, Crash
  <2>7. CASE \E t \in Tasks, p \in Pollers : EAsks(p, t)
    BY <2>3, <2>7 DEF EAsks, Asks
  <2>8. ASSUME NEW t \in Tasks, NEW c \in Corrections, ESteers(t, c) PROVE <1>1
    <3>1. row' = row /\ Askable(t) /\ ~Locked(t)
      BY <2>8 DEF ESteers, Steer
    <3>2. poll' = poll \/ poll' = [poll EXCEPT !["steer"] = [task |-> t, state |-> native[Run(t)], text |-> {c}]]
      BY <2>8 DEF ESteers, Steer
    <3> QED BY <2>1, <2>3, <3>1, <3>2 DEF Pollers
  <2> QED BY <2>4, <2>5, <2>6, <2>7, <2>8, <1>e DEF Effect
<1>2. ASSUME NEW q \in Pollers, poll'[q].task # 0
      PROVE  /\ poll'[q].task \in Active(row') /\ row'[poll'[q].task].run
             /\ poll'[q].text # {} <=> q = "steer"
             /\ \A s \in Pollers : s # q => poll'[s].task # poll'[q].task
  <2>1. CASE poll'[q] = poll[q]
    <3>1. poll[q].task # 0 /\ poll'[q] # NoPoll
      BY <1>2, <2>1, <1>n
    <3>3. poll'[q].task \in Active(row') /\ row'[poll'[q].task].run
      BY <1>e, <2>1, <3>1, AskableStays
    <3>4. poll'[q].text # {} <=> q = "steer"
      BY <2>1, <3>1 DEF PollsOK
    <3>5. \A s \in Pollers : s # q => poll'[s].task # poll'[q].task
      BY <1>1, <1>2, <1>n, <2>1, <3>1 DEF PollsOK
    <3> QED BY <3>3, <3>4, <3>5
  <2>2. CASE poll'[q] # poll[q]
    <3>1. /\ poll'[q].text # {} <=> q = "steer"
          /\ row' = row /\ Askable(poll'[q].task)
          /\ \A s \in Pollers : s # q => poll'[s] = poll[s] /\ poll[s].task # poll'[q].task
      BY <1>1, <1>2, <1>n, <2>2
    <3> QED BY <3>1 DEF Askable
  <2> QED BY <2>1, <2>2
<1>3. \A q \in Pollers : poll'[q].task = 0 => poll'[q] = NoPoll
  BY <1>1 DEF PollsOK
<1>4. WatchOK(watch', poll')
  BY WatchMoves
<1> QED BY <1>2, <1>3, <1>4 DEF PollsOK, WatchOK, Askable

-----------------------------------------------------------------------------
(* Notices *)

\* What becomes of the notice of t: nothing, but that it may be forgotten or recorded; it
\* is claimed; it is sent.
Left(t) == heard'.notices[t] = heard.notices[t] /\ gate'.sending[t] \in {gate.sending[t], "none"}
Claimed(t) == /\ Unsent(t) /\ row'[t].status \in Ended \cup {"deleted"}
              /\ heard'.notices[t] = heard.notices[t] /\ gate'.sending[t] = "claimed"
              /\ row'[t].delivery = "uncertain" /\ watch'.rows[t] = NoRow
Sent(t) == /\ gate.sending[t] = "claimed" /\ heard'.notices[t] = heard.notices[t] + 1
           /\ gate'.sending[t] \in {"sent", "none"}
\* The observer's copy of a row is kept, dropped, or made.
Copied(t) == watch'.rows[t] = row[t] /\ UNCHANGED <<row, gate, heard>>
NoticeStep(t) == /\ Left(t) \/ Claimed(t) \/ Sent(t)
                 /\ watch'.rows[t] \in {NoRow, watch.rows[t]} \/ Copied(t)

LEMMA NoticeSteps ==
  ASSUME Types, PollsOK, NoticesOK, [Next]_vars, \A t \in Tasks : RowStep(t)
  PROVE  \A t \in Tasks : NoticeStep(t)
<1> SUFFICES ASSUME NEW u \in Tasks PROVE NoticeStep(u)
  OBVIOUS
<1>g. gate \in GateType /\ gate.sending \in [Tasks -> {"none", "claimed", "sent"}]
  BY DEF Types, LoopTyped, GateType
<1>h. heard \in HeardType /\ heard.notices \in [Tasks -> Nat]
  BY DEF Types, LoopTyped, HeardType
<1>w. watch \in WatchType /\ watch.rows \in [Tasks -> RowType] /\ watch.task \in 0..MaxTask
      /\ (watch.pc = "asleep" \/ watch.task \in Tasks)
  BY DEF Types, LoopTyped, WatchType, PollsOK
<1>0. ASSUME heard'.notices = heard.notices, gate'.sending = gate.sending,
             watch'.rows[u] \in {NoRow, watch.rows[u]}
      PROVE  NoticeStep(u)
  BY <1>0 DEF NoticeStep, Left
<1>n. ASSUME watch' = NextRow(watch) PROVE watch'.rows[u] \in {NoRow, watch.rows[u]}
  BY <1>n, <1>w, NextRowIs
<1>1. CASE WatchBegins
  <2> DEFINE rows == [t \in Tasks |-> IF Has(row, t) THEN row[t] ELSE NoRow]
             w == [NoWatch EXCEPT !.rows = rows]
  <2>1. watch' = NextRow(w) /\ UNCHANGED <<row, gate, heard>>
    BY <1>1 DEF WatchBegins
  <2>2. rows \in [Tasks -> RowType] /\ rows[u] \in {NoRow, row[u]}
    BY RowTyped, NoRowTyped
  <2>3. w.rows = rows /\ w.task = 0 /\ 0 \in 0..MaxTask
    BY LimitAssumption DEF NoWatch
  <2> HIDE DEF w, rows
  <2>4. watch'.rows[u] \in {NoRow, row[u]}
    BY <2>1, <2>2, <2>3, NextRowIs
  <2> QED BY <2>1, <2>4 DEF NoticeStep, Left, Copied
\* The observer passes on, and claims the notice of its row or not.
<1>p. ASSUME watch.pc # "asleep", watch' = NextRow(watch), heard' = heard,
             gate' = gate \/ ( /\ gate' = [gate EXCEPT !.sending[watch.task] = "claimed"]
                               /\ row'[watch.task].delivery = "uncertain" /\ Unsent(watch.task)
                               /\ row'[watch.task].status \in Ended \cup {"deleted"} )
      PROVE  NoticeStep(u)
  <2>1. watch'.rows[u] \in {NoRow, watch.rows[u]} /\ (u = watch.task => watch'.rows[u] = NoRow)
    BY <1>p, <1>w, NextRowIs
  <2>2. CASE gate' = gate
    BY <1>p, <1>0, <2>1, <2>2
  <2>3. CASE gate' = [gate EXCEPT !.sending[watch.task] = "claimed"]
    <3>1. gate'.sending = [gate.sending EXCEPT ![watch.task] = "claimed"]
      BY <1>g, <2>3 DEF GateType
    <3>2. CASE u # watch.task
      BY <1>p, <1>g, <2>1, <3>1, <3>2 DEF NoticeStep, Left
    <3>3. CASE u = watch.task /\ gate' # gate
      BY <1>p, <1>g, <2>1, <3>1, <3>3 DEF NoticeStep, Claimed
    <3> QED BY <2>2, <3>2, <3>3
  <2> QED BY <1>p, <2>2, <2>3
<1>2. CASE WatchPasses
  <2> DEFINE t == watch.task
  <2>1. watch.pc # "asleep" /\ t \in Tasks /\ Seen = watch.rows[t]
    BY <1>2, <1>w DEF WatchPasses, WatchAt, Seen
  <2>2. watch' = NextRow(watch) /\ heard' = heard
    BY <1>2 DEF WatchPasses, Passes
  <2>3. gate' = gate \/ ( /\ gate' = [gate EXCEPT !.sending[t] = "claimed"]
                          /\ row' = Claims(row, t) /\ Notifiable(Seen) )
    BY <1>2 DEF WatchPasses, Passes
  <2>4. ASSUME row' = Claims(row, t), Notifiable(Seen)
        PROVE  row'[t].delivery = "uncertain" /\ Unsent(t) /\ row'[t].status \in Ended \cup {"deleted"}
    <3>1. Unsent(t) /\ Gone(t)
      BY <2>1, <2>4 DEF Notifiable, NoticesOK
    <3>2. row' = [row EXCEPT ![t].delivery = "uncertain"]
      BY <2>4 DEF Claims
    <3>3. row'[t].delivery = "uncertain" /\ row'[t].status = row[t].status
      BY <2>1, <3>2, RowTyped DEF Types, TablesTyped, RowType
    <3> QED BY <3>1, <3>3 DEF Gone
  <2> QED BY <1>p, <2>1, <2>2, <2>3, <2>4
<1>3. CASE WatchSkips
  <2> DEFINE t == watch.task
  <2>1. watch.pc # "asleep" /\ t \in Tasks
    BY <1>3, <1>w DEF WatchSkips, Refreshing
  <2>2. watch' = NextRow(watch) /\ heard' = heard
    BY <1>3 DEF WatchSkips, Passes
  <2>3. gate' = gate \/ ( /\ gate' = [gate EXCEPT !.sending[t] = "claimed"]
                          /\ row' = Claims(row, t) /\ Notifiable(row[t]) )
    BY <1>3 DEF WatchSkips, Passes
  <2>4. ASSUME row' = Claims(row, t), Notifiable(row[t])
        PROVE  row'[t].delivery = "uncertain" /\ Unsent(t) /\ row'[t].status \in Ended \cup {"deleted"}
    <3>1. Unsent(t) /\ row[t].status \in Ended
      BY <2>1, <2>4 DEF Notifiable, NoticesOK, Ended
    <3>2. row' = [row EXCEPT ![t].delivery = "uncertain"]
      BY <2>4 DEF Claims
    <3>3. row'[t].delivery = "uncertain" /\ row'[t].status = row[t].status
      BY <2>1, <3>2, RowTyped DEF Types, TablesTyped, RowType
    <3> QED BY <3>1, <3>3
  <2> QED BY <1>p, <2>1, <2>2, <2>3, <2>4
<1>4. CASE WatchTakes
  <2> DEFINE t == watch.task
             state == poll["watch"].state
  <2>1. watch.pc # "asleep" /\ t \in Tasks
    BY <1>4, <1>w DEF WatchTakes, WatchAt
  <2>2. watch' = NextRow(watch) /\ heard' = heard
    BY <1>4 DEF WatchTakes, Passes
  <2>3. gate' = gate \/ ( /\ gate' = [gate EXCEPT !.sending[t] = "claimed"] /\ state.status \in Over
                          /\ row' = Claims(Final(t, state), t) /\ Notifiable(Final(t, state)[t]) )
    BY <1>4 DEF WatchTakes, Passes, Reports
  <2>4. ASSUME row' = Claims(Final(t, state), t), Notifiable(Final(t, state)[t]), state.status \in Over
        PROVE  row'[t].delivery = "uncertain" /\ Unsent(t) /\ row'[t].status \in Ended \cup {"deleted"}
    <3>1. row' = [Final(t, state) EXCEPT ![t].delivery = "uncertain"]
      BY <2>4 DEF Claims
    <3>2. Final(t, state) = [row EXCEPT ![t] = [row[t] EXCEPT !.status = Outcome(state), !.steer = state.steer]]
      BY <2>1, RowTyped DEF Final
    <3>3. Final(t, state)[t] = [row[t] EXCEPT !.status = Outcome(state), !.steer = state.steer]
          /\ t \in DOMAIN Final(t, state)
      BY <2>1, <3>2 DEF Types, TablesTyped
    <3>4. row[t] \in RowType
      BY <2>1, RowTyped
    <3>5. row[t].delivery = "pending"
      BY <2>4, <3>3, <3>4 DEF Notifiable, RowType
    <3>6. row'[t].delivery = "uncertain" /\ row'[t].status = Outcome(state)
      BY <3>1, <3>3, <3>4 DEF RowType
    <3>7. Outcome(state) \in Ended
      BY <2>4 DEF Outcome, Over, Ended, TERMINAL
    <3> QED BY <2>1, <3>5, <3>6, <3>7 DEF NoticesOK
  <2> QED BY <1>p, <2>1, <2>2, <2>3, <2>4
<1>5. ASSUME NEW t \in Tasks, DeliverSends(t) PROVE NoticeStep(u)
  <2>1. watch' = watch /\ gate.sending[t] = "claimed"
    BY <1>5 DEF DeliverSends
  <2>2. CASE heard' = heard /\ gate' = [gate EXCEPT !.sending[t] = "none"]
    BY <1>g, <2>1, <2>2 DEF NoticeStep, Left, GateType
  <2>3. ASSUME heard' = [heard EXCEPT !.notices[t] = @ + 1],
               NEW outcome \in {"sent", "none"}, gate' = [gate EXCEPT !.sending[t] = outcome]
        PROVE  NoticeStep(u)
    <3>1. gate'.sending = [gate.sending EXCEPT ![t] = outcome]
      BY <1>g, <2>3 DEF GateType
    <3>2. heard'.notices = [heard.notices EXCEPT ![t] = heard.notices[t] + 1]
      BY <1>h, <2>3 DEF HeardType
    <3> QED BY <1>g, <1>h, <2>1, <3>1, <3>2 DEF NoticeStep, Left, Sent
  <2> QED BY <1>5, <2>2, <2>3 DEF DeliverSends
<1>6. ASSUME NEW t \in Tasks, DeliverRecords(t) PROVE NoticeStep(u)
  <2>1. gate'.sending = [gate.sending EXCEPT ![t] = "none"]
    BY <1>6, <1>g DEF DeliverRecords, GateType
  <2> QED BY <1>6, <1>g, <2>1 DEF DeliverRecords, NoticeStep, Left
<1>7. CASE Crash
  <2>1. gate'.sending[u] = "none" /\ heard' = heard /\ watch'.rows[u] = NoRow
    BY <1>7 DEF Crash, NoWatch
  <2> QED BY <2>1 DEF NoticeStep, Left
<1>8. CASE WatchStops \/ WatchKeeps \/ WatchWaits \/ WatchAsks
  <2>1. UNCHANGED <<gate, heard>>
    BY <1>8 DEF WatchStops, WatchKeeps, WatchWaits, WatchAsks
  <2>2. watch' = NextRow(watch) \/ \E pc : watch' = [watch EXCEPT !.pc = pc]
    BY <1>8 DEF WatchStops, WatchKeeps, WatchWaits, WatchAsks
  <2> QED BY <1>0, <1>n, <1>w, <2>1, <2>2 DEF WatchType
<1>9. CASE \E p \in Pollers : AskLost(p)
  BY <1>9, <1>0, <1>n DEF AskLost
<1>10. CASE \E r \in Runs : StopArrives(r) \/ StopLost(r)
  <2>1. gate'.sending = gate.sending /\ heard' = heard
    BY <1>10, <1>g DEF StopArrives, StopLost, GateType
  <2>2. watch' = watch \/ watch' = NextRow(watch) \/ watch' = [watch EXCEPT !.pc = "refresh"]
    BY <1>10 DEF StopArrives, StopLost
  <2> QED BY <1>0, <1>n, <1>w, <2>1, <2>2 DEF WatchType
<1>11. CASE \/ SubmitReserves \/ Reset \/ ResetStops \/ (\E deletes \in BOOLEAN : ResetEnds(deletes)) \/ Restart
            \/ \E continued \in BOOLEAN, relation \in {"new", "independent", "follow_up"} : Submit(continued, relation)
  <2>1. UNCHANGED <<heard, watch>>
    BY <1>11 DEF SubmitReserves, Reset, ResetStops, ResetEnds, Restart, Submit
  <2>2. gate'.sending = gate.sending
    BY <1>11, <1>g DEF SubmitReserves, Reset, ResetStops, ResetEnds, Restart, Submit, GateType
  <2> QED BY <1>0, <2>1, <2>2
<1>12. CASE \/ \E r \in Runs : PostHandled(r) \/ NativeTakes(r)
            \/ \E t \in Tasks, c \in Corrections : Steer(t, c)
  <2>1. UNCHANGED <<gate, watch>>
    BY <1>12 DEF PostHandled, NativeTakes, Steer
  <2>2. heard'.notices = heard.notices
    BY <1>12, <1>h DEF PostHandled, NativeTakes, Steer, HeardType
  <2> QED BY <1>0, <2>1, <2>2
<1>13. CASE \/ StatusTakes \/ SteerFollows \/ HangUp \/ PeerReserves \/ PeerReleases \/ UNCHANGED vars
            \/ (\E t \in Tasks : Lapse(t) \/ Cancel(t) \/ Continue(t) \/ StatusAsks(t))
            \/ \E r \in Runs : \/ PostArrives(r) \/ LaunchTimesOut(r) \/ PostRefused(r)
                               \/ \E status \in {"completed", "failed"} : NativeEnds(r, status)
  BY <1>13, <1>0 DEF StatusTakes, SteerFollows, HangUp, PeerReserves, PeerReleases, vars, Lapse, Cancel,
           Continue, StatusAsks, PostArrives, LaunchTimesOut, PostRefused, NativeEnds
<1> QED BY <1>1, <1>2, <1>3, <1>4, <1>5, <1>6, <1>7, <1>8, <1>9, <1>10, <1>11, <1>12, <1>13
           DEF Next, Observes, Posts, Answers, Stopping, Requests, Events

LEMMA NoticesStep ==
  ASSUME Types, OpOK, PollsOK, RunsOK, AnswersOK, TextsOK, AttemptsOK, NoticesOK, [Next]_vars
  PROVE  NoticesOK'
<1>1. \A t \in Tasks : RowStep(t)
  BY Effects, RowSteps
<1>2. \A t \in Tasks : NoticeStep(t)
  BY <1>1, NoticeSteps
<1> SUFFICES ASSUME NEW t \in Tasks
             PROVE  /\ heard'.notices[t] <= 1
                    /\ gate'.sending[t] = "claimed" => heard'.notices[t] = 0
                    /\ ~Unsent(t)' => Gone(t)'
                    /\ row'[t].delivery = "pending" => Unsent(t)'
                    /\ watch'.rows[t].delivery = "pending" => Unsent(t)'
                    /\ watch'.rows[t].status \in TERMINAL => Gone(t)'
  BY DEF NoticesOK
<1>3. heard.notices[t] \in Nat
  BY DEF Types, LoopTyped, HeardType
<1>4. Gone(t) => Gone(t)'
  BY <1>1 DEF RowStep, Gone
<1>5. row'[t].delivery = "pending" => Unsent(t)
  BY <1>1 DEF RowStep, NoticesOK
<1>6. \/ watch'.rows[t] = NoRow
      \/ watch'.rows[t] = watch.rows[t]
      \/ Copied(t)
  BY <1>2 DEF NoticeStep
<1>7. watch'.rows[t].status \in TERMINAL => Gone(t)'
  <2>1. CASE watch'.rows[t] = NoRow
    BY <2>1 DEF NoRow, TERMINAL
  <2>2. CASE watch'.rows[t] = watch.rows[t]
    BY <2>2, <1>4 DEF NoticesOK
  <2>3. CASE Copied(t)
    BY <2>3 DEF Copied, Gone, Ended
  <2> QED BY <1>6, <2>1, <2>2, <2>3
<1>8. watch'.rows[t].delivery = "pending" => Unsent(t)
  <2>1. CASE watch'.rows[t] = NoRow
    BY <2>1 DEF NoRow
  <2>2. CASE watch'.rows[t] = watch.rows[t] \/ Copied(t)
    BY <2>2 DEF NoticesOK, Copied
  <2> QED BY <1>6, <2>1, <2>2
<1>9. CASE Left(t)
  <2>1. Unsent(t) => Unsent(t)'
    BY <1>9 DEF Left, Unsent
  <2> QED BY <1>3, <1>4, <1>5, <1>7, <1>8, <1>9, <2>1 DEF Left, NoticesOK
<1>10. CASE Claimed(t)
  <2>1. watch'.rows[t].delivery # "pending"
    BY <1>10 DEF Claimed, NoRow
  <2> QED BY <1>7, <1>10, <2>1 DEF Claimed, Unsent, Gone
<1>11. CASE Sent(t)
  <2>1. ~Unsent(t) /\ heard.notices[t] = 0 /\ heard'.notices[t] = 1 /\ gate'.sending[t] # "claimed"
    BY <1>11, <1>3 DEF Sent, Unsent, NoticesOK
  <2> QED BY <1>4, <1>5, <1>7, <1>8, <2>1 DEF NoticesOK
<1> QED BY <1>2, <1>9, <1>10, <1>11 DEF NoticeStep

-----------------------------------------------------------------------------
(* Runs and posts *)

LEMMA RunsStep ==
  ASSUME Types, OpOK, PollsOK, RunsOK, AnswersOK, TextsOK, AttemptsOK, Effect
  PROVE  RunsOK'
<1> SUFFICES ASSUME NEW t \in Tasks, NEW a \in Attempts PROVE RunOK(t, a)'
  BY DEF RunsOK
<1> DEFINE r == <<t, a>>
           Cond(x, P, N) ==
             /\ P.server = "none" => P = NoPost
             /\ P.server # "none" => N = NoRun
             /\ x.status # "deleted" =>
                  /\ a # x.attempt \/ x.run \/ x.status = "absent" => P = NoPost
                  /\ a > x.attempt \/ (a = x.attempt /\ ~x.run) => N = NoRun
                  /\ a < x.attempt => N.status = "completed"
<1>o. Cond(row[t], posts[r], native[r])
  BY DEF RunsOK, RunOK
<1> DEFINE Goal == Cond(row'[t], posts'[r], native'[r])
<1>g. SUFFICES Goal
  BY DEF RunOK
<1>r. r \in Runs /\ r[1] = t /\ r[2] = a /\ \A s \in Runs : s[1] = t /\ s[2] = a => s = r
  BY DEF Runs
<1>y. native \in [Runs -> NativeType] /\ posts \in [Runs -> PostType] /\ native[r] \in NativeType /\ posts[r] \in PostType
  BY <1>r DEF Types, TablesTyped
<1>a. row[t].attempt \in Nat /\ a \in Nat
  BY RowTyped, CorrectionsCounted
<1> HIDE DEF r
\* Nothing of the task's run changes.
<1>0. ASSUME posts'[r] = posts[r], native'[r] = native[r],
             \/ row'[t] = row[t]
             \/ row'[t].status = "deleted"
             \/ Has(row, t) /\ Has(row', t) /\ SameRun(t)
      PROVE  Goal
  BY <1>0, <1>o DEF SameRun, Has
<1> HIDE DEF Goal
<1>1. CASE ENothing
  BY <1>0, <1>1 DEF ENothing
<1>2. CASE \/ \E p \in Pollers : EDrops(p)
           \/ \E s \in Tasks, p \in Pollers : EAsks(p, s)
  BY <1>0, <1>2 DEF EDrops, EAsks
<1>3. ASSUME NEW s \in Tasks, EReserves(s) PROVE Goal
  <2>1. row[s] = NoRow /\ Only(s) /\ row'[s].status = "submitting" /\ row'[s].attempt = 0 /\ row'[s].run = FALSE
    BY <1>3, ReservesRow
  <2>2. native' = native /\ posts' = [posts EXCEPT ![<<s, 0>>] = [NoPost EXCEPT !.client = TRUE, !.server = "arriving"]]
    BY <1>3 DEF EReserves
  <2>3. CASE t # s
    BY <2>1, <2>2, <2>3, <1>0, <1>r, <1>y DEF Only, r
  <2>4. CASE t = s
    <3>1. native[r] = NoRun /\ posts[r] = NoPost
      BY <2>1, <2>4, <1>o, <1>a DEF NoRow
    <3>2. posts'[r] = IF a = 0 THEN [NoPost EXCEPT !.client = TRUE, !.server = "arriving"] ELSE NoPost
      BY <2>2, <2>4, <3>1, <1>y, <1>r DEF r
    <3> QED BY <2>1, <2>2, <2>4, <3>1, <3>2, <1>a DEF Goal, NoPost
  <2> QED BY <2>3, <2>4
<1>4. ASSUME NEW s \in Runs, EAnswers(s) PROVE Goal
  <2>1. native' = native /\ posts[s].server # "none"
    BY <1>4 DEF EAnswers
  <2>2. row'[t] = row[t] \/ (Has(row, t) /\ Has(row', t) /\ SameRun(t))
    BY <1>4, AnswersRow DEF Only, Current, Has
  <2>3. CASE s # r
    <3>1. posts'[r] = posts[r]
      BY <1>4, <2>3, <1>y, <1>r DEF EAnswers
    <3> QED BY <2>1, <2>2, <3>1, <1>0
  <2>4. CASE s = r
    <3>1. posts'[r] = NoPost \/ posts'[r].server # "none"
      BY <1>4, <2>4, <1>r, <1>y DEF EAnswers, PostType
    <3>2. native[r] = NoRun /\ (row[t].status # "deleted" => a = row[t].attempt /\ ~row[t].run /\ row[t].status # "absent")
      BY <2>1, <2>4, <1>o DEF NoPost
    <3> QED BY <2>1, <2>2, <3>1, <3>2, <1>a DEF Goal, SameRun, Has, NoPost
  <2> QED BY <2>3, <2>4
<1>5. ASSUME NEW s \in Runs, EHandles(s) PROVE Goal
  <2>1. posts[s].server = "handling" /\ posts' = [posts EXCEPT ![s] = NoPost]
        /\ native' = [native EXCEPT ![s].status = "running"]
    BY <1>5 DEF EHandles, PostHandled
  <2>2. CASE s = r
    <3>1. posts'[r] = NoPost /\ native'[r].status = "running"
      BY <2>1, <2>2, <1>y, <1>r DEF NativeType
    <3>2. row[t].status # "deleted" => a = row[t].attempt /\ row[t].status # "absent"
      BY <2>1, <2>2, <1>o DEF NoPost
    <3>3. row[t].status # "deleted" => Current(r)
      BY <3>2, <1>r DEF Current, Has, Run, r
    <3>4. row[t].status # "deleted" => row'[t].run = TRUE /\ row'[t].attempt = a
      BY <1>5, <2>2, <3>2, <3>3, <1>r, HandlesRow
    <3>5. row[t].status = "deleted" => row'[t].status = "deleted"
      BY <1>5, <2>2, <1>r, HandlesRow DEF Current, Has
    <3> QED BY <3>1, <3>4, <3>5, <1>a DEF Goal, NoPost
  <2>3. CASE s # r
    <3>1. posts'[r] = posts[r] /\ native'[r] = native[r]
      BY <2>1, <2>3, <1>y, <1>r
    <3>2. CASE row'[t] = row[t]
      BY <3>1, <3>2, <1>0
    <3>3. CASE row'[t] # row[t]
      <4>1. s[1] = t /\ Current(s) /\ row'[t].attempt = row[t].attempt /\ row'[t].run = TRUE
        BY <1>5, <3>3, HandlesRow DEF Only
      <4>2. a # row[t].attempt /\ row[t].status \notin {"absent", "deleted"}
        BY <4>1, <2>3, <1>r DEF Current, Run, r, Has
      <4> QED BY <3>1, <4>1, <4>2, <1>o DEF Goal
    <3> QED BY <3>2, <3>3
  <2> QED BY <2>2, <2>3
<1>6. ASSUME NEW s \in Tasks, EStops(s) PROVE Goal
  <2>1. row'[t] = row[t] \/ (Has(row, t) /\ Has(row', t) /\ SameRun(t))
    BY <1>6, StopsRow DEF Only, Active, Has
  <2> QED BY <1>6, <2>1, <1>0 DEF EStops
<1>7. CASE EFollows \/ \E p \in Pollers : ECorrects(p)
  <2>1. PICK p \in Pollers, s \in Tasks, texts \in SUBSET Corrections : Follows(p, s, texts)
    BY <1>7, CorrectionFollows
  <2> DEFINE n == row[s].attempt
  <2>2. Only(s) /\ row'[s].run = FALSE /\ row'[s].attempt = n + 1 /\ row'[s].status = "submitting" /\ n \in Nat
    BY <2>1, FollowsRow, RowTyped, CorrectionsCounted
  <2>3. posts' = [posts EXCEPT ![<<s, n + 1>>] = [client |-> TRUE, server |-> "arriving", text |-> texts]]
        /\ native' = native /\ native[<<s, n>>].status = "completed" /\ row[s].run /\ Has(row, s)
    BY <2>1 DEF Follows, StartCorrection, Run, Askable, Active
  <2>4. CASE t # s
    BY <2>2, <2>3, <2>4, <1>0, <1>r, <1>y DEF Only, r
  <2>5. CASE t = s
    <3>1. row[t].status # "deleted" /\ posts[r] = NoPost
      BY <2>3, <2>5, <1>o DEF Has
    <3>2. CASE a = n + 1
      <4>1. native[r] = NoRun
        BY <2>2, <2>5, <3>1, <3>2, <1>o
      <4>2. posts'[r].server = "arriving"
        BY <2>3, <2>5, <3>2, <1>y, <1>r DEF r
      <4> QED BY <2>2, <2>3, <2>5, <3>2, <4>1, <4>2, <1>a DEF Goal
    <3>3. CASE a # n + 1
      <4>1. posts'[r] = NoPost
        BY <2>3, <3>1, <3>3, <1>y, <1>r DEF r
      <4>2. a = n => native[r].status = "completed"
        BY <2>3, <2>5 DEF r
      <4> QED BY <2>2, <2>3, <2>5, <3>1, <3>3, <4>1, <4>2, <1>a, <1>o DEF Goal, NoPost
    <3> QED BY <3>2, <3>3
  <2> QED BY <2>4, <2>5
<1>8. ASSUME NEW p \in Pollers, EReports(p) PROVE Goal
  <2>1. row'[t] = row[t] \/ (Has(row, t) /\ Has(row', t) /\ SameRun(t))
    BY <1>8, ReportsRow DEF Only, Askable, Active, Has, Over
  <2> QED BY <1>8, <2>1, <1>0 DEF EReports, Retires
<1>9. ASSUME NEW p \in Pollers, EContinues(p) PROVE Goal
  <2>1. row'[t] = row[t] \/ (Has(row, t) /\ Has(row', t) /\ SameRun(t))
    BY <1>9, ContinuesRow DEF Only, Askable, Active, Has
  <2> QED BY <1>9, <2>1, <1>0 DEF EContinues
<1>10. ASSUME NEW s \in Tasks, NEW continued \in BOOLEAN, NEW delivery \in Deliveries,
              EMarks(s, continued, delivery)
       PROVE  Goal
  <2>1. row'[t] = row[t] \/ (Has(row, t) /\ Has(row', t) /\ SameRun(t))
    BY <1>10, MarksRow DEF Only, Has
  <2> QED BY <1>10, <2>1, <1>0 DEF EMarks
<1>11. CASE EClears
  <2>1. row'[t] = row[t] \/ row'[t].status = "deleted"
    BY <1>11, ClearsRows DEF NoRow
  <2> QED BY <1>11, <2>1, <1>0 DEF EClears
<1>12. CASE ERestarts
  <2>1. row'[t] = row[t] \/ (Has(row, t) /\ Has(row', t) /\ SameRun(t))
    BY <1>12, RestartsRows DEF Active, Has
  <2> QED BY <1>12, <2>1, <1>0 DEF ERestarts, Restart
<1>13. CASE ECrashes
  <2>1. row' = row /\ posts'[r] = NoPost
        /\ native'[r] = IF native[r].status = "running" THEN [native[r] EXCEPT !.status = "interrupted"] ELSE native[r]
    BY <1>13, <1>r DEF ECrashes, Crash
  <2> QED BY <2>1, <1>o DEF Goal, NoPost, NoRun
\* A run that is there goes on or ends.
<1>14. ASSUME row' = row, posts' = posts, NEW s \in Runs, native[s].status = "running",
              \E x \in NativeType : native' = [native EXCEPT ![s] = x]
       PROVE  Goal
  <2>1. CASE s # r
    BY <1>14, <2>1, <1>0, <1>y
  <2>2. CASE s = r
    <3>1. native[r] # NoRun /\ native[r].status # "completed"
      BY <1>14, <2>2 DEF NoRun
    <3> QED BY <1>14, <3>1, <1>o DEF Goal
  <2> QED BY <2>1, <2>2
<1>15. ASSUME NEW s \in Runs, ETakes(s) PROVE Goal
  <2>1. [native[s] EXCEPT !.steer = {}] \in NativeType
    BY <1>y DEF NativeType
  <2> QED BY <1>15, <2>1, <1>14 DEF ETakes, NativeTakes
<1>16. ASSUME NEW s \in Runs, NEW status \in Over, EEnds(s, status) PROVE Goal
  <2>1. [native[s] EXCEPT !.status = status] \in NativeType
    BY <1>y DEF NativeType
  <2> QED BY <1>16, <2>1, <1>14 DEF EEnds
<1>17. ASSUME NEW s \in Tasks, NEW c \in Corrections, ESteers(s, c) PROVE Goal
  <2>1. row' = row /\ posts' = posts
    BY <1>17 DEF ESteers, Steer
  <2>2. CASE native' = native
    BY <2>1, <2>2, <1>0
  <2>3. CASE native' # native
    <3>1. Run(s) \in Runs /\ native[Run(s)].status = "running"
          /\ native' = [native EXCEPT ![Run(s)].steer = native[Run(s)].steer \cup {c}]
      BY <1>17, <2>3, <1>y, RunIsRun DEF ESteers, Steer
    <3>2. [native[Run(s)] EXCEPT !.steer = native[Run(s)].steer \cup {c}] \in NativeType
      BY <3>1, <1>y DEF NativeType
    <3> QED BY <2>1, <3>1, <3>2, <1>14
  <2> QED BY <2>2, <2>3
<1> QED
  BY <1>1, <1>2, <1>3, <1>4, <1>5, <1>6, <1>7, <1>8, <1>9, <1>10, <1>11, <1>12, <1>13, <1>15,
     <1>16, <1>17 DEF Effect

-----------------------------------------------------------------------------
(* Answers *)

LEMMA RunTypes ==
  ASSUME Types, NEW r \in Runs
  PROVE  /\ r = <<r[1], r[2]>> /\ r[1] \in Tasks /\ r[2] \in Attempts
         /\ native \in [Runs -> NativeType] /\ native[r].status \in Over \cup {"none", "running"}
         /\ native[r].steer \in SUBSET Corrections
         /\ native[r] = [status |-> native[r].status, steer |-> native[r].steer]
         /\ posts \in [Runs -> PostType] /\ posts[r].text \in SUBSET Corrections
<1>1. native[r] \in NativeType /\ posts[r] \in PostType
  BY DEF Types, TablesTyped
<1>2. native \in [Runs -> NativeType] /\ posts \in [Runs -> PostType]
  BY DEF Types, TablesTyped
<1>3. r = <<r[1], r[2]>> /\ r[1] \in Tasks /\ r[2] \in Attempts
  BY DEF Runs
<1> QED BY <1>1, <1>2, <1>3 DEF NativeType, PostType

\* What a post brings, it brings to a run that does not exist.
LEMMA PostedIsNew ==
  ASSUME Types, RunsOK, NEW r \in Runs, posts[r].server # "none"
  PROVE  native[r] = NoRun
<1>1. r = <<r[1], r[2]>> /\ r[1] \in Tasks /\ r[2] \in Attempts
  BY RunTypes
<1> QED BY <1>1 DEF RunsOK, RunOK

LEMMA OverStays ==
  ASSUME Types, RunsOK, Effect, NEW r \in Runs, native[r].status \in Over
  PROVE  native'[r] = native[r]
<1>n. native[r].status # "running" /\ native[r] # NoRun
  BY DEF Over, NoRun
<1>t. native \in [Runs -> NativeType]
  BY DEF Types, TablesTyped
<1>1. ASSUME NEW s \in Runs, EHandles(s) PROVE native'[r] = native[r]
  <2>1. native[s] = NoRun
    BY <1>1, PostedIsNew DEF EHandles, PostHandled
  <2> QED BY <1>1, <1>n, <1>t, <2>1 DEF EHandles, PostHandled
<1>2. ASSUME NEW s \in Runs, ETakes(s) \/ \E status \in Over : EEnds(s, status) PROVE native'[r] = native[r]
  BY <1>2, <1>n, <1>t DEF ETakes, NativeTakes, EEnds
<1>3. ASSUME NEW t \in Tasks, NEW c \in Corrections, ESteers(t, c) PROVE native'[r] = native[r]
  BY <1>3, <1>n, <1>t DEF ESteers, Steer
<1>4. CASE ECrashes
  BY <1>4, <1>n DEF ECrashes, Crash
<1>5. CASE ENothing \/ EClears \/ ERestarts \/ EFollows \/ \E s \in Runs : EAnswers(s)
  BY <1>5 DEF ENothing, EClears, ERestarts, Restart, EFollows, EAnswers
<1>6. CASE \E p \in Pollers : ECorrects(p) \/ EReports(p) \/ EContinues(p) \/ EDrops(p)
  BY <1>6 DEF ECorrects, EReports, EContinues, EDrops
<1>7. CASE \E t \in Tasks : \/ EReserves(t) \/ EStops(t) \/ (\E p \in Pollers : EAsks(p, t))
                            \/ \E continued \in BOOLEAN, delivery \in Deliveries : EMarks(t, continued, delivery)
  BY <1>7 DEF EReserves, EStops, EAsks, EMarks
<1> QED BY <1>1, <1>2, <1>3, <1>4, <1>5, <1>6, <1>7 DEF Effect

\* A new answer is what Hermes knows at the moment.
LEMMA NewAnswers ==
  ASSUME Types, PollsOK, Effect, NEW q \in Pollers, poll'[q] # NoPoll, poll'[q] # poll[q]
  PROVE  \E t \in Tasks : /\ poll'[q].task = t /\ poll'[q].state = native[Run(t)]
                          /\ row' = row /\ native' = native
<1>p. poll \in [Pollers -> PollType]
  BY DEF Types, LoopTyped
<1>1. CASE \/ ENothing \/ EClears \/ ERestarts \/ ECrashes
           \/ \E r \in Runs : EAnswers(r) \/ EHandles(r) \/ ETakes(r) \/ \E status \in Over : EEnds(r, status)
           \/ \E t \in Tasks : \/ EReserves(t) \/ EStops(t)
                               \/ \E continued \in BOOLEAN, delivery \in Deliveries : EMarks(t, continued, delivery)
  BY <1>1 DEF ENothing, EClears, ERestarts, Restart, ECrashes, Crash, EAnswers, EHandles, PostHandled, ETakes,
           NativeTakes, EEnds, EReserves, EStops, EMarks
<1>2. CASE EFollows \/ \E p \in Pollers : ECorrects(p) \/ EReports(p) \/ EContinues(p) \/ EDrops(p)
  <2>1. PICK p \in Pollers : poll' = [poll EXCEPT ![p] = NoPoll]
    BY <1>2 DEF EFollows, ECorrects, EReports, EContinues, EDrops, Pollers
  <2> QED BY <1>p, <2>1
<1>3. ASSUME NEW t \in Tasks, NEW p \in Pollers, EAsks(p, t)
      PROVE  poll'[q].task = t /\ poll'[q].state = native[Run(t)] /\ row' = row /\ native' = native
  BY <1>3, <1>p DEF EAsks, Asks
<1>4. ASSUME NEW t \in Tasks, NEW c \in Corrections, ESteers(t, c)
      PROVE  poll'[q].task = t /\ poll'[q].state = native[Run(t)] /\ row' = row /\ native' = native
  <2>1. poll' # poll
    OBVIOUS
  <2>2. /\ poll' = [poll EXCEPT !["steer"] = [task |-> t, state |-> native[Run(t)], text |-> {c}]]
        /\ native' = native /\ row' = row
    BY <1>4, <2>1 DEF ESteers, Steer
  <2> QED BY <1>p, <2>2
<1> QED BY <1>1, <1>2, <1>3, <1>4 DEF Effect

LEMMA AnswersStep ==
  ASSUME Types, OpOK, PollsOK, RunsOK, AnswersOK, TextsOK, AttemptsOK, Effect
  PROVE  AnswersOK'
<1> SUFFICES ASSUME NEW q \in Pollers, poll'[q].task # 0, poll'[q].state.status \in Over
             PROVE  native'[<<poll'[q].task, row'[poll'[q].task].attempt>>] = poll'[q].state
  BY DEF AnswersOK, Run
<1>1. poll'[q] # NoPoll
  BY DEF NoPoll
<1>2. CASE poll'[q] = poll[q]
  <2> DEFINE u == poll[q].task
  <2>1. row'[u].attempt = row[u].attempt
    BY <1>1, <1>2, AskableStays
  <2>2. native[Run(u)] = poll[q].state
    BY <1>2 DEF AnswersOK
  <2>3. Run(u) \in Runs
    <3>1. u \in Tasks
      BY <1>2 DEF PollsOK, Askable, Active
    <3> QED BY <3>1, RunIsRun
  <2>4. native'[Run(u)] = native[Run(u)]
    BY <1>2, <2>2, <2>3, OverStays
  <2> QED BY <1>2, <2>1, <2>2, <2>4 DEF Run
<1>3. CASE poll'[q] # poll[q]
  BY <1>1, <1>3, NewAnswers DEF Run
<1> QED BY <1>2, <1>3

-----------------------------------------------------------------------------
(* Texts *)

LEMMA TextsStep ==
  ASSUME Types, OpOK, PollsOK, RunsOK, AnswersOK, TextsOK, AttemptsOK, Effect
  PROVE  TextsOK'
<1> SUFFICES ASSUME NEW c \in Corrections PROVE TextOK(c)'
  BY DEF TextsOK
<1> DEFINE Cur(r) == Has(row', r[1]) /\ <<r[1], row'[r[1]].attempt>> = r
           Running2(r) == c \in native'[r].steer /\ (native'[r].status = "running" \/ Cur(r))
           Posted2(r) == c \in posts'[r].text
           Polled2 == c \in poll'["steer"].text
           Goal ==
             /\ heard'.taken[c] <= 1
             /\ heard'.taken[c] = 1 => c \in heard'.given
             /\ Polled2 \/ (\E r \in Runs : Running2(r) \/ Posted2(r)) => c \in heard'.given /\ heard'.taken[c] = 0
             /\ \A r, s \in Runs : /\ Running2(r) /\ Running2(s) => r = s
                                   /\ Posted2(r) /\ Posted2(s) => r = s
                                   /\ ~(Running2(r) /\ Posted2(s))
             /\ \A r \in Runs : ~(Polled2 /\ (Running2(r) \/ Posted2(r)))
<1> SUFFICES Goal
  BY DEF TextOK, InRun, InPost, InPoll, Current, Run
<1>o. TextOK(c)
  BY DEF TextsOK
<1>h. heard.taken[c] \in Nat /\ heard.given \subseteq Corrections
  BY DEF Types, LoopTyped, HeardType
<1>p. poll \in [Pollers -> PollType] /\ "steer" \in Pollers
  BY DEF Types, LoopTyped, Pollers
<1> HIDE DEF Running2, Posted2, Polled2
\* No place is added.
<1>0. ASSUME heard'.taken[c] = heard.taken[c], heard.given \subseteq heard'.given,
             \A r \in Runs : Running2(r) => InRun(c, r),
             \A r \in Runs : Posted2(r) => InPost(c, r), Polled2 => InPoll(c)
      PROVE  Goal
  BY <1>0, <1>o DEF TextOK
\* The text was in one place, and is nowhere now.
<1>t. ASSUME heard'.taken[c] = heard.taken[c] + 1, heard.given \subseteq heard'.given,
             NEW s \in Runs, InRun(c, s) \/ InPost(c, s), ~Running2(s), ~Posted2(s),
             \A r \in Runs : Running2(r) => InRun(c, r),
             \A r \in Runs : Posted2(r) => InPost(c, r), Polled2 => InPoll(c)
      PROVE  Goal
  BY <1>t, <1>o DEF TextOK
<1> HIDE DEF Goal
\* The rows have moved nowhere.
<1>r. ASSUME \A t \in Tasks : Has(row', t) => Has(row, t) /\ row'[t].attempt = row[t].attempt,
             NEW r \in Runs, Cur(r)
      PROVE  Current(r)
  <2>1. r[1] \in Tasks
    BY DEF Runs
  <2> QED BY <1>r, <2>1 DEF Current, Run
<1> HIDE DEF Cur
<1>k. ASSUME heard'.taken = heard.taken, heard'.given = heard.given, native' = native,
             \A t \in Tasks : Has(row', t) => Has(row, t) /\ row'[t].attempt = row[t].attempt,
             \A r \in Runs : posts'[r].text \subseteq posts[r].text,
             poll'["steer"].text \subseteq poll["steer"].text
      PROVE  Goal
  <2>1. \A r \in Runs : Running2(r) => InRun(c, r)
    BY <1>k, <1>r DEF Running2, InRun
  <2>2. (\A r \in Runs : Posted2(r) => InPost(c, r)) /\ (Polled2 => InPoll(c))
    BY <1>k DEF Posted2, Polled2, InPost, InPoll
  <2> QED BY <1>k, <1>0, <2>1, <2>2
<1>d. ASSUME NEW p \in Pollers, poll' = [poll EXCEPT ![p] = NoPoll]
      PROVE  poll'["steer"].text \subseteq poll["steer"].text
  BY <1>d, <1>p DEF NoPoll
<1>1. CASE ENothing
  BY <1>1, <1>k DEF ENothing, Texts
<1>2. CASE \E p \in Pollers : EDrops(p)
  BY <1>2, <1>k, <1>d DEF EDrops, Texts
<1>3. ASSUME NEW p \in Pollers, NEW t \in Tasks, EAsks(p, t) PROVE Goal
  BY <1>3, <1>k, <1>p DEF EAsks, Asks, Texts
<1>4. ASSUME NEW t \in Tasks, EReserves(t) PROVE Goal
  <2>1. row[t] = NoRow /\ Only(t) /\ row'[t].attempt = 0
    BY <1>4, ReservesRow
  <2>2. native' = native /\ poll' = poll /\ heard'.taken = heard.taken /\ heard'.given = heard.given
        /\ posts' = [posts EXCEPT ![<<t, 0>>] = [NoPost EXCEPT !.client = TRUE, !.server = "arriving"]]
    BY <1>4 DEF EReserves, Texts
  <2>3. native[<<t, 0>>].steer = {}
    <3>1. 0 \in Attempts
      BY CorrectionsCounted
    <3>2. RunOK(t, 0)
      BY <3>1 DEF RunsOK
    <3> QED BY <2>1, <3>2 DEF RunOK, NoRow, NoRun
  <2>4. ASSUME NEW r \in Runs, Running2(r) PROVE InRun(c, r)
    <3>1. c \in native[r].steer /\ (native[r].status = "running" \/ Cur(r))
      BY <2>2, <2>4 DEF Running2
    <3>2. CASE Cur(r) /\ r[1] # t
      BY <2>1, <3>1, <3>2, RunTypes DEF Cur, Only, InRun, Current, Run, Has
    <3>3. CASE Cur(r) /\ r[1] = t
      BY <2>1, <2>3, <3>1, <3>3 DEF Cur
    <3> QED BY <3>1, <3>2, <3>3 DEF InRun
  <2>5. ASSUME NEW r \in Runs, Posted2(r) PROVE InPost(c, r)
    BY <2>2, <2>5, RunTypes DEF Posted2, InPost, NoPost
  <2> QED BY <1>0, <2>2, <2>4, <2>5 DEF Polled2, InPoll
<1>5. ASSUME NEW s \in Runs, EAnswers(s) PROVE Goal
  <2>1. \A t \in Tasks : Has(row', t) => Has(row, t) /\ row'[t].attempt = row[t].attempt
    <3>1. CASE row' = row
      BY <3>1
    <3>2. CASE Current(s) /\ Only(s[1]) /\ SameRun(s[1])
      BY <3>2 DEF Only, Current, SameRun, Has
    <3> QED BY <1>5, <3>1, <3>2, AnswersRow
  <2>2. \A r \in Runs : posts'[r].text \subseteq posts[r].text
    <3>1. posts \in [Runs -> PostType]
      BY DEF Types, TablesTyped
    <3>2. CASE posts' = [posts EXCEPT ![s] = NoPost]
      BY <3>1, <3>2 DEF NoPost
    <3>3. CASE posts' = [posts EXCEPT ![s].client = FALSE]
      BY <3>1, <3>3 DEF PostType
    <3>4. CASE posts' = [posts EXCEPT ![s].server = "handling"]
      BY <3>1, <3>4 DEF PostType
    <3> QED BY <1>5, <3>2, <3>3, <3>4 DEF EAnswers
  <2> QED BY <1>5, <1>k, <2>1, <2>2 DEF EAnswers, Texts
<1>6. ASSUME NEW t \in Tasks, EStops(t) PROVE Goal
  <2>1. \A u \in Tasks : Has(row', u) => Has(row, u) /\ row'[u].attempt = row[u].attempt
    BY <1>6, StopsRow DEF Only, Active, SameRun, Has
  <2> QED BY <1>6, <1>k, <2>1 DEF EStops, Texts
<1>7. ASSUME NEW p \in Pollers, EReports(p) PROVE Goal
  <2>1. \A u \in Tasks : Has(row', u) => Has(row, u) /\ row'[u].attempt = row[u].attempt
    BY <1>7, ReportsRow DEF Only, Askable, Active, SameRun, Has
  <2> QED BY <1>7, <1>k, <1>d, <2>1 DEF EReports, Retires, Texts
<1>8. ASSUME NEW p \in Pollers, EContinues(p) PROVE Goal
  <2>1. \A u \in Tasks : Has(row', u) => Has(row, u) /\ row'[u].attempt = row[u].attempt
    BY <1>8, ContinuesRow DEF Only, Askable, Active, SameRun, Has
  <2> QED BY <1>8, <1>k, <1>d, <2>1 DEF EContinues, Texts
<1>9. ASSUME NEW t \in Tasks, NEW continued \in BOOLEAN, NEW delivery \in Deliveries,
             EMarks(t, continued, delivery)
      PROVE  Goal
  <2>1. \A u \in Tasks : Has(row', u) => Has(row, u) /\ row'[u].attempt = row[u].attempt
    BY <1>9, MarksRow DEF Only, SameRun, Has
  <2> QED BY <1>9, <1>k, <2>1 DEF EMarks, Texts
<1>10. CASE EClears
  <2>1. \A u \in Tasks : Has(row', u) => Has(row, u) /\ row'[u].attempt = row[u].attempt
    BY <1>10, ClearsRows DEF Has, NoRow
  <2> QED BY <1>10, <1>k, <2>1 DEF EClears, Texts
<1>11. CASE ERestarts
  <2>1. \A u \in Tasks : Has(row', u) => Has(row, u) /\ row'[u].attempt = row[u].attempt
    BY <1>11, RestartsRows DEF Has, SameRun, Active
  <2> QED BY <1>11, <1>k, <2>1 DEF ERestarts, Restart
\* The runs keep their texts, and none begins.
<1>n. ASSUME row' = row, heard'.taken[c] = heard.taken[c], heard.given \subseteq heard'.given,
             \A r \in Runs : native'[r].steer = native[r].steer
                             /\ (native'[r].status = "running" => native[r].status = "running"),
             \A r \in Runs : posts'[r].text \subseteq posts[r].text,
             poll'["steer"].text \subseteq poll["steer"].text
      PROVE  Goal
  <2>1. \A r \in Runs : Running2(r) => InRun(c, r)
    BY <1>n, <1>r DEF Running2, InRun
  <2>2. (\A r \in Runs : Posted2(r) => InPost(c, r)) /\ (Polled2 => InPoll(c))
    BY <1>n DEF Posted2, Polled2, InPost, InPoll
  <2> QED BY <1>n, <1>0, <2>1, <2>2
<1>12. CASE ECrashes
  <2>1. \A r \in Runs : native'[r].steer = native[r].steer
                        /\ (native'[r].status = "running" => native[r].status = "running")
    BY <1>12, RunTypes DEF ECrashes, Crash, NativeType
  <2>2. \A r \in Runs : posts'[r].text = {}
    BY <1>12 DEF ECrashes, Crash, NoPost
  <2>3. poll'["steer"].text = {}
    BY <1>12, <1>p DEF ECrashes, Crash, NoPoll
  <2>4. row' = row /\ heard' = heard
    BY <1>12 DEF ECrashes, Crash
  <2> QED BY <1>n, <2>1, <2>2, <2>3, <2>4
<1>13. ASSUME NEW s \in Runs, NEW status \in Over, EEnds(s, status) PROVE Goal
  <2>1. \A r \in Runs : native'[r].steer = native[r].steer
                        /\ (native'[r].status = "running" => native[r].status = "running")
    BY <1>13, RunTypes DEF EEnds, NativeType, Over
  <2> QED BY <1>13, <1>n, <2>1 DEF EEnds, Texts
<1>14. ASSUME NEW s \in Runs, ETakes(s) PROVE Goal
  <2>1. /\ native[s].status = "running" /\ native' = [native EXCEPT ![s].steer = {}]
        /\ heard' = [heard EXCEPT !.taken = [d \in Corrections |-> @[d] + (IF d \in native[s].steer THEN 1 ELSE 0)]]
        /\ UNCHANGED <<row, posts, poll>>
    BY <1>14 DEF ETakes, NativeTakes
  <2>2. \A r \in Runs : /\ native'[r].status = native[r].status
                        /\ native'[r].steer = IF r = s THEN {} ELSE native[r].steer
    BY <2>1, RunTypes DEF NativeType
  <2>3. /\ heard'.given = heard.given
        /\ heard'.taken[c] = heard.taken[c] + (IF c \in native[s].steer THEN 1 ELSE 0)
    BY <2>1 DEF Types, LoopTyped, HeardType
  <2>4. \A r \in Runs : Running2(r) => InRun(c, r)
    BY <2>1, <2>2, <1>r DEF Running2, InRun
  <2>5. (\A r \in Runs : Posted2(r) <=> InPost(c, r)) /\ (Polled2 => InPoll(c))
    BY <2>1 DEF Posted2, Polled2, InPost, InPoll
  <2>6. CASE c \in native[s].steer
    <3>1. InRun(c, s) /\ ~Running2(s)
      BY <2>1, <2>2, <2>6 DEF InRun, Running2
    <3>2. ~Posted2(s)
      BY <2>5, <3>1, <1>o DEF TextOK
    <3> QED BY <1>t, <2>3, <2>4, <2>5, <2>6, <3>1, <3>2
  <2>7. CASE c \notin native[s].steer
    BY <1>0, <1>h, <2>3, <2>4, <2>5, <2>7
  <2> QED BY <2>6, <2>7
<1>15. ASSUME NEW s \in Runs, EHandles(s) PROVE Goal
  <2>1. /\ posts[s].server = "handling" /\ native' = [native EXCEPT ![s].status = "running"]
        /\ heard' = [heard EXCEPT !.taken = [d \in Corrections |-> @[d] + (IF d \in posts[s].text THEN 1 ELSE 0)]]
        /\ posts' = [posts EXCEPT ![s] = NoPost] /\ poll' = poll
    BY <1>15 DEF EHandles, PostHandled
  <2>2. native[s].steer = {}
    BY <2>1, PostedIsNew DEF NoRun
  <2>3. \A r \in Runs : /\ native'[r].steer = native[r].steer
                        /\ r # s => native'[r] = native[r]
    BY <2>1, RunTypes DEF NativeType
  <2>4. /\ heard'.given = heard.given
        /\ heard'.taken[c] = heard.taken[c] + (IF c \in posts[s].text THEN 1 ELSE 0)
    BY <2>1 DEF Types, LoopTyped, HeardType
  <2>5. \A t \in Tasks : Has(row', t) => Has(row, t) /\ row'[t].attempt = row[t].attempt
    <3>1. CASE row' = row
      BY <3>1
    <3>2. CASE Current(s) /\ Only(s[1]) /\ row'[s[1]].attempt = row[s[1]].attempt
      BY <3>2 DEF Only, Current, Has
    <3> QED BY <1>15, <3>1, <3>2, HandlesRow
  <2>6. \A r \in Runs : Running2(r) => InRun(c, r)
    <3> SUFFICES ASSUME NEW r \in Runs, Running2(r) PROVE InRun(c, r)
      OBVIOUS
    <3>1. c \in native'[r].steer /\ (native'[r].status = "running" \/ Cur(r))
      BY DEF Running2
    <3>2. r # s /\ native'[r] = native[r]
      BY <2>2, <2>3, <3>1
    <3> QED BY <2>5, <1>r, <3>1, <3>2 DEF InRun
  <2>7. (\A r \in Runs : Posted2(r) => InPost(c, r) /\ r # s) /\ (Polled2 => InPoll(c))
    <3>1. posts \in [Runs -> PostType]
      BY DEF Types, TablesTyped
    <3> QED BY <2>1, <3>1 DEF Posted2, Polled2, InPost, InPoll, NoPost
  <2>8. CASE c \in posts[s].text
    <3>1. InPost(c, s) /\ ~Posted2(s)
      BY <2>7, <2>8 DEF InPost
    <3>2. c \notin native'[s].steer
      BY <2>2, <2>3
    <3>3. ~Running2(s)
      BY <3>2 DEF Running2
    <3> QED BY <1>t, <2>4, <2>6, <2>7, <2>8, <3>1, <3>3
  <2>9. CASE c \notin posts[s].text
    BY <1>0, <1>h, <2>4, <2>6, <2>7, <2>9
  <2> QED BY <2>8, <2>9
<1>16. CASE EFollows \/ \E p \in Pollers : ECorrects(p)
  <2>1. PICK p \in Pollers, t \in Tasks, texts \in SUBSET Corrections : Follows(p, t, texts)
    BY <1>16, CorrectionFollows
  <2> DEFINE old == Run(t)
             new == <<t, row[t].attempt + 1>>
  <2>2. /\ Has(row, t) /\ native[old].status = "completed"
        /\ posts' = [posts EXCEPT ![new] = [client |-> TRUE, server |-> "arriving", text |-> texts]]
        /\ poll' = [poll EXCEPT ![p] = NoPoll] /\ native' = native
        /\ heard'.taken = heard.taken /\ heard'.given = heard.given
    BY <2>1 DEF Follows, StartCorrection, Askable, Active, Texts
  <2>3. Only(t) /\ row'[t].attempt = row[t].attempt + 1 /\ new \in Runs
    BY <2>1, FollowsRow
  <2>4. old \in Runs /\ old = <<t, row[t].attempt>> /\ row[t].attempt \in Nat
    BY RunIsRun, CorrectionsCounted DEF Run
  <2>5. native[new].steer = {} /\ posts[new].text = {}
    <3>1. row[t].attempt + 1 \in Attempts /\ row[t].status # "deleted"
      BY <2>1, <2>2 DEF Follows, Has
    <3>2. RunOK(t, row[t].attempt + 1)
      BY <3>1 DEF RunsOK
    <3> QED BY <2>4, <3>1, <3>2 DEF RunOK, NoRun, NoPost
  <2>6. \/ p # "steer" /\ texts = native[old].steer
        \/ p = "steer" /\ texts = poll["steer"].text
    BY <2>1 DEF Follows
  <2>7. ASSUME NEW r \in Runs, Running2(r) PROVE InRun(c, r) /\ r # old
    <3>1. c \in native[r].steer /\ (native[r].status = "running" \/ Cur(r))
      BY <2>2, <2>7 DEF Running2
    <3>2. CASE native[r].status = "running"
      BY <2>2, <3>1, <3>2 DEF InRun
    <3>3. CASE Cur(r) /\ r[1] # t
      <4>1. Current(r)
        BY <2>3, <3>3, RunTypes DEF Cur, Only, Current, Run, Has
      <4> QED BY <2>4, <3>1, <3>3, <4>1 DEF InRun
    <3>4. CASE Cur(r) /\ r[1] = t
      <4>1. r = new
        BY <2>3, <3>4 DEF Cur
      <4> QED BY <2>5, <3>1, <4>1
    <3> QED BY <3>1, <3>2, <3>3, <3>4
  <2>8. ASSUME NEW r \in Runs, Posted2(r)
        PROVE  \/ InPost(c, r) /\ r # new
               \/ r = new /\ c \in texts
    <3>1. posts \in [Runs -> PostType]
      BY DEF Types, TablesTyped
    <3> QED BY <2>2, <2>3, <2>8, <3>1 DEF Posted2, InPost
  <2>9. Polled2 => InPoll(c) /\ p # "steer"
    BY <2>2, <1>p DEF Polled2, InPoll, NoPoll
  <2> HIDE DEF old, new
  <2>10. CASE c \notin texts
    BY <1>0, <2>2, <2>7, <2>8, <2>9, <2>10
  <2>11. CASE c \in texts /\ p # "steer"
    <3>1. InRun(c, old)
      BY <2>2, <2>4, <2>6, <2>11 DEF InRun, Current, old, Run
    <3>2. /\ c \in heard.given /\ heard.taken[c] = 0 /\ ~InPoll(c)
          /\ \A r \in Runs : ~InPost(c, r) /\ (InRun(c, r) => r = old)
      BY <1>o, <2>4, <3>1 DEF TextOK
    <3>3. ~Polled2 /\ \A r \in Runs : ~Running2(r) /\ (Posted2(r) => r = new)
      BY <2>7, <2>8, <2>9, <3>2
    <3> QED BY <2>2, <3>2, <3>3 DEF Goal
  <2>12. CASE c \in texts /\ p = "steer"
    <3>1. InPoll(c)
      BY <2>6, <2>12 DEF InPoll
    <3>2. /\ c \in heard.given /\ heard.taken[c] = 0
          /\ \A r \in Runs : ~InPost(c, r) /\ ~InRun(c, r)
      BY <1>o, <3>1 DEF TextOK
    <3>3. ~Polled2 /\ \A r \in Runs : ~Running2(r) /\ (Posted2(r) => r = new)
      BY <2>7, <2>8, <2>9, <2>12, <3>2
    <3> QED BY <2>2, <3>2, <3>3 DEF Goal
  <2> QED BY <2>10, <2>11, <2>12
<1>17. ASSUME NEW t \in Tasks, NEW d \in Corrections, ESteers(t, d) PROVE Goal
  <2> DEFINE old == Run(t)
  <2>1. /\ d \notin heard.given /\ poll["steer"] = NoPoll
        /\ heard' = [heard EXCEPT !.given = heard.given \cup {d}] /\ UNCHANGED <<row, posts>>
    BY <1>17 DEF ESteers, Steer
  <2>2. heard'.taken = heard.taken /\ heard'.given = heard.given \cup {d}
    BY <2>1 DEF Types, LoopTyped, HeardType
  <2>3. old \in Runs
    BY RunIsRun
  <2>4. \/ native' = [native EXCEPT ![old].steer = native[old].steer \cup {d}] /\ poll' = poll
        \/ poll'["steer"].text = {d} /\ native' = native
    BY <1>17, <1>p DEF ESteers, Steer
  <2> HIDE DEF old
  <2>5. \A r \in Runs : /\ native'[r].status = native[r].status
                        /\ native'[r].steer = native[r].steer \/ (r = old /\ native'[r].steer = native[r].steer \cup {d})
    <3>1. native \in [Runs -> NativeType]
      BY DEF Types, TablesTyped
    <3>2. CASE native' = native
      BY <3>2
    <3>3. CASE native' = [native EXCEPT ![old].steer = native[old].steer \cup {d}]
      BY <2>3, <3>1, <3>3 DEF NativeType
    <3> QED BY <2>4, <3>2, <3>3
  <2>6. ASSUME NEW r \in Runs, Running2(r) PROVE InRun(c, r) \/ (c = d /\ r = old)
    <3>1. c \in native'[r].steer /\ (native'[r].status = "running" \/ Cur(r))
      BY <2>6 DEF Running2
    <3>2. native[r].status = "running" \/ Current(r)
      BY <2>1, <2>5, <3>1, <1>r
    <3> QED BY <2>5, <3>1, <3>2 DEF InRun
  <2>7. \A r \in Runs : Posted2(r) => InPost(c, r)
    BY <2>1 DEF Posted2, InPost
  <2>8. CASE c # d
    <3>1. Polled2 => InPoll(c)
      BY <2>4, <2>8 DEF Polled2, InPoll
    <3> QED BY <1>0, <2>2, <2>6, <2>7, <2>8, <3>1
  <2>9. CASE c = d
    <3>1. heard.taken[c] = 0 /\ ~InPoll(c) /\ \A r \in Runs : ~InPost(c, r) /\ ~InRun(c, r)
      BY <1>o, <1>h, <2>1, <2>9 DEF TextOK
    <3>2. \A r \in Runs : ~Posted2(r) /\ (Running2(r) => r = old)
      BY <2>6, <2>7, <3>1
    <3>3. ASSUME Polled2, NEW r \in Runs PROVE ~Running2(r)
      <4>1. native' = native
        BY <2>4, <3>1, <3>3 DEF Polled2, InPoll
      <4> QED BY <2>1, <4>1, <3>1, <1>r DEF Running2, InRun
    <3> QED BY <2>2, <2>9, <3>1, <3>2, <3>3 DEF Goal
  <2> QED BY <2>8, <2>9
<1> QED
  BY <1>1, <1>2, <1>3, <1>4, <1>5, <1>6, <1>7, <1>8, <1>9, <1>10, <1>11, <1>12, <1>13, <1>14,
     <1>15, <1>16, <1>17 DEF Effect

-----------------------------------------------------------------------------
(* What the runs of a task took *)

LEMMA TakenStays ==
  ASSUME Types, TextsOK', Effect
  PROVE  Taken \subseteq Taken'
<1> SUFFICES ASSUME NEW c \in Corrections, heard.taken[c] = 1 PROVE heard'.taken[c] = 1
  BY DEF Taken
<1>h. heard \in HeardType /\ heard.taken \in [Corrections -> Nat]
  BY DEF Types, LoopTyped, HeardType
<1>1. heard'.taken[c] <= 1
  BY DEF TextsOK, TextOK
<1>2. heard'.taken[c] = heard.taken[c] \/ heard'.taken[c] = heard.taken[c] + 1
  <2>1. ASSUME NEW s \in Runs, ETakes(s) PROVE <1>2
    BY <2>1, <1>h DEF ETakes, NativeTakes, HeardType
  <2>2. ASSUME NEW s \in Runs, EHandles(s) PROVE <1>2
    BY <2>2, <1>h DEF EHandles, PostHandled, HeardType
  <2>3. ASSUME NEW t \in Tasks, NEW d \in Corrections, ESteers(t, d) PROVE <1>2
    BY <2>3, <1>h DEF ESteers, Steer, HeardType
  <2>4. CASE ENothing \/ EClears \/ ERestarts \/ ECrashes \/ EFollows
             \/ \E s \in Runs : EAnswers(s) \/ \E status \in Over : EEnds(s, status)
    BY <2>4 DEF ENothing, EClears, ERestarts, Restart, ECrashes, Crash, EFollows, EAnswers, EEnds, Texts
  <2>5. CASE \E p \in Pollers : ECorrects(p) \/ EReports(p) \/ EContinues(p) \/ EDrops(p)
    BY <2>5 DEF ECorrects, EReports, EContinues, EDrops, Texts
  <2>6. CASE \E t \in Tasks : \/ EReserves(t) \/ EStops(t) \/ (\E p \in Pollers : EAsks(p, t))
                              \/ \E continued \in BOOLEAN, delivery \in Deliveries : EMarks(t, continued, delivery)
    BY <2>6 DEF EReserves, EStops, EAsks, EMarks, Texts
  <2> QED BY <2>1, <2>2, <2>3, <2>4, <2>5, <2>6 DEF Effect
<1> QED BY <1>1, <1>2

\* ChainOK for task t, of these tables.
Chain(R, P, N, T, t) ==
  /\ \A a \in Attempts : a < R[t].attempt =>
       IF a + 1 < R[t].attempt \/ R[t].run
       THEN N[<<t, a>>].steer \subseteq T
       ELSE P[<<t, R[t].attempt>>].server # "none" => N[<<t, a>>].steer \subseteq P[<<t, R[t].attempt>>].text
  /\ R[t].status = "completed" =>
       /\ R[t].run /\ N[<<t, R[t].attempt>>].status = "completed" /\ N[<<t, R[t].attempt>>].steer = {}

LEMMA ChainStep ==
  ASSUME Types, OpOK, PollsOK, RunsOK, AnswersOK, TextsOK, ChainOK, AttemptsOK, Effect, TextsOK'
  PROVE  ChainOK'
<1> SUFFICES ASSUME NEW t \in Tasks PROVE Has(row', t) => Chain(row', posts', native', Taken', t)
  BY DEF ChainOK, Chain, Run, Has
<1> SUFFICES ASSUME Has(row', t) PROVE Chain(row', posts', native', Taken', t)
  OBVIOUS
<1> DEFINE old == <<t, row[t].attempt>>
           Goal == Chain(row', posts', native', Taken', t)
<1> USE DEF Chain
<1> SUFFICES Goal
  OBVIOUS
<1>m. Taken \subseteq Taken'
  BY TakenStays
<1>y. native \in [Runs -> NativeType] /\ posts \in [Runs -> PostType]
  BY DEF Types, TablesTyped
<1>a. old \in Runs /\ row[t].attempt \in Nat /\ Attempts \subseteq Nat /\ old = Run(t)
  BY RunIsRun, CorrectionsCounted DEF Run
<1>n. ASSUME Has(row, t), NEW a \in Attempts, a < row[t].attempt PROVE native'[<<t, a>>] = native[<<t, a>>]
  <2>1. <<t, a>> \in Runs
    BY DEF Runs
  <2>2. native[<<t, a>>].status = "completed"
    BY <1>n DEF RunsOK, RunOK, Has
  <2> QED BY <2>1, <2>2, OverStays DEF Over
\* The task's run stays, and what is posted of it.
<1>0. ASSUME Has(row, t), SameRun(t), row'[t].status = "completed" => row[t].status = "completed",
             posts'[old].server # "none" => posts[old].server # "none" /\ posts'[old].text = posts[old].text
      PROVE  Goal
  <2>1. ASSUME NEW a \in Attempts, a < row'[t].attempt
        PROVE  IF a + 1 < row'[t].attempt \/ row'[t].run
               THEN native'[<<t, a>>].steer \subseteq Taken'
               ELSE posts'[<<t, row'[t].attempt>>].server # "none" =>
                      native'[<<t, a>>].steer \subseteq posts'[<<t, row'[t].attempt>>].text
    <3>1. a < row[t].attempt /\ native'[<<t, a>>] = native[<<t, a>>]
          /\ row'[t].attempt = row[t].attempt /\ row'[t].run = row[t].run
      BY <1>0, <1>n, <2>1 DEF SameRun
    <3>2. IF a + 1 < row[t].attempt \/ row[t].run
          THEN native[<<t, a>>].steer \subseteq Taken
          ELSE posts[old].server # "none" => native[<<t, a>>].steer \subseteq posts[old].text
      BY <1>0, <1>a, <3>1 DEF ChainOK
    <3> QED BY <1>0, <1>m, <3>1, <3>2
  <2>2. ASSUME row'[t].status = "completed"
        PROVE  /\ row'[t].run /\ native'[<<t, row'[t].attempt>>].status = "completed"
               /\ native'[<<t, row'[t].attempt>>].steer = {}
    <3>1. row[t].run /\ native[old].status = "completed" /\ native[old].steer = {}
      BY <1>0, <1>a, <2>2 DEF ChainOK
    <3>2. native'[old] = native[old]
      BY <1>a, <3>1, OverStays DEF Over
    <3> QED BY <1>0, <3>1, <3>2 DEF SameRun
  <2> QED BY <2>1, <2>2
<1> HIDE DEF Goal, old
<1>s. ASSUME row'[t] = row[t], posts' = posts PROVE Goal
  BY <1>0, <1>s DEF Has, SameRun
<1>1. CASE ENothing \/ (\E p \in Pollers : EDrops(p)) \/ (\E u \in Tasks, p \in Pollers : EAsks(p, u))
           \/ (\E u \in Tasks, d \in Corrections : ESteers(u, d))
           \/ \E s \in Runs : ETakes(s) \/ \E status \in Over : EEnds(s, status)
  BY <1>1, <1>s DEF ENothing, EDrops, EAsks, ESteers, Steer, ETakes, NativeTakes, EEnds
<1>2. CASE ECrashes
  <2>1. row' = row /\ posts'[old].server = "none"
    BY <1>2, <1>a DEF ECrashes, Crash, NoPost
  <2> QED BY <2>1, <1>0 DEF Has, SameRun
<1>3. ASSUME NEW u \in Tasks, EReserves(u) PROVE Goal
  <2>1. Only(u) /\ row[u] = NoRow /\ row'[u].status = "submitting" /\ row'[u].attempt = 0
    BY <1>3, ReservesRow
  <2>2. CASE u = t
    BY <2>1, <2>2, <1>a DEF Goal
  <2>3. CASE u # t
    <3>1. posts'[old] = posts[old] /\ row'[t] = row[t]
      BY <1>3, <1>a, <1>y, <2>1, <2>3 DEF EReserves, Only, old
    <3> QED BY <3>1, <1>0 DEF Has, SameRun
  <2> QED BY <2>2, <2>3
<1>4. ASSUME NEW s \in Runs, EAnswers(s) PROVE Goal
  <2>1. Has(row, t) /\ SameRun(t) /\ (row'[t].status = "completed" => row[t].status = "completed")
    <3>1. CASE row' = row
      BY <3>1 DEF SameRun, Has
    <3>2. CASE Current(s) /\ Only(s[1]) /\ SameRun(s[1]) /\ row'[s[1]].status = "uncertain"
      BY <3>2 DEF Only, Current, SameRun, Has
    <3> QED BY <1>4, <3>1, <3>2, AnswersRow
  <2>2. posts'[old].server # "none" => posts[old].server # "none" /\ posts'[old].text = posts[old].text
    <3>0. posts[s].server # "none"
      BY <1>4 DEF EAnswers
    <3>1. CASE posts' = [posts EXCEPT ![s] = NoPost]
      BY <1>y, <1>a, <3>1 DEF NoPost
    <3>2. CASE posts' = [posts EXCEPT ![s].client = FALSE]
      BY <1>y, <1>a, <3>2 DEF PostType
    <3>3. CASE posts' = [posts EXCEPT ![s].server = "handling"]
      BY <1>y, <1>a, <3>0, <3>3 DEF PostType
    <3> QED BY <1>4, <3>1, <3>2, <3>3 DEF EAnswers
  <2> QED BY <1>0, <2>1, <2>2
<1>5. ASSUME NEW u \in Tasks, EStops(u) PROVE Goal
  <2>1. Has(row, t) /\ SameRun(t) /\ (row'[t].status = "completed" => row[t].status = "completed")
    BY <1>5, StopsRow DEF Only, SameRun, Active, Has
  <2> QED BY <1>5, <2>1, <1>0 DEF EStops
<1>6. ASSUME NEW p \in Pollers, EContinues(p) PROVE Goal
  <2> DEFINE u == poll[p].task
  <2>1. Only(u) /\ SameRun(u) /\ Has(row, u) /\ row'[u].status \in {"stopping", "accepted"}
    BY <1>6, ContinuesRow DEF Askable, Active
  <2> HIDE DEF u
  <2>2. Has(row, t) /\ SameRun(t) /\ (row'[t].status = "completed" => row[t].status = "completed")
    BY <2>1 DEF Only, SameRun, Has
  <2> QED BY <1>6, <2>2, <1>0 DEF EContinues
<1>7. ASSUME NEW u \in Tasks, NEW continued \in BOOLEAN, NEW delivery \in Deliveries,
             EMarks(u, continued, delivery)
      PROVE  Goal
  <2>1. Has(row, t) /\ SameRun(t) /\ row'[t].status = row[t].status
    BY <1>7, MarksRow DEF Only, SameRun, Has
  <2> QED BY <1>7, <2>1, <1>0 DEF EMarks
<1>8. CASE EClears
  <2>1. row'[t] = row[t] /\ posts' = posts
    BY <1>8, ClearsRows DEF EClears, Has, NoRow
  <2> QED BY <2>1, <1>s
<1>9. CASE ERestarts
  <2>1. Has(row, t) /\ SameRun(t) /\ (row'[t].status = "completed" => row[t].status = "completed")
    BY <1>9, RestartsRows DEF SameRun, Active, Has
  <2> QED BY <1>9, <2>1, <1>0 DEF ERestarts, Restart
<1>10. ASSUME NEW p \in Pollers, EReports(p) PROVE Goal
  <2> DEFINE u == poll[p].task
             state == poll[p].state
  <2>1. Only(u) /\ SameRun(u) /\ Has(row, u) /\ u \in Tasks /\ row[u].run
        /\ row'[u].status = Outcome(state)
    BY <1>10, ReportsRow DEF Askable, Active
  <2>2. posts' = posts /\ native' = native /\ heard'.taken = heard.taken
        /\ u # 0 /\ state.status \in Over
    BY <1>10 DEF EReports, Retires, Texts
  <2>3. native[Run(u)] = state
    BY <2>2 DEF AnswersOK
  <2> HIDE DEF u, state
  <2>4. CASE u # t \/ Outcome(state) # "completed"
    <3>1. Has(row, t) /\ SameRun(t) /\ (row'[t].status = "completed" => row[t].status = "completed")
      BY <2>1, <2>4 DEF Only, SameRun, Has
    <3> QED BY <2>2, <3>1, <1>0
  <2>5. CASE u = t /\ Outcome(state) = "completed"
    <3>1. state.status = "completed" /\ state.steer = {}
      BY <2>5 DEF Outcome
    <3>2. row'[t].attempt = row[t].attempt /\ row'[t].run /\ row[t].run
      BY <2>1, <2>5 DEF SameRun
    <3>3. ASSUME NEW a \in Attempts, a < row'[t].attempt
          PROVE  native'[<<t, a>>].steer \subseteq Taken'
      <4>1. native[<<t, a>>].steer \subseteq Taken
        BY <2>1, <2>5, <3>2, <3>3 DEF ChainOK
      <4> QED BY <2>2, <4>1, <1>m
    <3>4. native'[<<t, row'[t].attempt>>] = state
      BY <2>2, <2>3, <2>5, <3>2 DEF Run
    <3> QED BY <3>1, <3>2, <3>3, <3>4 DEF Goal
  <2> QED BY <2>4, <2>5
<1>11. ASSUME NEW s \in Runs, EHandles(s) PROVE Goal
  <2>1. /\ posts[s].server = "handling" /\ posts' = [posts EXCEPT ![s] = NoPost]
        /\ heard' = [heard EXCEPT !.taken = [d \in Corrections |-> @[d] + (IF d \in posts[s].text THEN 1 ELSE 0)]]
    BY <1>11 DEF EHandles, PostHandled
  <2>2. CASE ~(Current(s) /\ s[1] = t)
    <3>1. row'[t] = row[t]
      <4>1. CASE row' = row
        BY <4>1
      <4>2. CASE Current(s) /\ Only(s[1])
        BY <2>2, <4>2 DEF Only
      <4> QED BY <1>11, <4>1, <4>2, HandlesRow
    <3>2. s # old
      <4>1. Has(row, t)
        BY <3>1 DEF Has
      <4> QED BY <2>2, <4>1, <1>a DEF Current, old
    <3>3. posts'[old] = posts[old]
      BY <1>a, <2>1, <3>2
    <3> QED BY <1>0, <3>1, <3>3 DEF Has, SameRun
  <2>3. CASE Current(s) /\ s[1] = t
    <3>1. /\ s = old /\ Has(row, t) /\ row'[t].attempt = row[t].attempt /\ row'[t].run = TRUE
          /\ row'[t].status \in {"stopping", "accepted"}
      BY <1>11, <1>a, <2>3, HandlesRow DEF Current
    <3>2. posts[s].text \subseteq Taken'
      <4> SUFFICES ASSUME NEW c \in posts[s].text PROVE c \in Taken'
        OBVIOUS
      <4>1. c \in Corrections
        BY RunTypes
      <4>2. heard.taken[c] = 0
        BY <4>1 DEF TextsOK, TextOK, InPost
      <4>3. heard'.taken[c] = 1
        BY <2>1, <4>1, <4>2 DEF Types, LoopTyped, HeardType
      <4> QED BY <4>1, <4>3 DEF Taken
    <3>3. ASSUME NEW a \in Attempts, a < row'[t].attempt
          PROVE  native'[<<t, a>>].steer \subseteq Taken'
      <4>1. a < row[t].attempt /\ native'[<<t, a>>] = native[<<t, a>>]
        BY <1>n, <3>1, <3>3
      <4>2. native[<<t, a>>].steer \subseteq Taken \/ native[<<t, a>>].steer \subseteq posts[s].text
        BY <1>a, <2>1, <3>1, <4>1 DEF ChainOK
      <4> QED BY <1>m, <3>2, <4>1, <4>2
    <3> QED BY <3>1, <3>3 DEF Goal
  <2> QED BY <2>2, <2>3
<1>12. CASE EFollows \/ \E p \in Pollers : ECorrects(p)
  <2>1. PICK p \in Pollers, u \in Tasks, texts \in SUBSET Corrections : Follows(p, u, texts)
    BY <1>12, CorrectionFollows
  <2> DEFINE new == <<u, row[u].attempt + 1>>
  <2>2. /\ Has(row, u) /\ row[u].run /\ native' = native
        /\ posts' = [posts EXCEPT ![new] = [client |-> TRUE, server |-> "arriving", text |-> texts]]
        /\ (texts = native[Run(u)].steer \/ native[Run(u)].steer = {})
    BY <2>1 DEF Follows, StartCorrection, Askable, Active
  <2>3. Only(u) /\ row'[u].attempt = row[u].attempt + 1 /\ row'[u].status = "submitting" /\ new \in Runs
        /\ row'[u].run = FALSE
    BY <2>1, FollowsRow
  <2>4. CASE u # t
    <3>1. posts'[old] = posts[old] /\ row'[t] = row[t]
      BY <1>a, <1>y, <2>2, <2>3, <2>4 DEF Only, old
    <3> QED BY <3>1, <1>0 DEF Has, SameRun
  <2>5. CASE u = t
    <3>1. posts'[new].text = texts /\ new = <<t, row'[t].attempt>>
      BY <1>y, <2>2, <2>3, <2>5
    <3> HIDE DEF new
    <3>2. ASSUME NEW a \in Attempts, a < row[t].attempt PROVE native'[<<t, a>>].steer \subseteq Taken'
      <4>1. native[<<t, a>>].steer \subseteq Taken
        BY <2>2, <2>5, <3>2 DEF ChainOK
      <4> QED BY <1>m, <2>2, <4>1
    <3>3. native'[old].steer \subseteq posts'[new].text
      BY <1>a, <2>2, <2>5, <3>1
    <3>4. ASSUME NEW a \in Attempts, a < row'[t].attempt
          PROVE  IF a + 1 < row'[t].attempt
                 THEN native'[<<t, a>>].steer \subseteq Taken'
                 ELSE native'[<<t, a>>].steer \subseteq posts'[new].text
      <4>1. a \in Nat
        BY <1>a
      <4>2. CASE a = row[t].attempt
        BY <1>a, <2>3, <2>5, <3>3, <4>2 DEF old
      <4>3. CASE a < row[t].attempt
        BY <1>a, <2>3, <2>5, <3>2, <4>1, <4>3
      <4> QED BY <1>a, <2>3, <2>5, <3>4, <4>1, <4>2, <4>3
    <3> QED BY <2>3, <2>5, <3>1, <3>4 DEF Goal
  <2> QED BY <2>4, <2>5
<1> QED
  BY <1>1, <1>2, <1>3, <1>4, <1>5, <1>6, <1>7, <1>8, <1>9, <1>10, <1>11, <1>12 DEF Effect

-----------------------------------------------------------------------------
(* The texts that are used up *)

LEMMA RowsTyped ==
  ASSUME Types, OpOK, PollsOK, AnswersOK, TextsOK, AttemptsOK, Effect
  PROVE  row' \in [Tasks -> RowType]
<1>r. row \in [Tasks -> RowType]
  BY DEF Types, TablesTyped
<1>1. CASE \/ ENothing \/ ECrashes
           \/ \E r \in Runs : ETakes(r) \/ \E status \in Over : EEnds(r, status)
           \/ \E p \in Pollers : EDrops(p)
           \/ \E t \in Tasks : (\E p \in Pollers : EAsks(p, t)) \/ (\E c \in Corrections : ESteers(t, c))
  BY <1>r, <1>1 DEF ENothing, ECrashes, Crash, ETakes, NativeTakes, EEnds, EDrops, EAsks, ESteers, Steer
<1>2. CASE EFollows \/ \E p \in Pollers : ECorrects(p)
  BY <1>2, CorrectionFollows, FollowsRow DEF Only
<1>3. CASE \/ \E r \in Runs : EAnswers(r) \/ EHandles(r)
           \/ \E p \in Pollers : EReports(p) \/ EContinues(p)
  BY <1>r, <1>3, AnswersRow, HandlesRow, ReportsRow, ContinuesRow DEF Only
<1>4. CASE \E t \in Tasks : \/ EReserves(t) \/ EStops(t)
                            \/ \E continued \in BOOLEAN, delivery \in Deliveries : EMarks(t, continued, delivery)
  BY <1>4, ReservesRow, StopsRow, MarksRow DEF Only
<1>5. CASE EClears \/ ERestarts
  <2>1. row' = [t \in Tasks |-> row'[t]]
    BY <1>5 DEF EClears, Cleared, ERestarts, Restart
  <2>2. ASSUME NEW t \in Tasks PROVE row'[t] \in RowType
    BY <1>5, ClearsRows, RestartsRows
  <2> QED BY <2>1, <2>2
<1> QED BY <1>1, <1>2, <1>3, <1>4, <1>5 DEF Effect

\* A text that was given waits where it waited.
LEMMA WaitingShrinks ==
  ASSUME Types, OpOK, PollsOK, RunsOK, AnswersOK, TextsOK, AttemptsOK, Effect
  PROVE  heard.given \subseteq heard'.given /\ heard.given \cap Waiting' \subseteq Waiting
<1>y. /\ native \in [Runs -> NativeType] /\ posts \in [Runs -> PostType]
      /\ poll \in [Pollers -> PollType] /\ "steer" \in Pollers /\ heard \in HeardType
  BY DEF Types, TablesTyped, LoopTyped, Pollers
\* No text is added, and the rows have moved nowhere, or to runs without texts.
<1> DEFINE Given == heard.given \subseteq heard'.given
           Polls == heard.given \cap poll'["steer"].text \subseteq poll["steer"].text
           Natives == \A r \in Runs : heard.given \cap native'[r].steer \subseteq native[r].steer
           Rows == \A t \in Tasks : Has(row', t) => \/ Has(row, t) /\ row'[t].attempt = row[t].attempt
                                                    \/ native[<<t, row'[t].attempt>>].steer = {}
           Goal == Given /\ Polls /\ Natives /\ Rows
<1>g. Goal => heard.given \subseteq heard'.given /\ heard.given \cap Waiting' \subseteq Waiting
  <2> SUFFICES ASSUME Goal, NEW c \in heard.given, c \in Waiting' PROVE c \in Waiting
    OBVIOUS
  <2>1. c \in Corrections
    BY DEF Waiting
  <2>2. CASE c \in poll'["steer"].text
    BY <2>1, <2>2 DEF Waiting, InPoll
  <2>3. ASSUME NEW t \in Tasks, Has(row', t), c \in native'[<<t, row'[t].attempt>>].steer PROVE c \in Waiting
    <3>1. row' \in [Tasks -> RowType] => <<t, row'[t].attempt>> \in Runs
      BY DEF Runs, RowType
    <3>2. CASE <<t, row'[t].attempt>> \in Runs
      <4>1. c \in native[<<t, row'[t].attempt>>].steer
        BY <2>3, <3>2
      <4>2. Has(row, t) /\ row'[t].attempt = row[t].attempt
        BY <2>3, <4>1
      <4> QED BY <2>1, <4>1, <4>2 DEF Waiting, Run
    <3>3. row' \in [Tasks -> RowType]
      BY RowsTyped
    <3> QED BY <3>1, <3>2, <3>3
  <2> QED BY <2>2, <2>3 DEF Waiting, InPoll, Run
<1> HIDE DEF Goal
<1> SUFFICES Goal
  BY <1>g
<1>k. ASSUME heard'.given = heard.given, native' = native, poll'["steer"].text \subseteq poll["steer"].text,
             \A t \in Tasks : Has(row', t) => Has(row, t) /\ row'[t].attempt = row[t].attempt
      PROVE  Goal
  BY <1>k DEF Goal
<1>d. ASSUME NEW p \in Pollers, poll' = [poll EXCEPT ![p] = NoPoll]
      PROVE  poll'["steer"].text \subseteq poll["steer"].text
  BY <1>d, <1>y DEF NoPoll
<1>1. CASE ENothing
  BY <1>1, <1>k DEF ENothing, Texts
<1>2. CASE \E p \in Pollers : EDrops(p)
  BY <1>2, <1>k, <1>d DEF EDrops, Texts
<1>3. ASSUME NEW p \in Pollers, NEW t \in Tasks, EAsks(p, t) PROVE Goal
  BY <1>3, <1>k, <1>y DEF EAsks, Asks, Texts
<1>4. ASSUME NEW t \in Tasks, EReserves(t) PROVE Goal
  <2>1. row[t] = NoRow /\ Only(t) /\ row'[t].attempt = 0
    BY <1>4, ReservesRow
  <2>2. native' = native /\ poll' = poll /\ heard'.given = heard.given
    BY <1>4 DEF EReserves, Texts
  <2>3. native[<<t, 0>>].steer = {}
    <3>1. 0 \in Attempts
      BY CorrectionsCounted
    <3>2. RunOK(t, 0)
      BY <3>1 DEF RunsOK
    <3> QED BY <2>1, <3>2 DEF RunOK, NoRow, NoRun
  <2> QED BY <2>1, <2>2, <2>3 DEF Goal, Only, Has
<1>5. ASSUME NEW s \in Runs, EAnswers(s) PROVE Goal
  <2>1. \A t \in Tasks : Has(row', t) => Has(row, t) /\ row'[t].attempt = row[t].attempt
    <3>1. CASE row' = row
      BY <3>1
    <3>2. CASE Current(s) /\ Only(s[1]) /\ SameRun(s[1])
      BY <3>2 DEF Only, Current, SameRun, Has
    <3> QED BY <1>5, <3>1, <3>2, AnswersRow
  <2> QED BY <1>5, <1>k, <2>1 DEF EAnswers, Texts
<1>6. ASSUME NEW t \in Tasks, EStops(t) PROVE Goal
  <2>1. \A u \in Tasks : Has(row', u) => Has(row, u) /\ row'[u].attempt = row[u].attempt
    BY <1>6, StopsRow DEF Only, Active, SameRun, Has
  <2> QED BY <1>6, <1>k, <2>1 DEF EStops, Texts
<1>7. ASSUME NEW p \in Pollers, EReports(p) PROVE Goal
  <2>1. \A u \in Tasks : Has(row', u) => Has(row, u) /\ row'[u].attempt = row[u].attempt
    BY <1>7, ReportsRow DEF Only, Askable, Active, SameRun, Has
  <2> QED BY <1>7, <1>k, <1>d, <2>1 DEF EReports, Retires, Texts
<1>8. ASSUME NEW p \in Pollers, EContinues(p) PROVE Goal
  <2>1. \A u \in Tasks : Has(row', u) => Has(row, u) /\ row'[u].attempt = row[u].attempt
    BY <1>8, ContinuesRow DEF Only, Askable, Active, SameRun, Has
  <2> QED BY <1>8, <1>k, <1>d, <2>1 DEF EContinues, Texts
<1>9. ASSUME NEW t \in Tasks, NEW continued \in BOOLEAN, NEW delivery \in Deliveries,
             EMarks(t, continued, delivery)
      PROVE  Goal
  <2>1. \A u \in Tasks : Has(row', u) => Has(row, u) /\ row'[u].attempt = row[u].attempt
    BY <1>9, MarksRow DEF Only, SameRun, Has
  <2> QED BY <1>9, <1>k, <2>1 DEF EMarks, Texts
<1>10. CASE EClears
  <2>1. \A u \in Tasks : Has(row', u) => Has(row, u) /\ row'[u].attempt = row[u].attempt
    BY <1>10, ClearsRows DEF Has, NoRow
  <2> QED BY <1>10, <1>k, <2>1 DEF EClears, Texts
<1>11. CASE ERestarts
  <2>1. \A u \in Tasks : Has(row', u) => Has(row, u) /\ row'[u].attempt = row[u].attempt
    BY <1>11, RestartsRows DEF Has, SameRun, Active
  <2> QED BY <1>11, <1>k, <2>1 DEF ERestarts, Restart
\* The runs get no texts.
<1>n. ASSUME heard'.given = heard.given, \A r \in Runs : native'[r].steer \subseteq native[r].steer,
             poll'["steer"].text \subseteq poll["steer"].text,
             \A t \in Tasks : Has(row', t) => Has(row, t) /\ row'[t].attempt = row[t].attempt
      PROVE  Goal
  BY <1>n DEF Goal
<1>12. CASE ECrashes
  <2>1. \A r \in Runs : native'[r].steer = native[r].steer
    BY <1>12, RunTypes DEF ECrashes, Crash, NativeType
  <2>2. poll'["steer"].text = {} /\ row' = row /\ heard' = heard
    BY <1>12, <1>y DEF ECrashes, Crash, NoPoll
  <2> QED BY <1>n, <2>1, <2>2
<1>13. ASSUME NEW s \in Runs, NEW status \in Over, EEnds(s, status) PROVE Goal
  <2>1. \A r \in Runs : native'[r].steer = native[r].steer
    BY <1>13, RunTypes DEF EEnds, NativeType, Over
  <2> QED BY <1>13, <1>n, <2>1 DEF EEnds, Texts
<1>14. ASSUME NEW s \in Runs, ETakes(s) PROVE Goal
  <2>1. \A r \in Runs : native'[r].steer \subseteq native[r].steer
    BY <1>14, <1>y DEF ETakes, NativeTakes, NativeType
  <2>2. heard'.given = heard.given
    BY <1>14, <1>y DEF ETakes, NativeTakes, HeardType
  <2> QED BY <1>14, <1>n, <2>1, <2>2 DEF ETakes, NativeTakes
<1>15. ASSUME NEW s \in Runs, EHandles(s) PROVE Goal
  <2>1. \A r \in Runs : native'[r].steer \subseteq native[r].steer
    BY <1>15, <1>y DEF EHandles, PostHandled, NativeType
  <2>2. heard'.given = heard.given
    BY <1>15, <1>y DEF EHandles, PostHandled, HeardType
  <2>3. \A t \in Tasks : Has(row', t) => Has(row, t) /\ row'[t].attempt = row[t].attempt
    <3>1. CASE row' = row
      BY <3>1
    <3>2. CASE Current(s) /\ Only(s[1]) /\ row'[s[1]].attempt = row[s[1]].attempt
      BY <3>2 DEF Only, Current, Has
    <3> QED BY <1>15, <3>1, <3>2, HandlesRow
  <2> QED BY <1>15, <1>n, <2>1, <2>2, <2>3 DEF EHandles, PostHandled
<1>16. CASE EFollows \/ \E p \in Pollers : ECorrects(p)
  <2>1. PICK p \in Pollers, t \in Tasks, texts \in SUBSET Corrections : Follows(p, t, texts)
    BY <1>16, CorrectionFollows
  <2>2. /\ Has(row, t) /\ poll' = [poll EXCEPT ![p] = NoPoll] /\ native' = native
        /\ heard'.given = heard.given /\ row[t].attempt + 1 \in Attempts
    BY <2>1 DEF Follows, StartCorrection, Askable, Active, Texts
  <2>3. Only(t) /\ row'[t].attempt = row[t].attempt + 1
    BY <2>1, FollowsRow
  <2>4. row[t].attempt \in Nat
    BY RunIsRun, CorrectionsCounted
  <2>5. native[<<t, row[t].attempt + 1>>].steer = {}
    <3>1. RunOK(t, row[t].attempt + 1)
      BY <2>2 DEF RunsOK
    <3> QED BY <2>2, <2>4, <3>1 DEF RunOK, NoRun, Has
  <2> QED BY <1>d, <2>2, <2>3, <2>5 DEF Goal, Only, Has
<1>17. ASSUME NEW t \in Tasks, NEW d \in Corrections, ESteers(t, d) PROVE Goal
  <2>1. d \notin heard.given /\ heard'.given = heard.given \cup {d} /\ row' = row
    BY <1>17, <1>y DEF ESteers, Steer, HeardType
  <2>2. \/ native' = [native EXCEPT ![Run(t)].steer = native[Run(t)].steer \cup {d}] /\ poll' = poll
        \/ poll'["steer"].text = {d} /\ native' = native
    BY <1>17, <1>y DEF ESteers, Steer
  <2>3. \A r \in Runs : native'[r].steer \subseteq native[r].steer \cup {d}
    BY <2>2, <1>y DEF NativeType
  <2>4. poll'["steer"].text \subseteq poll["steer"].text \cup {d}
    BY <2>2
  <2> QED BY <2>1, <2>3, <2>4 DEF Goal, Has
<1> QED
  BY <1>1, <1>2, <1>3, <1>4, <1>5, <1>6, <1>7, <1>8, <1>9, <1>10, <1>11, <1>12, <1>13, <1>14,
     <1>15, <1>16, <1>17 DEF Effect

LEMMA AttemptsStep ==
  ASSUME Types, OpOK, PollsOK, RunsOK, AnswersOK, TextsOK, AttemptsOK, Effect, TextsOK', heard' \in HeardType
  PROVE  AttemptsOK'
<1> DEFINE used == heard.given \ Waiting
           after == heard'.given \ Waiting'
<1>1. used \subseteq after
  BY WaitingShrinks
<1>2. /\ IsFiniteSet(used) /\ IsFiniteSet(after)
      /\ Cardinality(used) \in Nat /\ Cardinality(after) \in Nat /\ Cardinality(used) <= Cardinality(after)
  <2>1. after \in SUBSET Corrections
    BY DEF HeardType
  <2>2. IsFiniteSet(after)
    BY <2>1, CorrectionsCounted, FS_Subset
  <2>3. used \in SUBSET after
    BY <1>1
  <2>4. IsFiniteSet(used) /\ Cardinality(used) <= Cardinality(after)
    BY <2>2, <2>3, FS_Subset
  <2> QED BY <2>2, <2>4, FS_CardinalityType
<1>3. \A t \in Tasks : row[t].attempt <= Cardinality(used) /\ row[t].attempt \in Nat
  BY RowTyped, CorrectionsCounted DEF AttemptsOK
<1> SUFFICES ASSUME NEW t \in Tasks PROVE row'[t].attempt <= Cardinality(after)
  BY DEF AttemptsOK
<1> HIDE DEF used
<1>0. ASSUME row'[t].attempt = row[t].attempt \/ row'[t].attempt = 0 PROVE row'[t].attempt <= Cardinality(after)
  BY <1>0, <1>2, <1>3
<1>4. CASE EFollows \/ \E p \in Pollers : ECorrects(p)
  <2>1. PICK p \in Pollers, u \in Tasks, texts \in SUBSET Corrections : Follows(p, u, texts)
    BY <1>4, CorrectionFollows
  <2>0. PICK new \in Runs : new = <<u, row[u].attempt + 1>>
    BY <2>1, FollowsRow
  <2>2. PICK c \in texts : c \in Waiting /\ c \in Corrections
    BY <2>1 DEF Follows
  <2>3. Only(u) /\ row'[u].attempt = row[u].attempt + 1
    BY <2>1, FollowsRow
  <2>4. c \in heard.given /\ heard.given \subseteq heard'.given
    BY <2>2, WaitingIsGiven, WaitingShrinks
  <2>5. c \notin Waiting'
    <3>1. c \in posts'[new].text
      <4>1. posts' = [posts EXCEPT ![new] = [client |-> TRUE, server |-> "arriving", text |-> texts]]
        BY <2>0, <2>1 DEF Follows, StartCorrection
      <4> QED BY <2>2, <4>1 DEF Types, TablesTyped
    <3>2. TextOK(c)' /\ InPost(c, new)'
      BY <2>2, <3>1 DEF TextsOK, InPost
    <3>3. ~InPoll(c)' /\ \A r \in Runs : ~InRun(c, r)'
      BY <3>2 DEF TextOK
    <3>4. ASSUME NEW v \in Tasks, Has(row', v), c \in native'[<<v, row'[v].attempt>>].steer PROVE FALSE
      <4>1. row' \in [Tasks -> RowType]
        BY <2>3 DEF Only
      <4>2. <<v, row'[v].attempt>> \in Runs
        BY <4>1 DEF RowType, Runs
      <4> QED BY <3>3, <3>4, <4>2 DEF InRun, Current, Run
    <3> QED BY <3>3, <3>4 DEF Waiting, Run
  <2>6. Cardinality(after) >= Cardinality(used) + 1
    <3>1. used \in SUBSET (after \ {c})
      BY <1>1, <2>2 DEF used
    <3>2. c \in after
      BY <2>4, <2>5
    <3> HIDE DEF after
    <3>3. IsFiniteSet(after \ {c}) /\ Cardinality(after \ {c}) = Cardinality(after) - 1
      BY <1>2, <3>2, FS_RemoveElement
    <3>4. Cardinality(used) <= Cardinality(after \ {c})
      BY <3>1, <3>3, FS_Subset
    <3> QED BY <1>2, <3>3, <3>4
  <2> HIDE DEF after
  <2> QED BY <1>0, <1>2, <1>3, <2>3, <2>6 DEF Only
<1> HIDE DEF after
<1>5. CASE \/ ENothing \/ ECrashes
           \/ \E r \in Runs : ETakes(r) \/ \E status \in Over : EEnds(r, status)
           \/ \E p \in Pollers : EDrops(p)
           \/ \E u \in Tasks : (\E p \in Pollers : EAsks(p, u)) \/ (\E c \in Corrections : ESteers(u, c))
  BY <1>0, <1>5 DEF ENothing, ECrashes, Crash, ETakes, NativeTakes, EEnds, EDrops, EAsks, ESteers, Steer
<1>6. CASE \/ \E r \in Runs : EAnswers(r) \/ EHandles(r)
           \/ \E p \in Pollers : EReports(p) \/ EContinues(p)
  BY <1>0, <1>6, AnswersRow, HandlesRow, ReportsRow, ContinuesRow DEF Only, SameRun
<1>7. CASE \E u \in Tasks : \/ EReserves(u) \/ EStops(u)
                            \/ \E continued \in BOOLEAN, delivery \in Deliveries : EMarks(u, continued, delivery)
  BY <1>0, <1>7, ReservesRow, StopsRow, MarksRow DEF Only, SameRun
<1>8. CASE EClears \/ ERestarts
  BY <1>0, <1>8, ClearsRows, RestartsRows DEF SameRun, NoRow
<1> QED BY <1>4, <1>5, <1>6, <1>7, <1>8 DEF Effect

-----------------------------------------------------------------------------
(* The types of the next state *)

LEMMA TablesStep ==
  ASSUME Types, OpOK, PollsOK, AnswersOK, TextsOK, AttemptsOK, Effect
  PROVE  /\ granted' \subseteq Runs /\ mapped' \subseteq Runs /\ slots' \subseteq Tasks \cup {0}
         /\ native' \in [Runs -> NativeType] /\ posts' \in [Runs -> PostType]
         /\ poll' \in [Pollers -> PollType]
<1> DEFINE Goal == /\ granted' \subseteq Runs /\ mapped' \subseteq Runs /\ slots' \subseteq Tasks \cup {0}
                   /\ native' \in [Runs -> NativeType] /\ posts' \in [Runs -> PostType]
                   /\ poll' \in [Pollers -> PollType]
<1> SUFFICES Goal
  OBVIOUS
<1>y. /\ granted \subseteq Runs /\ mapped \subseteq Runs /\ slots \subseteq Tasks \cup {0}
      /\ native \in [Runs -> NativeType] /\ posts \in [Runs -> PostType] /\ poll \in [Pollers -> PollType]
  BY DEF Types, TablesTyped, LoopTyped
<1>n. NoPoll \in PollType /\ NoPost \in PostType
  BY LimitAssumption DEF NoPoll, PollType, NoRun, NativeType, NoPost, PostType
<1>r. ASSUME NEW t \in Tasks PROVE Run(t) \in Runs /\ t \in 0..MaxTask /\ native[Run(t)] \in NativeType
  BY <1>y, RunIsRun, LimitAssumption DEF Tasks
<1>d. ASSUME NEW p \in Pollers, poll' = [poll EXCEPT ![p] = NoPoll] PROVE poll' \in [Pollers -> PollType]
  BY <1>d, <1>n, <1>y
<1>1. CASE ENothing \/ EClears
  BY <1>1, <1>y DEF ENothing, EClears
<1>2. ASSUME NEW t \in Tasks, EReserves(t) PROVE Goal
  <2>1. <<t, 0>> \in Runs
    BY CorrectionsCounted DEF Runs
  <2>2. [NoPost EXCEPT !.client = TRUE, !.server = "arriving"] \in PostType
    BY DEF NoPost, PostType
  <2> QED BY <1>2, <1>y, <2>1, <2>2 DEF EReserves
<1>3. ASSUME NEW r \in Runs, EAnswers(r) PROVE Goal
  <2>1. granted' \subseteq granted /\ slots' \subseteq slots
    BY <1>3, AnswersRow
  <2>2. posts' \in [Runs -> PostType]
    <3>1. CASE posts' = [posts EXCEPT ![r] = NoPost]
      BY <1>y, <1>n, <3>1
    <3>2. CASE posts' = [posts EXCEPT ![r].client = FALSE]
      BY <1>y, <3>2 DEF PostType
    <3>3. CASE posts' = [posts EXCEPT ![r].server = "handling"]
      BY <1>y, <3>3 DEF PostType
    <3> QED BY <1>3, <3>1, <3>2, <3>3 DEF EAnswers
  <2> QED BY <1>3, <1>y, <2>1, <2>2 DEF EAnswers
<1>4. ASSUME NEW r \in Runs, EHandles(r) PROVE Goal
  <2>1. /\ native' = [native EXCEPT ![r].status = "running"] /\ posts' = [posts EXCEPT ![r] = NoPost]
        /\ mapped' \subseteq mapped \cup {r} /\ UNCHANGED <<granted, slots, poll>>
    BY <1>4 DEF EHandles, PostHandled, Mapped
  <2>2. native' \in [Runs -> NativeType]
    BY <1>y, <2>1 DEF NativeType
  <2> QED BY <1>y, <1>n, <2>1, <2>2
<1>5. ASSUME NEW t \in Tasks, EStops(t) PROVE Goal
  BY <1>5, <1>y, StopsRow DEF EStops
<1>6. CASE EFollows \/ \E p \in Pollers : ECorrects(p)
  <2>1. PICK p \in Pollers, t \in Tasks, texts \in SUBSET Corrections : Follows(p, t, texts)
    BY <1>6, CorrectionFollows
  <2>2. PICK new \in Runs : new = <<t, row[t].attempt + 1>>
    BY <2>1, FollowsRow
  <2>3. [client |-> TRUE, server |-> "arriving", text |-> texts] \in PostType
    BY DEF PostType
  <2> QED BY <1>d, <1>y, <2>1, <2>2, <2>3 DEF Follows, StartCorrection
<1>7. ASSUME NEW p \in Pollers, EReports(p) \/ EContinues(p) \/ EDrops(p) PROVE Goal
  BY <1>7, <1>d, <1>y DEF EReports, Retires, EContinues, EDrops
<1>8. ASSUME NEW p \in Pollers, NEW t \in Tasks, EAsks(p, t) PROVE Goal
  <2>1. [task |-> t, state |-> native[Run(t)], text |-> {}] \in PollType
    BY <1>r DEF PollType
  <2> QED BY <1>8, <1>y, <2>1 DEF EAsks, Asks
<1>9. ASSUME NEW t \in Tasks, NEW c \in Corrections, ESteers(t, c) PROVE Goal
  <2>1. [task |-> t, state |-> native[Run(t)], text |-> {c}] \in PollType
    BY <1>r DEF PollType
  <2>2. \/ native' = [native EXCEPT ![Run(t)].steer = native[Run(t)].steer \cup {c}] /\ poll' = poll
        \/ poll' = [poll EXCEPT !["steer"] = [task |-> t, state |-> native[Run(t)], text |-> {c}]] /\ native' = native
    BY <1>9 DEF ESteers, Steer
  <2>3. native' \in [Runs -> NativeType]
    BY <1>r, <1>y, <2>2 DEF NativeType
  <2>4. poll' \in [Pollers -> PollType]
    BY <1>y, <2>1, <2>2
  <2> QED BY <1>9, <1>y, <2>3, <2>4 DEF ESteers, Steer
<1>10. CASE \E t \in Tasks, continued \in BOOLEAN, delivery \in Deliveries : EMarks(t, continued, delivery)
  BY <1>10, <1>y DEF EMarks
<1>11. CASE ERestarts
  <2>1. UNCHANGED <<mapped, native, posts, poll>> /\ granted' \subseteq granted /\ slots' \subseteq Tasks \cup {0}
    BY <1>11 DEF ERestarts, Restart, Reconciled, Active
  <2> QED BY <2>1, <1>y
<1>12. CASE ECrashes
  <2>1. native' \in [Runs -> NativeType]
    BY <1>12, <1>y DEF ECrashes, Crash, NativeType, Over
  <2> QED BY <1>12, <1>y, <1>n, <2>1 DEF ECrashes, Crash
<1>13. ASSUME NEW r \in Runs, ETakes(r) PROVE Goal
  <2>1. native' \in [Runs -> NativeType]
    BY <1>13, <1>y DEF ETakes, NativeTakes, NativeType
  <2> QED BY <1>13, <1>y, <2>1 DEF ETakes, NativeTakes
<1>14. ASSUME NEW r \in Runs, NEW status \in Over, EEnds(r, status) PROVE Goal
  <2>1. native' \in [Runs -> NativeType]
    BY <1>14, <1>y DEF EEnds, NativeType, Over
  <2> QED BY <1>14, <1>y, <2>1 DEF EEnds
<1> QED
  BY <1>1, <1>2, <1>3, <1>4, <1>5, <1>6, <1>7, <1>8, <1>9, <1>10, <1>11, <1>12, <1>13, <1>14 DEF Effect

\* What the tables of the runs do not tell of the gateway, of the caller and of the bounds.
LEMMA BoundStep ==
  ASSUME Types, [Next]_vars
  PROVE  bound' \in Scenario
<1>b. bound \in Scenario
  BY DEF Types, LoopTyped
<1>1. CASE bound' = bound
  BY <1>b, <1>1
<1>2. CASE \/ bound.submits > 0 /\ bound' = [bound EXCEPT !.submits = @ - 1]
           \/ bound.cancels > 0 /\ bound' = [bound EXCEPT !.cancels = @ - 1]
           \/ bound.steers > 0 /\ bound' = [bound EXCEPT !.steers = @ - 1]
           \/ bound.polls > 0 /\ bound' = [bound EXCEPT !.polls = @ - 1]
           \/ bound.peers > 0 /\ bound' = [bound EXCEPT !.peers = @ - 1]
           \/ bound.faults > 0 /\ bound' = [bound EXCEPT !.faults = @ - 1]
           \/ bound.crashes > 0 /\ bound' = [bound EXCEPT !.crashes = @ - 1]
  <2>1. \A n \in Nat : n > 0 => n - 1 \in Nat
    OBVIOUS
  <2> QED BY <1>b, <1>2, <2>1 DEF Scenario
<1>3. CASE \/ SubmitReserves \/ Reset \/ ResetStops \/ (\E deletes \in BOOLEAN : ResetEnds(deletes))
           \/ HangUp \/ PeerReserves \/ PeerReleases \/ Restart \/ Crash \/ StatusTakes \/ SteerFollows
           \/ \E continued \in BOOLEAN, relation \in {"new", "independent", "follow_up"} : Submit(continued, relation)
  BY <1>1, <1>2, <1>3 DEF SubmitReserves, Reset, ResetStops, ResetEnds, HangUp, PeerReserves, PeerReleases,
     Restart, Crash, StatusTakes, SteerFollows, Submit
<1>4. CASE \/ WatchBegins \/ WatchPasses \/ WatchStops \/ WatchKeeps \/ WatchWaits \/ WatchAsks
           \/ WatchSkips \/ WatchTakes \/ UNCHANGED vars
  BY <1>1, <1>4 DEF WatchBegins, WatchPasses, WatchStops, WatchKeeps, WatchWaits, WatchAsks, WatchSkips,
     WatchTakes, vars
<1>5. CASE \/ (\E t \in Tasks : \/ Lapse(t) \/ Cancel(t) \/ Continue(t) \/ StatusAsks(t) \/ DeliverRecords(t)
                                \/ \E c \in Corrections : Steer(t, c))
           \/ \E p \in Pollers : AskLost(p)
  BY <1>1, <1>2, <1>5 DEF Lapse, Cancel, Continue, StatusAsks, DeliverRecords, Steer, AskLost
<1>6. CASE \E t \in Tasks : DeliverSends(t)
  BY <1>1, <1>2, <1>6 DEF DeliverSends
<1>7. CASE \E r \in Runs : \/ PostArrives(r) \/ PostHandled(r) \/ LaunchTimesOut(r) \/ StopArrives(r)
                           \/ PostRefused(r) \/ StopLost(r) \/ NativeTakes(r)
                           \/ \E status \in {"completed", "failed"} : NativeEnds(r, status)
  BY <1>1, <1>2, <1>7 DEF PostArrives, PostHandled, LaunchTimesOut, StopArrives, PostRefused, StopLost,
     NativeTakes, NativeEnds
<1> QED BY <1>3, <1>4, <1>5, <1>6, <1>7 DEF Next, Observes, Posts, Answers, Stopping, Requests, Events

LEMMA HeardStep ==
  ASSUME Types, [Next]_vars
  PROVE  heard' \in HeardType
<1>h. heard \in HeardType
  BY DEF Types, LoopTyped
<1>1. CASE heard' = heard
  BY <1>h, <1>1
<1>2. ASSUME NEW texts, heard' = [heard EXCEPT !.taken =
               [c \in Corrections |-> heard.taken[c] + (IF c \in texts THEN 1 ELSE 0)]]
      PROVE  heard' \in HeardType
  BY <1>h, <1>2 DEF HeardType
<1>3. CASE \E t \in Tasks, c \in Corrections : Steer(t, c)
  BY <1>h, <1>3 DEF Steer, HeardType
<1>4. CASE \E t \in Tasks : DeliverSends(t)
  <2>1. PICK t \in Tasks : DeliverSends(t)
    BY <1>4
  <2>2. CASE heard' = [heard EXCEPT !.notices[t] = @ + 1]
    BY <1>h, <2>2 DEF HeardType
  <2> QED BY <1>1, <2>1, <2>2 DEF DeliverSends
<1>5. CASE \E r \in Runs : PostHandled(r) \/ NativeTakes(r)
  BY <1>2, <1>5 DEF PostHandled, NativeTakes
<1>6. CASE \/ SubmitReserves \/ Reset \/ ResetStops \/ (\E deletes \in BOOLEAN : ResetEnds(deletes))
           \/ HangUp \/ PeerReserves \/ PeerReleases \/ Restart \/ Crash \/ StatusTakes \/ SteerFollows
           \/ \E continued \in BOOLEAN, relation \in {"new", "independent", "follow_up"} : Submit(continued, relation)
  BY <1>1, <1>6 DEF SubmitReserves, Reset, ResetStops, ResetEnds, HangUp, PeerReserves, PeerReleases,
     Restart, Crash, StatusTakes, SteerFollows, Submit
<1>7. CASE \/ WatchBegins \/ WatchPasses \/ WatchStops \/ WatchKeeps \/ WatchWaits \/ WatchAsks
           \/ WatchSkips \/ WatchTakes \/ UNCHANGED vars
  BY <1>1, <1>7 DEF WatchBegins, WatchPasses, WatchStops, WatchKeeps, WatchWaits, WatchAsks, WatchSkips,
     WatchTakes, Passes, vars
<1>8. CASE \/ (\E t \in Tasks : \/ Lapse(t) \/ Cancel(t) \/ Continue(t) \/ StatusAsks(t) \/ DeliverRecords(t))
           \/ \E p \in Pollers : AskLost(p)
  BY <1>1, <1>8 DEF Lapse, Cancel, Continue, StatusAsks, DeliverRecords, AskLost
<1>9. CASE \E r \in Runs : \/ PostArrives(r) \/ LaunchTimesOut(r) \/ StopArrives(r)
                           \/ PostRefused(r) \/ StopLost(r)
                           \/ \E status \in {"completed", "failed"} : NativeEnds(r, status)
  BY <1>1, <1>9 DEF PostArrives, LaunchTimesOut, StopArrives, PostRefused, StopLost, NativeEnds
<1> QED BY <1>3, <1>4, <1>5, <1>6, <1>7, <1>8, <1>9
           DEF Next, Observes, Posts, Answers, Stopping, Requests, Events

LEMMA CallersStep ==
  ASSUME Types, [Next]_vars
  PROVE  /\ call' \in [parent : BOOLEAN, active : BOOLEAN]
         /\ lapsed' \subseteq Tasks /\ stops' \subseteq Runs
<1> DEFINE Goal == /\ call' \in [parent : BOOLEAN, active : BOOLEAN]
                   /\ lapsed' \subseteq Tasks /\ stops' \subseteq Runs
<1> SUFFICES Goal
  OBVIOUS
<1>y. call \in [parent : BOOLEAN, active : BOOLEAN] /\ lapsed \subseteq Tasks /\ stops \subseteq Runs
  BY DEF Types, LoopTyped, TablesTyped
<1>r. \A t \in Tasks : Run(t) \in Runs
  BY RunIsRun
<1>1. CASE call' = call /\ lapsed' = lapsed /\ stops' \subseteq stops \cup Runs
  BY <1>y, <1>1
<1>2. CASE Reset \/ HangUp \/ \E t \in Tasks : Lapse(t)
  BY <1>2, <1>y DEF Reset, HangUp, Lapse
<1>3. CASE (\E t \in Tasks : Cancel(t)) \/ ResetStops \/ WatchStops
  BY <1>1, <1>3, <1>r DEF Cancel, ResetStops, WatchStops, Stopped, Active
<1>4. CASE \E r \in Runs : PostHandled(r)
  BY <1>1, <1>4 DEF PostHandled, Admitted
<1>5. CASE \E r \in Runs : \/ PostArrives(r) \/ LaunchTimesOut(r) \/ StopArrives(r)
                           \/ PostRefused(r) \/ StopLost(r) \/ NativeTakes(r)
                           \/ \E status \in {"completed", "failed"} : NativeEnds(r, status)
  BY <1>1, <1>5 DEF PostArrives, LaunchTimesOut, StopArrives, PostRefused, StopLost, NativeTakes, NativeEnds
<1>6. CASE \/ SubmitReserves \/ (\E deletes \in BOOLEAN : ResetEnds(deletes))
           \/ PeerReserves \/ PeerReleases \/ Restart \/ Crash \/ StatusTakes \/ SteerFollows
           \/ \E continued \in BOOLEAN, relation \in {"new", "independent", "follow_up"} : Submit(continued, relation)
  BY <1>1, <1>6 DEF SubmitReserves, ResetEnds, PeerReserves, PeerReleases, Restart, Crash, StatusTakes,
     SteerFollows, Submit
<1>7. CASE \/ WatchBegins \/ WatchPasses \/ WatchKeeps \/ WatchWaits \/ WatchAsks
           \/ WatchSkips \/ WatchTakes \/ UNCHANGED vars
  BY <1>1, <1>7 DEF WatchBegins, WatchPasses, WatchKeeps, WatchWaits, WatchAsks, WatchSkips, WatchTakes, vars
<1>8. CASE \/ (\E t \in Tasks : \/ Continue(t) \/ StatusAsks(t) \/ DeliverSends(t) \/ DeliverRecords(t)
                                \/ \E c \in Corrections : Steer(t, c))
           \/ \E p \in Pollers : AskLost(p)
  BY <1>1, <1>8 DEF Continue, StatusAsks, DeliverSends, DeliverRecords, Steer, AskLost
<1> QED BY <1>2, <1>3, <1>4, <1>5, <1>6, <1>7, <1>8
           DEF Next, Observes, Posts, Answers, Stopping, Requests, Events

LEMMA GateStep ==
  ASSUME Types, PollsOK, [Next]_vars
  PROVE  gate' \in GateType
<1>g. gate \in GateType /\ gate.op \in OpType
  BY DEF Types, LoopTyped, GateType
<1>n. NoOp \in OpType
  BY LimitAssumption DEF NoOp, OpType
<1>w. watch.pc = "asleep" \/ watch.task \in Tasks
  BY DEF PollsOK
<1>1. CASE gate' = gate
  BY <1>g, <1>1
<1>2. ASSUME NEW op \in OpType, gate' = [gate EXCEPT !.op = op] PROVE gate' \in GateType
  BY <1>g, <1>2 DEF GateType
<1>3. ASSUME NEW t \in Tasks, NEW x \in {"none", "claimed", "sent"}, gate' = [gate EXCEPT !.sending[t] = x]
      PROVE  gate' \in GateType
  BY <1>g, <1>3 DEF GateType
<1>4. ASSUME NEW continued \in BOOLEAN, NEW relation, Submit(continued, relation) PROVE gate' \in GateType
  <2>1. PICK t \in Tasks, session \in 1..MaxTask :
          gate' = [gate EXCEPT !.op = [NoOp EXCEPT !.kind = "submit", !.task = t,
                                            !.continued = continued, !.session = session]]
    BY <1>4 DEF Submit
  <2>2. [NoOp EXCEPT !.kind = "submit", !.task = t, !.continued = continued, !.session = session] \in OpType
    <3>1. t \in 0..MaxTask /\ session \in 0..MaxTask
      BY LimitAssumption DEF Tasks
    <3> QED BY <3>1 DEF NoOp, OpType
  <2> QED BY <2>1, <2>2, <1>2
<1>5. CASE Reset
  <2>1. [NoOp EXCEPT !.kind = "reset", !.todo = Active(row)] \in OpType
    <3>1. Active(row) \in SUBSET Tasks /\ 0 \in 0..MaxTask
      BY LimitAssumption DEF Active
    <3> QED BY <3>1 DEF NoOp, OpType
  <2> QED BY <1>5, <2>1, <1>2 DEF Reset
<1>6. CASE ResetStops
  <2> DEFINE t == Min(gate.op.todo)
  <2>1. gate.op.todo \in SUBSET Tasks /\ gate.op.todo # {}
    BY <1>6, <1>g DEF OpType, ResetStops
  <2>2. t \in Tasks /\ t \in 0..MaxTask
    <3>1. gate.op.todo \in SUBSET Nat
      BY <2>1, LimitAssumption DEF Tasks
    <3>2. t \in gate.op.todo
      BY <2>1, <3>1, MinIn
    <3> HIDE DEF t
    <3> QED BY <2>1, <3>2, LimitAssumption DEF Tasks
  <2>3. gate' = [gate EXCEPT !.op.todo = @ \ {t}, !.op.task = t]
    BY <1>6 DEF ResetStops
  <2> HIDE DEF t
  <2> QED BY <1>g, <2>2, <2>3 DEF GateType, OpType
<1>7. CASE SubmitReserves \/ (\E deletes \in BOOLEAN : ResetEnds(deletes)) \/ \E r \in Runs : StopLost(r)
  BY <1>1, <1>2, <1>7, <1>n DEF SubmitReserves, ResetEnds, StopLost
<1>8. CASE Restart \/ Crash
  <2>1. \/ gate' = [gate EXCEPT !.up = TRUE]
        \/ gate' = [up |-> FALSE, op |-> NoOp, sending |-> [t \in Tasks |-> "none"]]
    BY <1>8 DEF Restart, Crash
  <2>2. CASE gate' = [gate EXCEPT !.up = TRUE]
    BY <1>g, <2>2 DEF GateType
  <2>3. CASE gate' = [up |-> FALSE, op |-> NoOp, sending |-> [t \in Tasks |-> "none"]]
    <3>1. [t \in Tasks |-> "none"] \in [Tasks -> {"none", "claimed", "sent"}]
      OBVIOUS
    <3> QED BY <1>n, <2>3, <3>1 DEF GateType
  <2> QED BY <2>1, <2>2, <2>3
<1>9. CASE WatchPasses \/ WatchSkips \/ WatchTakes
  <2>1. gate' = gate \/ gate' = [gate EXCEPT !.sending[watch.task] = "claimed"]
    BY <1>9 DEF WatchPasses, WatchSkips, WatchTakes, Passes
  <2>2. watch.task \in Tasks
    BY <1>9, <1>w DEF WatchPasses, WatchSkips, WatchTakes, WatchAt, Refreshing
  <2> QED BY <2>1, <2>2, <1>1, <1>3
<1>10. CASE \E t \in Tasks : DeliverSends(t) \/ DeliverRecords(t)
  <2>1. PICK t \in Tasks : DeliverSends(t) \/ DeliverRecords(t)
    BY <1>10
  <2>2. \E x \in {"none", "claimed", "sent"} : gate' = [gate EXCEPT !.sending[t] = x]
    BY <2>1 DEF DeliverSends, DeliverRecords
  <2> QED BY <2>2, <1>3
<1>11. CASE \/ WatchBegins \/ WatchStops \/ WatchKeeps \/ WatchWaits \/ WatchAsks \/ UNCHANGED vars
            \/ HangUp \/ PeerReserves \/ PeerReleases \/ StatusTakes \/ SteerFollows
            \/ (\E p \in Pollers : AskLost(p))
  BY <1>1, <1>11 DEF WatchBegins, WatchStops, WatchKeeps, WatchWaits, WatchAsks, vars, HangUp, PeerReserves,
     PeerReleases, StatusTakes, SteerFollows, AskLost
<1>12. CASE \E t \in Tasks : \/ Lapse(t) \/ Cancel(t) \/ Continue(t) \/ StatusAsks(t)
                             \/ \E c \in Corrections : Steer(t, c)
  BY <1>1, <1>12 DEF Lapse, Cancel, Continue, StatusAsks, Steer
<1>13. CASE \E r \in Runs : \/ PostArrives(r) \/ PostHandled(r) \/ LaunchTimesOut(r) \/ StopArrives(r)
                            \/ PostRefused(r) \/ NativeTakes(r)
                            \/ \E status \in {"completed", "failed"} : NativeEnds(r, status)
  BY <1>1, <1>13 DEF PostArrives, PostHandled, LaunchTimesOut, StopArrives, PostRefused, NativeTakes, NativeEnds
<1> QED BY <1>4, <1>5, <1>6, <1>7, <1>8, <1>9, <1>10, <1>11, <1>12, <1>13
           DEF Next, Observes, Posts, Answers, Stopping, Requests, Events

LEMMA TypesStep ==
  ASSUME Types, OpOK, PollsOK, RunsOK, AnswersOK, TextsOK, AttemptsOK, [Next]_vars
  PROVE  Types'
<1>1. Effect
  BY Effects
<1>2. TablesTyped'
  BY <1>1, RowsTyped, TablesStep, CallersStep DEF TablesTyped
<1>3. LoopTyped'
  BY <1>1, TablesStep, CallersStep, GateStep, WatchMoves, HeardStep, BoundStep DEF LoopTyped, WatchOK
<1> QED BY <1>2, <1>3 DEF Types

-----------------------------------------------------------------------------
(* The invariant holds, and what it says *)

LEMMA InitIInv == Init => IInv
<1> SUFFICES ASSUME Init PROVE IInv
  OBVIOUS
<1>m. MaxTask \in Nat /\ 0 \in 0..MaxTask
  BY LimitAssumption
<1>1. TablesTyped
  <2>1. row \in [Tasks -> RowType] /\ posts \in [Runs -> PostType] /\ native \in [Runs -> NativeType]
    BY NoRowTyped DEF Init, NoRun, NoPost, NativeType, PostType
  <2> QED BY <2>1 DEF Init, TablesTyped
<1>2. LoopTyped
  <2>1. NoPoll \in PollType /\ NoOp \in OpType
    BY <1>m DEF NoPoll, PollType, NoRun, NativeType, NoOp, OpType
  <2>2. NoWatch \in WatchType
    BY <1>m, NoRowTyped DEF NoWatch, WatchType
  <2>3. heard \in HeardType
    BY DEF Init, HeardType
  <2>4. gate \in GateType
    <3>1. [t \in Tasks |-> "none"] \in [Tasks -> {"none", "claimed", "sent"}]
      OBVIOUS
    <3> QED BY <2>1, <3>1 DEF Init, GateType
  <2>5. call \in [parent : BOOLEAN, active : BOOLEAN] /\ bound \in Scenario
    BY ScenarioAssumption DEF Init
  <2> QED BY <2>1, <2>2, <2>3, <2>4, <2>5 DEF Init, LoopTyped
<1>r. /\ \A t \in Tasks : row[t].status = "absent" /\ row[t].attempt = 0 /\ row[t].delivery = "none"
      /\ \A t \in Tasks : ~Has(row, t)
  BY DEF Init, NoRow, Has
<1>n. \A r \in Runs : native[r] = NoRun /\ native[r].steer = {} /\ posts[r] = NoPost /\ posts[r].text = {}
  BY DEF Init, NoRun, NoPost
<1>p. \A p \in Pollers : poll[p] = NoPoll /\ poll[p].task = 0 /\ poll[p].text = {}
  BY DEF Init, NoPoll
<1>w. watch.pc = "asleep" /\ \A t \in Tasks : watch.rows[t] = NoRow
  BY DEF Init, NoWatch
<1>h. /\ \A c \in Corrections : heard.taken[c] = 0
      /\ \A t \in Tasks : heard.notices[t] = 0 /\ gate.sending[t] = "none"
      /\ heard.given = {} /\ gate.op.kind = "none"
  BY DEF Init, NoOp
<1>3. OpOK
  BY <1>h, <1>r DEF OpOK
<1>4. PollsOK
  BY <1>p, <1>w DEF PollsOK
<1>5. BindingsOK
  BY DEF Init, BindingsOK
<1>6. SlotsOK
  <2>1. Working(row) = {}
    BY <1>r DEF Working
  <2>2. Cardinality(Working(row)) = 0
    BY <2>1, FS_EmptySet
  <2> QED BY <2>1, <2>2, LimitAssumption DEF SlotsOK
<1>7. NoticesOK
  BY <1>h, <1>r, <1>w DEF NoticesOK, Unsent, NoRow, TERMINAL
<1>8. RunsOK
  <2> SUFFICES ASSUME NEW t \in Tasks, NEW a \in Attempts PROVE RunOK(t, a)
    BY DEF RunsOK
  <2>1. <<t, a>> \in Runs /\ a \in Nat
    BY CorrectionsCounted DEF Runs
  <2>2. ~(a < row[t].attempt)
    BY <1>r, <2>1
  <2> QED BY <1>n, <2>1, <2>2 DEF RunOK, NoPost
<1>9. AnswersOK
  BY <1>p DEF AnswersOK
<1>10. TextsOK
  BY <1>h, <1>n, <1>p DEF TextsOK, TextOK, InRun, InPost, InPoll, Pollers
<1>11. ChainOK
  BY <1>r DEF ChainOK
<1>12. AttemptsOK
  <2>1. heard.given \ Waiting = {}
    BY <1>h
  <2>2. Cardinality(heard.given \ Waiting) = 0
    BY <2>1, FS_EmptySet
  <2> QED BY <1>r, <2>2 DEF AttemptsOK
<1> QED
  BY <1>1, <1>2, <1>3, <1>4, <1>5, <1>6, <1>7, <1>8, <1>9, <1>10, <1>11, <1>12 DEF IInv, Types

LEMMA IInvStep == IInv /\ [Next]_vars => IInv'
<1> SUFFICES ASSUME IInv, [Next]_vars PROVE IInv'
  OBVIOUS
<1> USE DEF IInv
<1>1. Effect /\ Retiring
  BY Effects
<1>2. Types'
  BY TypesStep
<1>3. OpOK' /\ PollsOK' /\ NoticesOK'
  BY OpStep, PollsStep, NoticesStep
<1>4. BindingsOK' /\ SlotsOK' /\ RunsOK' /\ AnswersOK' /\ TextsOK'
  BY <1>1, BindingsStep, SlotsStep, RunsStep, AnswersStep, TextsStep
<1>5. ChainOK'
  BY <1>1, <1>4, ChainStep
<1>6. heard' \in HeardType
  BY HeardStep
<1>7. AttemptsOK'
  BY <1>1, <1>4, <1>6, AttemptsStep
<1> QED BY <1>2, <1>3, <1>4, <1>5, <1>7

\* A run that may use tools is the run of a task that works.
LEMMA AbleWorks ==
  ASSUME Types, BindingsOK, NEW r \in Runs, Authorised(r)
  PROVE  r[1] \in Working(row) /\ r = Run(r[1])
<1>1. Has(row, r[1]) /\ row[r[1]].run /\ Run(r[1]) = r
  BY DEF BindingsOK, Authorised, Bound
<1>2. row[r[1]].status \notin Ended
  BY <1>1 DEF Authorised
<1> QED BY <1>1, <1>2, RunTypes DEF Working

LEMMA CapacityFollows ==
  ASSUME Types, BindingsOK, SlotsOK
  PROVE  CapacityHeld /\ OneRunPerSession
<1> DEFINE able == {r \in Runs : Authorised(r)}
           F == [t \in Working(row) |-> Run(t)]
<1>1. \A r \in able : r[1] \in Working(row) /\ r = Run(r[1]) /\ r[1] \in slots
  BY AbleWorks DEF SlotsOK
<1>2. Cardinality(able) <= Limit
  <2>1. IsFiniteSet(Working(row)) /\ Cardinality(Working(row)) \in Nat
    BY FiniteTasks
  <2>2. IsFiniteSet({F[t] : t \in Working(row)}) /\ Cardinality({F[t] : t \in Working(row)}) <= Cardinality(Working(row))
    <3>1. F \in Surjection(Working(row), {F[t] : t \in Working(row)})
      BY DEF Surjection
    <3> HIDE DEF F
    <3> QED BY <2>1, <3>1, FS_Surjection
  <2>3. able \in SUBSET {F[t] : t \in Working(row)}
    BY <1>1
  <2> HIDE DEF able, F
  <2>4. IsFiniteSet(able) /\ Cardinality(able) <= Cardinality({F[t] : t \in Working(row)})
    BY <2>2, <2>3, FS_Subset
  <2>5. Cardinality(able) \in Nat /\ Cardinality({F[t] : t \in Working(row)}) \in Nat
    BY <2>2, <2>4, FS_CardinalityType
  <2> QED BY <2>1, <2>2, <2>4, <2>5, LimitAssumption DEF SlotsOK
<1>3. CapacityHeld
  BY <1>1, <1>2 DEF CapacityHeld
<1>4. OneRunPerSession
  BY <1>1 DEF OneRunPerSession, SlotsOK
<1> QED BY <1>3, <1>4

LEMMA CompletedFollows ==
  ASSUME Types, RunsOK, ChainOK
  PROVE  CompletedMeansTaken
<1> SUFFICES ASSUME NEW t \in Tasks, row[t].status = "completed"
             PROVE  /\ native[Run(t)].status = "completed"
                    /\ \A a \in Attempts : native[<<t, a>>].steer \subseteq
                         {c \in Corrections : a < row[t].attempt /\ heard.taken[c] = 1}
  BY DEF CompletedMeansTaken
<1>1. Has(row, t)
  BY DEF Has
<1>2. row[t].run /\ native[Run(t)].status = "completed" /\ native[Run(t)].steer = {}
  BY <1>1 DEF ChainOK
<1> SUFFICES ASSUME NEW a \in Attempts
             PROVE  native[<<t, a>>].steer \subseteq {c \in Corrections : a < row[t].attempt /\ heard.taken[c] = 1}
  BY <1>2
<1>3. a \in Nat /\ row[t].attempt \in Nat
  BY CorrectionsCounted, RowTyped
<1>4. CASE a < row[t].attempt
  <2>1. native[<<t, a>>].steer \subseteq Taken
    BY <1>1, <1>2, <1>4 DEF ChainOK
  <2> QED BY <1>4, <2>1 DEF Taken
<1>5. CASE a = row[t].attempt
  BY <1>2, <1>5 DEF Run
<1>6. CASE a > row[t].attempt
  BY <1>6 DEF RunsOK, RunOK, NoRun
<1> QED BY <1>3, <1>4, <1>5, <1>6

LEMMA IInvInv == IInv => Inv
<1> SUFFICES ASSUME IInv PROVE Inv
  OBVIOUS
<1> USE DEF IInv
<1>1. TypeOK
  <2>1. \A t \in Tasks : row[t].status \in Statuses /\ row[t].delivery \in Deliveries
    BY RowTyped
  <2>2. \A r \in Runs : native[r].status \in Over \cup {"none", "running"}
    BY RunTypes
  <2> QED BY <2>1, <2>2 DEF TypeOK, Types, TablesTyped, LoopTyped, Statuses, Deliveries
<1>2. CapacityHeld /\ OneRunPerSession
  BY CapacityFollows
<1>3. CorrectedOnce
  BY DEF CorrectedOnce, TextsOK, TextOK
<1>4. CompletedMeansTaken
  BY CompletedFollows
<1>5. NoticeOnce
  BY DEF NoticeOnce, NoticesOK
<1> QED BY <1>1, <1>2, <1>3, <1>4, <1>5 DEF Inv

\* In every state the rows, the bindings, the slots, the notices, the runs and the texts of
\* the corrections agree, as IInv says, whatever the requests, the answers that get lost, the
\* crashes and the other gateways.
THEOREM RegistryInvariant == Spec => []IInv
<1>1. Init => IInv
  BY InitIInv
<1>2. IInv /\ [Next]_vars => IInv'
  BY IInvStep
<1> QED BY <1>1, <1>2, PTL DEF Spec

\* The runs that may use tools hold a slot each, are no more than max_phone_tasks, and work on
\* sessions of their own; a correction is taken once at most, and a task that is reported as
\* completed took all it had accepted; a notice is sent once at most.
THEOREM TasksInv == Spec => []Inv
<1>1. IInv => Inv
  BY IInvInv
<1> QED BY <1>1, RegistryInvariant, PTL

\* A task that was stopped or reported never works again: a late admission, a refresh, a
\* correction and a restart leave it ended.
THEOREM EndedTasksStay == Spec => EndedStays
<1>1. IInv /\ [Next]_vars => [\A t \in Tasks : row[t].status \in Ended => row'[t].status \in Ended \cup {"deleted"}]_vars
  <2> SUFFICES ASSUME IInv, [Next]_vars, NEW t \in Tasks, row[t].status \in Ended
               PROVE  row'[t].status \in Ended \cup {"deleted"}
    OBVIOUS
  <2>1. Effect
    BY Effects DEF IInv
  <2>2. RowStep(t)
    BY <2>1, RowSteps DEF IInv
  <2> QED BY <2>2 DEF RowStep
<1> QED BY <1>1, RegistryInvariant, PTL DEF Spec, EndedStays
=============================================================================
