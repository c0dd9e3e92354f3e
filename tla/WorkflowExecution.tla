------------------------- MODULE WorkflowExecution -------------------------
(***************************************************************************)
(* The daemon's side of a phone request (workflow_execution.py): a durable  *)
(* receipt per attempt, the task dial() that carries its own copy of that   *)
(* receipt while start_phone_call runs, and outcome(), which the gateway    *)
(* polls and which joins the receipt with the audit of ended calls.         *)
(*                                                                          *)
(* dial(), outcome() and the HFP callbacks interleave at their awaits.  A   *)
(* restart of the daemon keeps the receipts and the audit, loses the tasks  *)
(* and the call state, and numbers calls from 1 again.  Calls have a        *)
(* unique id (their index in "calls", a uuid4 in the code) and that         *)
(* generation.  The evidence of a call is whether its caller was heard.     *)
(*                                                                         *)
(* The attempts of a request and of its callbacks call one number, one      *)
(* after the other: the gateway (phone_workflows.py) schedules a retry of   *)
(* an attempt with a certain answer, and a callback that was asked for      *)
(* during the attempt's call.                                               *)
(***************************************************************************)
EXTENDS Naturals, Sequences, SequencesExt, FiniteSets

CONSTANTS Attempts,
          Number,       \* [Attempts -> numbers]: whom an attempt calls
          Before,       \* [Attempts -> SUBSET Attempts]: what it follows in its chain
          Callers,      \* numbers that may call in
          Nobody,       \* in "by", of an incoming call
          MaxCalls, MaxRestarts   \* bounds

ASSUME NobodyAssumption == Nobody \notin Attempts
ASSUME NumberAssumption == Number \in [Attempts -> Range(Number)]
ASSUME BeforeAssumption == Before \in [Attempts -> SUBSET Attempts]
ASSUME BoundAssumption == MaxCalls \in Nat /\ MaxRestarts \in Nat

VARIABLES
  calls,      \* every call so far, in the order of its start
  current,    \* the call HFPState shows, 0 if none
  generation, \* HFPState.call_generation
  receipt,    \* the table phone_workflow_execution
  task,       \* dial(): whether it runs, and its copy of the row
  launched,   \* what start_phone_call came to
  told,       \* the last outcome the gateway was given
  asked,      \* the attempts in whose call a callback was asked for
  restarts

vars == <<calls, current, generation, receipt, task, launched, told, asked, restarts>>

NoCall == 0
CallId == 0..MaxCalls

\* over: HFPState is idle again; audited: call_ended is in the ledger; gone:
\* the daemon restarted before that.
Call == [by : Attempts \cup {Nobody}, number : Range(Number) \cup Callers,
         generation : Nat, answered : BOOLEAN, heard : BOOLEAN, lost : BOOLEAN,
         end : {"up", "over", "audited", "gone"}]

NoOutcome == [answer |-> "none", call |-> NoCall]
Outcome == [answer : {"none", "talked", "missed", "unknown"}, call : CallId]

\* generation and past (the audit before started_at) are for recognizing the
\* call; a refused result has a code that says no call was connected.  observing:
\* dial() has ended ("failed" in the code without a call, "uncertain" if it raised,
\* which outcome() treats like a failed result).
Row == [status : {"none", "starting", "observing", "uncertain", "finished"},
        generation : Nat, past : SUBSET CallId, call : CallId,
        result : {"none", "ok", "refused", "failed"}, outcome : Outcome]
NoRow == [status |-> "none", generation |-> 0, past |-> {}, call |-> NoCall,
          result |-> "none", outcome |-> NoOutcome]

TypeOK ==
  /\ calls \in Seq(Call) /\ Len(calls) <= MaxCalls
  /\ current \in 0..Len(calls)
  /\ generation \in 0..MaxCalls
  /\ receipt \in [Attempts -> Row]
  /\ task \in [Attempts -> [runs : BOOLEAN, row : Row]]
  /\ launched \in [Attempts -> {"no", "running", "ok", "refused", "failed"}]
  /\ told \in [Attempts -> Outcome]
  /\ asked \subseteq Attempts
  /\ restarts \in 0..MaxRestarts

NoTask == [runs |-> FALSE, row |-> NoRow]

Init ==
  /\ calls = <<>> /\ current = NoCall /\ generation = 0
  /\ receipt = [a \in Attempts |-> NoRow]
  /\ task = [a \in Attempts |-> NoTask]
  /\ launched = [a \in Attempts |-> "no"]
  /\ told = [a \in Attempts |-> NoOutcome]
  /\ asked = {}
  /\ restarts = 0

phoneVars == <<calls, current, generation>>

\* The calls whose end is in the ledger.
Audited == {c \in DOMAIN calls : calls[c].end = "audited"}

OwnCalls(a) == {c \in DOMAIN calls : calls[c].by = a}

\* Nothing follows an attempt in its chain before its answer is certain, unless
\* its recipient asks to be called again.
Closed(a) == told[a].answer \in {"talked", "missed"} \/ a \in asked

\* The gateway asks for no outcome of an attempt that it has retried.
Open(a) == a \in asked \/ \A b \in Attempts : a \in Before[b] => receipt[b].status = "none"

----------------------------------------------------------------------------
\* Mutant: the table is not asked again after the authorization.
StartAgain(a) ==
  /\ ~task[a].runs /\ launched[a] \in {"no", "ok", "failed"}
  /\ LET row == [NoRow EXCEPT !.status = "starting",
                               !.generation = generation + 1, !.past = Audited]
     IN /\ receipt' = [receipt EXCEPT ![a] = row]
        /\ task' = [task EXCEPT ![a] = [runs |-> TRUE, row |-> row]]
  /\ launched' = [launched EXCEPT ![a] = "running"]
  /\ UNCHANGED <<phoneVars, told, asked, restarts>>

\* start(), once the gateway has granted the attempt: a new receipt and its
\* task.  A row that is there is replayed and nothing changes.
Start(a) ==
  /\ receipt[a].status = "none" /\ \A b \in Before[a] : Closed(b)
  /\ LET row == [NoRow EXCEPT !.status = "starting",
                               !.generation = generation + 1, !.past = Audited]
     IN /\ receipt' = [receipt EXCEPT ![a] = row]
        /\ task' = [task EXCEPT ![a] = [runs |-> TRUE, row |-> row]]
  /\ launched' = [launched EXCEPT ![a] = "running"]
  /\ UNCHANGED <<phoneVars, told, asked, restarts>>

\* set_call_state leaves IDLE: a new id and the next generation.
NewCall(by, number) ==
  /\ current = NoCall /\ Len(calls) < MaxCalls
  /\ calls' = Append(calls, [by |-> by, number |-> number, generation |-> generation + 1,
                             answered |-> FALSE, heard |-> FALSE, lost |-> FALSE,
                             end |-> "up"])
  /\ current' = Len(calls) + 1
  /\ generation' = generation + 1

\* start_phone_call gets the phone to dial.
Dialed(a) == /\ launched[a] = "running" /\ OwnCalls(a) = {}
             /\ NewCall(a, Number[a])
             /\ UNCHANGED <<receipt, task, launched, told, asked, restarts>>

Incoming(n) == /\ NewCall(Nobody, n)
               /\ UNCHANGED <<receipt, task, launched, told, asked, restarts>>

\* Somebody answers; the caller says something.
Talk == /\ current # NoCall /\ ~calls[current].heard
        /\ calls' = IF calls[current].answered
                      THEN [calls EXCEPT ![current].heard = TRUE]
                      ELSE [calls EXCEPT ![current].answered = TRUE]
        /\ UNCHANGED <<current, generation, receipt, task, launched, told, asked, restarts>>

\* The call ends.
Ended == /\ current # NoCall
         /\ calls' = [calls EXCEPT ![current].end = "over"]
         /\ current' = NoCall
         /\ UNCHANGED <<generation, receipt, task, launched, told, asked, restarts>>

\* The audit row of a call that is over: whether it was lost with the link.
Audit(c) == /\ c \in DOMAIN calls
            /\ calls[c].end = "over"
            /\ \E lost \in BOOLEAN :
                 calls' = [calls EXCEPT ![c] = [@ EXCEPT !.end = "audited", !.lost = lost]]
            /\ UNCHANGED <<current, generation, receipt, task, launched, told, asked, restarts>>

\* start_phone_call returns: voice is ready; or there is no call (it was not
\* placed, or cancelled unanswered); or something else went wrong, or it raises.
LaunchEnds(a) ==
  /\ launched[a] = "running"
  /\ \E how \in {"ok", "refused", "failed"} :
       /\ how = "ok" => \E c \in OwnCalls(a) : calls[c].answered
       /\ how = "refused" => \A c \in OwnCalls(a) : calls[c].end # "up" /\ ~calls[c].answered
       /\ launched' = [launched EXCEPT ![a] = how]
  /\ UNCHANGED <<phoneVars, receipt, task, told, asked, restarts>>

\* dial(), each 50 ms: the call of the noted generation is this attempt's.
SeesCall(a) ==
  LET row == task[a].row
  IN /\ task[a].runs /\ row.call = NoCall /\ launched[a] = "running"
     /\ current # NoCall /\ generation = row.generation
     /\ calls[current].by # Nobody /\ calls[current].number = Number[a]
     /\ LET seen == [row EXCEPT !.call = current]
        IN /\ task' = [task EXCEPT ![a].row = seen]
           /\ receipt' = [receipt EXCEPT ![a] = seen]
     /\ UNCHANGED <<phoneVars, launched, told, asked, restarts>>

\* dial() ends and saves its copy over whatever outcome() has stored.
DialEnds(a) ==
  LET row == task[a].row
      id == IF row.call # NoCall \/ launched[a] # "ok" THEN row.call
            ELSE CHOOSE c \in OwnCalls(a) : TRUE
      last == [row EXCEPT !.result = launched[a], !.call = id, !.status = "observing"]
  IN /\ task[a].runs /\ launched[a] \notin {"no", "running"}
     /\ task' = [task EXCEPT ![a] = NoTask]
     /\ receipt' = [receipt EXCEPT ![a] = last]
     /\ UNCHANGED <<phoneVars, launched, told, asked, restarts>>

----------------------------------------------------------------------------
\* Mutant: ended calls are looked for from the first, not from started_at.
MatchedAny(row, number) ==
  LET ended == {c \in Audited : /\ calls[c].number = number
                                /\ calls[c].generation = row.generation}
  IN IF row.call = NoCall /\ Cardinality(ended) = 1
       THEN [row EXCEPT !.call = CHOOSE c \in ended : TRUE]
       ELSE row

\* outcome() finds the id of a call whose end was audited for this number
\* with the generation it expected, if there is one such call.
Matched(row, number) ==
  LET ended == {c \in Audited \ row.past : /\ calls[c].number = number
                                         /\ calls[c].generation = row.generation}
  IN IF row.call = NoCall /\ Cardinality(ended) = 1
       THEN [row EXCEPT !.call = CHOOSE c \in ended : TRUE]
       ELSE row

HasEnded(row) == row.call # NoCall /\ calls[row.call].end = "audited"
Active(row) == row.call # NoCall /\ current = row.call

\* Mutant: an attempt without an audited end is reported as missed.
JudgeEager(row) ==
  [answer |-> IF HasEnded(row) /\ calls[row.call].answered THEN "talked" ELSE "missed",
   call |-> row.call]

\* What the joined receipt amounts to.
Judge(row) ==
  LET ended == HasEnded(row)
      connected == row.result = "ok" \/ (ended /\ calls[row.call].answered)
      unsure == IF ended THEN calls[row.call].lost
                ELSE row.status = "uncertain" \/ row.result # "refused"
      evidence == row.call # NoCall /\ calls[row.call].heard
      uncertain == unsure \/ (connected /\ ~evidence)
  IN [answer |-> IF uncertain THEN "unknown" ELSE IF connected THEN "talked" ELSE "missed",
      call |-> row.call]

\* The gateway asks.  A missing receipt and a call that may still come to
\* something are not finished; a stored outcome is repeated; else the answer
\* is computed, and stored when the call has ended or the answer is certain.
Ask(a) ==
  LET row == Matched(receipt[a], Number[a])
      outcome == Judge(row)
      stored == [row EXCEPT !.status = "finished", !.outcome = outcome]
  IN /\ receipt[a].status # "none" /\ Open(a)
     /\ \/ /\ receipt[a].outcome # NoOutcome
           /\ told' = [told EXCEPT ![a] = receipt[a].outcome]
           /\ UNCHANGED receipt
        \/ /\ receipt[a].outcome = NoOutcome
           /\ ~HasEnded(row) /\ (Active(row) \/ row.status = "starting")
           /\ receipt' = [receipt EXCEPT ![a] = row]
           /\ UNCHANGED told
        \/ /\ receipt[a].outcome = NoOutcome
           /\ HasEnded(row) \/ ~(Active(row) \/ row.status = "starting")
           /\ told' = [told EXCEPT ![a] = outcome]
           /\ receipt' = [receipt EXCEPT ![a] =
                IF HasEnded(row) \/ outcome.answer # "unknown" THEN stored ELSE row]
     /\ UNCHANGED <<phoneVars, task, launched, asked, restarts>>

\* The gateway grants a callback to a call that outcome() says is active (one
\* that is an attempt of the model).
AskCallback(a) ==
  /\ \E b \in Attempts : a \in Before[b]
  /\ receipt[a].status # "none" /\ receipt[a].outcome = NoOutcome /\ Active(receipt[a])
  /\ asked' = asked \cup {a}
  /\ UNCHANGED <<phoneVars, receipt, task, launched, told, restarts>>

\* Mutant: a restart leaves "starting" as it is.
RecoveredBlind(row) == row

\* __init__: what was starting is uncertain and is not dialed again.
Recovered(row) == IF row.status = "starting" THEN [row EXCEPT !.status = "uncertain"] ELSE row

Restart ==
  /\ restarts < MaxRestarts
  /\ restarts' = restarts + 1
  /\ receipt' = [a \in Attempts |-> Recovered(receipt[a])]
  /\ task' = [a \in Attempts |-> NoTask]
  /\ launched' = [a \in Attempts |-> IF launched[a] = "no" THEN "no" ELSE "failed"]
  /\ calls' = [c \in DOMAIN calls |->
                [calls[c] EXCEPT !.end = IF @ = "audited" THEN @ ELSE "gone"]]
  /\ current' = NoCall /\ generation' = 0
  /\ UNCHANGED <<told, asked>>

Next == \/ \E a \in Attempts : \/ Start(a) \/ Dialed(a) \/ LaunchEnds(a)
                               \/ SeesCall(a) \/ DialEnds(a)
                               \/ Ask(a) \/ AskCallback(a)
        \/ \E n \in Callers : Incoming(n)
        \/ Talk \/ Ended \/ Restart
        \/ \E c \in CallId : Audit(c)

Spec == Init /\ [][Next]_vars

\* The daemon serves and audits calls that ended, start_phone_call returns within
\* its timeouts (45 s and the answer timeout); the gateway polls.  A call need
\* not end.
Progress == \/ \E a \in Attempts : LaunchEnds(a) \/ DialEnds(a) \/ Ask(a)
            \/ \E c \in CallId : Audit(c)
LiveSpec == Spec /\ WF_vars(Progress)

----------------------------------------------------------------------------
LineOf(a) == CASE OwnCalls(a) = {} -> "new"
               [] \E c \in OwnCalls(a) : calls[c].end = "up" -> "up"
               [] OTHER -> "over"

Promise == INSTANCE AttemptReceipts WITH
             line <- [a \in Attempts |-> LineOf(a)],
             told <- [a \in Attempts |-> told[a].answer]

Kin(a, b) == a = b \/ a \in Before[b] \/ b \in Before[a]

\* outcome() knows a call by its number and generation.  A caller from an attempt's
\* number, or another request to it, that comes between start() and the dial, or
\* after a restart with the same generation, is taken for the attempt's call
\* (README, section 5); until that happens the attempts are undisturbed.
Undisturbed ==
  \A a \in Attempts, c \in DOMAIN calls :
    /\ receipt[a].status # "none" /\ c \notin receipt[a].past
    /\ calls[c].number = Number[a] /\ calls[c].generation = receipt[a].generation
    => \E b \in Attempts : calls[c].by = b /\ Kin(a, b)

\* Through interleaved polls, overwritten receipts, restarts, retries and callbacks,
\* the daemon places an attempt at most once, never takes back a certain answer,
\* and calls an attempt missed only if its call is not up.
ReceiptsKept ==
  /\ Promise!ReceiptsInit
  /\ [][Undisturbed' => [Promise!ReceiptsNext]_(Promise!receiptVars)]_vars

\* The outcome of an attempt is about the call the attempt placed, not about
\* one that has its number and generation: neither another attempt of its chain
\* nor a call before it.
ExactCall ==
  Undisturbed => \A a \in Attempts : told[a].call # NoCall => calls[told[a].call].by = a

\* What every state satisfies: the types, and no other call's outcome.
Inv == TypeOK /\ ExactCall

\* Whatever happens to the daemon, the gateway's polling of a receipt comes to a
\* finished answer, unless a call stays up for ever.
OutcomeArrives ==
  <>[](\A a \in Attempts :
          receipt[a].status # "none" => told[a].answer # "none" \/ current # NoCall)
=============================================================================
