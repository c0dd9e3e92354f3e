----------------------- MODULE WorkflowExecutionProofs -----------------------
(***************************************************************************)
(* WorkflowExecution for any number of attempts, calls and restarts: the   *)
(* types, the outcome that is about the attempt's own call, and the        *)
(* refinement of AttemptReceipts.                                          *)
(*                                                                         *)
(* The argument: a call is dialed with a generation that is later than that *)
(* of every call of the chain before it, or the earlier ones are in the     *)
(* audit already; an attempt that is retried is done with, and one that is  *)
(* followed by a callback knows its call.  So, undisturbed, every way of    *)
(* finding the call of a receipt (seen while dialing, matched in the audit, *)
(* named by start_phone_call) finds the same one.  A certain answer is      *)
(* stored, or dial() may still overwrite it with a copy from which the same *)
(* audited call is found and judged the same.                               *)
(***************************************************************************)
EXTENDS WorkflowExecution, FiniteSetTheorems, SequenceTheorems, TLAPS

Own(a, c) == c \in DOMAIN calls /\ calls[c].by = a

\* A call is up exactly if it is the current one; a call of this life of the
\* daemon has a generation up to the current one's; an attempt has one call at most.
CallsInv ==
  \A c \in DOMAIN calls :
    /\ calls[c].end = "up" <=> c = current
    /\ calls[c].end \in {"up", "over"} => calls[c].generation <= generation
    /\ c = current => calls[c].generation = generation
    /\ calls[c].by # Nobody => /\ calls[c].number = Number[calls[c].by]
                               /\ \A d \in DOMAIN calls : calls[d].by = calls[c].by => d = c

\* Two versions of a row that start() made.
SameStart(row, other) ==
  /\ row.status # "none" /\ other.status # "none"
  /\ row.generation = other.generation /\ row.past = other.past

\* What start() notes stays, in dial()'s copy too.
RowInv(a) == /\ receipt[a].past \subseteq Audited
             /\ task[a].runs => SameStart(task[a].row, receipt[a])

BaseInv == CallsInv /\ \A a \in Attempts : RowInv(a)

\* What dial() and the launch say of each other, and of the attempt's call.
LaunchInv(a) ==
  /\ receipt[a].status = "none" <=> launched[a] = "no"
  /\ launched[a] = "no" => /\ told[a] = NoOutcome
                           /\ \A c \in DOMAIN calls : ~Own(a, c)
  /\ launched[a] = "running" => task[a].runs
  /\ launched[a] = "ok" => \E c \in DOMAIN calls : Own(a, c) /\ calls[c].answered
  /\ launched[a] = "refused" =>
       \A c \in DOMAIN calls : Own(a, c) => c # current /\ ~calls[c].answered

\* While dial() runs its copy differs from the row by what outcome() has stored.
TaskInv(a) ==
  task[a].runs =>
    /\ launched[a] # "no"
    /\ task[a].row.outcome = NoOutcome
    /\ task[a].row.status = "starting"
    /\ task[a].row.result = "none" /\ receipt[a].result = "none"

\* The calls that receipts, copies and answers name are the attempt's own.
NamesInv(a) ==
  /\ receipt[a].call # NoCall => Own(a, receipt[a].call)
  /\ task[a].row.call # NoCall => Own(a, task[a].row.call)
  /\ told[a].call # NoCall => Own(a, told[a].call)

\* What start_phone_call returned stays true of the attempt's call.
ResultInv(a) ==
  /\ receipt[a].result = "ok" => \E c \in DOMAIN calls : Own(a, c) /\ calls[c].answered
  /\ receipt[a].result = "refused" =>
       /\ launched[a] \in {"refused", "failed"}
       /\ \A c \in DOMAIN calls : Own(a, c) => c # current /\ ~calls[c].answered

\* The row names call c, or outcome() will match it.
Finds(row, c) ==
  \/ row.call = c
  \/ row.call = NoCall /\ c \notin row.past /\ calls[c].generation = row.generation

\* The row's call was found in the audit, or dial() knows it too.
FoundInv(a) ==
  task[a].runs /\ receipt[a].call # NoCall =>
    /\ Finds(task[a].row, receipt[a].call)
    /\ task[a].row.call = NoCall => calls[receipt[a].call].end = "audited"

\* The call in which a callback was asked for is known for good.
AskedInv(a) ==
  a \in asked => /\ receipt[a].call # NoCall
                 /\ task[a].runs => task[a].row.call # NoCall

\* The generation that start() noted is not ahead of the dial's, nor of the call's.
LifeInv(a) ==
  /\ task[a].runs => receipt[a].generation <= generation + 1
  /\ task[a].runs /\ (\E c \in DOMAIN calls : Own(a, c)) => receipt[a].generation <= generation
  /\ Own(a, current) => receipt[a].generation <= generation

\* What an attempt finds when it starts of one before it: no call of it is still to
\* come, those it had are over and told apart by the audit or by the generation, and
\* its dial() knows its call or is too late for this one's.
OrderInv(a) ==
  receipt[a].status # "none" =>
    \A b \in Before[a] :
      /\ launched[b] # "no"
      /\ launched[b] = "running" => \E c \in DOMAIN calls : Own(b, c)
      /\ \A c \in DOMAIN calls : Own(b, c) =>
           \/ c \in receipt[a].past
           \/ calls[c].end = "gone"
           \/ calls[c].generation < receipt[a].generation
      /\ task[b].runs /\ task[b].row.call = NoCall =>
           receipt[b].generation < receipt[a].generation

\* What an audited call is judged to be.
Verdict(call) == IF call.lost \/ (call.answered /\ ~call.heard) THEN "unknown"
                 ELSE IF call.answered THEN "talked" ELSE "missed"

\* Every judgement of the attempt still to come is the one told.
Settled(a) ==
  \E c \in DOMAIN calls :
    /\ Own(a, c) /\ calls[c].end = "audited"
    /\ Verdict(calls[c]) = told[a].answer
    /\ Finds(receipt[a], c)
    /\ task[a].runs => Finds(task[a].row, c)

\* A stored outcome is the one told; a certain one that is not stored, or that
\* dial() may overwrite, is settled; and a certain one ends the launch.
ToldInv(a) ==
  /\ receipt[a].outcome # NoOutcome => told[a] = receipt[a].outcome
  /\ told[a].answer \in Promise!Certain =>
       /\ receipt[a].outcome = NoOutcome \/ task[a].runs => Settled(a)
       /\ launched[a] = "running" => \E c \in DOMAIN calls : Own(a, c)

AttemptInv(a) == /\ LaunchInv(a) /\ TaskInv(a) /\ NamesInv(a) /\ ResultInv(a)
                 /\ FoundInv(a) /\ ToldInv(a) /\ AskedInv(a) /\ LifeInv(a)

\* The inductive invariant of undisturbed attempts, beside the types.
ReceiptsInv == \A a \in Attempts : AttemptInv(a) /\ OrderInv(a)

-----------------------------------------------------------------------------
(* The types *)

\* Why the types hold: calls are numbered no faster than they come, and
\* start_phone_call returns a voice that is ready only for a call it placed.
TypeInv == /\ TypeOK
           /\ generation <= Len(calls)
           /\ \A a \in Attempts : launched[a] = "ok" => OwnCalls(a) # {}

\* outcome() leaves the row alone, or names a call of the number that was
\* audited, not before the attempt, with the generation it noted.
LEMMA MatchedNames ==
  ASSUME NEW row \in Row, NEW number
  PROVE  \/ Matched(row, number) = row
         \/ \E c \in Audited \ row.past :
              /\ row.call = NoCall
              /\ calls[c].number = number /\ calls[c].generation = row.generation
              /\ Matched(row, number) = [row EXCEPT !.call = c]
<1> DEFINE ended == {c \in Audited \ row.past : /\ calls[c].number = number
                                               /\ calls[c].generation = row.generation}
<1>1. Cardinality(ended) = 1 => ended # {}
  BY FS_EmptySet
<1>2. ended # {} => (CHOOSE c \in ended : TRUE) \in ended
  OBVIOUS
<1> QED
  BY <1>1, <1>2 DEF Matched

\* A new call is typed, and is the last of a longer sequence.
LEMMA NewCallStep ==
  ASSUME TypeInv, NEW by \in Attempts \cup {Nobody},
         NEW number \in Range(Number) \cup Callers, NewCall(by, number)
  PROVE  /\ calls' \in Seq(Call) /\ Len(calls') = Len(calls) + 1
         /\ Len(calls') <= MaxCalls
         /\ \A c \in DOMAIN calls : calls'[c] = calls[c]
         /\ calls'[Len(calls) + 1] =
              [by |-> by, number |-> number, generation |-> generation + 1,
               answered |-> FALSE, heard |-> FALSE, lost |-> FALSE, end |-> "up"]
<1> DEFINE new == [by |-> by, number |-> number, generation |-> generation + 1,
                   answered |-> FALSE, heard |-> FALSE, lost |-> FALSE, end |-> "up"]
<1>1. new \in Call
  BY BoundAssumption DEF TypeInv, TypeOK, Call
<1>2. calls \in Seq(Call) /\ Len(calls) < MaxCalls /\ calls' = Append(calls, new)
  BY BoundAssumption DEF TypeInv, TypeOK, NewCall
<1> HIDE DEF new
<1>3. calls' \in Seq(Call) /\ Len(calls') = Len(calls) + 1
  BY <1>1, <1>2, AppendProperties
<1>4. \A c \in 1..Len(calls) : calls'[c] = calls[c]
  BY <1>1, <1>2, AppendProperties
<1>5. calls'[Len(calls) + 1] = new
  BY <1>1, <1>2, AppendProperties
<1> QED
  BY <1>2, <1>3, <1>4, <1>5, BoundAssumption DEF new

\* The types survive a step that changes the calls in place.
LEMMA SameCallsTyped ==
  ASSUME TypeInv, NEW f \in [DOMAIN calls -> Call], calls' = f
  PROVE  calls' \in Seq(Call) /\ Len(calls') = Len(calls)
BY DEF TypeInv, TypeOK

\* What becomes of a call in a step: only the current one is answered, heard or
\* over, and an audited one, or one that is gone, stays as it is.
Ages(old, new, now) ==
  /\ new.by = old.by /\ new.number = old.number /\ new.generation = old.generation
  /\ old.answered => new.answered
  /\ ~now => /\ new.answered = old.answered /\ new.heard = old.heard
             /\ old.end = "audited" => new.end = "audited" /\ new.lost = old.lost
             /\ old.end = "gone" => new.end = "gone"
             /\ old.end # "up" => new.end # "up"

LEMMA CallsChange ==
  ASSUME TypeInv, Talk \/ Ended \/ (\E c \in CallId : Audit(c)) \/ Restart
  PROVE  /\ calls' \in Seq(Call) /\ Len(calls') = Len(calls) /\ DOMAIN calls' = DOMAIN calls
         /\ \A c \in DOMAIN calls : Ages(calls[c], calls'[c], c = current)
<1>1. calls \in [DOMAIN calls -> Call] /\ (current # NoCall => current \in DOMAIN calls)
  BY DEF TypeInv, TypeOK, NoCall
<1>2. /\ calls' \in [DOMAIN calls -> Call]
      /\ \A c \in DOMAIN calls : Ages(calls[c], calls'[c], c = current)
  <2>1. CASE Talk
    BY <1>1, <2>1 DEF Talk, Call, Ages
  <2>2. CASE Ended
    <3>1. calls' = [calls EXCEPT ![current] = [@ EXCEPT !.end = "over"]]
      BY <1>1, <2>2 DEF Ended
    <3>2. current \in DOMAIN calls
      BY <1>1, <2>2 DEF Ended
    <3> QED
      BY <1>1, <3>1, <3>2 DEF Call, Ages
  <2>3. ASSUME NEW c \in CallId, Audit(c)
        PROVE  /\ calls' \in [DOMAIN calls -> Call]
               /\ \A d \in DOMAIN calls : Ages(calls[d], calls'[d], d = current)
    <3>1. PICK lost \in BOOLEAN :
            calls' = [calls EXCEPT ![c] = [@ EXCEPT !.end = "audited", !.lost = lost]]
      BY <2>3 DEF Audit
    <3>2. c \in DOMAIN calls /\ calls[c].end = "over"
      BY <2>3 DEF Audit
    <3> QED
      BY <1>1, <3>1, <3>2 DEF Call, Ages
  <2>4. CASE Restart
    BY <1>1, <2>4 DEF Restart, Call, Ages
  <2> QED
    BY <2>1, <2>2, <2>3, <2>4
<1>3. calls' \in Seq(Call) /\ Len(calls') = Len(calls)
  BY <1>2, SameCallsTyped
<1> QED
  BY <1>2, <1>3

\* outcome() keeps a row a row.
LEMMA MatchedTyped ==
  ASSUME TypeInv, NEW a \in Attempts
  PROVE  Matched(receipt[a], Number[a]) \in Row
<1>1. receipt[a] \in Row /\ Audited \subseteq CallId
  BY BoundAssumption DEF TypeInv, TypeOK, Audited, CallId
<1>2. \A c \in CallId : [receipt[a] EXCEPT !.call = c] \in Row
  BY <1>1 DEF Row
<1> QED
  BY <1>1, <1>2, MatchedNames

LEMMA TypeStep == TypeInv /\ [Next]_vars => TypeInv'
<1> SUFFICES ASSUME TypeInv, [Next]_vars PROVE TypeInv'
  OBVIOUS
<1> USE BoundAssumption
<1>0. /\ NoRow \in Row /\ generation \in Nat /\ Len(calls) \in Nat /\ current \in CallId
      /\ DOMAIN calls = 1..Len(calls) /\ Audited \subseteq CallId
      /\ \A a \in Attempts : receipt[a] \in Row /\ task[a].row \in Row
  BY DEF TypeInv, TypeOK, NoRow, Row, CallId, NoOutcome, Outcome, NoCall, Audited
<1>1. ASSUME NEW a \in Attempts, Start(a) PROVE TypeInv'
  <2> DEFINE row == [NoRow EXCEPT !.status = "starting",
                                  !.generation = generation + 1, !.past = Audited]
  <2>1. row \in Row
    <3>1. generation + 1 \in Nat /\ NoRow.outcome \in Outcome
      BY <1>0 DEF Row
    <3> QED
      BY <1>0, <3>1 DEF Row, NoRow, NoCall, CallId
  <2> HIDE DEF row
  <2>2. /\ receipt' = [receipt EXCEPT ![a] = row]
        /\ task' = [task EXCEPT ![a] = [runs |-> TRUE, row |-> row]]
        /\ launched' = [launched EXCEPT ![a] = "running"]
        /\ UNCHANGED <<phoneVars, told, asked, restarts>>
    BY <1>1 DEF Start, row
  <2> QED
    BY <2>1, <2>2 DEF TypeInv, TypeOK, phoneVars, OwnCalls
<1>2. ASSUME NEW by \in Attempts \cup {Nobody}, NEW number \in Range(Number) \cup Callers,
             NewCall(by, number), UNCHANGED <<receipt, task, launched, told, asked, restarts>>
      PROVE  TypeInv'
  <2>1. /\ calls' \in Seq(Call) /\ Len(calls') = Len(calls) + 1 /\ Len(calls') <= MaxCalls
        /\ DOMAIN calls' = 1..(Len(calls) + 1)
        /\ \A c \in DOMAIN calls : calls'[c] = calls[c]
    <3>1. /\ calls' \in Seq(Call) /\ Len(calls') = Len(calls) + 1 /\ Len(calls') <= MaxCalls
          /\ \A c \in DOMAIN calls : calls'[c] = calls[c]
      BY <1>2, NewCallStep
    <3> QED
      BY <3>1
  <2>2. current' = Len(calls) + 1 /\ generation' = generation + 1
    BY <1>2 DEF NewCall
  <2>3. TypeOK' /\ generation' <= Len(calls')
    BY <1>0, <1>2, <2>1, <2>2 DEF TypeInv, TypeOK
  <2>4. \A a \in Attempts : OwnCalls(a) \subseteq OwnCalls(a)'
    BY <1>0, <2>1 DEF OwnCalls
  <2> QED
    BY <1>2, <2>3, <2>4 DEF TypeInv
<1>3. ASSUME NEW a \in Attempts, Dialed(a) PROVE TypeInv'
  <2>1. Number[a] \in Range(Number)
    BY NumberAssumption DEF Range
  <2> QED
    BY <1>2, <1>3, <2>1 DEF Dialed
<1>4. ASSUME NEW n \in Callers, Incoming(n) PROVE TypeInv'
  BY <1>2, <1>4 DEF Incoming
<1>5. CASE Talk \/ Ended \/ \E c \in CallId : Audit(c)
  <2>1. /\ calls' \in Seq(Call) /\ Len(calls') = Len(calls) /\ DOMAIN calls' = DOMAIN calls
        /\ \A c \in DOMAIN calls : calls'[c].by = calls[c].by
    BY <1>5, CallsChange DEF Ages
  <2>3. \A a \in Attempts : OwnCalls(a)' = OwnCalls(a)
    BY <1>0, <2>1 DEF OwnCalls
  <2>4. /\ current' \in {current, NoCall}
        /\ UNCHANGED <<generation, receipt, task, launched, told, asked, restarts>>
    BY <1>5 DEF Talk, Ended, Audit
  <2> QED
    BY <2>1, <2>3, <2>4 DEF TypeInv, TypeOK, NoCall
<1>6. ASSUME NEW a \in Attempts, LaunchEnds(a) PROVE TypeInv'
  BY <1>6 DEF LaunchEnds, TypeInv, TypeOK, OwnCalls, phoneVars
<1>7. ASSUME NEW a \in Attempts, SeesCall(a) PROVE TypeInv'
  <2> DEFINE seen == [task[a].row EXCEPT !.call = current]
  <2>1. seen \in Row
    BY <1>0 DEF Row
  <2> HIDE DEF seen
  <2>2. /\ task' = [task EXCEPT ![a].row = seen] /\ receipt' = [receipt EXCEPT ![a] = seen]
        /\ UNCHANGED <<phoneVars, launched, told, asked, restarts>>
    BY <1>7 DEF SeesCall, seen
  <2> QED
    BY <2>1, <2>2 DEF TypeInv, TypeOK, OwnCalls, phoneVars
<1>8. ASSUME NEW a \in Attempts, DialEnds(a) PROVE TypeInv'
  <2>1. PICK last \in Row : /\ task' = [task EXCEPT ![a] = NoTask]
                            /\ receipt' = [receipt EXCEPT ![a] = last]
                            /\ UNCHANGED <<phoneVars, launched, told, asked, restarts>>
    <3>1. launched[a] = "ok" => (CHOOSE c \in OwnCalls(a) : TRUE) \in OwnCalls(a)
      BY DEF TypeInv
    <3>2. OwnCalls(a) \subseteq CallId /\ task[a].row.call \in CallId
      BY <1>0 DEF OwnCalls, CallId, Row, TypeInv, TypeOK
    <3>3. launched[a] \in {"ok", "refused", "failed"}
      BY <1>8 DEF DialEnds, TypeInv, TypeOK
    <3>4. \A call \in CallId, result \in {"ok", "refused", "failed"} :
            [task[a].row EXCEPT !.result = result, !.call = call, !.status = "observing"] \in Row
      BY <1>0 DEF Row
    <3> QED
      BY <1>8, <3>1, <3>2, <3>3, <3>4 DEF DialEnds
  <2> QED
    BY <1>0, <2>1 DEF TypeInv, TypeOK, OwnCalls, phoneVars, NoTask
<1>9. ASSUME NEW a \in Attempts, Ask(a) PROVE TypeInv'
  <2> DEFINE row == Matched(receipt[a], Number[a])
  <2>1. row \in Row /\ receipt[a].outcome \in Outcome
    BY <1>0, MatchedTyped DEF Row
  <2>2. Judge(row) \in Outcome
    BY <2>1 DEF Judge, Row, Outcome
  <2>3. [row EXCEPT !.status = "finished", !.outcome = Judge(row)] \in Row
    BY <2>1, <2>2 DEF Row
  <2>4. /\ \E outcome \in Outcome : told' \in {told, [told EXCEPT ![a] = outcome]}
        /\ \E new \in Row : receipt' \in {receipt, [receipt EXCEPT ![a] = new]}
        /\ UNCHANGED <<phoneVars, task, launched, asked, restarts>>
    BY <1>9, <2>1, <2>2, <2>3 DEF Ask
  <2> QED
    BY <2>4 DEF TypeInv, TypeOK, OwnCalls, phoneVars
<1>10. CASE Restart
  <2>1. calls' \in Seq(Call) /\ Len(calls') = Len(calls)
    BY <1>10, CallsChange
  <2>2. receipt' \in [Attempts -> Row]
    BY <1>0, <1>10 DEF Restart, Recovered, Row
  <2> QED
    BY <1>0, <1>10, <2>1, <2>2 DEF Restart, TypeInv, TypeOK, NoTask, NoCall
<1>11. ASSUME NEW a \in Attempts, AskCallback(a) PROVE TypeInv'
  BY <1>11 DEF AskCallback, TypeInv, TypeOK, OwnCalls, phoneVars
<1>12. CASE UNCHANGED vars
  BY <1>12 DEF vars, TypeInv, TypeOK, OwnCalls
<1> QED
  BY <1>1, <1>3, <1>4, <1>5, <1>6, <1>7, <1>8, <1>9, <1>10, <1>11, <1>12 DEF Next

\* Every variable of the execution stays in its range, for any number of
\* attempts, calls and restarts.
THEOREM ExecutionTyped == Spec => []TypeInv
<1>1. Init => TypeInv
  BY BoundAssumption DEF Init, TypeInv, TypeOK, NoRow, NoTask, Row, CallId, NoCall,
                         NoOutcome, Outcome
<1> QED
  BY <1>1, TypeStep, PTL DEF Spec

-----------------------------------------------------------------------------
(* Receipts, answers and calls *)

\* The calls stay in order.
LEMMA CallsStep ==
  ASSUME TypeInv, CallsInv, [Next]_vars
  PROVE  CallsInv'
<1>0. /\ calls \in Seq(Call) /\ DOMAIN calls = 1..Len(calls) /\ Len(calls) \in Nat
      /\ NoCall \notin DOMAIN calls /\ generation \in Nat
      /\ current = NoCall \/ current \in DOMAIN calls
      /\ \A c \in DOMAIN calls : calls[c].generation \in Nat
  <2>1. /\ calls \in Seq(Call) /\ DOMAIN calls = 1..Len(calls) /\ Len(calls) \in Nat
        /\ NoCall \notin DOMAIN calls /\ generation \in Nat
        /\ current = NoCall \/ current \in DOMAIN calls
    BY BoundAssumption DEF TypeInv, TypeOK, NoCall
  <2>2. \A call \in Call : call.generation \in Nat
    BY DEF Call
  <2> QED
    BY <2>1, <2>2
<1>1. ASSUME NEW by \in Attempts \cup {Nobody}, NEW number \in Range(Number) \cup Callers,
             NewCall(by, number), by # Nobody => number = Number[by] /\ OwnCalls(by) = {}
      PROVE  CallsInv'
  <2> DEFINE new == Len(calls) + 1
  <2>1. /\ DOMAIN calls' = DOMAIN calls \cup {new}
        /\ \A c \in DOMAIN calls : calls'[c] = calls[c]
        /\ calls'[new].by = by /\ calls'[new].number = number /\ calls'[new].end = "up"
        /\ calls'[new].generation = generation + 1
    <3>1. /\ calls' \in Seq(Call) /\ Len(calls') = Len(calls) + 1
          /\ \A c \in DOMAIN calls : calls'[c] = calls[c]
          /\ calls'[new] =
               [by |-> by, number |-> number, generation |-> generation + 1,
                answered |-> FALSE, heard |-> FALSE, lost |-> FALSE, end |-> "up"]
      BY <1>1, NewCallStep
    <3> QED
      BY <1>0, <3>1
  <2>2. /\ current = NoCall /\ current' = new /\ new \notin DOMAIN calls
        /\ generation' = generation + 1
    BY <1>0, <1>1 DEF NewCall
  <2> HIDE DEF new
  <2>3. \A c \in DOMAIN calls : calls[c].by = by => by = Nobody
    BY <1>1 DEF OwnCalls
  <2>4. \A c \in DOMAIN calls' : calls'[c].end = "up" <=> c = current'
    BY <1>0, <2>1, <2>2 DEF CallsInv
  <2>5. \A c \in DOMAIN calls' :
          /\ calls'[c].end \in {"up", "over"} => calls'[c].generation <= generation'
          /\ c = current' => calls'[c].generation = generation'
    BY <1>0, <2>1, <2>2 DEF CallsInv
  <2>6. \A c \in DOMAIN calls' : calls'[c].by # Nobody =>
          /\ calls'[c].number = Number[calls'[c].by]
          /\ \A d \in DOMAIN calls' : calls'[d].by = calls'[c].by => d = c
    BY <1>1, <2>1, <2>3 DEF CallsInv
  <2> QED
    BY <2>4, <2>5, <2>6 DEF CallsInv
<1>2. ASSUME NEW a \in Attempts, Dialed(a) PROVE CallsInv'
  <2>1. Number[a] \in Range(Number)
    BY NumberAssumption DEF Range
  <2> QED
    BY <1>1, <1>2, <2>1 DEF Dialed
<1>3. ASSUME NEW n \in Callers, Incoming(n) PROVE CallsInv'
  BY <1>1, <1>3 DEF Incoming
<1>4. CASE Talk \/ Ended \/ (\E c \in CallId : Audit(c)) \/ Restart
  <2>1. /\ DOMAIN calls' = DOMAIN calls
        /\ \A c \in DOMAIN calls : Ages(calls[c], calls'[c], c = current)
    BY <1>4, CallsChange
  <2>2. /\ current' \in {current, NoCall}
        /\ \A c \in DOMAIN calls :
             /\ calls'[c].end = "up" <=> c = current'
             /\ calls'[c].end \in {"up", "over"} =>
                  calls[c].end \in {"up", "over"} /\ generation' = generation
    <3>1. CASE Talk
      BY <1>0, <3>1 DEF Talk, CallsInv, Call
    <3>2. CASE Ended
      <4>1. calls' = [calls EXCEPT ![current] = [@ EXCEPT !.end = "over"]]
        BY <1>0, <3>2 DEF Ended
      <4> QED
        BY <1>0, <3>2, <4>1 DEF Ended, CallsInv, Call
    <3>3. ASSUME NEW d \in CallId, Audit(d)
          PROVE  /\ current' \in {current, NoCall}
                 /\ \A c \in DOMAIN calls :
                      /\ calls'[c].end = "up" <=> c = current'
                      /\ calls'[c].end \in {"up", "over"} =>
                           calls[c].end \in {"up", "over"} /\ generation' = generation
      <4>1. PICK lost \in BOOLEAN :
              calls' = [calls EXCEPT ![d] = [@ EXCEPT !.end = "audited", !.lost = lost]]
        BY <3>3 DEF Audit
      <4>2. d \in DOMAIN calls /\ calls[d].end = "over" /\ UNCHANGED <<current, generation>>
        BY <3>3 DEF Audit
      <4> QED
        BY <1>0, <4>1, <4>2 DEF CallsInv, Call
    <3>4. CASE Restart
      <4>1. \A c \in DOMAIN calls :
              calls'[c] = [calls[c] EXCEPT !.end = IF @ = "audited" THEN @ ELSE "gone"]
        BY <3>4 DEF Restart
      <4>2. \A c \in DOMAIN calls : calls'[c].end \in {"audited", "gone"}
        <5>1. \A c \in DOMAIN calls : calls[c] \in Call
          BY <1>0
        <5>2. ASSUME NEW call \in Call
              PROVE  [call EXCEPT !.end = IF @ = "audited" THEN @ ELSE "gone"].end
                       \in {"audited", "gone"}
          BY DEF Call
        <5> QED
          BY <4>1, <5>1, <5>2
      <4> QED
        BY <1>0, <3>4, <4>2 DEF Restart
    <3> QED
      BY <1>4, <3>1, <3>2, <3>3, <3>4
  <2>3. \A c \in DOMAIN calls : c = current' => calls'[c].generation = generation'
    <3> SUFFICES ASSUME NEW c \in DOMAIN calls, c = current'
                 PROVE  calls'[c].generation = generation'
      OBVIOUS
    <3>1. c = current
      BY <1>0, <2>2
    <3>2. generation' = generation
      BY <2>2
    <3> QED
      BY <2>1, <3>1, <3>2 DEF Ages, CallsInv
  <2> QED
    BY <2>1, <2>2, <2>3 DEF CallsInv, Ages
<1>5. CASE UNCHANGED phoneVars
  BY <1>5 DEF phoneVars, CallsInv
<1> QED
  BY <1>2, <1>3, <1>4, <1>5
     DEF Next, vars, phoneVars, Start, LaunchEnds, SeesCall, DialEnds, Ask, AskCallback

\* Calls age or are added, an attempt's by its dial only.
LEMMA CallsKept ==
  ASSUME TypeInv, CallsInv, [Next]_vars
  PROVE  /\ DOMAIN calls \subseteq DOMAIN calls'
         /\ \A c \in DOMAIN calls : Ages(calls[c], calls'[c], c = current)
         /\ \A c \in DOMAIN calls' \ DOMAIN calls, a \in Attempts : calls'[c].by = a => Dialed(a)
<1>0. Len(calls) \in Nat /\ DOMAIN calls = 1..Len(calls)
  BY DEF TypeInv, TypeOK
<1>1. ASSUME NEW by \in Attempts \cup {Nobody}, NEW number \in Range(Number) \cup Callers,
             NewCall(by, number)
      PROVE  /\ DOMAIN calls' = DOMAIN calls \cup {Len(calls) + 1}
             /\ \A c \in DOMAIN calls : Ages(calls[c], calls'[c], c = current)
             /\ \A c \in DOMAIN calls' \ DOMAIN calls : calls'[c].by = by
  <2>1. /\ calls' \in Seq(Call) /\ Len(calls') = Len(calls) + 1
        /\ \A c \in DOMAIN calls : calls'[c] = calls[c]
        /\ calls'[Len(calls) + 1] =
             [by |-> by, number |-> number, generation |-> generation + 1,
              answered |-> FALSE, heard |-> FALSE, lost |-> FALSE, end |-> "up"]
    BY <1>1, NewCallStep
  <2>2. DOMAIN calls' = DOMAIN calls \cup {Len(calls) + 1}
    BY <1>0, <2>1
  <2> QED
    BY <2>1, <2>2 DEF Ages
<1>2. ASSUME NEW b \in Attempts, Dialed(b)
      PROVE  /\ DOMAIN calls \subseteq DOMAIN calls'
             /\ \A c \in DOMAIN calls : Ages(calls[c], calls'[c], c = current)
             /\ \A c \in DOMAIN calls' \ DOMAIN calls, a \in Attempts : calls'[c].by = a => Dialed(a)
  <2>1. Number[b] \in Range(Number)
    BY NumberAssumption DEF Range
  <2> QED
    BY <1>1, <1>2, <2>1 DEF Dialed
<1>3. ASSUME NEW n \in Callers, Incoming(n)
      PROVE  /\ DOMAIN calls \subseteq DOMAIN calls'
             /\ \A c \in DOMAIN calls : Ages(calls[c], calls'[c], c = current)
             /\ \A c \in DOMAIN calls' \ DOMAIN calls, a \in Attempts : calls'[c].by = a => Dialed(a)
  BY <1>1, <1>3, NobodyAssumption DEF Incoming
<1>4. CASE Talk \/ Ended \/ (\E c \in CallId : Audit(c)) \/ Restart
  BY <1>4, CallsChange
<1>5. CASE UNCHANGED phoneVars
  BY <1>5 DEF phoneVars, Ages
<1> QED
  BY <1>2, <1>3, <1>4, <1>5
     DEF Next, vars, phoneVars, Start, LaunchEnds, SeesCall, DialEnds, Ask, AskCallback

\* What becomes of a row, and of its launch and task, in any step.
Kept(a) ==
  /\ receipt[a].status # "none" =>
       /\ SameStart(receipt[a], receipt'[a])
       /\ launched[a] # "no" => launched'[a] # "no"
       /\ launched'[a] = "running" => launched[a] = "running"
       /\ task'[a].runs => /\ task[a].runs
                           /\ task[a].row.call # NoCall => task'[a].row.call # NoCall
  /\ receipt[a].status = "none" => receipt'[a] = receipt[a] \/ Start(a)

LEMMA RowsKept ==
  ASSUME TypeInv, BaseInv, [Next]_vars, NEW a \in Attempts
  PROVE  Kept(a) /\ RowInv(a)'
<1>0. /\ receipt \in [Attempts -> Row] /\ task \in [Attempts -> [runs : BOOLEAN, row : Row]]
      /\ launched \in [Attempts -> {"no", "running", "ok", "refused", "failed"}]
      /\ RowInv(a) /\ NoCall \notin DOMAIN calls /\ receipt[a] \in Row /\ task[a].row \in Row
  BY DEF TypeInv, TypeOK, BaseInv, NoCall
<1>1. Audited \subseteq Audited'
  BY CallsKept DEF BaseInv, CallsInv, Audited, Ages
<1>2. ASSUME receipt'[a] = receipt[a], task'[a] = task[a], launched'[a] = launched[a]
      PROVE  Kept(a) /\ RowInv(a)'
  BY <1>0, <1>1, <1>2 DEF Kept, RowInv, SameStart
<1>3. CASE Start(a)
  <2> DEFINE row == [NoRow EXCEPT !.status = "starting",
                                  !.generation = generation + 1, !.past = Audited]
  <2>1. receipt'[a] = row /\ task'[a] = [runs |-> TRUE, row |-> row] /\ receipt[a].status = "none"
    BY <1>0, <1>3 DEF Start
  <2>2. row.status = "starting" /\ row.past = Audited
    BY DEF NoRow
  <2> HIDE DEF row
  <2> QED
    BY <1>1, <1>3, <2>1, <2>2 DEF Kept, RowInv, SameStart
<1>4. CASE LaunchEnds(a)
  BY <1>0, <1>1, <1>4 DEF LaunchEnds, Kept, RowInv, SameStart
<1>5. CASE SeesCall(a)
  <2> DEFINE seen == [task[a].row EXCEPT !.call = current]
  <2>1. /\ receipt'[a] = seen /\ task'[a] = [task[a] EXCEPT !.row = seen]
        /\ task[a].runs /\ launched' = launched /\ current # NoCall
    BY <1>0, <1>5 DEF SeesCall
  <2>2. /\ seen.call = current /\ seen.status = task[a].row.status
        /\ seen.generation = task[a].row.generation /\ seen.past = task[a].row.past
    BY <1>0 DEF Row
  <2>3. task'[a].row = seen /\ task'[a].runs
    BY <1>0, <2>1
  <2> HIDE DEF seen
  <2> QED
    BY <1>0, <1>1, <2>1, <2>2, <2>3 DEF Kept, RowInv, SameStart
<1>6. CASE DialEnds(a)
  <2>1. PICK id \in {NoCall} \cup CallId \cup OwnCalls(a) \cup {task[a].row.call} :
          receipt'[a] = [task[a].row EXCEPT !.result = launched[a], !.call = id,
                                            !.status = "observing"]
    <3>1. launched[a] = "ok" => (CHOOSE c \in OwnCalls(a) : TRUE) \in OwnCalls(a)
      BY DEF TypeInv
    <3> QED
      BY <1>0, <1>6, <3>1 DEF DialEnds
  <2>2. /\ receipt'[a].status = "observing"
        /\ receipt'[a].generation = task[a].row.generation
        /\ receipt'[a].past = task[a].row.past
    BY <1>0, <2>1 DEF Row
  <2>3. task'[a] = NoTask /\ task[a].runs /\ launched' = launched
    BY <1>0, <1>6 DEF DialEnds
  <2> QED
    BY <1>0, <1>1, <2>2, <2>3 DEF Kept, RowInv, SameStart, NoTask
<1>7. CASE Ask(a)
  <2> DEFINE row == Matched(receipt[a], Number[a])
             stored == [row EXCEPT !.status = "finished", !.outcome = Judge(row)]
  <2>1. row \in Row /\ (row = receipt[a] \/ \E c : row = [receipt[a] EXCEPT !.call = c])
    <3>1. \/ row = receipt[a]
          \/ \E c \in Audited \ receipt[a].past : row = [receipt[a] EXCEPT !.call = c]
      BY <1>0, MatchedNames
    <3>2. row \in Row
      BY MatchedTyped
    <3> HIDE DEF row
    <3> QED
      BY <3>1, <3>2
  <2>2. row.status = receipt[a].status /\ row.generation = receipt[a].generation
        /\ row.past = receipt[a].past
    <3> HIDE DEF row
    <3> QED
      BY <1>0, <2>1 DEF Row
  <2>3. stored.status = "finished" /\ stored.generation = receipt[a].generation
        /\ stored.past = receipt[a].past
    <3> HIDE DEF row
    <3> QED
      BY <2>1, <2>2 DEF Row
  <2>4. /\ receipt'[a] \in {receipt[a], row, stored} /\ receipt[a].status # "none"
        /\ task' = task /\ launched' = launched
    BY <1>0, <1>7 DEF Ask
  <2> HIDE DEF row, stored
  <2> QED
    BY <1>0, <1>1, <2>2, <2>3, <2>4 DEF Kept, RowInv, SameStart
<1>8. CASE Restart
  <2>1. /\ receipt'[a] = Recovered(receipt[a]) /\ task'[a] = NoTask
        /\ launched'[a] = IF launched[a] = "no" THEN "no" ELSE "failed"
    BY <1>8 DEF Restart
  <2>2. /\ receipt'[a].status = "none" <=> receipt[a].status = "none"
        /\ receipt'[a].generation = receipt[a].generation
        /\ receipt'[a].past = receipt[a].past
        /\ receipt[a].status = "none" => receipt'[a] = receipt[a]
    BY <1>0, <2>1 DEF Recovered, Row
  <2> QED
    BY <1>0, <1>1, <2>1, <2>2 DEF Kept, RowInv, SameStart, NoTask
<1>9. ASSUME NEW b \in Attempts, b # a,
             Start(b) \/ LaunchEnds(b) \/ SeesCall(b) \/ DialEnds(b) \/ Ask(b)
      PROVE  Kept(a) /\ RowInv(a)'
  <2>1. receipt'[a] = receipt[a] /\ task'[a] = task[a] /\ launched'[a] = launched[a]
    BY <1>0, <1>9 DEF Start, LaunchEnds, SeesCall, DialEnds, Ask
  <2> QED
    BY <1>2, <2>1
<1>10. CASE UNCHANGED <<receipt, task, launched>>
  BY <1>2, <1>10
<1> QED
  BY <1>3, <1>4, <1>5, <1>6, <1>7, <1>8, <1>9, <1>10
     DEF Next, vars, Dialed, Incoming, Talk, Ended, Audit, AskCallback

\* A disturbance stays.
LEMMA UndisturbedBefore ==
  ASSUME TypeInv, BaseInv, [Next]_vars, Undisturbed'
  PROVE  Undisturbed
<1> SUFFICES ASSUME NEW a \in Attempts, NEW c \in DOMAIN calls,
                    receipt[a].status # "none", c \notin receipt[a].past,
                    calls[c].number = Number[a], calls[c].generation = receipt[a].generation
             PROVE  \E b \in Attempts : calls[c].by = b /\ Kin(a, b)
  BY DEF Undisturbed
<1>1. SameStart(receipt[a], receipt'[a])
  BY RowsKept DEF Kept
<1>2. c \in DOMAIN calls' /\ Ages(calls[c], calls'[c], c = current)
  BY CallsKept DEF BaseInv
<1>3. \E b \in Attempts : calls'[c].by = b /\ Kin(a, b)
  BY <1>1, <1>2 DEF Undisturbed, SameStart, Ages, Kin
<1> QED
  BY <1>2, <1>3 DEF Ages

\* A step that leaves an attempt's receipt, task and answer alone, and in which
\* calls only age or others are added, preserves what is known of the attempt.
LEMMA OthersKeep ==
  ASSUME TypeInv, CallsInv, NEW a \in Attempts, AttemptInv(a),
         receipt'[a] = receipt[a], task'[a] = task[a],
         launched'[a] = launched[a], told'[a] = told[a], a \in asked' <=> a \in asked,
         generation' \in Nat, generation <= generation',
         DOMAIN calls \subseteq DOMAIN calls',
         \A c \in DOMAIN calls : Ages(calls[c], calls'[c], c = current),
         \A c \in DOMAIN calls' : calls'[c].by = a => c \in DOMAIN calls,
         current' \in {current, NoCall} \/ current' \notin DOMAIN calls
  PROVE  AttemptInv(a)'
<1>0. NoCall \notin DOMAIN calls
  BY DEF TypeInv, TypeOK, NoCall
<1>1. \A c \in DOMAIN calls' : Own(a, c)' <=> Own(a, c)
  BY DEF Own, Ages
<1>2. LaunchInv(a)'
  BY <1>0, <1>1 DEF AttemptInv, LaunchInv, Own, Ages
<1>3. TaskInv(a)'
  BY DEF AttemptInv, TaskInv
<1>4. NamesInv(a)'
  BY <1>1 DEF AttemptInv, NamesInv, Own, Ages
<1>5. ResultInv(a)'
  BY <1>0, <1>1 DEF AttemptInv, ResultInv, Own, Ages
<1>6. \A row \in Row, c \in DOMAIN calls : Finds(row, c)' <=> Finds(row, c)
  BY DEF Finds, Ages
<1>7. receipt[a] \in Row /\ task[a].row \in Row
  BY DEF TypeInv, TypeOK
<1>8. FoundInv(a)'
  <2>1. \A c \in DOMAIN calls : calls[c].end = "audited" => calls'[c].end = "audited"
    BY DEF CallsInv, Ages
  <2> QED
    BY <1>6, <1>7, <2>1 DEF AttemptInv, FoundInv, NamesInv, Own
<1>9. Settled(a) => Settled(a)'
  <2> SUFFICES ASSUME NEW c \in DOMAIN calls,
                      Own(a, c), calls[c].end = "audited", Verdict(calls[c]) = told[a].answer,
                      Finds(receipt[a], c), task[a].runs => Finds(task[a].row, c)
               PROVE  Settled(a)'
    BY DEF Settled
  <2>1. c # current
    BY DEF CallsInv
  <2>2. Verdict(calls'[c]) = Verdict(calls[c]) /\ calls'[c].end = "audited"
    BY <2>1 DEF Ages, Verdict
  <2> QED
    BY <1>1, <1>6, <1>7, <2>2 DEF Settled, Finds
<1>10. ToldInv(a)'
  BY <1>1, <1>9 DEF AttemptInv, ToldInv, Promise!Certain
<1>11. AskedInv(a)'
  BY DEF AttemptInv, AskedInv
<1>12. LifeInv(a)'
  <2>1. generation \in Nat /\ receipt[a].generation \in Nat
    BY <1>7, BoundAssumption DEF TypeInv, TypeOK, Row
  <2>2. Own(a, current)' => Own(a, current)
    BY <1>0, <1>1 DEF Own
  <2> QED
    BY <1>1, <2>1, <2>2 DEF AttemptInv, LifeInv, Own
<1> QED
  BY <1>2, <1>3, <1>4, <1>5, <1>8, <1>10, <1>11, <1>12 DEF AttemptInv

\* An attempt has one call.
LEMMA OwnCall ==
  ASSUME CallsInv, NEW a \in Attempts
  PROVE  \A c, d \in DOMAIN calls : Own(a, c) /\ Own(a, d) => c = d
BY NobodyAssumption DEF CallsInv, Own

\* Undisturbed, a call that has what the row of an attempt notes is the attempt's or
\* that of one which follows it.
LEMMA NumberedKin ==
  ASSUME TypeInv, ReceiptsInv, Undisturbed, NEW a \in Attempts, NEW c \in DOMAIN calls,
         receipt[a].status # "none", c \notin receipt[a].past, calls[c].end # "gone",
         calls[c].number = Number[a], calls[c].generation = receipt[a].generation
  PROVE  \/ Own(a, c)
         \/ \E b \in Attempts : a \in Before[b] /\ Own(b, c) /\ receipt[b].status # "none"
<1>1. PICK b \in Attempts : calls[c].by = b /\ Kin(a, b)
  BY DEF Undisturbed
<1>2. Own(b, c)
  BY <1>1 DEF Own
<1>3. receipt[b].status # "none"
  BY <1>2 DEF ReceiptsInv, AttemptInv, LaunchInv
<1>4. receipt[a].generation \in Nat
  BY DEF TypeInv, TypeOK, Row
<1>5. b \notin Before[a]
  BY <1>2, <1>4 DEF ReceiptsInv, OrderInv
<1> QED
  BY <1>1, <1>2, <1>3, <1>5 DEF Kin

\* What outcome() may add to a row: its attempt's own call, audited.
LEMMA MatchedOwn ==
  ASSUME TypeInv, ReceiptsInv, Undisturbed, NEW a \in Attempts,
         receipt[a].status # "none", Open(a)
  PROVE  \/ Matched(receipt[a], Number[a]) = receipt[a]
         \/ \E c \in DOMAIN calls :
              /\ Own(a, c) /\ calls[c].end = "audited"
              /\ receipt[a].call = NoCall /\ Finds(receipt[a], c)
              /\ Matched(receipt[a], Number[a]) = [receipt[a] EXCEPT !.call = c]
<1>1. receipt[a] \in Row
  BY DEF TypeInv, TypeOK
<1>2. receipt[a].call = NoCall => \A b \in Attempts : a \in Before[b] => receipt[b].status = "none"
  BY DEF Open, ReceiptsInv, AttemptInv, AskedInv
<1>3. \A c \in Audited \ receipt[a].past :
        receipt[a].call = NoCall /\ calls[c].number = Number[a]
          /\ calls[c].generation = receipt[a].generation => Own(a, c)
  BY <1>2, NumberedKin DEF Audited
<1> QED
  BY <1>1, <1>3, MatchedNames DEF Audited, Finds

\* What dial() sees is its attempt's own call.
LEMMA SeenOwn ==
  ASSUME TypeInv, BaseInv, ReceiptsInv, Undisturbed, NEW a \in Attempts, SeesCall(a)
  PROVE  current \in DOMAIN calls /\ Own(a, current)
<1>1. /\ task[a].runs /\ task[a].row.call = NoCall /\ current \in DOMAIN calls
      /\ generation = receipt[a].generation /\ calls[current].number = Number[a]
      /\ receipt[a].status # "none" /\ generation \in Nat
  BY BoundAssumption DEF SeesCall, BaseInv, RowInv, SameStart, TypeInv, TypeOK, NoCall
<1>2. /\ calls[current].generation = generation /\ calls[current].end = "up"
      /\ current \notin receipt[a].past
  BY <1>1 DEF BaseInv, CallsInv, RowInv, Audited
<1>3. ASSUME NEW b \in Attempts, a \in Before[b], Own(b, current), receipt[b].status # "none"
      PROVE  FALSE
  <2>1. receipt[a].generation < receipt[b].generation
    BY <1>1, <1>3 DEF ReceiptsInv, OrderInv
  <2>2. receipt[b].generation <= generation /\ receipt[b].generation \in Nat
    BY <1>3 DEF ReceiptsInv, AttemptInv, LifeInv, TypeInv, TypeOK, Row
  <2> QED
    BY <1>1, <2>1, <2>2
<1> QED
  BY <1>1, <1>2, <1>3, NumberedKin

\* The steps of an attempt itself.  start() makes a fresh row.
LEMMA StartKeeps ==
  ASSUME TypeInv, CallsInv, NEW a \in Attempts, AttemptInv(a), Start(a)
  PROVE  AttemptInv(a)'
<1> DEFINE row == [NoRow EXCEPT !.status = "starting",
                                !.generation = generation + 1, !.past = Audited]
<1>1. /\ receipt'[a] = row /\ task'[a] = [runs |-> TRUE, row |-> row]
      /\ launched'[a] = "running" /\ UNCHANGED <<phoneVars, told, asked>>
  BY DEF Start, TypeInv, TypeOK
<1>2. /\ row.status = "starting" /\ row.outcome = NoOutcome /\ row.result = "none"
      /\ row.call = NoCall /\ row.generation = generation + 1
  BY DEF NoRow
<1> HIDE DEF row
<1>3. told[a] = NoOutcome /\ \A c \in DOMAIN calls : ~Own(a, c)
  BY DEF AttemptInv, LaunchInv, Start
<1>4. told[a].call = NoCall /\ told[a].answer \notin Promise!Certain
  BY <1>3 DEF NoOutcome, Promise!Certain
<1>5. a \notin asked
  BY <1>3 DEF AttemptInv, AskedInv, NamesInv, Own
<1>6. AskedInv(a)' /\ LifeInv(a)'
  BY <1>1, <1>2, <1>3, <1>5 DEF AskedInv, LifeInv, phoneVars, Own, TypeInv, TypeOK
<1> QED
  BY <1>1, <1>2, <1>3, <1>4, <1>6
     DEF AttemptInv, LaunchInv, TaskInv, NamesInv, ResultInv, FoundInv, ToldInv, phoneVars, Own

\* The call goes out: nothing could be known of it before.
LEMMA DialedKeeps ==
  ASSUME TypeInv, CallsInv, NEW a \in Attempts, AttemptInv(a), Dialed(a)
  PROVE  AttemptInv(a)'
<1>1. \A c \in DOMAIN calls : ~Own(a, c)
  BY DEF Dialed, OwnCalls, Own
<1>2. /\ launched[a] = "running" /\ UNCHANGED <<receipt, task, launched, told, asked>>
      /\ generation' = generation + 1
  BY DEF Dialed, NewCall
<1>3. /\ receipt[a].call = NoCall /\ task[a].row.call = NoCall /\ told[a].call = NoCall
      /\ receipt[a].result \notin {"ok", "refused"}
      /\ told[a].answer \notin Promise!Certain
  BY <1>1, <1>2 DEF AttemptInv, NamesInv, ResultInv, ToldInv, Own
<1>4. AskedInv(a)' /\ LifeInv(a)'
  <2>1. generation \in Nat /\ receipt[a].generation \in Nat
    BY BoundAssumption DEF TypeInv, TypeOK, Row
  <2> QED
    BY <1>2, <1>3, <2>1 DEF AttemptInv, LaunchInv, AskedInv, LifeInv
<1> QED
  BY <1>2, <1>3, <1>4
     DEF AttemptInv, LaunchInv, TaskInv, NamesInv, ResultInv, FoundInv, ToldInv

\* start_phone_call returns what holds of the attempt's call.
LEMMA LaunchEndsKeeps ==
  ASSUME TypeInv, CallsInv, NEW a \in Attempts, AttemptInv(a), LaunchEnds(a)
  PROVE  AttemptInv(a)'
<1>1. PICK how \in {"ok", "refused", "failed"} :
        /\ launched[a] = "running" /\ launched'[a] = how
        /\ how = "ok" => \E c \in OwnCalls(a) : calls[c].answered
        /\ how = "refused" => \A c \in OwnCalls(a) : calls[c].end # "up" /\ ~calls[c].answered
  BY DEF LaunchEnds, TypeInv, TypeOK
<1>2. UNCHANGED <<calls, current, generation, receipt, task, told, asked>>
  BY DEF LaunchEnds, phoneVars
<1>3. \A c : Own(a, c)' <=> Own(a, c)
  BY <1>2 DEF Own
<1>4. /\ how = "ok" => \E c \in DOMAIN calls : Own(a, c) /\ calls[c].answered
      /\ how = "refused" => \A c \in DOMAIN calls : Own(a, c) => c # current /\ ~calls[c].answered
  BY <1>1 DEF OwnCalls, Own, CallsInv
<1>5. LaunchInv(a)'
  BY <1>1, <1>2, <1>3, <1>4 DEF AttemptInv, LaunchInv
<1>6. TaskInv(a)' /\ NamesInv(a)' /\ ResultInv(a)' /\ FoundInv(a)' /\ AskedInv(a)' /\ LifeInv(a)'
  BY <1>1, <1>2, <1>3
     DEF AttemptInv, TaskInv, NamesInv, ResultInv, FoundInv, Finds, AskedInv, LifeInv
<1>7. Settled(a) => Settled(a)'
  BY <1>2 DEF Settled, Own, Finds
<1>8. ToldInv(a)'
  BY <1>1, <1>2, <1>3, <1>7 DEF AttemptInv, ToldInv, Promise!Certain
<1> QED
  BY <1>5, <1>6, <1>8 DEF AttemptInv

\* dial() sees the attempt's call, so nothing certain was said of it.
LEMMA SeesCallKeeps ==
  ASSUME TypeInv, BaseInv, ReceiptsInv, Undisturbed, NEW a \in Attempts, SeesCall(a)
  PROVE  AttemptInv(a)'
<1>0. CallsInv /\ RowInv(a) /\ AttemptInv(a)
  BY DEF BaseInv, ReceiptsInv
<1> DEFINE seen == [task[a].row EXCEPT !.call = current]
<1>1. /\ task[a].runs /\ launched[a] = "running"
      /\ receipt'[a] = seen /\ task'[a] = [task[a] EXCEPT !.row = seen]
      /\ UNCHANGED <<phoneVars, launched, told, asked>> /\ current # NoCall
  BY DEF SeesCall, TypeInv, TypeOK
<1>2. task[a] \in [runs : BOOLEAN, row : Row]
  BY DEF TypeInv, TypeOK
<1>3. /\ seen.call = current /\ seen.outcome = NoOutcome /\ seen.status = "starting"
      /\ seen.result = "none" /\ seen.generation = receipt[a].generation
  BY <1>0, <1>1, <1>2 DEF AttemptInv, TaskInv, RowInv, SameStart, Row
<1> HIDE DEF seen
<1>4. task'[a].runs /\ task'[a].row = seen
  BY <1>1, <1>2
<1>5. current \in DOMAIN calls /\ Own(a, current)
  BY SeenOwn
<1>6. ~Settled(a)
  BY <1>0, <1>5, OwnCall DEF Settled, CallsInv
<1>7. told[a].answer \notin Promise!Certain
  BY <1>0, <1>1, <1>6 DEF AttemptInv, ToldInv
<1>8. Own(a, current)' /\ (\A c : Own(a, c)' <=> Own(a, c))
  BY <1>1, <1>5 DEF phoneVars, Own
<1>9. LaunchInv(a)' /\ TaskInv(a)'
  BY <1>0, <1>1, <1>3, <1>4, <1>8 DEF AttemptInv, LaunchInv, TaskInv, phoneVars
<1>10. NamesInv(a)' /\ ResultInv(a)'
  BY <1>0, <1>1, <1>3, <1>4, <1>8 DEF AttemptInv, NamesInv, ResultInv, phoneVars
<1>11. FoundInv(a)' /\ ToldInv(a)'
  BY <1>1, <1>3, <1>4, <1>7 DEF FoundInv, ToldInv, Finds, Promise!Certain
<1>12. AskedInv(a)' /\ LifeInv(a)'
  BY <1>0, <1>1, <1>3, <1>4, <1>8 DEF AttemptInv, AskedInv, LifeInv, phoneVars
<1> QED
  BY <1>9, <1>10, <1>11, <1>12 DEF AttemptInv

\* dial() overwrites the row with a copy that finds the same call.
LEMMA DialEndsKeeps ==
  ASSUME TypeInv, CallsInv, NEW a \in Attempts, RowInv(a), AttemptInv(a), DialEnds(a)
  PROVE  AttemptInv(a)'
<1> DEFINE row == task[a].row
           id == IF row.call # NoCall \/ launched[a] # "ok" THEN row.call
                 ELSE CHOOSE c \in OwnCalls(a) : TRUE
           last == receipt'[a]
<1>1. /\ task[a].runs /\ launched[a] \in {"ok", "refused", "failed"}
      /\ task'[a] = NoTask /\ UNCHANGED <<phoneVars, launched, told, asked>>
  BY DEF DialEnds, TypeInv, TypeOK
<1>2. row \in Row /\ row.outcome = NoOutcome /\ row.result = "none"
  BY <1>1 DEF AttemptInv, TaskInv, TypeInv, TypeOK
<1>3. id # NoCall => Own(a, id)
  <2>1. launched[a] = "ok" => (CHOOSE c \in OwnCalls(a) : TRUE) \in OwnCalls(a)
    BY DEF TypeInv
  <2> QED
    BY <2>1 DEF AttemptInv, NamesInv, OwnCalls, Own
<1>4. row.call # NoCall => id = row.call
  OBVIOUS
<1>5. /\ last.outcome = NoOutcome /\ last.status = "observing"
      /\ last.past = receipt[a].past /\ last.generation = receipt[a].generation
      /\ last.result = launched[a] /\ last.call = id
  <2>1. receipt'[a] = [row EXCEPT !.result = launched[a], !.call = id, !.status = "observing"]
    BY DEF DialEnds, TypeInv, TypeOK
  <2>2. row.past = receipt[a].past /\ row.generation = receipt[a].generation
    BY <1>1 DEF RowInv, SameStart
  <2> HIDE DEF id
  <2> QED
    BY <1>2, <2>1, <2>2 DEF Row
<1> HIDE DEF row, id, last
<1>6. /\ UNCHANGED <<calls, current, generation>>
      /\ \A c : Own(a, c)' <=> Own(a, c)
  BY <1>1 DEF phoneVars, Own
<1>7. LaunchInv(a)'
  BY <1>1, <1>5, <1>6 DEF AttemptInv, LaunchInv, last
<1>8. TaskInv(a)' /\ FoundInv(a)'
  BY <1>1 DEF TaskInv, FoundInv, NoTask
<1>9. NamesInv(a)'
  BY <1>1, <1>3, <1>4, <1>5, <1>6 DEF AttemptInv, NamesInv, NoTask, NoRow, row, last
<1>10. ResultInv(a)'
  BY <1>1, <1>5, <1>6 DEF AttemptInv, LaunchInv, ResultInv, last
<1>11. Settled(a) => Settled(a)'
  <2> SUFFICES ASSUME NEW c \in DOMAIN calls, Own(a, c), calls[c].end = "audited",
                      Verdict(calls[c]) = told[a].answer, Finds(row, c)
               PROVE  Settled(a)'
    BY <1>1 DEF Settled, row
  <2>1. id # NoCall => id = c
    BY <1>3, OwnCall DEF Own
  <2>2. Finds(last, c)
    BY <1>1, <1>4, <1>5, <2>1 DEF Finds, RowInv, SameStart, row
  <2> QED
    BY <1>1, <1>6, <2>2 DEF Settled, Finds, NoTask, last, Verdict
<1>12. ToldInv(a)'
  BY <1>1, <1>5, <1>6, <1>11 DEF AttemptInv, ToldInv, last, Promise!Certain
<1>13. AskedInv(a)' /\ LifeInv(a)'
  BY <1>1, <1>4, <1>5, <1>6 DEF AttemptInv, AskedInv, LifeInv, NoTask, row, last
<1> QED
  BY <1>7, <1>8, <1>9, <1>10, <1>12, <1>13 DEF AttemptInv

\* A call that was over when it was judged keeps its verdict.
LEMMA JudgedOwn ==
  ASSUME NEW row \in Row, HasEnded(row), row.result = "ok" => calls[row.call].answered
  PROVE  Judge(row).answer = Verdict(calls[row.call])
BY DEF Judge, Verdict, HasEnded, Row

\* Without its audited end, a call is certain only if start_phone_call refused it.
LEMMA JudgedUnended ==
  ASSUME NEW row \in Row, ~HasEnded(row)
  PROVE  /\ Judge(row).answer # "talked"
         /\ Judge(row).answer = "missed" => row.result = "refused"
BY DEF Judge

\* outcome() stores what it tells, or tells what will be told again.
LEMMA AskKeeps ==
  ASSUME TypeInv, BaseInv, ReceiptsInv, Undisturbed, NEW a \in Attempts, Ask(a)
  PROVE  AttemptInv(a)'
<1>0. CallsInv /\ RowInv(a) /\ AttemptInv(a)
  BY DEF BaseInv, ReceiptsInv
<1> DEFINE row == Matched(receipt[a], Number[a])
           outcome == Judge(row)
           stored == [row EXCEPT !.status = "finished", !.outcome = outcome]
<1>1. /\ receipt[a].status # "none" /\ Open(a)
      /\ UNCHANGED <<calls, current, generation, task, launched, asked>>
      /\ receipt[a] \in Row /\ told[a] \in Outcome /\ task[a].row \in Row
      /\ NoCall \notin DOMAIN calls
  BY DEF Ask, TypeInv, TypeOK, phoneVars, NoCall
<1>2. /\ row \in Row
      /\ row.status = receipt[a].status /\ row.result = receipt[a].result
      /\ row.generation = receipt[a].generation /\ row.past = receipt[a].past
      /\ row.outcome = receipt[a].outcome
      /\ receipt[a].call # NoCall => row.call = receipt[a].call
      /\ row.call # NoCall => Own(a, row.call)
      /\ row.call # receipt[a].call => calls[row.call].end = "audited" /\ Finds(receipt[a], row.call)
  <2>1. row \in Row
    BY MatchedTyped
  <2>2. CASE row = receipt[a]
    BY <1>0, <2>1, <2>2 DEF AttemptInv, NamesInv
  <2>3. CASE \E c \in DOMAIN calls :
              /\ Own(a, c) /\ calls[c].end = "audited"
              /\ receipt[a].call = NoCall /\ Finds(receipt[a], c)
              /\ row = [receipt[a] EXCEPT !.call = c]
    <3> HIDE DEF row
    <3> QED
      BY <1>1, <2>1, <2>3 DEF Row
  <2> QED
    BY <1>1, <2>2, <2>3, MatchedOwn
<1>3. /\ outcome.answer # "none" /\ outcome.call = row.call
  BY DEF Judge
<1>4. /\ stored.status = "finished" /\ stored.outcome = outcome /\ stored.call = row.call
      /\ stored.result = row.result /\ stored.generation = row.generation
      /\ stored.past = row.past
  <2> HIDE DEF row
  <2> HIDE DEF outcome
  <2> QED
    BY <1>2 DEF Row
<1>5. \A c \in DOMAIN calls : Own(a, c) /\ Finds(receipt[a], c) => Finds(row, c)
  BY <1>0, <1>1, <1>2, OwnCall DEF Finds, Own
<1>6. task[a].runs /\ row.call # NoCall =>
        /\ Finds(task[a].row, row.call)
        /\ task[a].row.call = NoCall => calls[row.call].end = "audited"
  <2> HIDE DEF row
  <2>1. CASE row.call = receipt[a].call
    BY <1>0, <2>1 DEF AttemptInv, FoundInv
  <2>2. CASE row.call # receipt[a].call
    <3>1. task[a].runs /\ row.call # NoCall /\ task[a].row.call # NoCall => task[a].row.call = row.call
      BY <1>0, <1>2, OwnCall DEF AttemptInv, NamesInv, Own
    <3> QED
      BY <1>0, <1>2, <2>2, <3>1 DEF RowInv, SameStart, Finds, Own
  <2> QED
    BY <2>1, <2>2
<1>7. \A c : Own(a, c)' <=> Own(a, c)
  BY <1>1 DEF Own
<1>8. \/ receipt' = receipt /\ told'[a] = told[a]
      \/ receipt'[a] = row /\ told' = told /\ row.outcome = NoOutcome
      \/ /\ receipt'[a] = row /\ row.outcome = NoOutcome
         /\ told'[a] = outcome /\ outcome.answer = "unknown"
      \/ receipt'[a] = stored /\ told'[a] = outcome
  BY <1>0, <1>2 DEF Ask, AttemptInv, ToldInv, TypeInv, TypeOK
<1>9. CASE receipt' = receipt /\ told'[a] = told[a]
  BY <1>0, <1>1, <1>9, OthersKeep DEF Ages, TypeInv, TypeOK
<1>10. CASE /\ receipt'[a] \in {row, stored}
            /\ told'[a] \in {told[a], outcome}
            /\ \/ /\ told'[a] = told[a] /\ receipt'[a].outcome = NoOutcome
                  /\ receipt[a].outcome = NoOutcome
               \/ /\ told'[a] = outcome /\ outcome.answer = "unknown"
                  /\ receipt'[a].outcome = NoOutcome
               \/ told'[a] = outcome /\ receipt'[a].outcome = outcome
  <2> DEFINE new == receipt'[a]
  <2>1. /\ new.status # "none" /\ new.call = row.call /\ new.result = receipt[a].result
        /\ new.generation = receipt[a].generation /\ new.past = receipt[a].past
    BY <1>1, <1>2, <1>4, <1>10
  <2>2. told[a].call # NoCall => Own(a, told[a].call)
    BY <1>0 DEF AttemptInv, NamesInv
  <2>3. task[a].runs => new.result = "none"
    BY <1>0, <2>1 DEF AttemptInv, TaskInv
  <2> HIDE DEF row, outcome, stored, new
  <2>4. LaunchInv(a)'
    BY <1>0, <1>1, <1>7, <2>1 DEF AttemptInv, LaunchInv, new
  <2>5. TaskInv(a)' /\ ResultInv(a)'
    BY <1>0, <1>1, <1>7, <2>1 DEF AttemptInv, TaskInv, ResultInv, new
  <2>6. NamesInv(a)'
    BY <1>0, <1>1, <1>2, <1>3, <1>7, <1>10, <2>1, <2>2 DEF AttemptInv, NamesInv, new
  <2>7. FoundInv(a)'
    BY <1>1, <1>6, <2>1 DEF FoundInv, Finds, new
  <2>8. Settled(a) => (told'[a] = told[a] => Settled(a)')
    <3>1. \A c \in DOMAIN calls : Finds(row, c) => Finds(new, c)
      BY <1>2, <2>1 DEF Finds
    <3> QED
      BY <1>1, <1>5, <1>7, <3>1 DEF Settled, Finds, Verdict, new
  <2>9. task[a].runs /\ outcome.answer \in Promise!Certain
          => HasEnded(row) /\ outcome.answer = Verdict(calls[row.call])
    <3>1. task[a].runs /\ outcome.answer \in Promise!Certain => HasEnded(row)
      BY <1>2, <2>1, <2>3, JudgedUnended DEF Promise!Certain, outcome
    <3> QED
      BY <1>2, <2>1, <2>3, <3>1, JudgedOwn DEF outcome
  <2>10. task[a].runs /\ outcome.answer \in Promise!Certain /\ told'[a] = outcome => Settled(a)'
    <3> SUFFICES ASSUME task[a].runs, outcome.answer \in Promise!Certain, told'[a] = outcome
                 PROVE  Settled(a)'
      OBVIOUS
    <3>1. Own(a, row.call) /\ calls[row.call].end = "audited" /\ Finds(task[a].row, row.call)
      BY <1>2, <1>6, <2>9 DEF HasEnded
    <3> QED
      BY <1>1, <1>7, <2>1, <2>9, <3>1 DEF Settled, Finds, Verdict, Own, new
  <2>11. told'[a].answer \in Promise!Certain /\ task[a].runs => \E c \in DOMAIN calls : Own(a, c)
    BY <1>0, <1>2, <1>10, <2>9 DEF AttemptInv, ToldInv, Settled, HasEnded, Own
  <2>12. new.outcome # NoOutcome => told'[a] = new.outcome
    BY <1>10 DEF new
  <2>13. told'[a].answer \in Promise!Certain =>
           (new.outcome = NoOutcome \/ task[a].runs => Settled(a)')
    <3>1. outcome # NoOutcome
      BY <1>3 DEF NoOutcome
    <3> QED
      BY <1>0, <1>10, <2>8, <2>10, <3>1 DEF AttemptInv, ToldInv, Promise!Certain, new
  <2>14. launched[a] = "running" => task[a].runs
    BY <1>0 DEF AttemptInv, LaunchInv
  <2>15. ToldInv(a)'
    BY <1>1, <1>7, <2>11, <2>12, <2>13, <2>14 DEF ToldInv, Promise!Certain, new
  <2>16. AskedInv(a)' /\ LifeInv(a)'
    BY <1>0, <1>1, <1>2, <1>7, <2>1 DEF AttemptInv, AskedInv, LifeInv, new
  <2> QED
    BY <2>4, <2>5, <2>6, <2>7, <2>15, <2>16 DEF AttemptInv
<1> QED
  BY <1>2, <1>4, <1>8, <1>9, <1>10

\* The call in which a callback is asked for is up, so dial() knows it as well.
LEMMA AskCallbackKeeps ==
  ASSUME TypeInv, CallsInv, NEW a \in Attempts, AttemptInv(a), AskCallback(a)
  PROVE  AttemptInv(a)'
<1>1. /\ receipt[a].call # NoCall /\ receipt[a].call = current
      /\ UNCHANGED <<calls, current, generation, receipt, task, launched, told>>
  BY DEF AskCallback, Active, phoneVars
<1>2. task[a].runs => task[a].row.call # NoCall
  BY <1>1 DEF AttemptInv, FoundInv, NamesInv, CallsInv, Own
<1>3. AskedInv(a)'
  BY <1>1, <1>2 DEF AskedInv
<1>4. Settled(a)' <=> Settled(a)
  BY <1>1 DEF Settled, Own, Finds, Verdict
<1> QED
  BY <1>1, <1>3, <1>4
     DEF AttemptInv, LaunchInv, TaskInv, NamesInv, ResultInv, FoundInv, ToldInv, LifeInv, Own, Finds

\* A restart makes uncertain what was starting; a settled answer stays settled.
LEMMA RestartKeeps ==
  ASSUME TypeInv, CallsInv, NEW a \in Attempts, AttemptInv(a), Restart
  PROVE  AttemptInv(a)'
<1>1. /\ receipt'[a] = Recovered(receipt[a]) /\ task'[a] = NoTask /\ told' = told
      /\ launched'[a] = IF launched[a] = "no" THEN "no" ELSE "failed"
      /\ asked' = asked /\ current' = NoCall /\ NoCall \notin DOMAIN calls
  BY DEF Restart, TypeInv, TypeOK, NoCall
<1>2. /\ DOMAIN calls' = DOMAIN calls
      /\ \A c \in DOMAIN calls : Ages(calls[c], calls'[c], c = current)
  BY CallsChange
<1>3. \A c : Own(a, c)' <=> Own(a, c)
  BY <1>2 DEF Own, Ages
<1>4. /\ receipt'[a].status = "none" <=> receipt[a].status = "none"
      /\ receipt'[a].result = receipt[a].result /\ receipt'[a].call = receipt[a].call
      /\ receipt'[a].past = receipt[a].past /\ receipt'[a].generation = receipt[a].generation
      /\ receipt'[a].outcome = receipt[a].outcome
  <2>1. receipt[a] \in Row
    BY DEF TypeInv, TypeOK
  <2> QED
    BY <1>1, <2>1 DEF Recovered, Row
<1>5. LaunchInv(a)'
  BY <1>1, <1>2, <1>3, <1>4 DEF AttemptInv, LaunchInv
<1>6. TaskInv(a)' /\ FoundInv(a)'
  BY <1>1 DEF TaskInv, FoundInv, NoTask
<1>7. NamesInv(a)'
  BY <1>1, <1>3, <1>4 DEF AttemptInv, NamesInv, NoTask, NoRow
<1>8. ResultInv(a)'
  BY <1>1, <1>2, <1>3, <1>4 DEF AttemptInv, ResultInv, Ages
<1>9. Settled(a) => Settled(a)'
  <2> SUFFICES ASSUME NEW c \in DOMAIN calls, Own(a, c), calls[c].end = "audited",
                      Verdict(calls[c]) = told[a].answer, Finds(receipt[a], c)
               PROVE  Settled(a)'
    BY DEF Settled
  <2>1. c # current
    BY DEF CallsInv
  <2>2. /\ Verdict(calls'[c]) = Verdict(calls[c]) /\ calls'[c].end = "audited"
        /\ calls'[c].generation = calls[c].generation
    BY <1>2, <2>1 DEF Ages, Verdict
  <2> QED
    BY <1>1, <1>2, <1>3, <1>4, <2>2 DEF Settled, Finds, NoTask
<1>10. ToldInv(a)'
  BY <1>1, <1>4, <1>9 DEF AttemptInv, ToldInv, NoTask, Promise!Certain
<1>11. AskedInv(a)' /\ LifeInv(a)'
  BY <1>1, <1>2, <1>4 DEF AttemptInv, AskedInv, LifeInv, NoTask, Own
<1> QED
  BY <1>5, <1>6, <1>7, <1>8, <1>10, <1>11 DEF AttemptInv

\* An attempt starts with a generation that is later than those of the calls before
\* it, and whatever it follows has had its call.
LEMMA OrderStep ==
  ASSUME TypeInv, BaseInv, ReceiptsInv, [Next]_vars, NEW a \in Attempts
  PROVE  OrderInv(a)'
<1> SUFFICES ASSUME receipt'[a].status # "none", NEW b \in Before[a]
             PROVE  /\ launched'[b] # "no"
                    /\ launched'[b] = "running" => \E c \in DOMAIN calls' : Own(b, c)'
                    /\ \A c \in DOMAIN calls' : Own(b, c)' =>
                         \/ c \in receipt'[a].past
                         \/ calls'[c].end = "gone"
                         \/ calls'[c].generation < receipt'[a].generation
                    /\ task'[b].runs /\ task'[b].row.call = NoCall =>
                         receipt'[b].generation < receipt'[a].generation
  BY DEF OrderInv
<1>0. b \in Attempts /\ CallsInv /\ AttemptInv(b) /\ generation \in Nat
  BY BeforeAssumption DEF BaseInv, ReceiptsInv, TypeInv, TypeOK
<1>1. /\ DOMAIN calls \subseteq DOMAIN calls'
      /\ \A c \in DOMAIN calls : Ages(calls[c], calls'[c], c = current)
      /\ \A c \in DOMAIN calls' \ DOMAIN calls : calls'[c].by = b => Dialed(b)
  BY <1>0, CallsKept
<1>2. CASE receipt[a].status # "none"
  <2>1. /\ launched[b] # "no"
        /\ launched[b] = "running" => \E c \in DOMAIN calls : Own(b, c)
        /\ \A c \in DOMAIN calls : Own(b, c) =>
             \/ c \in receipt[a].past
             \/ calls[c].end = "gone"
             \/ calls[c].generation < receipt[a].generation
        /\ task[b].runs /\ task[b].row.call = NoCall =>
             receipt[b].generation < receipt[a].generation
    BY <1>2 DEF ReceiptsInv, OrderInv
  <2>2. receipt[b].status # "none"
    BY <1>0, <2>1 DEF AttemptInv, LaunchInv
  <2>3. Kept(a) /\ Kept(b)
    BY <1>0, RowsKept
  <2>4. ~Dialed(b)
    BY <2>1 DEF Dialed, OwnCalls, Own
  <2>5. \A c \in DOMAIN calls' : Own(b, c)' => c \in DOMAIN calls /\ Own(b, c)
    BY <1>1, <2>4 DEF Own, Ages
  <2>6. \A c \in DOMAIN calls : Own(b, c) => Own(b, c)'
    BY <1>1 DEF Own, Ages
  <2>7. \A c \in DOMAIN calls : calls[c].end = "gone" => calls'[c].end = "gone"
    BY <1>0, <1>1 DEF CallsInv, Ages
  <2>8. \A c \in DOMAIN calls : calls'[c].generation = calls[c].generation
    BY <1>1 DEF Ages
  <2> QED
    BY <1>1, <1>2, <2>1, <2>2, <2>3, <2>5, <2>6, <2>7, <2>8 DEF Kept, SameStart
<1>3. CASE receipt[a].status = "none"
  <2> DEFINE row == [NoRow EXCEPT !.status = "starting",
                                  !.generation = generation + 1, !.past = Audited]
  <2>1. Start(a)
    BY <1>3, RowsKept DEF Kept
  <2>2. /\ receipt' = [receipt EXCEPT ![a] = row]
        /\ task' = [task EXCEPT ![a] = [runs |-> TRUE, row |-> row]]
        /\ launched' = [launched EXCEPT ![a] = "running"]
        /\ UNCHANGED <<calls, current, generation>> /\ Closed(b)
    BY <2>1 DEF Start, phoneVars
  <2>3. row.past = Audited /\ row.generation = generation + 1
    BY DEF NoRow
  <2> HIDE DEF row
  <2>4. told[b].answer \in Promise!Certain \/ b \in asked
    BY <2>2 DEF Closed, Promise!Certain
  <2>5. b \in asked => Own(b, receipt[b].call)
    BY <1>0 DEF AttemptInv, AskedInv, NamesInv
  <2>6. launched[b] # "no"
    BY <1>0, <2>4, <2>5 DEF AttemptInv, LaunchInv, NoOutcome, Own, Promise!Certain
  <2>7. b # a
    BY <1>3, <2>6 DEF ReceiptsInv, AttemptInv, LaunchInv
  <2>8. launched[b] = "running" => \E c \in DOMAIN calls : Own(b, c)
    BY <1>0, <2>4, <2>5 DEF AttemptInv, ToldInv, Own
  <2>9. \A c \in DOMAIN calls :
          c \in Audited \/ calls[c].end = "gone" \/ calls[c].generation < generation + 1
    <3>1. \A c \in DOMAIN calls : calls[c] \in Call
      BY DEF TypeInv, TypeOK
    <3>2. \A call \in Call : call.end \in {"up", "over", "audited", "gone"} /\ call.generation \in Nat
      BY DEF Call
    <3> QED
      BY <1>0, <3>1, <3>2 DEF CallsInv, Audited
  <2>10. task[b].runs /\ task[b].row.call = NoCall => receipt[b].generation < generation + 1
    <3> SUFFICES ASSUME task[b].runs, task[b].row.call = NoCall
                 PROVE  receipt[b].generation < generation + 1
      OBVIOUS
    <3>1. b \notin asked
      BY <1>0 DEF AttemptInv, AskedInv
    <3>2. \E c \in DOMAIN calls : Own(b, c)
      BY <1>0, <2>4, <3>1 DEF AttemptInv, ToldInv, Settled
    <3>3. receipt[b].generation <= generation
      BY <1>0, <3>2 DEF AttemptInv, LifeInv
    <3>4. receipt[b].generation \in Nat
      BY <1>0 DEF TypeInv, TypeOK, Row
    <3> QED
      BY <1>0, <3>3, <3>4
  <2>11. /\ receipt'[a] = row /\ receipt'[b] = receipt[b] /\ task'[b] = task[b]
         /\ launched'[b] = launched[b]
    BY <1>0, <2>2, <2>7 DEF TypeInv, TypeOK
  <2>12. \A c : Own(b, c)' <=> Own(b, c)
    BY <2>2 DEF Own
  <2> QED
    BY <2>2, <2>3, <2>6, <2>8, <2>9, <2>10, <2>11, <2>12
<1> QED
  BY <1>2, <1>3

\* The invariant is inductive.
LEMMA ReceiptsStep ==
  ASSUME TypeInv, BaseInv, ReceiptsInv, Undisturbed, [Next]_vars, TypeInv'
  PROVE  ReceiptsInv'
<1>1. ASSUME NEW a \in Attempts PROVE AttemptInv(a)'
  <2>0. /\ receipt \in [Attempts -> Row] /\ told \in [Attempts -> Outcome]
        /\ task \in [Attempts -> [runs : BOOLEAN, row : Row]]
        /\ launched \in [Attempts -> {"no", "running", "ok", "refused", "failed"}]
        /\ CallsInv /\ RowInv(a) /\ AttemptInv(a)
        /\ generation \in Nat /\ generation' \in Nat
    BY DEF TypeInv, TypeOK, BaseInv, ReceiptsInv
  <2>1. ASSUME UNCHANGED phoneVars, receipt'[a] = receipt[a], task'[a] = task[a],
               launched'[a] = launched[a], told'[a] = told[a], a \in asked' <=> a \in asked
        PROVE  AttemptInv(a)'
    BY <2>0, <2>1, OthersKeep DEF Ages, phoneVars
  <2>2. ASSUME NEW b \in Attempts,
               Start(b) \/ LaunchEnds(b) \/ SeesCall(b) \/ DialEnds(b) \/ Ask(b) \/ AskCallback(b)
        PROVE  AttemptInv(a)'
    <3>1. CASE b = a
      BY <2>0, <2>2, <3>1, StartKeeps, LaunchEndsKeeps, SeesCallKeeps, DialEndsKeeps,
         AskKeeps, AskCallbackKeeps
    <3>2. CASE b # a
      <4>1. /\ UNCHANGED phoneVars
            /\ receipt'[a] = receipt[a] /\ task'[a] = task[a]
            /\ launched'[a] = launched[a] /\ told'[a] = told[a]
            /\ a \in asked' <=> a \in asked
        BY <2>0, <2>2, <3>2 DEF Start, LaunchEnds, SeesCall, DialEnds, Ask, AskCallback
      <4> QED
        BY <2>1, <4>1
    <3> QED
      BY <3>1, <3>2
  <2>3. ASSUME NEW by \in Attempts \cup {Nobody}, NEW number \in Range(Number) \cup Callers,
               NewCall(by, number), by # a, UNCHANGED <<receipt, task, launched, told, asked>>
        PROVE  AttemptInv(a)'
    <3>1. /\ calls' \in Seq(Call) /\ Len(calls') = Len(calls) + 1
          /\ \A c \in DOMAIN calls : calls'[c] = calls[c]
          /\ calls'[Len(calls) + 1] =
               [by |-> by, number |-> number, generation |-> generation + 1,
                answered |-> FALSE, heard |-> FALSE, lost |-> FALSE, end |-> "up"]
      BY <2>3, NewCallStep
    <3>2. /\ Len(calls) \in Nat /\ DOMAIN calls = 1..Len(calls)
          /\ current' = Len(calls) + 1 /\ generation' = generation + 1
      BY <2>3 DEF NewCall, TypeInv, TypeOK
    <3>3. /\ DOMAIN calls' = DOMAIN calls \cup {Len(calls) + 1}
          /\ calls'[Len(calls) + 1].by = by
      BY <3>1, <3>2
    <3>4. generation <= generation'
      BY <2>0, <3>2
    <3> QED
      BY <2>0, <2>3, <3>1, <3>2, <3>3, <3>4, OthersKeep DEF Ages
  <2>4. ASSUME NEW b \in Attempts, Dialed(b) PROVE AttemptInv(a)'
    <3>1. Number[b] \in Range(Number)
      BY NumberAssumption DEF Range
    <3> QED
      BY <2>0, <2>3, <2>4, <3>1, DialedKeeps DEF Dialed
  <2>5. ASSUME NEW n \in Callers, Incoming(n) PROVE AttemptInv(a)'
    BY <2>3, <2>5, NobodyAssumption DEF Incoming
  <2>6. CASE Talk \/ Ended \/ \E c \in CallId : Audit(c)
    <3>1. /\ DOMAIN calls' = DOMAIN calls
          /\ \A c \in DOMAIN calls : Ages(calls[c], calls'[c], c = current)
      BY <2>6, CallsChange
    <3>2. /\ current' \in {current, NoCall} /\ generation' = generation
          /\ UNCHANGED <<receipt, task, launched, told, asked>>
      BY <2>6 DEF Talk, Ended, Audit
    <3> QED
      BY <2>0, <3>1, <3>2, OthersKeep
  <2>7. CASE Restart
    BY <2>0, <2>7, RestartKeeps
  <2>8. CASE UNCHANGED vars
    BY <2>1, <2>8 DEF vars, phoneVars
  <2> QED
    BY <2>2, <2>4, <2>5, <2>6, <2>7, <2>8 DEF Next
<1> QED
  BY <1>1, OrderStep DEF ReceiptsInv

LEMMA ReceiptsInductive ==
  Spec => [](TypeInv /\ BaseInv /\ (Undisturbed => ReceiptsInv))
<1>1. Init => BaseInv /\ ReceiptsInv
  BY DEF Init, BaseInv, RowInv, ReceiptsInv, CallsInv, AttemptInv, LaunchInv, TaskInv, NamesInv,
         ResultInv, FoundInv, ToldInv, AskedInv, LifeInv, OrderInv, Own, NoTask, NoRow, NoOutcome,
         NoCall, Promise!Certain
<1>2. TypeInv /\ BaseInv /\ [Next]_vars => BaseInv'
  BY CallsStep, RowsKept DEF BaseInv
<1>3. TypeInv /\ BaseInv /\ (Undisturbed => ReceiptsInv) /\ TypeInv' /\ [Next]_vars
        => (Undisturbed => ReceiptsInv)'
  BY UndisturbedBefore, ReceiptsStep
<1> QED
  BY <1>1, <1>2, <1>3, ExecutionTyped, PTL DEF Spec

\* Whatever interleaving of polls, dials, retries, callbacks and restarts, the gateway
\* is told the outcome of no call but the attempt's own, until a call from outside
\* the chain has what the attempt's row notes of its call.
THEOREM OutcomeOfOwnCall == Spec => []Inv
<1>1. TypeInv /\ (Undisturbed => ReceiptsInv) => Inv
  BY DEF TypeInv, ReceiptsInv, AttemptInv, NamesInv, Own, Inv, ExactCall
<1> QED
  BY <1>1, ReceiptsInductive, PTL

-----------------------------------------------------------------------------
(* The refinement of AttemptReceipts *)

\* The line of an attempt, in terms of its own call.
LineFacts ==
  \A a \in Attempts :
    /\ LineOf(a) = "new" <=> \A c \in DOMAIN calls : ~Own(a, c)
    /\ LineOf(a) = "up" <=> current \in DOMAIN calls /\ Own(a, current)
    /\ LineOf(a) \in {"new", "up", "over"}

LEMMA Lines == CallsInv => LineFacts
<1> SUFFICES ASSUME CallsInv, NEW a \in Attempts
             PROVE  /\ LineOf(a) = "new" <=> \A c \in DOMAIN calls : ~Own(a, c)
                    /\ LineOf(a) = "up" <=> current \in DOMAIN calls /\ Own(a, current)
                    /\ LineOf(a) \in {"new", "up", "over"}
  BY DEF LineFacts
<1>1. OwnCalls(a) = {c \in DOMAIN calls : Own(a, c)}
  BY DEF OwnCalls, Own
<1>2. \A c \in OwnCalls(a) : calls[c].end = "up" <=> c = current
  BY DEF OwnCalls, CallsInv
<1>3. CASE OwnCalls(a) = {}
  BY <1>1, <1>3 DEF LineOf
<1>4. CASE OwnCalls(a) # {} /\ \E c \in OwnCalls(a) : calls[c].end = "up"
  BY <1>1, <1>2, <1>4 DEF LineOf
<1>5. CASE OwnCalls(a) # {} /\ ~\E c \in OwnCalls(a) : calls[c].end = "up"
  <2>1. LineOf(a) = "over"
    BY <1>5 DEF LineOf
  <2> QED
    BY <1>1, <1>2, <1>5, <2>1
<1> QED
  BY <1>3, <1>4, <1>5

\* outcome() matches the call that the row finds.
LEMMA MatchedFinds ==
  ASSUME TypeInv, BaseInv, ReceiptsInv, Undisturbed, NEW a \in Attempts,
         receipt[a].status # "none", Open(a), NEW c \in DOMAIN calls,
         Own(a, c), calls[c].end = "audited", Finds(receipt[a], c)
  PROVE  Matched(receipt[a], Number[a]).call = c
<1> DEFINE row == receipt[a]
           ended == {d \in Audited \ row.past : /\ calls[d].number = Number[a]
                                              /\ calls[d].generation = row.generation}
<1>1. row \in Row /\ NoCall \notin DOMAIN calls
  BY DEF TypeInv, TypeOK, NoCall
<1>2. CASE row.call = c
  BY <1>1, <1>2 DEF Matched
<1>3. CASE row.call = NoCall /\ c \notin row.past /\ calls[c].generation = row.generation
  <2>1. c \in ended
    BY <1>3, NobodyAssumption DEF Audited, BaseInv, CallsInv, Own
  <2>2. \A d \in ended : d = c
    <3>1. \A b \in Attempts : a \in Before[b] => receipt[b].status = "none"
      BY <1>3 DEF Open, ReceiptsInv, AttemptInv, AskedInv
    <3>2. \A d \in ended : Own(a, d)
      BY <3>1, NumberedKin DEF Audited
    <3> QED
      BY <3>2, OwnCall DEF Audited, BaseInv
  <2>3. ended = {c}
    BY <2>1, <2>2
  <2>4. Cardinality(ended) = 1 /\ (CHOOSE d \in ended : TRUE) = c
    BY <2>3, FS_Singleton
  <2>5. Matched(row, Number[a]) = [row EXCEPT !.call = c]
    BY <1>3, <2>4 DEF Matched
  <2> QED
    BY <1>1, <2>5 DEF Row
<1> QED
  BY <1>2, <1>3 DEF Finds

\* An answer of outcome() is what the promise allows: a certain one is repeated,
\* and none is certain while the attempt's call is up.
LEMMA AskTells ==
  ASSUME TypeInv, BaseInv, ReceiptsInv, Undisturbed, NEW a \in Attempts, Ask(a)
  PROVE  \/ told' = told
         \/ \E answer \in Promise!Answers :
              /\ told[a].answer \in Promise!Certain => answer = told[a].answer
              /\ answer \in Promise!Certain => LineOf(a) # "up"
              /\ answer = "talked" => LineOf(a) = "over"
              /\ \E call \in CallId : told' = [told EXCEPT ![a] = [answer |-> answer, call |-> call]]
<1> DEFINE row == Matched(receipt[a], Number[a])
           answer == Judge(row).answer
<1>0. CallsInv /\ AttemptInv(a) /\ LineFacts /\ receipt[a].status # "none" /\ Open(a)
  BY Lines DEF BaseInv, ReceiptsInv, Ask
<1>1. /\ row \in Row /\ row.result = receipt[a].result
      /\ row.call # NoCall => Own(a, row.call)
  <2>1. row \in Row /\ receipt[a] \in Row /\ NoCall \notin DOMAIN calls
    BY MatchedTyped DEF TypeInv, TypeOK, NoCall
  <2>2. CASE row = receipt[a]
    BY <1>0, <2>1, <2>2 DEF AttemptInv, NamesInv
  <2>3. CASE \E c \in DOMAIN calls : Own(a, c) /\ row = [receipt[a] EXCEPT !.call = c]
    <3> HIDE DEF row
    <3> QED
      BY <2>1, <2>3 DEF Row
  <2> QED
    BY <1>0, <2>2, <2>3, MatchedOwn
<1>2. CASE receipt[a].outcome # NoOutcome
  <2>1. told[a] = receipt[a].outcome /\ told' = [told EXCEPT ![a] = receipt[a].outcome]
    BY <1>0, <1>2 DEF Ask, AttemptInv, ToldInv
  <2> QED
    BY <2>1 DEF TypeInv, TypeOK
<1>3. CASE receipt[a].outcome = NoOutcome /\ told' # told
  <2>1. told' = [told EXCEPT ![a] = Judge(row)]
    BY <1>3 DEF Ask
  <2>2. /\ Judge(row) = [answer |-> answer, call |-> row.call] /\ row.call \in CallId
        /\ answer \in Promise!Answers
    BY <1>1 DEF Judge, Row, Promise!Answers
  <2> HIDE DEF row, answer
  <2>3. HasEnded(row) => /\ answer = Verdict(calls[row.call])
                         /\ LineOf(a) = "over"
    <3> SUFFICES ASSUME HasEnded(row) PROVE answer = Verdict(calls[row.call]) /\ LineOf(a) = "over"
      OBVIOUS
    <3>1. Own(a, row.call) /\ calls[row.call].end = "audited"
      BY <1>1 DEF HasEnded
    <3>2. row.result = "ok" => calls[row.call].answered
      BY <1>0, <1>1, <3>1, OwnCall DEF AttemptInv, ResultInv, Own
    <3>3. answer = Verdict(calls[row.call])
      BY <1>1, <3>2, JudgedOwn DEF answer
    <3>4. LineOf(a) = "over"
      BY <1>0, <3>1, OwnCall DEF LineFacts, CallsInv, Own
    <3> QED
      BY <3>3, <3>4
  <2>4. ~HasEnded(row) => answer # "talked" /\ (answer = "missed" => row.result = "refused")
    BY <1>1, JudgedUnended DEF answer
  <2>5. row.result = "refused" => LineOf(a) # "up"
    BY <1>0, <1>1 DEF LineFacts, AttemptInv, ResultInv
  <2>6. told[a].answer \in Promise!Certain => answer = told[a].answer
    <3> SUFFICES ASSUME told[a].answer \in Promise!Certain PROVE answer = told[a].answer
      OBVIOUS
    <3>1. PICK c \in DOMAIN calls :
            /\ Own(a, c) /\ calls[c].end = "audited"
            /\ Verdict(calls[c]) = told[a].answer /\ Finds(receipt[a], c)
      BY <1>0, <1>3 DEF AttemptInv, ToldInv, Settled
    <3>2. row.call = c
      BY <1>0, <3>1, MatchedFinds DEF row
    <3>3. HasEnded(row)
      BY <3>1, <3>2 DEF HasEnded, TypeInv, TypeOK, NoCall
    <3> QED
      BY <2>3, <3>1, <3>2, <3>3
  <2> QED
    BY <2>1, <2>2, <2>3, <2>4, <2>5, <2>6 DEF Promise!Certain
<1> QED
  BY <1>2, <1>3

\* The lines that a step does not touch.
LEMMA LineStays ==
  ASSUME LineFacts, LineFacts', NEW a \in Attempts,
         \A c : Own(a, c)' <=> Own(a, c),
         \A c \in DOMAIN calls : Own(a, c) => (c = current' <=> c = current)
  PROVE  LineOf(a)' = LineOf(a)
BY DEF LineFacts, Own

\* Each step is a step of the promise, or changes nothing that it is about.
LEMMA ReceiptsKeptStep ==
  ASSUME TypeInv, BaseInv, ReceiptsInv, Undisturbed, BaseInv', [Next]_vars
  PROVE  [Promise!ReceiptsNext]_(Promise!receiptVars)
<1> DEFINE line == [a \in Attempts |-> LineOf(a)]
           answers == [a \in Attempts |-> told[a].answer]
<1>0. LineFacts /\ LineFacts' /\ told \in [Attempts -> Outcome]
      /\ NoCall \notin DOMAIN calls
  <2>1. CallsInv /\ CallsInv'
    BY DEF BaseInv
  <2>2. LineFacts /\ LineFacts'
    BY <2>1, Lines, PTL
  <2> QED
    BY <2>2 DEF TypeInv, TypeOK, NoCall
<1>1. ASSUME line' = line, answers' = answers PROVE UNCHANGED Promise!receiptVars
  BY <1>1 DEF Promise!receiptVars
<1>2. ASSUME UNCHANGED <<calls, current>>
      PROVE  \A a \in Attempts : LineOf(a)' = LineOf(a)
  BY <1>0, <1>2, LineStays DEF Own
<1>3. ASSUME NEW by \in Attempts \cup {Nobody}, NEW number \in Range(Number) \cup Callers,
             NewCall(by, number)
      PROVE  /\ \A a \in Attempts : a # by => LineOf(a)' = LineOf(a)
             /\ by \in Attempts => LineOf(by)' = "up"
  <2>1. /\ calls' \in Seq(Call) /\ Len(calls') = Len(calls) + 1
        /\ \A c \in DOMAIN calls : calls'[c] = calls[c]
        /\ calls'[Len(calls) + 1] =
             [by |-> by, number |-> number, generation |-> generation + 1,
              answered |-> FALSE, heard |-> FALSE, lost |-> FALSE, end |-> "up"]
    BY <1>3, NewCallStep
  <2>2. /\ Len(calls) \in Nat /\ DOMAIN calls = 1..Len(calls)
        /\ current = NoCall /\ current' = Len(calls) + 1
    BY <1>3 DEF NewCall, TypeInv, TypeOK
  <2>3. /\ DOMAIN calls' = DOMAIN calls \cup {current'} /\ current' \notin DOMAIN calls
        /\ calls'[current'].by = by
    BY <2>1, <2>2
  <2>4. ASSUME NEW a \in Attempts, a # by PROVE LineOf(a)' = LineOf(a)
    <3>1. \A c : Own(a, c)' <=> Own(a, c)
      BY <2>1, <2>3, <2>4 DEF Own
    <3>2. \A c \in DOMAIN calls : c # current' /\ c # current
      BY <1>0, <2>2, <2>3
    <3> QED
      BY <1>0, <3>1, <3>2, LineStays
  <2>5. ASSUME by \in Attempts PROVE LineOf(by)' = "up"
    BY <1>0, <2>3, <2>5 DEF LineFacts, Own
  <2> QED
    BY <2>4, <2>5
<1>4. CASE Talk \/ Ended \/ (\E c \in CallId : Audit(c)) \/ Restart
  <2>1. /\ DOMAIN calls' = DOMAIN calls
        /\ \A c \in DOMAIN calls : Ages(calls[c], calls'[c], c = current)
        /\ current' \in {current, NoCall} /\ told' = told
    BY <1>4, CallsChange DEF Talk, Ended, Audit, Restart
  <2>2. \A a, c : Own(a, c)' <=> Own(a, c)
    BY <2>1 DEF Own, Ages
  <2>3. ASSUME NEW a \in Attempts, ~Own(a, current) \/ current' = current
        PROVE  LineOf(a)' = LineOf(a)
    BY <1>0, <2>1, <2>2, <2>3, LineStays
  <2>4. CASE current' = current \/ \A a \in Attempts : ~Own(a, current)
    BY <1>1, <2>1, <2>3, <2>4
  <2>5. ASSUME NEW a \in Attempts, current' # current, Own(a, current)
        PROVE  Promise!HangUp(a)
    <3>1. LineOf(a) = "up"
      BY <1>0, <2>5 DEF LineFacts, Own
    <3>2. LineOf(a)' = "over"
      <4>1. PICK c \in DOMAIN calls' : Own(a, c)'
        BY <2>1, <2>2, <2>5 DEF Own
      <4>2. current' \notin DOMAIN calls'
        BY <1>0, <2>1, <2>5
      <4> QED
        BY <1>0, <4>1, <4>2 DEF LineFacts
    <3>3. \A b \in Attempts : b # a => LineOf(b)' = LineOf(b)
      BY <2>3, <2>5 DEF Own
    <3> QED
      BY <2>1, <3>1, <3>2, <3>3 DEF Promise!HangUp
  <2> QED
    BY <2>4, <2>5 DEF Promise!ReceiptsNext
<1>5. ASSUME NEW a \in Attempts, Dialed(a) PROVE Promise!Place(a)
  <2>1. Number[a] \in Range(Number) /\ a # Nobody
    BY NumberAssumption, NobodyAssumption DEF Range
  <2>2. /\ LineOf(a)' = "up" /\ (\A b \in Attempts : b # a => LineOf(b)' = LineOf(b))
        /\ told' = told
    BY <1>3, <1>5, <2>1 DEF Dialed
  <2>3. LineOf(a) = "new" /\ told[a].answer \notin Promise!Certain
    BY <1>0, <1>5 DEF LineFacts, Dialed, OwnCalls, Own, ReceiptsInv, AttemptInv, ToldInv
  <2> QED
    BY <2>2, <2>3 DEF Promise!Place
<1>6. ASSUME NEW n \in Callers, Incoming(n) PROVE UNCHANGED Promise!receiptVars
  BY <1>1, <1>3, <1>6, NobodyAssumption DEF Incoming
<1>7. ASSUME NEW a \in Attempts, Ask(a)
      PROVE  UNCHANGED Promise!receiptVars \/ \E answer \in Promise!Answers : Promise!Tell(a, answer)
  <2>1. UNCHANGED <<calls, current>>
    BY <1>7 DEF Ask, phoneVars
  <2>2. CASE told' = told
    BY <1>1, <1>2, <2>1, <2>2
  <2>3. CASE \E answer \in Promise!Answers :
              /\ told[a].answer \in Promise!Certain => answer = told[a].answer
              /\ answer \in Promise!Certain => LineOf(a) # "up"
              /\ answer = "talked" => LineOf(a) = "over"
              /\ \E call \in CallId : told' = [told EXCEPT ![a] = [answer |-> answer, call |-> call]]
    <3>1. PICK answer \in Promise!Answers :
              /\ told[a].answer \in Promise!Certain => answer = told[a].answer
              /\ answer \in Promise!Certain => LineOf(a) # "up"
              /\ answer = "talked" => LineOf(a) = "over"
              /\ \E call \in CallId : told' = [told EXCEPT ![a] = [answer |-> answer, call |-> call]]
      BY <2>3
    <3>2. answers' = [answers EXCEPT ![a] = answer]
      <4>1. PICK call \in CallId : told' = [told EXCEPT ![a] = [answer |-> answer, call |-> call]]
        BY <3>1
      <4>2. \A b \in Attempts : told'[b].answer = IF b = a THEN answer ELSE told[b].answer
        BY <1>0, <4>1
      <4> QED
        BY <4>2
    <3>3. line' = line
      BY <1>2, <2>1
    <3>4. Promise!Tell(a, answer)
      BY <3>1, <3>2, <3>3 DEF Promise!Tell
    <3> QED
      BY <3>1, <3>4
  <2> QED
    BY <1>7, <2>2, <2>3, AskTells
<1>8. ASSUME UNCHANGED <<calls, current, told>> PROVE UNCHANGED Promise!receiptVars
  BY <1>1, <1>2, <1>8
<1> QED
  BY <1>4, <1>5, <1>6, <1>7, <1>8
     DEF Next, vars, phoneVars, Start, LaunchEnds, SeesCall, DialEnds, AskCallback,
         Promise!ReceiptsNext

\* Through interleaved polls, overwritten receipts, restarts, retries and callbacks,
\* the daemon places an attempt at most once, never takes back a certain answer, and
\* gives none while the attempt's call is up: undisturbed, its steps are those of
\* AttemptReceipts.
THEOREM ReceiptsRefined == Spec => ReceiptsKept
<1>1. Init => Promise!ReceiptsInit
  BY DEF Init, Promise!ReceiptsInit, LineOf, OwnCalls, NoOutcome
<1> DEFINE Invs == TypeInv /\ BaseInv /\ (Undisturbed => ReceiptsInv)
<1>2. Invs /\ Invs' /\ [Next]_vars
        => [Undisturbed' => [Promise!ReceiptsNext]_(Promise!receiptVars)]_vars
  BY ReceiptsKeptStep, UndisturbedBefore
<1> HIDE DEF Invs
<1>3. Spec => []Invs
  BY ReceiptsInductive DEF Invs
<1> QED
  BY <1>1, <1>2, <1>3, PTL DEF Spec, ReceiptsKept

\* Attempts that are never disturbed are what AttemptReceipts promises.
COROLLARY ReceiptsPromised == Spec /\ []Undisturbed => Promise!Receipts
<1> DEFINE Step == [Promise!ReceiptsNext]_(Promise!receiptVars)
<1>1. ReceiptsKept => Promise!ReceiptsInit /\ [][Undisturbed' => Step]_vars
  BY DEF ReceiptsKept
<1>2. UNCHANGED vars => Step
  BY DEF vars, Promise!receiptVars, LineOf, OwnCalls
<1>3. Undisturbed' /\ [Undisturbed' => Step]_vars => Step
  BY <1>2
<1> QED
  BY <1>1, <1>3, ReceiptsRefined, PTL DEF Promise!Receipts
=============================================================================
