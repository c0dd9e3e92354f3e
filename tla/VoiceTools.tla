----------------------------- MODULE VoiceTools -----------------------------
(* The function calls of the live voice (gemini_live.py, live_ai.py): the      *)
(* model asks for an action under an id, a task of the daemon runs it through  *)
(* the request handler, and exactly one answer should reach the model, over     *)
(* connections that end, resume the same logical session or begin a new one.    *)
(*                                                                           *)
(* Whoever resolves a call does so under _request_resolution_lock and keeps it  *)
(* while the answer is sent (turn): the task with the result, the deadline, the *)
(* receiver, or the responder of a cancellation by the client.                *)
EXTENDS LiveVoice

CONSTANTS Ids,            \* the ids the model gives its function calls
          Tool,           \* [Ids -> Tools]: the function that each of them calls
          MaxEra,         \* provider sessions
          MaxDraining     \* direct tasks that may still run beside an ordinary one

\* The controls (PHONE_TOOL_NAMES) are told apart, the other functions are not.
Ordinary == "ordinary"
Tools == {Ordinary, "phone_session", "phone_status"}

ASSUME ToolAssumption == Tool \in [Ids -> Tools] /\ MaxDraining \in Nat

VARIABLES
  book,     \* what the daemon remembers of each id
  runs,     \* the direct task of each call
  turn,     \* who holds _request_resolution_lock while an answer is sent
  replies,  \* _tool_resolution_tasks: the responders of cancellations
  gem       \* the model's side of the logical session (external)

tools == <<book, runs, turn, replies, gem>>
vars == <<voice, tools, bound>>

Eras == 1..MaxEra
Runs == Ids \X Eras
NoAnswer == [answer |-> "none", era |-> 0]
NoTurn == [who |-> "none", id |-> "none", era |-> 0, answer |-> "none", open |-> FALSE]
\* doomed: cancelled, but not at its next await yet; mixed: it began while the task
\* of an earlier use of its id still ran.
NoRun == [pc |-> "none", doomed |-> FALSE, mixed |-> FALSE]
NoBook == [pending |-> [i \in Ids |-> 0],     \* _pending: 0, or the era of the request
           known |-> [i \in Ids |-> "none"],   \* _known_request_states
           outbox |-> [i \in Ids |-> NoAnswer],
           timers |-> [i \in Ids |-> 0],
           tasks |-> [i \in Ids |-> 0]]        \* _direct_requests
NoCalls == [asked |-> {}, settled |-> {}, again |-> {}, told |-> [i \in Ids |-> {}]]

InitTools ==
  /\ Init
  /\ book = NoBook
  /\ runs = [r \in Runs |-> NoRun]
  /\ turn = NoTurn
  /\ replies = {}
  /\ gem = NoCalls

Free == turn = NoTurn
Live(r) == runs[r].pc \notin {"none", "done"}
Era == link.era
Pending == {i \in Ids : book.pending[i] # 0}
Draining == {i \in Ids : book.tasks[i] # 0}
SessionCalls == {i \in Ids : Tool[i] = "phone_session"}
Resolved == {"completed", "cancelled", "stale", "expired"}

\* Cancels the tasks that _direct_requests has for the ids of I.
Cancelling(I) == [r \in Runs |-> IF r[1] \in I /\ book.tasks[r[1]] = r[2] /\ Live(r)
                                 THEN [runs[r] EXCEPT !.doomed = TRUE] ELSE runs[r]]

\* Mutant: a resolved id is forgotten.
RetiredUnknown(b, I, state) ==
  [b EXCEPT !.pending = [i \in Ids |-> IF i \in I THEN 0 ELSE @[i]],
            !.known = [i \in Ids |-> IF i \in I THEN "none" ELSE @[i]]]

\* The requests of I leave _pending in a terminal state; their tasks are cancelled.
Retired(b, I, state) ==
  [b EXCEPT !.pending = [i \in Ids |-> IF i \in I THEN 0 ELSE @[i]],
            !.known = [i \in Ids |-> IF i \in I THEN state ELSE @[i]]]
\* The deadlines and responders are cancelled (_cancel_all_tool_tasks).
Untimed(b) == [b EXCEPT !.timers = NoBook.timers]
\* Mutant: the answers of the lost session stay cached.
ForgetsRequests(b) == [Untimed(b) EXCEPT !.pending = NoBook.pending, !.known = NoBook.known]
\* The scope of a logical session is over (_invalidate_tool_scope, _run_provider).
Forgotten(b) == [Untimed(b) EXCEPT !.pending = NoBook.pending, !.known = NoBook.known,
                                   !.outbox = NoBook.outbox]
Cached(b, i, answer) == [b EXCEPT !.outbox[i] = [answer |-> answer, era |-> Era]]
Timeless(b, i) == [b EXCEPT !.timers[i] = 0]

\* An answer reaches the model, which settles the call.
Told(i, answer) == gem' = [gem EXCEPT !.told[i] = @ \cup {answer}, !.settled = @ \cup {i}]
Takes(who, i, era, answer) ==
  turn' = [who |-> who, id |-> i, era |-> era, answer |-> answer, open |-> link.up]

-----------------------------------------------------------------------------
(* The voice and its calls *)
\* The connection ends, and with it what the senders of W were about.
Dropped(W) == turn' = IF turn.who \in W THEN NoTurn ELSE [turn EXCEPT !.open = FALSE]

\* A voice step that leaves the calls alone.
Quiet ==
  /\ \/ \E c \in Starters : \/ StartCalled(c) \/ StartLocked(c) \/ StartChecked(c)
                            \/ StartPrepared(c) \/ StartRefused(c) \/ StreamAcquired(c)
                            \/ StartReady(c) \/ StartTimeout(c) \/ StartFails(c)
     \/ \E c \in Stoppers : StopSignalled(c) \/ StopCalled(c) \/ StopSkipped(c) \/ StopShut(c)
     \/ \E c \in Callers : SessionReleased(c)
     \/ ProviderUnborn \/ ProviderServes \/ ProviderLeaves \/ ProviderClosed
     \/ ProviderReleased \/ ChooseSame \/ BackedOff \/ ResetAsked
     \/ \E h \in BOOLEAN : HandleUpdated(h)
  /\ UNCHANGED tools

\* A session begins: the model offers its unsettled calls again when it resumes.
Connects ==
  /\ Connected
  /\ gem' = [gem EXCEPT !.again = IF sup.resumes THEN gem.asked \ gem.settled ELSE {}]
  /\ UNCHANGED <<book, runs, turn, replies>>

\* The receiver ends with its session.
Disconnects ==
  /\ \/ \E stable \in BOOLEAN : AttemptFails(stable)
     \/ ResetTaken
  /\ Dropped({"receiver"})
  /\ gem' = [gem EXCEPT !.again = {}]
  /\ UNCHANGED <<book, runs, replies>>

NewScope ==
  /\ book' = Forgotten(book)
  /\ runs' = Cancelling(Pending)
  /\ replies' = {}
  /\ gem' = NoCalls

\* Cold reconnect: whoever has the lock finishes first.
Invalidates == ChooseNew /\ Free /\ link.era < MaxEra /\ NewScope /\ UNCHANGED turn

BeginsProvider == ProviderBegins /\ link.era < MaxEra /\ NewScope /\ UNCHANGED turn

\* The provider task cleans up; without a stop the requests become stale.
Ceases ==
  /\ ProviderLost \/ ProviderLeft \/ SupervisorReturns \/ SupervisorFails \/ SupervisorStops
  /\ LET I == IF Halted THEN {} ELSE Pending
     IN  book' = Untimed(Retired(book, I, "stale")) /\ runs' = Cancelling(I)
  /\ Dropped({"receiver", "timer", "client"})
  /\ replies' = {}
  /\ gem' = [gem EXCEPT !.again = {}]

LocksStop(c) ==
  /\ StopLocked(c)
  /\ book' = Retired(book, Pending, "stale")
  /\ runs' = Cancelling(Pending)
  /\ UNCHANGED <<turn, replies, gem>>

ClosesRequests(c) ==
  /\ SessionClosing(c)
  /\ runs' = Cancelling(Draining)
  /\ UNCHANGED <<book, turn, replies, gem>>

\* Mutant: the requests are cancelled but not awaited.
ClosesAtOnce(c) ==
  /\ SessionClosed(c)
  /\ book' = [Untimed(book) EXCEPT !.outbox = NoBook.outbox]
  /\ Dropped({"timer", "client"})
  /\ replies' = {}
  /\ UNCHANGED <<runs, gem>>
ClosesSession(c) ==
  /\ SessionClosed(c)
  /\ Draining = {}
  /\ book' = [Untimed(book) EXCEPT !.outbox = NoBook.outbox]
  /\ Dropped({"timer", "client"})
  /\ replies' = {}
  /\ UNCHANGED <<runs, gem>>

-----------------------------------------------------------------------------
(* The receiver: calls and cancellations of the model *)
Receiving == sup.pc = "live" /\ ~life.halted /\ ~link.reset /\ Free

\* The model calls i, or offers it again.  A new session may use an id of an earlier one.
Offered(i) ==
  \/ /\ i \notin gem.asked /\ bound.calls > 0
     /\ bound' = [bound EXCEPT !.calls = @ - 1]
  \/ i \in gem.again /\ UNCHANGED bound
Offers(i) == gem' = [gem EXCEPT !.asked = @ \cup {i}, !.again = @ \ {i}]

\* A control is refused by a pending call of the same control, another call by a
\* pending one that is no control; tasks that still run have a limit, for controls
\* twice that of the others.
Busy(i) == \/ \E j \in Pending : Tool[j] = Tool[i]
           \/ Cardinality(Draining) >= IF Tool[i] = Ordinary THEN MaxDraining ELSE 2 * MaxDraining

Redelivers(i) ==
  /\ book.outbox[i] # NoAnswer
  /\ Takes("receiver", i, Era, book.outbox[i].answer)
  /\ UNCHANGED <<book, runs>>
Ignores(i) ==
  /\ book.outbox[i] = NoAnswer /\ book.known[i] = "pending"
  /\ UNCHANGED <<book, runs, turn>>
\* The id is resolved; the action is not repeated.
Repeats(i) ==
  /\ book.outbox[i] = NoAnswer /\ book.known[i] \in Resolved
  /\ book' = Cached(book, i, "repeat")
  /\ Takes("receiver", i, Era, "repeat")
  /\ UNCHANGED runs
\* Not declared for this caller, malformed, a hang-up too early, or busy.
Refuses(i) ==
  /\ book.outbox[i] = NoAnswer /\ book.known[i] = "none"
  /\ book' = [Cached(book, i, "refused") EXCEPT !.known[i] = "completed"]
  /\ Takes("receiver", i, Era, "refused")
  /\ UNCHANGED runs
Accepts(i) ==
  /\ book.outbox[i] = NoAnswer /\ book.known[i] = "none" /\ ~Busy(i)
  /\ book' = [book EXCEPT !.pending[i] = Era, !.known[i] = "pending", !.timers[i] = Era,
                          !.tasks[i] = Era]
  /\ runs' = [runs EXCEPT ![<<i, Era>>] = [pc |-> "created", doomed |-> FALSE,
                                            mixed |-> \E e \in Eras : Live(<<i, e>>)]]
  /\ UNCHANGED turn

ToolCall(i) ==
  /\ Receiving /\ Offered(i) /\ Offers(i)
  /\ Redelivers(i) \/ Ignores(i) \/ Repeats(i) \/ Refuses(i) \/ Accepts(i)
  /\ UNCHANGED <<voice, replies>>

\* The model takes a call back: no answer, and a session change is finished.
ToolCancelled(i) ==
  LET b == Timeless([book EXCEPT !.outbox[i] = NoAnswer], i)
      held == i \in Pending
  IN  /\ Receiving /\ i \in gem.asked \ gem.settled /\ bound.cancels > 0
      /\ bound' = [bound EXCEPT !.cancels = @ - 1]
      /\ gem' = [gem EXCEPT !.settled = @ \cup {i}, !.again = @ \ {i}]
      /\ book' = IF held THEN Retired(b, {i}, "cancelled") ELSE b
      /\ runs' = IF held /\ i \notin SessionCalls THEN Cancelling({i}) ELSE runs
      /\ UNCHANGED <<voice, turn, replies>>

\* A client of the daemon cancels a call; the model is to be told.
ClientCancels(i) ==
  /\ i \in Pending /\ bound.cancels > 0
  /\ bound' = [bound EXCEPT !.cancels = @ - 1]
  /\ book' = Timeless(Retired(book, {i}, "cancelled"), i)
  /\ runs' = Cancelling({i})
  /\ replies' = IF link.up THEN replies \cup {<<i, book.pending[i]>>} ELSE replies
  /\ UNCHANGED <<voice, turn, gem>>

-----------------------------------------------------------------------------
(* The direct task of a call *)
\* After the answer, a session change asks for a new context.
After(i) == IF i \in SessionCalls THEN "refreshing" ELSE "done"
\* The done callback forgets whatever task has the id.
Ended(b, i, pc) == IF pc = "done" THEN [b EXCEPT !.tasks[i] = 0] ELSE b
RunGoes(r, pc) == runs' = [runs EXCEPT ![r].pc = pc]

RunBegins(r) ==
  /\ runs[r].pc = "created" /\ ~runs[r].doomed
  /\ RunGoes(r, "running")
  /\ UNCHANGED <<voice, book, turn, replies, gem, bound>>

HandlerReturns(r) ==
  LET pc == IF r[1] \in Pending THEN "answering" ELSE After(r[1])
  IN  /\ runs[r].pc = "running" /\ ~runs[r].doomed
      /\ RunGoes(r, pc)
      /\ book' = Ended(book, r[1], pc)
      /\ UNCHANGED <<voice, turn, replies, gem, bound>>

\* submit_result() with the lock: nothing to answer, or nobody to answer to.
AnswerDropped(r) ==
  LET i == r[1]
  IN  /\ runs[r].pc = "answering" /\ ~runs[r].doomed /\ Free
      /\ i \notin Pending \/ life.state # "running" \/ ~life.task
      /\ RunGoes(r, After(i))
      /\ book' = Ended(book, i, After(i))
      /\ UNCHANGED <<voice, turn, replies, gem, bound>>

AnswerBegins(r) ==
  /\ runs[r].pc = "answering" /\ ~runs[r].doomed /\ Free
  /\ r[1] \in Pending /\ life.state = "running" /\ life.task
  /\ book' = Cached(book, r[1], "done")
  /\ RunGoes(r, "sending") /\ Takes("task", r[1], r[2], "done")
  /\ UNCHANGED <<voice, replies, gem, bound>>

\* The deadline has passed before the result was there, but not yet been noticed.
AnswerLate(r) ==
  /\ runs[r].pc = "answering" /\ ~runs[r].doomed /\ Free
  /\ r[1] \in Pending /\ book.timers[r[1]] # 0
  /\ book' = Cached([book EXCEPT !.pending[r[1]] = 0], r[1], "expired")
  /\ RunGoes(r, "sending") /\ Takes("task", r[1], r[2], "expired")
  /\ UNCHANGED <<voice, replies, gem, bound>>

\* The task goes on after its answer was sent, or could not be.
Resumes(r) ==
  IF runs[r].doomed THEN [runs EXCEPT ![r].pc = "done"] ELSE [runs EXCEPT ![r].pc = After(r[1])]

\* A cancelled task ends at its await; the handler has cleaned up by then.
RunCancelled(r) ==
  /\ Live(r) /\ runs[r].doomed
  /\ RunGoes(r, "done")
  /\ book' = [book EXCEPT !.tasks[r[1]] = 0]
  /\ IF runs[r].pc = "sending"
     THEN \* the answer it was sending may have left
          /\ turn' = NoTurn
          /\ UNCHANGED gem \/ (turn.open /\ Told(r[1], turn.answer))
     ELSE UNCHANGED <<turn, gem>>
  /\ UNCHANGED <<voice, replies, bound>>

Refreshes(r) ==
  /\ runs[r].pc = "refreshing" /\ ~runs[r].doomed
  /\ RunGoes(r, "done")
  /\ book' = [book EXCEPT !.tasks[r[1]] = 0]
  /\ link' = IF Halted THEN link ELSE [link EXCEPT !.handle = FALSE, !.reset = TRUE]
  /\ UNCHANGED <<life, lock, call, exit, prov, sup, media, turn, replies, gem, bound>>

-----------------------------------------------------------------------------
(* The deadline and the responder of a cancellation *)
DeadlinePasses(i) ==
  /\ book.timers[i] # 0 /\ Free
  /\ IF i \in Pending
     THEN /\ book' = Cached([book EXCEPT !.pending[i] = 0], i, "expired")
          /\ Takes("timer", i, book.pending[i], "expired")
     ELSE book' = Timeless(book, i) /\ UNCHANGED turn
  /\ UNCHANGED <<voice, runs, replies, gem, bound>>

Responds(p) ==
  /\ p \in replies /\ Free
  /\ replies' = replies \ {p}
  /\ book' = Cached(book, p[1], "cancelled")
  /\ Takes("client", p[1], p[2], "cancelled")
  /\ UNCHANGED <<voice, runs, gem, bound>>

-----------------------------------------------------------------------------
(* The answer is sent, or cannot be: what its sender does next *)
Completed(b, i) == Timeless(Retired(b, {i}, "completed"), i)

\* The expired request's task is cancelled, unless it is the one that noticed.
Expires(i) ==
  book' = Timeless([book EXCEPT !.known[i] = "expired"], i)

AfterTask(sent) ==
  LET i == turn.id  r == <<turn.id, turn.era>>
  IN  /\ turn.who = "task" /\ ~runs[r].doomed
      /\ runs' = Resumes(r)
      /\ LET b == IF turn.answer = "expired" THEN [book EXCEPT !.known[i] = "expired"]
                  ELSE IF sent /\ i \in Pending THEN Completed(book, i) ELSE book
         IN  book' = Ended(b, i, runs'[r].pc)

\* Mutant: the task of an expired request goes on.
AfterTimerLeaves ==
  /\ turn.who = "timer"
  /\ UNCHANGED runs
  /\ Expires(turn.id)
AfterTimer ==
  /\ turn.who = "timer"
  /\ runs' = Cancelling({turn.id})
  /\ Expires(turn.id)

\* A cached answer that was sent again resolves the request that waits.
AfterReceiver ==
  /\ turn.who = "receiver"
  /\ book' = IF turn.id \in Pending THEN Completed(book, turn.id) ELSE book
  /\ UNCHANGED runs

AfterClient == turn.who = "client" /\ UNCHANGED <<book, runs>>

Sent ==
  /\ turn.open
  /\ AfterTask(TRUE) \/ AfterTimer \/ AfterReceiver \/ AfterClient
  /\ Told(turn.id, turn.answer)
  /\ turn' = NoTurn
  /\ UNCHANGED <<voice, replies, bound>>

\* The session is gone (the receiver's turn ends with it).
NotSent ==
  /\ ~turn.open
  /\ AfterTask(FALSE) \/ AfterTimer \/ AfterClient
  /\ turn' = NoTurn
  /\ UNCHANGED <<voice, replies, gem, bound>>

-----------------------------------------------------------------------------
NextVoice ==
  \/ Quiet \/ Connects \/ Disconnects \/ Invalidates \/ BeginsProvider \/ Ceases
  \/ \E c \in Callers : LocksStop(c) \/ ClosesRequests(c) \/ ClosesSession(c)
NextRun ==
  \E r \in Runs : \/ RunBegins(r) \/ HandlerReturns(r) \/ AnswerDropped(r) \/ AnswerBegins(r)
                  \/ RunCancelled(r) \/ Refreshes(r)
NextCall ==
  \/ \E i \in Ids : \/ ToolCall(i) \/ ToolCancelled(i) \/ ClientCancels(i)
                    \/ DeadlinePasses(i)
  \/ \E r \in Runs : AnswerLate(r)
  \/ \E p \in Runs : Responds(p)
  \/ Sent \/ NotSent

Next == NextVoice \/ NextRun \/ NextCall
Spec == InitTools /\ [][Next]_vars

\* What the event loop, the timers and the peers bring about: attempts to connect
\* and sends end, deadlines pass.  A handler may take as long as it likes, but a session
\* change, which has no deadline once the model took it back, comes to its end.
Progress ==
  \/ \E c \in Starters : \/ StartLocked(c) \/ StartChecked(c) \/ StartPrepared(c)
                         \/ StreamAcquired(c) \/ StartReady(c) \/ StartTimeout(c)
                         \/ StartFails(c)
  \/ \E c \in Stoppers : \/ call[c] = "signalled" /\ StopCalled(c)
                         \/ StopSkipped(c) \/ StopShut(c) \/ LocksStop(c)
  \/ \E c \in Callers : SessionReleased(c) \/ ClosesRequests(c) \/ ClosesSession(c)
  \/ ProviderUnborn \/ ProviderServes \/ ProviderLeaves \/ ProviderClosed
  \/ ProviderReleased \/ ChooseSame \/ BackedOff
  \/ Connects \/ Disconnects \/ Invalidates \/ BeginsProvider
  \/ ProviderLeft \/ SupervisorReturns \/ SupervisorStops
  \/ \E r \in Runs : \/ RunBegins(r) \/ AnswerDropped(r) \/ AnswerBegins(r)
                     \/ RunCancelled(r) \/ Refreshes(r) \/ Responds(r)
                     \/ r[1] \in SessionCalls /\ HandlerReturns(r)
  \/ \E i \in Ids : DeadlinePasses(i)
  \/ Sent \/ NotSent
LiveSpec == Spec /\ WF_vars(Next /\ Progress)

-----------------------------------------------------------------------------
(* Properties *)
RunStates == {"none", "created", "running", "answering", "sending", "refreshing", "done"}
Answers == {"done", "expired", "cancelled", "refused", "repeat"}

TypeOK ==
  /\ life.state \in LiveStates \cup {"stopped", "stopping", "failed"}
  /\ book.pending \in [Ids -> 0..MaxEra] /\ book.timers \in [Ids -> 0..MaxEra]
  /\ book.tasks \in [Ids -> 0..MaxEra]
  /\ book.known \in [Ids -> Resolved \cup {"none", "pending"}]
  /\ \A i \in Ids : book.outbox[i].answer \in Answers \cup {"none"}
  /\ \A r \in Runs : runs[r].pc \in RunStates
  /\ replies \subseteq Runs
  /\ gem.told \in [Ids -> SUBSET Answers]

\* While a session is connected nothing of an earlier logical session waits for a
\* result, is cached as an answer or is about to expire.
ScopeFresh ==
  sup.pc = "live" =>
    \A i \in Ids : /\ book.pending[i] \in {0, Era} /\ book.timers[i] \in {0, Era}
                   /\ book.outbox[i].era \in {0, Era}

\* The model hears that an action is done only when the handler of this very call,
\* not of one that had the id in an earlier session, has returned; unless the model
\* used the id again while a session change it had taken back was still being made.
Truthful ==
  \A i \in Ids : "done" \in gem.told[i] =>
    \/ runs[<<i, Era>>].pc \in {"sending", "refreshing", "done"}
    \/ i \in SessionCalls /\ runs[<<i, Era>>].mixed

\* Refuted by TLC: "A provider session may legitimately reuse an ID after a physical or
\* cold-session rotation": the answer of a call is that of its own handler.
TruthfulToAll ==
  \A i \in Ids : "done" \in gem.told[i] => runs[<<i, Era>>].pc \in {"sending", "refreshing", "done"}

\* Over redeliveries and resumed sessions, one call never hears two different answers,
\* unless a client cancels it while the result is on its way.
AnswersAgree == \A i \in Ids : Cardinality(gem.told[i] \ {"cancelled"}) <= 1

\* No two tasks of this id ran at the same time.  The one that ends first takes the
\* other's entry in _direct_requests with it, which nobody cancels or awaits any more.
Apart(i) == \A e \in Eras : ~runs[<<i, e>>].mixed

\* When stop() has returned, no call of the model is still being run, unless tasks of
\* its id overlapped, nor expired or answered, and the media stream of the session was
\* given back, unless the server refused; a start that another one preceded may have
\* lost the name of its stream.
QuietAfterStop ==
  lock = <<>> /\ life.state = "stopped" =>
    /\ \A r \in Runs : Apart(r[1]) => ~Live(r)
    /\ book.timers = NoBook.timers /\ replies = {} /\ Pending = {}
    /\ \/ Cardinality({c \in Starters : call[c] # "idle"}) # 1
       \/ bound.refusals = 0
       \/ media.held = {}

\* What every state satisfies: the types, and the four above.
Inv == TypeOK /\ ScopeFresh /\ Truthful /\ AnswersAgree /\ QuietAfterStop

\* However often a resumed session offers a call again, its action is begun once.
RunsOnce == [][\A r \in Runs : runs[r].pc \notin {"none", "created"}
                                => runs'[r].pc # "created"]_vars

\* In the end start() and stop() have returned, every call is resolved, and a stop that
\* no start followed has stopped the voice.  Only a provider task that ended by itself,
\* while a deadline was being answered, leaves a handler running (until stop()), and
\* tasks of one id that overlapped may.
Resting ==
  /\ lock = <<>> /\ Free /\ replies = {} /\ Pending = {}
  /\ prov.pc # "none" \/ life.asked => \A r \in Runs : Apart(r[1]) => ~Live(r)
  /\ life.asked => life.state = "stopped"
Settles == <>[]Resting
=============================================================================
