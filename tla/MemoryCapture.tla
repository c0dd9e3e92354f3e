--------------------------- MODULE MemoryCapture ---------------------------
(***************************************************************************)
(* The daemon's side of the call memory (memory_capture.py): one task per   *)
(* call checkpoints what was said with the gateway (CallMemory), finalises  *)
(* the closeout when the call is over and asks until it is told a terminal  *)
(* status, also after a restart, from the durable transcript.               *)
(*                                                                          *)
(* run and talk are in the ledger; cap is lost when the daemon restarts.    *)
(* The model is taken to extract each event's fact.                         *)
(***************************************************************************)
EXTENDS CallMemory

CONSTANTS
  MaxBatch,   \* bound: events of a checkpoint (96 in run)
  MaxWaiting  \* bound: events that wait for theirs (512 in capture)

ASSUME BatchAssumption == MaxBatch \in Nat \ {0} /\ MaxWaiting \in Nat

VARIABLES
  run,    \* call_memory_runs
  cap,    \* the MemoryCapture object and its task
  talk,   \* call_transcript
  spoken  \* history: what was said

daemon == <<run, cap, talk, spoken>>
vars == <<gateway, daemon>>

NoRun == [status |-> "none", acked |-> {}, captured |-> 0, complete |-> TRUE, ended |-> FALSE,
          finalized |-> FALSE]
Idle == [pc |-> "idle", queue |-> {}, ending |-> FALSE, batch |-> {}, unsaved |-> {}]
Off == [Idle EXCEPT !.pc = "off"]
\* The task is over; its queue is cleared.
Ends(c) == cap' = [cap EXCEPT ![c] = [Off EXCEPT !.ending = cap[c].ending, !.unsaved = cap[c].unsaved]]

Init ==
  /\ GatewayInit
  /\ run = [c \in Calls |-> NoRun]
  /\ cap = [c \in Calls |-> Off]
  /\ talk = [c \in Calls |-> {}]
  /\ spoken = [c \in Calls |-> {}]

-----------------------------------------------------------------------------
(* The call *)
InCall(c) == run[c].status # "none" /\ ~run[c].ended

\* bind and new_capture: the closeout and the task of a call that may be remembered.
BeginCall(c) ==
  /\ run[c].status = "none" /\ c <= bound.calls /\ notes.allowed
  /\ \A d \in 1..(c - 1) : run[d].ended
  /\ Begins(c)
  /\ run' = [run EXCEPT ![c].status = "pending"]
  /\ cap' = [cap EXCEPT ![c] = Idle]
  /\ UNCHANGED <<notes, inbox, work, reply, pass, edit, late, owed, written, gone, bound, talk, spoken>>

\* record_transcript: capture keeps the event, or remembers that it could not.
Speaks(c) ==
  LET e == Cardinality(spoken[c]) + 1
      fits == Cardinality(cap[c].queue) < MaxWaiting
  IN  /\ InCall(c) /\ e <= bound.events
      /\ spoken' = [spoken EXCEPT ![c] = @ \cup {e}]
      /\ run' = IF fits THEN [run EXCEPT ![c].captured = @ + 1]
                ELSE [run EXCEPT ![c].complete = FALSE]
      /\ cap' = [cap EXCEPT ![c].queue = IF fits THEN @ \cup {e} ELSE @, ![c].unsaved = @ \cup {e}]
      /\ UNCHANGED <<gateway, talk>>
\* The transcript keeps it too, a moment later.
Transcribes(c) ==
  /\ bound.retains /\ cap[c].unsaved # {}
  /\ talk' = [talk EXCEPT ![c] = @ \cup cap[c].unsaved]
  /\ cap' = [cap EXCEPT ![c].unsaved = {}]
  /\ UNCHANGED <<gateway, run, spoken>>

\* finish: the voice stops, or fails to and its last words are lost; end().
HangsUp(c) ==
  /\ InCall(c)
  /\ \E silent \in BOOLEAN :
       /\ run' = [run EXCEPT ![c].ended = TRUE, ![c].complete = @ /\ silent]
       /\ spoken' = IF silent THEN spoken
                    ELSE [spoken EXCEPT ![c] = @ \cup {Cardinality(spoken[c]) + 1}]
       /\ silent \/ Cardinality(spoken[c]) < bound.events
  /\ cap' = [cap EXCEPT ![c].ending = TRUE]
  /\ UNCHANGED <<gateway, talk>>

-----------------------------------------------------------------------------
(* The task of a call: run *)
Asks(c, op, events) ==
  inbox' = [inbox EXCEPT ![c] = @ \cup {[op |-> op, events |-> events, complete |-> run[c].complete,
                                        live |-> TRUE]}]
Prefix(S) == {e \in S : Cardinality({d \in S : d < e}) < MaxBatch}
Sends(c) ==
  LET batch == Prefix(cap[c].queue) IN
  /\ cap[c].pc = "idle"
  /\ \/ cap[c].queue # {} /\ Asks(c, "checkpoint", batch)
     \/ cap[c].queue = {} /\ cap[c].ending /\ ~run[c].finalized /\ Asks(c, "finalize", {})
     \/ cap[c].queue = {} /\ cap[c].ending /\ run[c].finalized /\ Asks(c, "status", {})
  /\ cap' = [cap EXCEPT ![c].pc = "asking", ![c].batch = batch]
  /\ UNCHANGED <<close, notes, work, reply, pass, edit, late, owed, written, gone, bound,
                 run, talk, spoken>>

\* The answer: a checkpoint is acknowledged, a status recorded, a refusal final, and an
\* error retried.
\* Mutant: finalize has been called, and that was it.
StopsAtOnce(status) == TRUE
Stops(status) == status \in TERMINAL
Acknowledges(c) ==
  /\ run' = [run EXCEPT ![c].acked = @ \cup cap[c].batch]
  /\ cap' = [cap EXCEPT ![c].pc = "idle", ![c].queue = @ \ cap[c].batch, ![c].batch = {}]
Told(c, status) ==
  /\ run' = [run EXCEPT ![c].status = status, ![c].finalized = TRUE]
  /\ IF Stops(status) THEN Ends(c) ELSE cap' = [cap EXCEPT ![c].pc = "idle", ![c].batch = {}]
Refused(c) ==
  /\ run' = [run EXCEPT ![c].status = "failed"]
  /\ Ends(c)
Fails(c) ==
  /\ run' = [run EXCEPT ![c].status = "pending"]
  /\ cap' = [cap EXCEPT ![c].pc = "idle", ![c].batch = {}]
Takes(c) ==
  /\ cap[c].pc = "asking" /\ reply[c] # "none"
  /\ reply' = [reply EXCEPT ![c] = "none"]
  /\ \/ reply[c] = "ok" /\ Acknowledges(c)
     \/ reply[c] \in TERMINAL \cup {"pending"} /\ Told(c, reply[c])
     \/ reply[c] = "refused" /\ Refused(c)
     \/ reply[c] = "error" /\ Fails(c)
  /\ UNCHANGED <<close, notes, inbox, work, pass, edit, late, owed, written, gone, bound, talk, spoken>>

\* The connection breaks: the request may never arrive, and if it did, nobody waits for it.
Abandon(q) == [q EXCEPT !.live = FALSE]
Abandons(c) ==
  /\ inbox' \in {[inbox EXCEPT ![c] = {Abandon(q) : q \in @}],
                 [inbox EXCEPT ![c] = {q \in @ : ~q.live}]}
  /\ work' = [work EXCEPT ![c].request = Abandon(@)]
  /\ reply' = [reply EXCEPT ![c] = "none"]
LosesAnswer(c) ==
  /\ cap[c].pc = "asking" /\ bound.losses > 0
  /\ Abandons(c)
  /\ Fails(c)
  /\ bound' = [bound EXCEPT !.losses = @ - 1]
  /\ UNCHANGED <<close, notes, pass, edit, late, owed, written, gone, talk, spoken>>

\* The deadline of the closeout.
GivesUp(c) ==
  /\ cap[c].pc = "idle" /\ c \in late
  /\ run' = [run EXCEPT ![c].status = "failed"]
  /\ Ends(c)
  /\ UNCHANGED <<gateway, talk, spoken>>

-----------------------------------------------------------------------------
(* recover, when the daemon starts again *)
\* What the transcript still has of the events that were not acknowledged.
Retained(c) == IF bound.retains /\ ~run[c].finalized THEN talk[c] \ run[c].acked ELSE {}
\* Mutant: whatever the transcript has is all there was.
NeverShort(c) == FALSE
\* Fewer events are accounted for than were captured.
Short(c) ==
  /\ ~run[c].finalized
  /\ Cardinality(run[c].acked) + Cardinality(Retained(c)) < run[c].captured
Recovers(c) == run[c].status = "pending"
Restarted(c) ==
  [run[c] EXCEPT !.status = IF c \in late THEN "failed" ELSE @, !.ended = TRUE,
                 !.complete = @ /\ run[c].ended /\ ~Short(c)]
DaemonRestarts ==
  /\ bound.daemons > 0
  /\ run' = [c \in Calls |-> IF Recovers(c) THEN Restarted(c)
                             ELSE IF InCall(c) THEN [run[c] EXCEPT !.ended = TRUE] ELSE run[c]]
  /\ cap' = [c \in Calls |-> IF Recovers(c) /\ c \notin late
                             THEN [Idle EXCEPT !.queue = Retained(c), !.ending = TRUE] ELSE Off]
  /\ inbox' = [c \in Calls |-> {Abandon(q) : q \in inbox[c]}]
  /\ work' = [c \in Calls |-> [work[c] EXCEPT !.request = Abandon(@)]]
  /\ reply' = [c \in Calls |-> "none"]
  /\ bound' = [bound EXCEPT !.daemons = @ - 1]
  /\ UNCHANGED <<close, notes, pass, edit, late, owed, written, gone, talk, spoken>>

-----------------------------------------------------------------------------
Task(c) == Sends(c) \/ Takes(c) \/ GivesUp(c)
Call(c) == BeginCall(c) \/ Speaks(c) \/ Transcribes(c) \/ HangsUp(c)
Served(c) == Serves(c) /\ UNCHANGED daemon
Held(c) == GoesOn(c) /\ UNCHANGED daemon
Recovery == Worker /\ UNCHANGED daemon
Next ==
  \/ \E c \in Calls : Call(c) \/ Task(c) \/ LosesAnswer(c) \/ Served(c) \/ Held(c)
  \/ Recovery \/ (Outside /\ UNCHANGED daemon) \/ DaemonRestarts

Spec == Init /\ [][Next]_vars
\* The tasks of the event loops run: a call's task, the gateway's handler of a request,
\* and its worker.  Nobody need call, speak or hang up.
LiveSpec ==
  /\ Spec
  /\ \A c \in Calls : WF_vars(Task(c)) /\ WF_vars(Served(c)) /\ WF_vars(Held(c))
  /\ WF_vars(Recovery)

-----------------------------------------------------------------------------
(* Properties *)
Requests == [op : {"checkpoint", "finalize", "status"}, events : SUBSET Events, complete : BOOLEAN,
             live : BOOLEAN]
\* The type of the variables.
TypeOK ==
  /\ close \in [Calls -> [status : TERMINAL \cup {"absent", "pending", "forgotten"}, sealed : BOOLEAN,
                          facts : SUBSET (Calls \X Events), events : SUBSET Events,
                          complete : BOOLEAN, generation : Nat]]
  /\ notes.facts \subseteq Facts /\ notes.revision \in Nat /\ notes.generation \in Nat
  /\ notes.allowed \in BOOLEAN
  /\ \A c \in Calls : inbox[c] \subseteq Requests
  /\ \A c \in Calls : work[c].request \in Requests \cup {NoRequest} /\ work[c].fresh \subseteq Events
  /\ reply \in [Calls -> TERMINAL \cup {"none", "ok", "pending", "refused", "error"}]
  /\ pass.todo \subseteq Calls /\ late \subseteq Calls /\ bound \in Scenario
  /\ run \in [Calls -> [status : TERMINAL \cup {"none", "pending"}, acked : SUBSET Events,
                        captured : 0..MaxEvent, complete : BOOLEAN, ended : BOOLEAN,
                        finalized : BOOLEAN]]
  /\ cap \in [Calls -> [pc : {"off", "idle", "asking"}, queue : SUBSET Events, ending : BOOLEAN,
                        batch : SUBSET Events, unsaved : SUBSET Events]]
  /\ {owed, written, gone} \subseteq SUBSET Facts

\* A call that is reported as saved, or as having left nothing to save, has put all that
\* was said into the notes, whatever queue, answer, process or last words were lost on the
\* way (capture_complete, docs/manual-feature-checklist.md M13).
HonestReport == \A c \in Calls :
  run[c].status \in {"saved", "skipped"} => {<<c, e>> : e \in spoken[c]} \subseteq written

\* What the owner had forgotten stays so: no closeout that was open then, no request still
\* under way and no write based on the old notes brings it back.
ForgottenStays == notes.facts \cap gone = {}

Inv == TypeOK /\ HonestReport /\ ForgottenStays

\* A fact that a closeout or the owner saved is in the notes until they are forgotten:
\* two writers that read the same notes do not undo one another.
NothingLost == owed \subseteq notes.facts

\* In the end the daemon reports a definite result for every call that is over.
Reported == <>[](\A c \in Calls : run[c].ended => run[c].status \in TERMINAL)
=============================================================================
