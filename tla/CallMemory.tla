----------------------------- MODULE CallMemory -----------------------------
(***************************************************************************)
(* The gateway's side of the call memory (call_memory.py) and the notes it  *)
(* shares with the owner's and the caller's tools (caller_context.py).      *)
(*                                                                          *)
(* Each call has a closeout: the daemon checkpoints what was said, a model  *)
(* extracts facts, and when the call is finalised they are merged into the  *)
(* caller's notes, by the request or later by the worker.  Requests and the *)
(* worker hold the closeout's lock over the model's answer; the notes have  *)
(* no such lock, only a revision that every write checks.  close and notes  *)
(* are in SQLite; the model may do anything but what validate_updates and   *)
(* reconcile refuse, which is left to `fails'.                              *)
(*                                                                          *)
(* A fact is <<call, event>>; <<0, n>> is what the owner wrote himself.     *)
(***************************************************************************)
EXTENDS Naturals, FiniteSets, FiniteSetsExt

CONSTANTS
  MaxCall,    \* bound: calls of this caller, one after the other
  MaxEvent,   \* bound: what is said in each
  Scenarios   \* what a behaviour may contain

Calls == 1..MaxCall
Events == 1..MaxEvent

\* The bounds of a behaviour: calls and what is said in each; model calls that fail, writes of the owner, lost answers,
\* restarts of the gateway and of the daemon; whether notes are forgotten, permission is
\* withdrawn, closeouts expire, transcripts are retained.
Scenario == [calls : Nat, events : 0..MaxEvent, fails : Nat, edits : Nat, losses : Nat, gateways : Nat, daemons : Nat,
             forgets : BOOLEAN, bars : BOOLEAN, lates : BOOLEAN, retains : BOOLEAN]

ASSUME BoundsAssumption == MaxCall \in Nat /\ MaxEvent \in Nat
ASSUME ScenarioAssumption == Scenarios \subseteq Scenario

VARIABLES
  close,   \* memory_closeouts
  notes,   \* the caller's notes, their revision and generation; permission
  inbox,   \* requests of the daemon that wait for a closeout's lock
  work,    \* what the holder of each lock awaits the model for
  reply,   \* the answer on its way to the daemon
  pass,    \* _recover: the rows of its pass
  edit,    \* a write of the owner between its read and its update
  late,    \* closeouts past their deadline
  owed,    \* history: notes that were acknowledged, since they were last forgotten
  written, \* history: facts that ever got into the notes
  gone,    \* history: what was forgotten
  bound    \* what is left of the scenario

gateway == <<close, notes, inbox, work, reply, pass, edit, late, owed, written, gone, bound>>

Facts == (0..MaxCall) \X Nat
TERMINAL == {"saved", "skipped", "failed"}
NoClose == [status |-> "absent", sealed |-> FALSE, facts |-> {}, events |-> {}, complete |-> TRUE,
            generation |-> 0]
NoRequest == [op |-> "none", events |-> {}, complete |-> TRUE, live |-> FALSE]
NoWork == [pc |-> "none", request |-> NoRequest, fresh |-> {}, base |-> {}, revision |-> 0]
NoPass == [todo |-> {}, rows |-> [c \in Calls |-> NoClose]]
NoEdit == [open |-> FALSE, base |-> {}, revision |-> 0]

GatewayInit ==
  /\ close = [c \in Calls |-> NoClose]
  /\ notes = [facts |-> {}, revision |-> 0, generation |-> 0, allowed |-> TRUE]
  /\ inbox = [c \in Calls |-> {}]
  /\ work = [c \in Calls |-> NoWork]
  /\ reply = [c \in Calls |-> "none"]
  /\ pass = NoPass /\ edit = NoEdit
  /\ late = {} /\ owed = {} /\ written = {} /\ gone = {}
  /\ bound \in Scenarios

Kept(c) == close[c].status \notin {"absent", "forgotten"}
\* authorize: the row is there, its deadline has not passed, the caller's policy is what it
\* was, and the notes were not forgotten since the call began.
Authorised(c) ==
  /\ Kept(c) /\ c \notin late /\ notes.allowed
  /\ close[c].generation = notes.generation
Unlocked(c) == work[c] = NoWork

Answers(c, request, answer) ==
  reply' = IF request.live THEN [reply EXCEPT ![c] = answer] ELSE reply

\* begin: the closeout of a new call.
Begins(c) ==
  close' = [close EXCEPT ![c] = [NoClose EXCEPT !.status = "pending", !.generation = notes.generation]]

-----------------------------------------------------------------------------
(* Checkpoints *)
\* checkpoint, up to the model: what is known already is not extracted again.
Checkpoint(c, q) ==
  LET fresh == q.events \ close[c].events IN
  /\ q \in inbox[c] /\ q.op = "checkpoint" /\ Unlocked(c)
  /\ inbox' = [inbox EXCEPT ![c] = @ \ {q}]
  /\ \/ /\ ~Authorised(c)
        /\ Answers(c, q, "refused") /\ UNCHANGED work
     \/ /\ Authorised(c) /\ fresh = {}
        /\ Answers(c, q, "ok") /\ UNCHANGED work
     \/ /\ Authorised(c) /\ fresh # {} /\ (close[c].sealed \/ close[c].status # "pending")
        /\ Answers(c, q, "refused") /\ UNCHANGED work
     \/ /\ Authorised(c) /\ fresh # {} /\ ~close[c].sealed /\ close[c].status = "pending"
        /\ work' = [work EXCEPT ![c] = [NoWork EXCEPT !.pc = "extracting", !.request = q, !.fresh = fresh]]
        /\ UNCHANGED reply
  /\ UNCHANGED <<close, notes, pass, edit, late, owed, written, gone, bound>>

\* The rest of checkpoint, in one transaction.
Extracted(c) ==
  LET w == work[c] IN
  /\ w.pc = "extracting"
  /\ IF Authorised(c)
     THEN /\ close' = [close EXCEPT ![c].facts = @ \cup {<<c, e>> : e \in w.fresh},
                                    ![c].events = @ \cup w.fresh]
          /\ Answers(c, w.request, "ok")
     ELSE Answers(c, w.request, "refused") /\ UNCHANGED close
  /\ work' = [work EXCEPT ![c] = NoWork]
  /\ UNCHANGED <<notes, inbox, pass, edit, late, owed, written, gone, bound>>
ExtractionFails(c) ==
  LET w == work[c] IN
  /\ w.pc = "extracting" /\ bound.fails > 0
  /\ Answers(c, w.request, "error")
  /\ work' = [work EXCEPT ![c] = NoWork]
  /\ bound' = [bound EXCEPT !.fails = @ - 1]
  /\ UNCHANGED <<close, notes, inbox, pass, edit, late, owed, written, gone>>

-----------------------------------------------------------------------------
(* Merging into the notes *)
\* _commit reads the notes, and asks the model what to keep of them.
Merging(q) == [NoWork EXCEPT !.pc = "merging", !.request = q, !.base = notes.facts,
                             !.revision = notes.revision]

\* finalize seals the closeout and merges it; a second one is told how it stands.
Finalize(c, q) ==
  LET seals == Authorised(c) /\ ~close[c].sealed IN
  /\ q \in inbox[c] /\ q.op = "finalize" /\ Unlocked(c)
  /\ inbox' = [inbox EXCEPT ![c] = @ \ {q}]
  /\ \/ /\ close[c].status \in TERMINAL \/ (Authorised(c) /\ close[c].sealed)
        /\ Answers(c, q, close[c].status) /\ UNCHANGED <<close, work>>
     \/ /\ close[c].status \notin TERMINAL /\ ~Authorised(c)
        /\ Answers(c, q, "refused") /\ UNCHANGED <<close, work>>
     \/ /\ close[c].status = "pending" /\ seals
        /\ close' = [close EXCEPT ![c].sealed = TRUE, ![c].complete = @ /\ q.complete]
        /\ work' = [work EXCEPT ![c] = Merging(q)]
        /\ UNCHANGED reply
  /\ UNCHANGED <<notes, pass, edit, late, owed, written, gone, bound>>

\* status, which takes no lock.
Status(c, q) ==
  /\ q \in inbox[c] /\ q.op = "status"
  /\ inbox' = [inbox EXCEPT ![c] = @ \ {q}]
  /\ Answers(c, q, IF Kept(c) THEN close[c].status ELSE "refused")
  /\ UNCHANGED <<close, notes, work, pass, edit, late, owed, written, gone, bound>>

\* Whoever merged is done: the request is answered, the worker goes on to its next row,
\* or abandons its pass on an error.
Leaves(c, answer) ==
  LET q == work[c].request IN
  /\ work' = [work EXCEPT ![c] = NoWork]
  /\ Answers(c, q, answer)
  /\ pass' = IF q # NoRequest THEN pass
             ELSE IF answer = "refused" THEN NoPass
             ELSE [pass EXCEPT !.todo = @ \ {c}]

\* Mutant: the notes may have changed since they were read.
AnyRevision(w) == TRUE
Unchanged(w) == w.revision = notes.revision
\* What the closeout reports when its facts are in the notes.
Result(r) == IF ~r.complete THEN "failed" ELSE IF r.facts # {} THEN "saved" ELSE "skipped"

\* The transaction of _commit: the new facts are added to the notes it has read.
Saves(c) ==
  LET w == work[c]
      new == close[c].facts \ w.base
  IN  /\ notes' = IF new = {} THEN notes
                  ELSE [notes EXCEPT !.facts = w.base \cup new, !.revision = @ + 1]
      /\ owed' = owed \cup close[c].facts
      /\ written' = written \cup close[c].facts
      /\ close' = [close EXCEPT ![c].status = Result(close[c]), ![c].facts = {}]
      /\ Leaves(c, Result(close[c]))
Merged(c) ==
  LET w == work[c] IN
  /\ w.pc = "merging"
  /\ \/ /\ close[c].status = "pending" /\ Authorised(c) /\ Unchanged(w)
        /\ Saves(c)
     \/ /\ close[c].status = "pending" /\ Authorised(c) /\ ~Unchanged(w)  \* NoteConflict
        /\ Leaves(c, "pending")
        /\ UNCHANGED <<close, notes, owed, written>>
     \/ /\ close[c].status = "pending" /\ ~Authorised(c)
        /\ close' = [close EXCEPT ![c].status = "failed"]
        /\ Leaves(c, "failed")
        /\ UNCHANGED <<notes, owed, written>>
     \/ /\ close[c].status # "pending"
        /\ Leaves(c, IF Kept(c) THEN close[c].status ELSE "refused")
        /\ UNCHANGED <<close, notes, owed, written>>
  /\ UNCHANGED <<inbox, edit, late, gone, bound>>
\* The model fails, when it is asked, or the notes would be too long, which is final.
MergeFails(c, status) ==
  /\ work[c].pc = "merging" /\ bound.fails > 0 /\ close[c].status = "pending"
  /\ close[c].facts # {} /\ (status = "failed" \/ work[c].base # {})
  /\ close' = [close EXCEPT ![c].status = status]
  /\ Leaves(c, status)
  /\ bound' = [bound EXCEPT !.fails = @ - 1]
  /\ UNCHANGED <<notes, inbox, edit, late, owed, written, gone>>

\* _recover: the worker reads the rows and goes through the pending ones, one at a time;
\* it merges the sealed ones, under their lock.
WorkerIdle == \A c \in Calls : ~(work[c].pc = "merging" /\ work[c].request = NoRequest)
PassBegins ==
  LET rows == {c \in Calls : close[c].status = "pending"} IN
  /\ pass.todo = {} /\ \E c \in rows : close[c].sealed \/ c \in late
  /\ pass' = [todo |-> rows, rows |-> [c \in Calls |-> IF c \in rows THEN close[c] ELSE NoClose]]
  /\ UNCHANGED <<close, notes, inbox, work, reply, edit, late, owed, written, gone, bound>>
\* An expired row is saved as failed, as it was when the pass began, and without the lock.
PassExpires ==
  LET c == Min(pass.todo) IN
  /\ pass.todo # {} /\ WorkerIdle /\ c \in late
  /\ close' = IF Kept(c) THEN [close EXCEPT ![c] = [pass.rows[c] EXCEPT !.status = "failed", !.facts = {}]]
              ELSE close
  /\ pass' = [pass EXCEPT !.todo = @ \ {c}]
  /\ UNCHANGED <<notes, inbox, work, reply, edit, late, owed, written, gone, bound>>
PassRetries ==
  LET c == Min(pass.todo) IN
  /\ pass.todo # {} /\ WorkerIdle /\ c \notin late
  /\ \/ /\ pass.rows[c].sealed /\ Unlocked(c)
        /\ work' = [work EXCEPT ![c] = Merging(NoRequest)]
        /\ UNCHANGED pass
     \/ /\ ~pass.rows[c].sealed
        /\ pass' = [pass EXCEPT !.todo = @ \ {c}]
        /\ UNCHANGED work
  /\ UNCHANGED <<close, notes, inbox, reply, edit, late, owed, written, gone, bound>>

-----------------------------------------------------------------------------
(* The other writers of the notes, and the gateway itself *)
\* replace_notes, for the owner or the caller's tool, with the revision that was read.
OwnerReads ==
  /\ ~edit.open /\ bound.edits > 0
  /\ edit' = [open |-> TRUE, base |-> notes.facts, revision |-> notes.revision]
  /\ UNCHANGED <<close, notes, inbox, work, reply, pass, late, owed, written, gone, bound>>
OwnerWrites ==
  LET line == <<0, bound.edits>>
      fits == Unchanged(edit)
  IN  /\ edit.open
      /\ notes' = IF fits THEN [notes EXCEPT !.facts = edit.base \cup {line}, !.revision = @ + 1] ELSE notes
      /\ owed' = IF fits THEN owed \cup {line} ELSE owed
      /\ edit' = NoEdit
      /\ bound' = [bound EXCEPT !.edits = @ - 1]
      /\ UNCHANGED <<close, inbox, work, reply, pass, late, written, gone>>

\* forget: the notes go, and every closeout of the caller, finished or not.
Begun == {c \in Calls : close[c].status # "absent"}
\* Mutant: only the notes are forgotten.
ForgetsNotes ==
  /\ notes' = [notes EXCEPT !.facts = {}, !.revision = @ + 1]
  /\ close' = close
Forgets ==
  /\ notes' = [notes EXCEPT !.facts = {}, !.revision = @ + 1, !.generation = @ + 1]
  /\ close' = [c \in Calls |-> IF c \in Begun THEN [NoClose EXCEPT !.status = "forgotten"] ELSE close[c]]
Forget ==
  /\ bound.forgets
  /\ Forgets
  /\ bound' = [bound EXCEPT !.forgets = FALSE]
  /\ owed' = {}
  /\ gone' = gone \cup notes.facts \cup (Begun \X Events)
  /\ UNCHANGED <<inbox, work, reply, pass, edit, late, written>>

Expires(c) ==
  /\ bound.lates /\ Kept(c) /\ c \notin late
  /\ late' = late \cup {c}
  /\ UNCHANGED <<close, notes, inbox, work, reply, pass, edit, owed, written, gone, bound>>

\* The gateway restarts, with the permission its configuration then gives.  The answers
\* it still owed are errors.
GatewayRestarts ==
  /\ bound.gateways > 0
  /\ \E may \in {notes.allowed, ~bound.bars /\ notes.allowed} : notes' = [notes EXCEPT !.allowed = may]
  /\ reply' = [c \in Calls |-> IF work[c].request.live \/ \E q \in inbox[c] : q.live
                               THEN "error" ELSE reply[c]]
  /\ work' = [c \in Calls |-> NoWork]
  /\ inbox' = [c \in Calls |-> {}]
  /\ pass' = NoPass /\ edit' = NoEdit
  /\ bound' = [bound EXCEPT !.gateways = @ - 1]
  /\ UNCHANGED <<close, late, owed, written, gone>>

\* A request is served, unless the closeout's lock is held; then the holder goes on.
Serves(c) == \E q \in inbox[c] : Checkpoint(c, q) \/ Finalize(c, q) \/ Status(c, q)
GoesOn(c) ==
  \/ Extracted(c) \/ ExtractionFails(c)
  \/ Merged(c) \/ \E status \in {"pending", "failed"} : MergeFails(c, status)
Worker == PassBegins \/ PassExpires \/ PassRetries
Outside == OwnerReads \/ OwnerWrites \/ Forget \/ (\E c \in Calls : Expires(c)) \/ GatewayRestarts
=============================================================================
