------------------------ MODULE MemoryCaptureProofs ------------------------
(***************************************************************************)
(* MemoryCapture for any number of calls, events and failures: nothing that *)
(* was acknowledged is lost, nothing that was forgotten comes back, and a   *)
(* call is reported as saved only when all that was said is in the notes.   *)
(*                                                                          *)
(* The argument: whoever holds the notes of the current revision holds the  *)
(* current notes; what is forgotten belongs to calls whose closeouts stay   *)
(* forgotten; and what was said is, while the capture is complete, either   *)
(* acknowledged or still queued, so it is all in the closeout that is       *)
(* sealed as complete.                                                      *)
(***************************************************************************)
EXTENDS MemoryCapture, FiniteSetTheorems, TLAPS

-----------------------------------------------------------------------------
(* The types *)
Closeout == [status : TERMINAL \cup {"absent", "pending", "forgotten"}, sealed : BOOLEAN,
             facts : SUBSET (Calls \X Events), events : SUBSET Events, complete : BOOLEAN,
             generation : Nat]
Working == [pc : {"none", "extracting", "merging"}, request : Requests \cup {NoRequest},
            fresh : SUBSET Events, base : SUBSET Facts, revision : Nat]

GatewayTyped ==
  /\ close \in [Calls -> Closeout]
  /\ notes \in [facts : SUBSET Facts, revision : Nat, generation : Nat, allowed : BOOLEAN]
  /\ inbox \in [Calls -> SUBSET Requests]
  /\ work \in [Calls -> Working]
  /\ reply \in [Calls -> TERMINAL \cup {"none", "ok", "pending", "refused", "error"}]
  /\ pass \in [todo : SUBSET Calls, rows : [Calls -> Closeout]]
  /\ edit \in [open : BOOLEAN, base : SUBSET Facts, revision : Nat]
  /\ late \subseteq Calls /\ owed \subseteq Facts /\ written \subseteq Facts /\ gone \subseteq Facts
  /\ bound \in Scenario

RunType == [status : TERMINAL \cup {"none", "pending"}, acked : SUBSET Events,
            captured : 0..MaxEvent, complete : BOOLEAN, ended : BOOLEAN, finalized : BOOLEAN]
CapType == [pc : {"off", "idle", "asking"}, queue : SUBSET Events, ending : BOOLEAN,
            batch : SUBSET Events, unsaved : SUBSET Events]

DaemonTyped ==
  /\ run \in [Calls -> RunType]
  /\ cap \in [Calls -> CapType]
  /\ talk \in [Calls -> SUBSET Events]
  /\ spoken \in [Calls -> SUBSET Events]

\* Events are numbered in the order in which they are said, and captured at most once.
SpokenInv(c) ==
  \E n \in 0..MaxEvent : /\ spoken[c] = 1..n /\ run[c].captured <= n
                         /\ run[c].complete => run[c].captured = n

TypeInv == /\ GatewayTyped /\ DaemonTyped
           /\ edit.open => bound.edits > 0
           /\ \A c \in Calls : SpokenInv(c)

-----------------------------------------------------------------------------
(* The closeouts *)

\* Once sealed, a closeout stays so, or is over.
Sealed(c) == close[c].sealed \/ close[c].status \notin {"absent", "pending"}

\* A call that has not begun has no closeout; the worker goes through closeouts that were
\* sealed, and so does whoever merges one.
BegunInv == \A c \in Calls :
  /\ run[c].status = "none" => close[c].status = "absent"
  /\ close[c].status = "absent" => ~close[c].sealed
  /\ pass.rows[c].sealed \/ work[c].pc = "merging" => Sealed(c)

-----------------------------------------------------------------------------
(* The notes *)

\* A pending closeout has a fact of its call for each event.
CloseInv(c) == close[c].status = "pending" => close[c].facts = {c} \X close[c].events

\* Whoever read the notes of this revision holds what they are.
ReadInv(read) == /\ read.revision <= notes.revision
                 /\ read.revision = notes.revision => read.base = notes.facts

\* Facts of calls come from their closeouts, and what is gone is of closeouts that
\* are forgotten; the owner's lines are numbered downwards.
OriginInv ==
  /\ \A f \in notes.facts : f[1] = 0 \/ close[f[1]].status # "absent"
  /\ \A f \in gone : f[1] = 0 \/ close[f[1]].status = "forgotten"
  /\ \A f \in notes.facts \cup gone : f[1] = 0 => f[2] > bound.edits

NotesInv == /\ \A c \in Calls : CloseInv(c) /\ (work[c].pc = "merging" => ReadInv(work[c]))
            /\ edit.open => ReadInv(edit)
            /\ OriginInv
            /\ ForgottenStays /\ NothingLost

-----------------------------------------------------------------------------
(* The report *)

\* There is one request under way for which the daemon waits: in the inbox, in the
\* hands of the lock's holder, or answered.
LiveInv(c) ==
  /\ \A q \in inbox[c] : q.live => /\ cap[c].pc = "asking" /\ q.events = cap[c].batch
                                   /\ ~work[c].request.live /\ reply[c] = "none"
                                   /\ \A r \in inbox[c] : r.live => r = q
  /\ work[c].request.live => /\ cap[c].pc = "asking" /\ work[c].request.events = cap[c].batch
                             /\ reply[c] = "none"
  /\ reply[c] # "none" => cap[c].pc = "asking"

\* A call that has not begun.
NewInv(c) == run[c].status = "none" =>
  /\ run[c] = NoRun /\ cap[c] = Off /\ talk[c] = {} /\ spoken[c] = {}
  /\ inbox[c] = {} /\ work[c] = NoWork /\ reply[c] = "none"

\* What was said is acknowledged or queued, while the capture is complete.
QueueInv(c) ==
  /\ cap[c].batch \subseteq cap[c].queue
  /\ run[c].acked \cup cap[c].queue \cup cap[c].unsaved \cup talk[c] \subseteq spoken[c]
  /\ run[c].status = "pending" => cap[c].pc # "off"
  /\ cap[c].ending => run[c].ended
  /\ cap[c].pc # "off" => /\ run[c].status = "pending"
                          /\ ~run[c].finalized /\ run[c].complete
                               => spoken[c] = run[c].acked \cup cap[c].queue

\* What is acknowledged is in the closeout.
AckInv(c) ==
  close[c].status = "pending" =>
    /\ run[c].acked \subseteq close[c].events
    /\ reply[c] = "ok" => cap[c].batch \subseteq close[c].events
    /\ work[c].pc = "extracting" =>
         work[c].request.events \subseteq close[c].events \cup work[c].fresh

\* A closeout that is sealed as complete has all that was said.
SealInv(c) ==
  /\ \A q \in inbox[c] : q.op = "finalize" /\ q.complete =>
       run[c].ended /\ spoken[c] \subseteq run[c].acked
  /\ close[c].status = "pending" /\ close[c].sealed /\ close[c].complete =>
       run[c].ended /\ spoken[c] \subseteq close[c].events

\* A report is about a call that is over and in the notes.
Done(c) == run[c].ended /\ {c} \X spoken[c] \subseteq written
ReportInv(c) ==
  /\ close[c].status \in {"saved", "skipped"} => Done(c)
  /\ reply[c] \in {"saved", "skipped"} => Done(c)
  /\ run[c].status \in {"saved", "skipped"} => Done(c)

\* The least of a set of numbers, for the worker's next row.
LEMMA LeastNatural ==
  ASSUME NEW S \in SUBSET Nat, S # {}
  PROVE  Min(S) \in S
<1> DEFINE T == {1..n : n \in S}
<1>1. T \subseteq FiniteSubsetsOf(Nat) /\ T # {}
  <2>1. \A n \in S : 1..n \in SUBSET Nat /\ IsFiniteSet(1..n)
    BY FS_Interval
  <2> QED
    BY <2>1 DEF FiniteSubsetsOf
<1>2. PICK t \in T : \A u \in T : <<u, t>> \notin StrictSubsetOrdering(Nat)
  <2> HIDE DEF T
  <2> QED
    BY <1>1, WFMin, FS_StrictSubsetOrderingWellFounded
<1>3. PICK x \in S : t = 1..x
  BY <1>2
<1>4. ASSUME NEW y \in S, ~(x <= y) PROVE FALSE
  <2>1. y \in Nat /\ x \in Nat /\ y < x
    BY <1>4
  <2>2. 1..y \subseteq 1..x /\ x \in 1..x /\ x \notin 1..y
    BY <2>1
  <2>3. 1..y \in SUBSET Nat /\ 1..x \in SUBSET Nat
    BY <2>1
  <2>4. <<1..y, 1..x>> \in StrictSubsetOrdering(Nat)
    BY <2>2, <2>3 DEF StrictSubsetOrdering
  <2> QED
    BY <1>2, <1>3, <2>4
<1> QED
  BY <1>3, <1>4 DEF Min

LEMMA NextRow ==
  ASSUME GatewayTyped, pass.todo # {}
  PROVE  Min(pass.todo) \in Calls /\ Min(pass.todo) \in pass.todo
<1>1. pass.todo \in SUBSET Nat /\ pass.todo \in SUBSET Calls
  BY BoundsAssumption DEF GatewayTyped, Calls
<1> QED
  BY <1>1, LeastNatural

\* The gateway's actions keep the gateway's types.
LEMMA GatewayActionTyped ==
  ASSUME TypeInv, NEW c \in Calls, Serves(c) \/ GoesOn(c)
  PROVE  GatewayTyped'
<1> USE DEF GatewayTyped
<1>0. /\ GatewayTyped /\ NoWork \in Working
      /\ close[c] \in Closeout /\ work[c] \in Working /\ work[c].request \in Requests \cup {NoRequest}
      /\ NoPass \in [todo : SUBSET Calls, rows : [Calls -> Closeout]]
  BY DEF TypeInv, NoWork, Working, NoPass, NoClose, Closeout
<1>a. \A q, answer : Answers(c, q, answer)
        /\ answer \in TERMINAL \cup {"none", "ok", "pending", "refused", "error"}
        => reply' \in [Calls -> TERMINAL \cup {"none", "ok", "pending", "refused", "error"}]
  BY <1>0 DEF Answers
<1>b. Kept(c) => close[c].status \in TERMINAL \cup {"pending"}
  BY <1>0 DEF Kept, Closeout, TERMINAL
<1>1. ASSUME NEW q \in inbox[c], Checkpoint(c, q) PROVE GatewayTyped'
  <2>1. inbox' \in [Calls -> SUBSET Requests] /\ q \in Requests
    BY <1>0, <1>1 DEF Checkpoint
  <2>2. [NoWork EXCEPT !.pc = "extracting", !.request = q, !.fresh = q.events \ close[c].events] \in Working
    BY <1>0, <2>1 DEF NoWork, Working, Requests
  <2>3. work' \in [Calls -> Working]
    BY <1>0, <1>1, <2>2 DEF Checkpoint
  <2>4. reply' \in [Calls -> TERMINAL \cup {"none", "ok", "pending", "refused", "error"}]
    BY <1>0, <1>1, <1>a DEF Checkpoint
  <2> QED
    BY <1>0, <1>1, <2>1, <2>3, <2>4 DEF Checkpoint
<1>2. ASSUME NEW q \in inbox[c], Finalize(c, q) PROVE GatewayTyped'
  <2>1. inbox' \in [Calls -> SUBSET Requests] /\ q \in Requests
    BY <1>0, <1>2 DEF Finalize
  <2>2. Merging(q) \in Working
    BY <1>0, <2>1 DEF Merging, NoWork, Working
  <2>3. work' \in [Calls -> Working]
    BY <1>0, <1>2, <2>2 DEF Finalize
  <2>4. reply' \in [Calls -> TERMINAL \cup {"none", "ok", "pending", "refused", "error"}]
    BY <1>0, <1>2, <1>a, <1>b DEF Finalize, Authorised, TERMINAL
  <2>5. [close[c] EXCEPT !.sealed = TRUE, !.complete = @ /\ q.complete] \in Closeout
    BY <1>0, <2>1 DEF Closeout, Requests
  <2>6. close' \in [Calls -> Closeout]
    BY <1>0, <1>2, <2>5 DEF Finalize
  <2> QED
    BY <1>0, <1>2, <2>1, <2>3, <2>4, <2>6 DEF Finalize
<1>3. ASSUME NEW q \in inbox[c], Status(c, q) PROVE GatewayTyped'
  <2>1. inbox' \in [Calls -> SUBSET Requests]
    BY <1>0, <1>3 DEF Status
  <2>2. reply' \in [Calls -> TERMINAL \cup {"none", "ok", "pending", "refused", "error"}]
    BY <1>0, <1>3, <1>a, <1>b DEF Status
  <2> QED
    BY <1>0, <1>3, <2>1, <2>2 DEF Status
<1>4. CASE Extracted(c)
  <2>1. [close[c] EXCEPT !.facts = @ \cup {<<c, e>> : e \in work[c].fresh},
                         !.events = @ \cup work[c].fresh] \in Closeout
    <3>1. {<<c, e>> : e \in work[c].fresh} \subseteq Calls \X Events
      BY <1>0 DEF Working
    <3> QED
      BY <1>0, <3>1 DEF Closeout, Working
  <2>2. close' \in [Calls -> Closeout]
    BY <1>0, <1>4, <2>1 DEF Extracted
  <2>3. reply' \in [Calls -> TERMINAL \cup {"none", "ok", "pending", "refused", "error"}]
    BY <1>0, <1>4, <1>a DEF Extracted
  <2> QED
    BY <1>0, <1>4, <2>2, <2>3 DEF Extracted
<1>5. CASE ExtractionFails(c)
  <2>1. reply' \in [Calls -> TERMINAL \cup {"none", "ok", "pending", "refused", "error"}]
    BY <1>0, <1>5, <1>a DEF ExtractionFails
  <2>2. bound' \in Scenario
    BY <1>0, <1>5 DEF ExtractionFails, Scenario
  <2> QED
    BY <1>0, <1>5, <2>1, <2>2 DEF ExtractionFails
<1>c. ASSUME NEW answer \in TERMINAL \cup {"pending", "refused"}, Leaves(c, answer)
      PROVE  /\ work' \in [Calls -> Working]
             /\ reply' \in [Calls -> TERMINAL \cup {"none", "ok", "pending", "refused", "error"}]
             /\ pass' \in [todo : SUBSET Calls, rows : [Calls -> Closeout]]
  <2>1. work' \in [Calls -> Working]
    BY <1>0, <1>c DEF Leaves
  <2>2. reply' \in [Calls -> TERMINAL \cup {"none", "ok", "pending", "refused", "error"}]
    BY <1>0, <1>a, <1>c DEF Leaves
  <2>3. pass' \in [todo : SUBSET Calls, rows : [Calls -> Closeout]]
    BY <1>0, <1>c DEF Leaves
  <2> QED
    BY <2>1, <2>2, <2>3
<1>6. CASE Merged(c)
  <2>1. CASE Saves(c)
    <3>1. Result(close[c]) \in TERMINAL
      BY DEF Result, TERMINAL
    <3>2. [close[c] EXCEPT !.status = Result(close[c]), !.facts = {}] \in Closeout
      BY <1>0, <3>1 DEF Closeout
    <3>3. close' \in [Calls -> Closeout]
      BY <1>0, <2>1, <3>2 DEF Saves
    <3>0. close[c].facts \subseteq Facts
      BY <1>0, BoundsAssumption DEF Closeout, Facts, Calls, Events
    <3>4. notes' \in [facts : SUBSET Facts, revision : Nat, generation : Nat, allowed : BOOLEAN]
      <4> DEFINE new == close[c].facts \ work[c].base
                 facts == work[c].base \cup new
      <4>1. facts \in SUBSET Facts /\ notes.revision + 1 \in Nat
        BY <1>0, <3>0 DEF Working
      <4>2. notes' \in {notes, [notes EXCEPT !.facts = facts, !.revision = @ + 1]}
        BY <2>1 DEF Saves
      <4> HIDE DEF facts
      <4>3. notes \in [facts : SUBSET Facts, revision : Nat, generation : Nat, allowed : BOOLEAN]
        BY <1>0
      <4> QED
        BY <4>1, <4>2, <4>3
    <3>5. owed' \subseteq Facts /\ written' \subseteq Facts
      BY <1>0, <2>1, <3>0 DEF Saves
    <3>6. Leaves(c, Result(close[c]))
      BY <2>1 DEF Saves
    <3> HIDE DEF Leaves
    <3> QED
      BY <1>0, <1>6, <1>c, <3>1, <3>3, <3>4, <3>5, <3>6 DEF Merged
  <2>2. CASE \E answer \in TERMINAL \cup {"pending", "refused"} :
               /\ Leaves(c, answer)
               /\ close' \in {close, [close EXCEPT ![c].status = "failed"]}
               /\ UNCHANGED <<notes, owed, written>>
    <3>1. [close[c] EXCEPT !.status = "failed"] \in Closeout
      BY <1>0 DEF Closeout, TERMINAL
    <3>2. close' \in {close, [close EXCEPT ![c] = [close[c] EXCEPT !.status = "failed"]]}
      BY <1>0, <2>2
    <3>3. close' \in [Calls -> Closeout]
      BY <1>0, <3>1, <3>2
    <3> QED
      BY <1>0, <1>6, <1>c, <2>2, <3>3 DEF Merged
  <2> QED
    BY <1>6, <1>b, <2>1, <2>2 DEF Merged, TERMINAL
<1>7. ASSUME NEW status \in {"pending", "failed"}, MergeFails(c, status) PROVE GatewayTyped'
  <2>1. bound' \in Scenario
    BY <1>0, <1>7 DEF MergeFails, Scenario
  <2>2. close' \in [Calls -> Closeout]
    BY <1>0, <1>7 DEF MergeFails, Closeout, TERMINAL
  <2>3. status \in TERMINAL \cup {"pending", "refused"}
    BY DEF TERMINAL
  <2> QED
    BY <1>0, <1>7, <1>c, <2>1, <2>2, <2>3 DEF MergeFails
<1> QED
  BY <1>1, <1>2, <1>3, <1>4, <1>5, <1>6, <1>7 DEF Serves, GoesOn

\* The worker, the owner, deadlines and restarts of the gateway keep them.
LEMMA OutsideTyped ==
  ASSUME TypeInv, Worker \/ Outside
  PROVE  GatewayTyped' /\ (edit'.open => bound'.edits > 0)
<1> USE DEF GatewayTyped
<1>0. /\ GatewayTyped /\ (edit.open => bound.edits > 0)
      /\ NoWork \in Working /\ NoClose \in Closeout
      /\ NoPass \in [todo : SUBSET Calls, rows : [Calls -> Closeout]]
      /\ NoEdit \in [open : BOOLEAN, base : SUBSET Facts, revision : Nat] /\ ~NoEdit.open
      /\ bound.edits \in Nat /\ notes.revision + 1 \in Nat /\ notes.generation + 1 \in Nat
  BY DEF TypeInv, NoWork, Working, NoPass, NoClose, Closeout, NoEdit, Scenario
<1>1. CASE PassBegins
  BY <1>0, <1>1 DEF PassBegins
<1>2. CASE PassExpires
  <2>1. Min(pass.todo) \in Calls
    BY <1>0, <1>2, NextRow DEF PassExpires
  <2>2. [pass.rows[Min(pass.todo)] EXCEPT !.status = "failed", !.facts = {}] \in Closeout
    BY <1>0, <2>1 DEF Closeout, TERMINAL
  <2> QED
    BY <1>0, <1>2, <2>1, <2>2 DEF PassExpires
<1>3. CASE PassRetries
  <2>1. Min(pass.todo) \in Calls
    BY <1>0, <1>3, NextRow DEF PassRetries
  <2>2. Merging(NoRequest) \in Working
    BY <1>0 DEF Merging, NoWork, Working
  <2>3. work' \in [Calls -> Working] /\ pass' \in [todo : SUBSET Calls, rows : [Calls -> Closeout]]
    BY <1>0, <1>3, <2>1, <2>2 DEF PassRetries
  <2> QED
    BY <1>0, <1>3, <2>3 DEF PassRetries
<1>4. CASE OwnerReads
  BY <1>0, <1>4 DEF OwnerReads
<1>5. CASE OwnerWrites
  <2>1. <<0, bound.edits>> \in Facts
    BY <1>0, BoundsAssumption DEF Facts
  <2>2. bound' \in Scenario
    <3>1. bound.edits - 1 \in Nat
      BY <1>0, <1>5 DEF OwnerWrites
    <3> QED
      BY <1>0, <1>5, <3>1 DEF OwnerWrites, Scenario
  <2>3. notes' \in [facts : SUBSET Facts, revision : Nat, generation : Nat, allowed : BOOLEAN]
    <3>1. edit.base \cup {<<0, bound.edits>>} \in SUBSET Facts
      BY <1>0, <2>1
    <3>2. notes' \in {notes, [notes EXCEPT !.facts = edit.base \cup {<<0, bound.edits>>},
                                           !.revision = @ + 1]}
      BY <1>5 DEF OwnerWrites
    <3> QED
      BY <1>0, <3>1, <3>2
  <2> QED
    BY <1>0, <1>5, <2>1, <2>2, <2>3 DEF OwnerWrites
<1>6. CASE Forget
  <2>1. [NoClose EXCEPT !.status = "forgotten"] \in Closeout
    BY <1>0 DEF Closeout
  <2>2. close' \in [Calls -> Closeout]
    BY <1>0, <1>6, <2>1 DEF Forget, Forgets
  <2>3. Begun \X Events \subseteq Facts
    BY BoundsAssumption DEF Begun, Events, Facts, Calls
  <2>4. bound' \in Scenario /\ bound'.edits = bound.edits
    BY <1>0, <1>6 DEF Forget, Scenario
  <2>5. notes' \in [facts : SUBSET Facts, revision : Nat, generation : Nat, allowed : BOOLEAN]
    <3>1. notes' = [notes EXCEPT !.facts = {}, !.revision = @ + 1, !.generation = @ + 1]
      BY <1>6 DEF Forget, Forgets
    <3> QED
      BY <1>0, <3>1
  <2> QED
    BY <1>0, <1>6, <2>2, <2>3, <2>4, <2>5 DEF Forget, Forgets
<1>7. ASSUME NEW c \in Calls, Expires(c) PROVE GatewayTyped' /\ (edit'.open => bound'.edits > 0)
  BY <1>0, <1>7 DEF Expires
<1>8. CASE GatewayRestarts
  <2>1. notes' \in [facts : SUBSET Facts, revision : Nat, generation : Nat, allowed : BOOLEAN]
    BY <1>0, <1>8 DEF GatewayRestarts
  <2>2. bound' \in Scenario
    BY <1>0, <1>8 DEF GatewayRestarts, Scenario
  <2> QED
    BY <1>0, <1>8, <2>1, <2>2 DEF GatewayRestarts
<1> QED
  BY <1>1, <1>2, <1>3, <1>4, <1>5, <1>6, <1>7, <1>8 DEF Worker, Outside

LEMMA AbandonsNothing == Abandon(NoRequest) = NoRequest
<1> DEFINE R == [op : {"none"}, events : {{}}, complete : {TRUE}, live : {FALSE}]
<1>1. Abandon(NoRequest) \in R
  BY DEF Abandon, NoRequest
<1>2. ASSUME NEW r \in R PROVE r = NoRequest
  BY DEF NoRequest
<1> QED
  BY <1>1, <1>2

\* The daemon's actions keep the gateway's types.
LEMMA DaemonGatewayTyped ==
  ASSUME TypeInv,
         \/ \E c \in Calls : Call(c) \/ Task(c) \/ LosesAnswer(c)
         \/ DaemonRestarts
  PROVE  GatewayTyped' /\ edit' = edit /\ bound'.edits = bound.edits
<1> USE DEF GatewayTyped
<1>0. /\ GatewayTyped /\ DaemonTyped /\ NoClose \in Closeout
  BY DEF TypeInv, NoClose, Closeout
<1>a. \A q \in Requests \cup {NoRequest} : Abandon(q) \in Requests \cup {NoRequest}
                                             /\ (q \in Requests => Abandon(q) \in Requests)
  <2>1. \A q \in Requests : Abandon(q) \in Requests
    BY DEF Abandon, Requests
  <2> QED
    BY <2>1, AbandonsNothing
<1>c. \A S \in SUBSET Requests : {Abandon(q) : q \in S} \in SUBSET Requests
  BY <1>a
<1>b. \A w \in Working : [w EXCEPT !.request = Abandon(@)] \in Working
  BY <1>a DEF Working
<1>1. ASSUME NEW c \in Calls, Call(c) PROVE GatewayTyped' /\ edit' = edit /\ bound'.edits = bound.edits
  <2>1. CASE BeginCall(c)
    <3>1. [NoClose EXCEPT !.status = "pending", !.generation = notes.generation] \in Closeout
      BY <1>0 DEF Closeout
    <3> QED
      BY <1>0, <2>1, <3>1 DEF BeginCall, Begins
  <2>2. CASE UNCHANGED gateway
    BY <1>0, <2>2 DEF gateway
  <2> QED
    BY <1>1, <2>1, <2>2 DEF Call, Speaks, Transcribes, HangsUp
<1>2. ASSUME NEW c \in Calls, Sends(c) PROVE GatewayTyped' /\ edit' = edit /\ bound'.edits = bound.edits
  <2>1. \A events \in SUBSET Events, op \in {"checkpoint", "finalize", "status"} :
          Asks(c, op, events) => inbox' \in [Calls -> SUBSET Requests]
    <3>1. \A events \in SUBSET Events, op \in {"checkpoint", "finalize", "status"} :
            [op |-> op, events |-> events, complete |-> run[c].complete, live |-> TRUE] \in Requests
      BY <1>0 DEF Requests, DaemonTyped, RunType
    <3> QED
      <4> SUFFICES ASSUME NEW events \in SUBSET Events, NEW op \in {"checkpoint", "finalize", "status"},
                          Asks(c, op, events)
                   PROVE  inbox' \in [Calls -> SUBSET Requests]
        OBVIOUS
      <4> DEFINE q == [op |-> op, events |-> events, complete |-> run[c].complete, live |-> TRUE]
      <4>1. q \in Requests /\ inbox' = [inbox EXCEPT ![c] = @ \cup {q}]
        BY <3>1 DEF Asks
      <4> HIDE DEF q
      <4> QED
        BY <1>0, <4>1
  <2>2. Prefix(cap[c].queue) \subseteq Events
    BY <1>0 DEF Prefix, DaemonTyped, CapType
  <2>3. inbox' \in [Calls -> SUBSET Requests]
    BY <1>2, <2>1, <2>2 DEF Sends
  <2> QED
    BY <1>0, <1>2, <2>3 DEF Sends
<1>3. ASSUME NEW c \in Calls, Takes(c) PROVE GatewayTyped' /\ edit' = edit /\ bound'.edits = bound.edits
  BY <1>0, <1>3 DEF Takes
<1>4. ASSUME NEW c \in Calls, GivesUp(c) PROVE GatewayTyped' /\ edit' = edit /\ bound'.edits = bound.edits
  BY <1>0, <1>4 DEF GivesUp, gateway
<1>5. ASSUME NEW c \in Calls, LosesAnswer(c) PROVE GatewayTyped' /\ edit' = edit /\ bound'.edits = bound.edits
  <2>1. inbox' \in [Calls -> SUBSET Requests]
    BY <1>0, <1>5, <1>a DEF LosesAnswer, Abandons
  <2>2. work' \in [Calls -> Working]
    <3>1. work' = [work EXCEPT ![c] = [work[c] EXCEPT !.request = Abandon(@)]]
      BY <1>0, <1>5 DEF LosesAnswer, Abandons
    <3> QED
      BY <1>0, <1>b, <3>1
  <2>3. bound' \in Scenario /\ bound'.edits = bound.edits
    BY <1>0, <1>5 DEF LosesAnswer, Scenario
  <2> QED
    BY <1>0, <1>5, <2>1, <2>2, <2>3 DEF LosesAnswer, Abandons
<1>6. CASE DaemonRestarts
  <2>1. inbox' \in [Calls -> SUBSET Requests]
    BY <1>0, <1>6, <1>c DEF DaemonRestarts
  <2>2. work' \in [Calls -> Working]
    BY <1>0, <1>6, <1>b DEF DaemonRestarts
  <2>3. bound' \in Scenario /\ bound'.edits = bound.edits
    <3>1. bound.daemons > 0 /\ bound' = [bound EXCEPT !.daemons = @ - 1]
      BY <1>6 DEF DaemonRestarts
    <3> QED
      BY <1>0, <3>1 DEF Scenario
  <2> QED
    BY <1>0, <1>6, <2>1, <2>2, <2>3 DEF DaemonRestarts
<1> QED
  BY <1>1, <1>2, <1>3, <1>4, <1>5, <1>6 DEF Task

\* What a step makes of the run and the capture of one call.
LEMMA DaemonSet ==
  ASSUME DaemonTyped, \A d \in Calls : SpokenInv(d),
         NEW c \in Calls, NEW r \in RunType, NEW k \in CapType,
         run' = [run EXCEPT ![c] = r], cap' = [cap EXCEPT ![c] = k],
         UNCHANGED <<talk, spoken>>,
         r.captured = run[c].captured, r.complete => run[c].complete
  PROVE  DaemonTyped' /\ \A d \in Calls : SpokenInv(d)'
BY DEF DaemonTyped, SpokenInv

\* The daemon's own types, and how events are counted.
LEMMA DaemonActionTyped ==
  ASSUME TypeInv,
         \/ \E c \in Calls : Call(c) \/ Task(c) \/ LosesAnswer(c)
         \/ DaemonRestarts
  PROVE  DaemonTyped' /\ \A c \in Calls : SpokenInv(c)'
<1>0. /\ DaemonTyped /\ run \in [Calls -> RunType] /\ cap \in [Calls -> CapType]
      /\ talk \in [Calls -> SUBSET Events] /\ spoken \in [Calls -> SUBSET Events]
      /\ \A c \in Calls : SpokenInv(c)
      /\ bound.events \in 0..MaxEvent /\ MaxEvent \in Nat /\ Events = 1..MaxEvent
      /\ \A c \in Calls : reply[c] \in TERMINAL \cup {"none", "ok", "pending", "refused", "error"}
  BY BoundsAssumption DEF TypeInv, DaemonTyped, GatewayTyped, Scenario, Events
<1>a. Idle \in CapType /\ Off \in CapType
  BY DEF Idle, Off, CapType
<1>g. \A c \in Calls : run[c] \in RunType /\ cap[c] \in CapType
  BY <1>0
<1>b. \A c \in Calls : cap[c].queue \subseteq Events /\ cap[c].batch \subseteq Events
  BY <1>g DEF CapType
<1>c. ASSUME NEW c \in Calls, Ends(c)
      PROVE  \E k \in CapType : cap' = [cap EXCEPT ![c] = k]
  <2>1. [Off EXCEPT !.ending = cap[c].ending, !.unsaved = cap[c].unsaved] \in CapType
    BY <1>0, <1>a DEF CapType
  <2> QED
    BY <1>c, <2>1 DEF Ends
<1>d. ASSUME NEW c \in Calls, NEW status \in TERMINAL \cup {"pending"}
      PROVE  /\ [run[c] EXCEPT !.status = status] \in RunType
             /\ [run[c] EXCEPT !.status = status].captured = run[c].captured
             /\ [run[c] EXCEPT !.status = status].complete = run[c].complete
             /\ [run[c] EXCEPT !.status = status, !.finalized = TRUE] \in RunType
             /\ [run[c] EXCEPT !.status = status, !.finalized = TRUE].captured = run[c].captured
             /\ [run[c] EXCEPT !.status = status, !.finalized = TRUE].complete = run[c].complete
  BY <1>0 DEF RunType
<1>e. ASSUME NEW c \in Calls, NEW k \in CapType, NEW status \in TERMINAL \cup {"pending"},
             run' = [run EXCEPT ![c].status = status], cap' = [cap EXCEPT ![c] = k],
             UNCHANGED <<talk, spoken>>
      PROVE  DaemonTyped' /\ \A d \in Calls : SpokenInv(d)'
  <2> DEFINE r == [run[c] EXCEPT !.status = status]
  <2>1. r \in RunType /\ r.captured = run[c].captured /\ r.complete = run[c].complete
    BY <1>d
  <2>2. run' = [run EXCEPT ![c] = r]
    BY <1>e
  <2> HIDE DEF r
  <2> QED
    BY <1>0, <1>e, <2>1, <2>2, DaemonSet
<1>f. ASSUME NEW c \in Calls
      PROVE  \E k \in CapType :
               [cap EXCEPT ![c].pc = "idle", ![c].batch = {}] = [cap EXCEPT ![c] = k]
  <2>1. [cap[c] EXCEPT !.pc = "idle", !.batch = {}] \in CapType
    BY <1>g DEF CapType
  <2>2. [cap EXCEPT ![c].pc = "idle", ![c].batch = {}]
          = [cap EXCEPT ![c] = [cap[c] EXCEPT !.pc = "idle", !.batch = {}]]
    BY <1>0
  <2> QED
    BY <2>1, <2>2
<1>1. ASSUME NEW c \in Calls, BeginCall(c)
      PROVE  DaemonTyped' /\ \A d \in Calls : SpokenInv(d)'
  <2>1. "pending" \in TERMINAL \cup {"pending"}
    OBVIOUS
  <2> QED
    BY <1>a, <1>e, <1>1, <2>1 DEF BeginCall
<1>2. ASSUME NEW c \in Calls, Speaks(c)
      PROVE  DaemonTyped' /\ \A d \in Calls : SpokenInv(d)'
  <2> DEFINE e == Cardinality(spoken[c]) + 1
             fits == Cardinality(cap[c].queue) < MaxWaiting
             k == [cap[c] EXCEPT !.queue = IF fits THEN cap[c].queue \cup {e} ELSE cap[c].queue,
                                 !.unsaved = cap[c].unsaved \cup {e}]
             r == IF fits THEN [run[c] EXCEPT !.captured = run[c].captured + 1]
                  ELSE [run[c] EXCEPT !.complete = FALSE]
  <2>1. PICK n \in 0..MaxEvent : /\ spoken[c] = 1..n /\ run[c].captured <= n
                                 /\ run[c].complete => run[c].captured = n
    BY <1>0 DEF SpokenInv
  <2>2. e = n + 1 /\ e <= bound.events
    <3>1. Cardinality(spoken[c]) = n
      BY <2>1, FS_Interval
    <3> QED
      BY <1>2, <3>1 DEF Speaks
  <2>3. n + 1 \in 0..MaxEvent /\ e \in Events
    BY <1>0, <2>2
  <2>4. spoken' = [spoken EXCEPT ![c] = @ \cup {e}] /\ UNCHANGED talk
    BY <1>2 DEF Speaks
  <2>5. run' = [run EXCEPT ![c] = r]
    BY <1>0, <1>2 DEF Speaks
  <2>6. cap' = [cap EXCEPT ![c] = k]
    BY <1>0, <1>2 DEF Speaks
  <2>7. k \in CapType
    <3> DEFINE queue == IF fits THEN cap[c].queue \cup {e} ELSE cap[c].queue
    <3>1. queue \in SUBSET Events /\ cap[c].unsaved \cup {e} \in SUBSET Events
      <4> HIDE DEF fits, e
      <4> QED
        BY <1>g, <2>3 DEF CapType
    <3> HIDE DEF queue, e
    <3> QED
      BY <1>g, <3>1 DEF CapType
  <2>8. /\ r \in RunType
        /\ r.captured <= n + 1 /\ (r.complete => r.captured = n + 1)
    <3> HIDE DEF fits, e
    <3>1. run[c].captured + 1 \in 0..MaxEvent
      <4>1. run[c].captured \in Nat
        BY <1>0, <1>g DEF RunType
      <4> QED
        BY <1>0, <2>1, <2>3, <4>1
    <3>2. CASE fits
      <4>1. r = [run[c] EXCEPT !.captured = run[c].captured + 1]
        BY <3>2
      <4>2. r \in RunType /\ r.captured = run[c].captured + 1 /\ r.complete = run[c].complete
        BY <1>g, <3>1, <4>1 DEF RunType
      <4>3. run[c].captured \in Nat
        BY <1>0, <1>g DEF RunType
      <4> QED
        BY <1>0, <2>1, <2>3, <3>1, <4>2, <4>3
    <3>3. CASE ~fits
      <4>1. r = [run[c] EXCEPT !.complete = FALSE]
        BY <3>3
      <4>2. r \in RunType /\ r.captured = run[c].captured /\ ~r.complete
        BY <1>g, <4>1 DEF RunType
      <4>3. run[c].captured \in Nat
        BY <1>0, <1>g DEF RunType
      <4> QED
        BY <1>0, <2>1, <4>2, <4>3
    <3> QED
      BY <3>2, <3>3
  <2> HIDE DEF k, r, e, fits
  <2>9. spoken' \in [Calls -> SUBSET Events] /\ spoken'[c] = 1..(n + 1)
    BY <1>0, <2>1, <2>2, <2>3, <2>4
  <2>10. DaemonTyped'
    BY <1>0, <2>4, <2>5, <2>6, <2>7, <2>8, <2>9 DEF DaemonTyped
  <2>11. SpokenInv(c)'
    BY <1>0, <2>3, <2>5, <2>8, <2>9 DEF SpokenInv
  <2>12. ASSUME NEW d \in Calls, d # c PROVE SpokenInv(d)'
    BY <1>0, <2>4, <2>5, <2>12 DEF SpokenInv
  <2> QED
    BY <2>10, <2>11, <2>12
<1>3. ASSUME NEW c \in Calls, Transcribes(c)
      PROVE  DaemonTyped' /\ \A d \in Calls : SpokenInv(d)'
  <2>1. [cap[c] EXCEPT !.unsaved = {}] \in CapType /\ cap[c].unsaved \in SUBSET Events
    BY <1>0 DEF CapType
  <2>2. cap' \in [Calls -> CapType] /\ talk' \in [Calls -> SUBSET Events]
    BY <1>0, <1>3, <2>1 DEF Transcribes
  <2> QED
    BY <1>0, <1>3, <2>2 DEF Transcribes, DaemonTyped, SpokenInv
<1>4. ASSUME NEW c \in Calls, HangsUp(c)
      PROVE  DaemonTyped' /\ \A d \in Calls : SpokenInv(d)'
  <2>1. PICK n \in 0..MaxEvent : /\ spoken[c] = 1..n /\ run[c].captured <= n
                                 /\ run[c].complete => run[c].captured = n
    BY <1>0 DEF SpokenInv
  <2>2. Cardinality(spoken[c]) = n
    BY <1>0, <2>1, FS_Interval
  <2>3. PICK silent \in BOOLEAN :
          /\ run' = [run EXCEPT ![c].ended = TRUE, ![c].complete = @ /\ silent]
          /\ spoken' = IF silent THEN spoken ELSE [spoken EXCEPT ![c] = @ \cup {n + 1}]
          /\ silent \/ n < bound.events
    BY <1>4, <2>2 DEF HangsUp
  <2> DEFINE r == [run[c] EXCEPT !.ended = TRUE, !.complete = run[c].complete /\ silent]
             m == IF silent THEN n ELSE n + 1
  <2>4. cap' \in [Calls -> CapType] /\ UNCHANGED talk
    <3>1. [cap[c] EXCEPT !.ending = TRUE] \in CapType
      BY <1>g DEF CapType
    <3> QED
      BY <1>0, <1>4, <3>1 DEF HangsUp
  <2>5. run' = [run EXCEPT ![c] = r]
    BY <1>0, <2>3
  <2>6. /\ r \in RunType /\ r.captured = run[c].captured
        /\ r.complete => run[c].complete /\ silent
    BY <1>0 DEF RunType
  <2> HIDE DEF r
  <2>7. m \in 0..MaxEvent /\ m >= n /\ (~silent => n + 1 \in Events)
    BY <1>0, <2>3
  <2>8. spoken' \in [Calls -> SUBSET Events] /\ spoken'[c] = 1..m
    <3>1. CASE silent
      BY <1>0, <2>1, <2>3, <3>1
    <3>2. CASE ~silent
      BY <1>0, <2>1, <2>3, <2>7, <3>2
    <3> QED
      BY <3>1, <3>2
  <2>9. DaemonTyped'
    BY <1>0, <2>4, <2>5, <2>6, <2>8 DEF DaemonTyped
  <2>10. SpokenInv(c)'
    <3>1. /\ run'[c].captured <= m /\ (run'[c].complete => run'[c].captured = m)
      <4>1. run'[c] = r /\ run[c].captured \in Nat
        BY <1>g, <1>0, <2>5 DEF RunType
      <4> QED
        BY <1>0, <2>1, <2>6, <2>7, <4>1
    <3> HIDE DEF m
    <3> QED
      BY <2>7, <2>8, <3>1 DEF SpokenInv
  <2>11. ASSUME NEW d \in Calls, d # c PROVE SpokenInv(d)'
    BY <1>0, <2>3, <2>5, <2>11 DEF SpokenInv
  <2> QED
    BY <2>9, <2>10, <2>11
<1>5. ASSUME NEW c \in Calls, Sends(c)
      PROVE  DaemonTyped' /\ \A d \in Calls : SpokenInv(d)'
  <2> DEFINE batch == Prefix(cap[c].queue)
             k == [cap[c] EXCEPT !.pc = "asking", !.batch = batch]
  <2>1. batch \subseteq Events
    BY <1>b DEF Prefix
  <2>2. cap' = [cap EXCEPT ![c] = k]
    BY <1>0, <1>5 DEF Sends
  <2> HIDE DEF batch
  <2>3. k \in CapType
    BY <1>g, <2>1 DEF CapType
  <2> HIDE DEF k
  <2>4. cap' \in [Calls -> CapType]
    BY <1>0, <2>2, <2>3
  <2> QED
    BY <1>0, <1>5, <2>4 DEF Sends, DaemonTyped, SpokenInv
<1>6. ASSUME NEW c \in Calls, Takes(c)
      PROVE  DaemonTyped' /\ \A d \in Calls : SpokenInv(d)'
  <2>1. CASE Acknowledges(c)
    <3> DEFINE r == [run[c] EXCEPT !.acked = run[c].acked \cup cap[c].batch]
               k == [cap[c] EXCEPT !.pc = "idle", !.queue = cap[c].queue \ cap[c].batch, !.batch = {}]
    <3>1. run' = [run EXCEPT ![c] = r] /\ cap' = [cap EXCEPT ![c] = k]
      BY <2>1 DEF Acknowledges
    <3>2. r \in RunType /\ r.captured = run[c].captured /\ r.complete = run[c].complete
      <4>1. run[c].acked \cup cap[c].batch \in SUBSET Events
        BY <1>g, <1>b DEF RunType
      <4> QED
        BY <1>g, <4>1 DEF RunType
    <3>3. k \in CapType
      <4>1. cap[c].queue \ cap[c].batch \in SUBSET Events
        BY <1>b
      <4> QED
        BY <1>g, <4>1 DEF CapType
    <3> HIDE DEF r, k
    <3> QED
      BY <1>0, <1>6, <3>1, <3>2, <3>3, DaemonSet DEF Takes
  <2>2. ASSUME NEW status \in TERMINAL \cup {"pending"}, Told(c, status)
        PROVE  DaemonTyped' /\ \A d \in Calls : SpokenInv(d)'
    <3> DEFINE r == [run[c] EXCEPT !.status = status, !.finalized = TRUE]
    <3>1. run' = [run EXCEPT ![c] = r]
      BY <1>0, <2>2 DEF Told
    <3>2. PICK k \in CapType : cap' = [cap EXCEPT ![c] = k]
      BY <1>c, <1>f, <2>2 DEF Told
    <3>3. r \in RunType /\ r.captured = run[c].captured /\ r.complete = run[c].complete
      BY <1>d
    <3> HIDE DEF r
    <3> QED
      BY <1>0, <1>6, <3>1, <3>2, <3>3, DaemonSet DEF Takes
  <2>3. CASE Refused(c) \/ Fails(c)
    <3>1. PICK k \in CapType : cap' = [cap EXCEPT ![c] = k]
      BY <1>c, <1>f, <2>3 DEF Refused, Fails
    <3>2. PICK status \in TERMINAL \cup {"pending"} : run' = [run EXCEPT ![c].status = status]
      BY <2>3 DEF Refused, Fails, TERMINAL
    <3> QED
      BY <1>6, <1>e, <3>1, <3>2 DEF Takes
  <2> QED
    BY <1>6, <2>1, <2>2, <2>3 DEF Takes
<1>7. ASSUME NEW c \in Calls, GivesUp(c) \/ LosesAnswer(c)
      PROVE  DaemonTyped' /\ \A d \in Calls : SpokenInv(d)'
  <2>1. PICK k \in CapType : cap' = [cap EXCEPT ![c] = k]
    <3>1. CASE GivesUp(c)
      BY <1>c, <3>1 DEF GivesUp
    <3>2. CASE LosesAnswer(c)
      BY <1>f, <3>2 DEF LosesAnswer, Fails
    <3> QED
      BY <1>7, <3>1, <3>2
  <2>2. PICK status \in TERMINAL \cup {"pending"} : run' = [run EXCEPT ![c].status = status]
    BY <1>7 DEF GivesUp, LosesAnswer, Fails, TERMINAL
  <2> QED
    BY <1>7, <1>e, <2>1, <2>2 DEF GivesUp, LosesAnswer
<1>8. CASE DaemonRestarts
  <2>1. ASSUME NEW c \in Calls
        PROVE  /\ run'[c] \in RunType /\ run'[c].captured = run[c].captured
               /\ run'[c].complete => run[c].complete
    <3>1. run[c] \in RunType
      BY <1>0
    <3>2. PICK x \in BOOLEAN, status \in {"failed", run[c].status} :
            Restarted(c) = [run[c] EXCEPT !.status = status, !.ended = TRUE,
                                          !.complete = run[c].complete /\ x]
      <4> DEFINE x == run[c].ended /\ ~Short(c)
                 status == IF c \in late THEN "failed" ELSE run[c].status
      <4>1. Restarted(c) = [run[c] EXCEPT !.status = status, !.ended = TRUE,
                                          !.complete = run[c].complete /\ x]
        BY DEF Restarted
      <4>2. x \in BOOLEAN /\ status \in {"failed", run[c].status}
        OBVIOUS
      <4> HIDE DEF x, status
      <4> QED
        BY <4>1, <4>2
    <3>3. run'[c] \in {Restarted(c), [run[c] EXCEPT !.ended = TRUE], run[c]}
      BY <1>8 DEF DaemonRestarts
    <3>4. run'[c] \in {[run[c] EXCEPT !.status = status, !.ended = TRUE,
                                     !.complete = run[c].complete /\ x],
                      [run[c] EXCEPT !.ended = TRUE], run[c]}
      BY <3>2, <3>3
    <3>5. status \in TERMINAL \cup {"none", "pending"} /\ (run[c].complete /\ x) \in BOOLEAN
      BY <3>1 DEF RunType, TERMINAL
    <3>6. CASE run'[c] = [run[c] EXCEPT !.status = status, !.ended = TRUE,
                                        !.complete = run[c].complete /\ x]
      BY <3>1, <3>5, <3>6 DEF RunType
    <3>7. CASE run'[c] = [run[c] EXCEPT !.ended = TRUE]
      BY <3>1, <3>7 DEF RunType
    <3> QED
      BY <3>1, <3>4, <3>6, <3>7
  <2>2. \A c \in Calls : cap'[c] \in CapType
    <3>1. ASSUME NEW c \in Calls PROVE [Idle EXCEPT !.queue = Retained(c), !.ending = TRUE] \in CapType
      <4>1. Retained(c) \subseteq Events
        BY <1>0 DEF Retained
      <4> QED
        BY <1>a, <4>1 DEF CapType
    <3> QED
      BY <1>a, <1>8, <3>1 DEF DaemonRestarts
  <2>3. run' \in [Calls -> RunType] /\ cap' \in [Calls -> CapType] /\ UNCHANGED <<talk, spoken>>
    BY <1>8, <2>1, <2>2 DEF DaemonRestarts
  <2> QED
    BY <1>0, <2>1, <2>3 DEF DaemonTyped, SpokenInv
<1> QED
  BY <1>1, <1>2, <1>3, <1>4, <1>5, <1>6, <1>7, <1>8 DEF Call, Task

\* The gateway's handlers do not touch the owner's edit.
LEMMA EditApart ==
  ASSUME TypeInv, NEW c \in Calls, Serves(c) \/ GoesOn(c)
  PROVE  edit' = edit /\ bound'.edits = bound.edits
<1>1. bound \in Scenario
  BY DEF TypeInv, GatewayTyped
<1>2. edit' = edit /\ bound' \in {bound, [bound EXCEPT !.fails = @ - 1]}
  BY DEF Serves, GoesOn, Checkpoint, Finalize, Status, Extracted, ExtractionFails, Merged, MergeFails
<1> QED
  BY <1>1, <1>2 DEF Scenario

LEMMA TypeStep == TypeInv /\ [Next]_vars => TypeInv'
<1> SUFFICES ASSUME TypeInv, [Next]_vars PROVE TypeInv'
  OBVIOUS
<1>1. ASSUME UNCHANGED daemon, GatewayTyped', edit'.open => bound'.edits > 0
      PROVE  TypeInv'
  BY <1>1 DEF TypeInv, DaemonTyped, SpokenInv, daemon
<1>2. ASSUME NEW c \in Calls, Serves(c) \/ GoesOn(c), UNCHANGED daemon PROVE TypeInv'
  BY <1>1, <1>2, GatewayActionTyped, EditApart DEF TypeInv
<1>3. ASSUME Worker \/ Outside, UNCHANGED daemon PROVE TypeInv'
  BY <1>1, <1>3, OutsideTyped
<1>4. CASE \/ \E c \in Calls : Call(c) \/ Task(c) \/ LosesAnswer(c)
           \/ DaemonRestarts
  BY <1>4, DaemonGatewayTyped, DaemonActionTyped DEF TypeInv
<1>5. CASE UNCHANGED vars
  BY <1>5 DEF vars, gateway, daemon, TypeInv, GatewayTyped, DaemonTyped, SpokenInv
<1> QED
  BY <1>2, <1>3, <1>4, <1>5 DEF Next, Served, Held, Recovery

LEMMA InitTyped == Init => TypeInv
<1> SUFFICES ASSUME Init PROVE TypeInv
  OBVIOUS
<1>1. /\ NoClose \in Closeout /\ NoWork \in Working
      /\ NoPass \in [todo : SUBSET Calls, rows : [Calls -> Closeout]]
      /\ NoEdit \in [open : BOOLEAN, base : SUBSET Facts, revision : Nat] /\ ~NoEdit.open
  BY DEF NoWork, Working, NoPass, NoClose, Closeout, NoEdit
<1>2. bound \in Scenario
  BY ScenarioAssumption DEF Init, GatewayInit
<1>3. GatewayTyped
  BY <1>1, <1>2 DEF Init, GatewayInit, GatewayTyped
<1>4. NoRun \in RunType /\ Off \in CapType
  <2>1. 0 \in 0..MaxEvent
    BY BoundsAssumption
  <2>2. NoRun \in RunType
    BY <2>1 DEF NoRun, RunType
  <2> QED
    BY <2>2 DEF Off, Idle, CapType
<1>5. DaemonTyped
  BY <1>4 DEF Init, DaemonTyped
<1>6. \A c \in Calls : SpokenInv(c)
  <2>1. {} = 1..0 /\ 0 \in 0..MaxEvent
    BY BoundsAssumption
  <2> QED
    BY <2>1 DEF Init, SpokenInv, NoRun
<1> QED
  BY <1>1, <1>3, <1>5, <1>6 DEF Init, GatewayInit, TypeInv

\* Every variable stays in its range, for any number of calls, events and failures.
THEOREM CaptureTyped == Spec => []TypeInv
BY InitTyped, TypeStep, PTL DEF Spec

-----------------------------------------------------------------------------
(* What a step is to one call *)
Untouched(c) == UNCHANGED <<run[c], cap[c], talk[c], spoken[c], close[c], inbox[c], work[c], reply[c]>>
LocalStep(c) ==
  \/ Untouched(c)
  \/ Call(c) \/ Task(c) \/ LosesAnswer(c) \/ Served(c) \/ Held(c)
  \/ (PassExpires \/ PassRetries) /\ c = Min(pass.todo) /\ UNCHANGED daemon
  \/ (Forget \/ GatewayRestarts) /\ UNCHANGED daemon
  \/ DaemonRestarts

\* A step of another call does not touch this one.
LEMMA Locally == TypeInv /\ [Next]_vars => \A c \in Calls : LocalStep(c)
<1> SUFFICES ASSUME TypeInv, [Next]_vars, NEW c \in Calls PROVE LocalStep(c)
  OBVIOUS
<1>0. /\ close \in [Calls -> Closeout] /\ work \in [Calls -> Working]
      /\ inbox \in [Calls -> SUBSET Requests]
      /\ reply \in [Calls -> TERMINAL \cup {"none", "ok", "pending", "refused", "error"}]
      /\ run \in [Calls -> RunType] /\ cap \in [Calls -> CapType]
      /\ talk \in [Calls -> SUBSET Events] /\ spoken \in [Calls -> SUBSET Events]
  BY DEF TypeInv, GatewayTyped, DaemonTyped
<1>1. ASSUME NEW d \in Calls, d # c, Call(d) \/ LosesAnswer(d) PROVE Untouched(c)
  <2>1. CASE BeginCall(d)
    BY <1>0, <1>1, <2>1 DEF BeginCall, Begins, Untouched
  <2>2. CASE Speaks(d)
    BY <1>0, <1>1, <2>2 DEF Speaks, gateway, Untouched
  <2>3. CASE Transcribes(d) \/ HangsUp(d)
    BY <1>0, <1>1, <2>3 DEF Transcribes, HangsUp, gateway, Untouched
  <2>4. CASE LosesAnswer(d)
    BY <1>0, <1>1, <2>4 DEF LosesAnswer, Abandons, Fails, Untouched
  <2> QED
    BY <1>1, <2>1, <2>2, <2>3, <2>4 DEF Call
<1>2. ASSUME NEW d \in Calls, d # c, Task(d) PROVE Untouched(c)
  <2>1. CASE Sends(d)
    BY <1>0, <1>2, <2>1 DEF Sends, Asks, Untouched
  <2>2. CASE Takes(d)
    BY <1>0, <1>2, <2>2 DEF Takes, Acknowledges, Told, Refused, Fails, Ends, Untouched
  <2>3. CASE GivesUp(d)
    BY <1>0, <1>2, <2>3 DEF GivesUp, Ends, gateway, Untouched
  <2> QED
    BY <1>2, <2>1, <2>2, <2>3 DEF Task
<1>a. ASSUME NEW d \in Calls, d # c, NEW q, NEW answer, Answers(d, q, answer) PROVE reply'[c] = reply[c]
  BY <1>0, <1>a DEF Answers
<1>3. ASSUME NEW d \in Calls, d # c, Served(d) PROVE Untouched(c)
  <2>1. PICK q \in inbox[d] : Checkpoint(d, q) \/ Finalize(d, q) \/ Status(d, q)
    BY <1>3 DEF Served, Serves
  <2>2. reply'[c] = reply[c]
    BY <1>3, <1>a, <2>1 DEF Checkpoint, Finalize, Status
  <2> QED
    BY <1>0, <1>3, <2>1, <2>2 DEF Served, daemon, Checkpoint, Finalize, Status, Untouched
<1>4. ASSUME NEW d \in Calls, d # c, Held(d) PROVE Untouched(c)
  <2>1. reply'[c] = reply[c]
    BY <1>4, <1>a DEF Held, GoesOn, Extracted, ExtractionFails, Merged, Saves, MergeFails, Leaves
  <2> QED
    BY <1>0, <1>4, <2>1 DEF Held, daemon, GoesOn, Extracted, ExtractionFails, Merged, Saves, MergeFails,
                           Leaves, Untouched
<1>5. CASE Recovery
  <2>1. CASE Min(pass.todo) # c
    BY <1>0, <1>5, <2>1 DEF Recovery, Worker, PassBegins, PassExpires, PassRetries, daemon, Untouched, LocalStep
  <2>2. CASE PassBegins
    BY <1>5, <2>2 DEF Recovery, PassBegins, daemon, Untouched, LocalStep
  <2> QED
    BY <1>5, <2>1, <2>2 DEF Recovery, Worker, LocalStep
<1>6. CASE Outside /\ UNCHANGED daemon
  BY <1>6 DEF Outside, OwnerReads, OwnerWrites, Expires, daemon, Untouched, LocalStep
<1>7. CASE UNCHANGED vars
  BY <1>7 DEF vars, gateway, daemon, Untouched, LocalStep
<1> QED
  BY <1>1, <1>2, <1>3, <1>4, <1>5, <1>6, <1>7 DEF Next, LocalStep

\* What a step does to a closeout.
Opens(c) == /\ close[c].status = "absent" /\ run[c].status = "none" /\ run'[c].status # "none"
            /\ close'[c].status = "pending" /\ ~close'[c].sealed /\ close'[c].events = {}
Grows(c) == /\ close[c].status # "absent" /\ close'[c].status = close[c].status
            /\ close'[c].sealed = close[c].sealed /\ close'[c].complete = close[c].complete
            /\ close[c].events \subseteq close'[c].events
Seals(c) == /\ close[c].status = "pending" /\ close'[c].status = "pending" /\ close'[c].sealed
            /\ close'[c].events = close[c].events
            /\ close'[c].complete => \E q \in inbox[c] : q.op = "finalize" /\ q.complete
Commits(c) == /\ close[c].status = "pending" /\ work[c].pc = "merging"
              /\ close'[c].status \in TERMINAL
              /\ close'[c].status # "failed" => close[c].complete /\ close[c].facts \subseteq written'
Closes(c) == close[c].status # "absent" /\ close'[c].status \in {"failed", "forgotten"}

LEMMA CloseStep == TypeInv /\ BegunInv /\ [Next]_vars =>
  \A c \in Calls : \/ close'[c] = close[c]
                   \/ Opens(c) \/ Grows(c) \/ Seals(c) \/ Commits(c) \/ Closes(c)
<1> SUFFICES ASSUME TypeInv, BegunInv, [Next]_vars, NEW c \in Calls
             PROVE  \/ close'[c] = close[c]
                    \/ Opens(c) \/ Grows(c) \/ Seals(c) \/ Commits(c) \/ Closes(c)
  OBVIOUS
<1>0. /\ close \in [Calls -> Closeout] /\ run \in [Calls -> RunType] /\ work[c] \in Working
      /\ close[c] \in Closeout /\ pass.rows[c] \in Closeout /\ LocalStep(c)
  BY Locally DEF TypeInv, GatewayTyped, DaemonTyped
<1>1. CASE BeginCall(c)
  BY <1>0, <1>1 DEF BeginCall, Begins, BegunInv, NoClose, Opens, RunType
<1>2. ASSUME NEW q \in inbox[c], Finalize(c, q)
      PROVE  close'[c] = close[c] \/ Seals(c)
  <2>1. CASE /\ close' = [close EXCEPT ![c].sealed = TRUE, ![c].complete = @ /\ q.complete]
             /\ close[c].status = "pending"
    <3>1. close'[c] = [close[c] EXCEPT !.sealed = TRUE, !.complete = @ /\ q.complete]
      BY <1>0, <2>1
    <3>2. /\ close'[c].status = "pending" /\ close'[c].sealed /\ close'[c].events = close[c].events
          /\ close'[c].complete => q.complete
      BY <1>0, <2>1, <3>1 DEF Closeout
    <3> QED
      BY <1>2, <2>1, <3>2 DEF Finalize, Seals
  <2> QED
    BY <1>2, <2>1 DEF Finalize
<1>3. CASE Extracted(c)
  <2>1. CASE Authorised(c)
    <3>1. close'[c] = [close[c] EXCEPT !.facts = @ \cup {<<c, e>> : e \in work[c].fresh},
                                       !.events = @ \cup work[c].fresh]
      BY <1>0, <1>3, <2>1 DEF Extracted
    <3>2. /\ close'[c].status = close[c].status /\ close'[c].sealed = close[c].sealed
          /\ close'[c].complete = close[c].complete /\ close'[c].events = close[c].events \cup work[c].fresh
      BY <1>0, <3>1 DEF Closeout
    <3> QED
      BY <2>1, <3>2 DEF Grows, Authorised, Kept
  <2> QED
    BY <1>3, <2>1 DEF Extracted
<1>4. CASE Merged(c)
  <2>1. CASE Saves(c) /\ close[c].status = "pending"
    <3>1. close'[c].status = Result(close[c]) /\ written' = written \cup close[c].facts
      BY <1>0, <2>1 DEF Saves
    <3> QED
      BY <1>4, <2>1, <3>1 DEF Merged, Result, Commits, TERMINAL
  <2>2. CASE close' = close \/ (close' = [close EXCEPT ![c].status = "failed"] /\ close[c].status = "pending")
    <3>1. close[c].status = "pending" /\ close' = [close EXCEPT ![c].status = "failed"]
            => close'[c].status = "failed"
      BY <1>0 DEF Closeout
    <3> QED
      BY <2>2, <3>1 DEF Closes
  <2> QED
    BY <1>4, <2>1, <2>2 DEF Merged
<1>5. ASSUME NEW status \in {"pending", "failed"}, MergeFails(c, status)
      PROVE  close'[c] = close[c] \/ Closes(c)
  BY <1>0, <1>5 DEF MergeFails, Closes, Closeout
<1>6. CASE PassExpires /\ c = Min(pass.todo)
  <2>1. CASE Kept(c)
    <3>1. close'[c] = [pass.rows[c] EXCEPT !.status = "failed", !.facts = {}]
      BY <1>0, <1>6, <2>1 DEF PassExpires
    <3>2. close'[c].status = "failed"
      BY <1>0, <3>1 DEF Closeout
    <3> QED
      BY <2>1, <3>2 DEF Kept, Closes
  <2> QED
    BY <1>6, <2>1 DEF PassExpires
<1>7. CASE Forget
  BY <1>0, <1>7 DEF Forget, Forgets, Begun, NoClose, Closes
<1>8. CASE Untouched(c) \/ UNCHANGED gateway \/ UNCHANGED close
  BY <1>8 DEF Untouched, gateway
<1> QED
  BY <1>0, <1>1, <1>2, <1>3, <1>4, <1>5, <1>6, <1>7, <1>8
     DEF LocalStep, Call, Task, Served, Held, Serves, GoesOn, Checkpoint, Status, ExtractionFails,
         PassRetries, GatewayRestarts, DaemonRestarts, Speaks, Transcribes, HangsUp, Sends, Takes,
         GivesUp, LosesAnswer

\* What a step does to a run.
LEMMA RunStep == TypeInv /\ [Next]_vars => \A c \in Calls :
  /\ run'[c].status = "none" => run[c].status = "none"
  /\ run[c].acked \subseteq run'[c].acked
  /\ run[c].ended => run'[c].ended /\ spoken'[c] = spoken[c]
<1> SUFFICES ASSUME TypeInv, [Next]_vars, NEW c \in Calls
             PROVE  /\ run'[c].status = "none" => run[c].status = "none"
                    /\ run[c].acked \subseteq run'[c].acked
                    /\ run[c].ended => run'[c].ended /\ spoken'[c] = spoken[c]
  OBVIOUS
<1>0. run \in [Calls -> RunType] /\ run[c] \in RunType /\ spoken \in [Calls -> SUBSET Events] /\ LocalStep(c)
  BY Locally DEF TypeInv, DaemonTyped
<1>1. CASE run'[c] = run[c] /\ spoken'[c] = spoken[c]
  BY <1>1
<1>2. CASE BeginCall(c)
  BY <1>0, <1>2 DEF BeginCall, RunType
<1>3. CASE Speaks(c) \/ HangsUp(c)
  BY <1>0, <1>3 DEF Speaks, HangsUp, InCall, RunType
<1>4. CASE Takes(c) \/ GivesUp(c) \/ LosesAnswer(c)
  <2>1. spoken' = spoken
    BY <1>4 DEF Takes, GivesUp, LosesAnswer
  <2>2. CASE \E status \in TERMINAL \cup {"pending"} : run' = [run EXCEPT ![c].status = status]
    BY <1>0, <2>1, <2>2 DEF TERMINAL, RunType
  <2>3. CASE \E status \in TERMINAL \cup {"pending"} :
               run' = [run EXCEPT ![c].status = status, ![c].finalized = TRUE]
    BY <1>0, <2>1, <2>3 DEF TERMINAL, RunType
  <2>4. CASE Acknowledges(c)
    BY <1>0, <2>1, <2>4 DEF Acknowledges, RunType
  <2> QED
    BY <1>4, <2>2, <2>3, <2>4 DEF Takes, GivesUp, LosesAnswer, Told, Refused, Fails, TERMINAL
<1>5. CASE DaemonRestarts
  <2>1. spoken' = spoken /\ run'[c] \in {Restarted(c), [run[c] EXCEPT !.ended = TRUE], run[c]}
        /\ (run'[c] = Restarted(c) => run[c].status = "pending" \/ run'[c] = run[c]
                                      \/ run'[c] = [run[c] EXCEPT !.ended = TRUE])
    BY <1>5 DEF DaemonRestarts, Recovers
  <2>2. /\ Restarted(c).acked = run[c].acked /\ Restarted(c).ended
        /\ run[c].status = "pending" => Restarted(c).status \in {"pending", "failed"}
    BY <1>0 DEF Restarted, RunType
  <2> QED
    BY <1>0, <2>1, <2>2 DEF RunType
<1> QED
  BY <1>0, <1>1, <1>2, <1>3, <1>4, <1>5
     DEF LocalStep, Untouched, Call, Task, Served, Held, daemon, Transcribes, Sends

\* A closeout begins when its call does, and what is sealed stays so.
LEMMA BegunStep == TypeInv /\ BegunInv /\ [Next]_vars => BegunInv'
<1> SUFFICES ASSUME TypeInv, BegunInv, [Next]_vars, NEW c \in Calls
             PROVE  /\ run'[c].status = "none" => close'[c].status = "absent"
                    /\ close'[c].status = "absent" => ~close'[c].sealed
                    /\ pass'.rows[c].sealed \/ work'[c].pc = "merging" => Sealed(c)'
  BY DEF BegunInv
<1>0. /\ work \in [Calls -> Working] /\ LocalStep(c)
      /\ pass.rows \in [Calls -> Closeout]
      /\ pass \in [todo : SUBSET Calls, rows : [Calls -> Closeout]]
  BY Locally DEF TypeInv, GatewayTyped
<1>1. \/ close'[c] = close[c]
      \/ Opens(c) \/ Grows(c) \/ Seals(c) \/ Commits(c) \/ Closes(c)
  BY CloseStep
<1>2. run'[c].status = "none" => run[c].status = "none"
  BY RunStep
<1>3. /\ run'[c].status = "none" => close'[c].status = "absent"
      /\ close'[c].status = "absent" => ~close'[c].sealed
      /\ Sealed(c) => Sealed(c)'
  BY <1>1, <1>2 DEF BegunInv, Opens, Grows, Seals, Commits, Closes, Sealed, TERMINAL
<1>4. pass'.rows[c].sealed => Sealed(c)'
  <2>1. pass'.rows = pass.rows \/ pass'.rows[c] = NoClose \/ pass'.rows[c] = close[c]
    <3>1. pass' \in {pass, NoPass} \/ (\E d \in Calls : pass' = [pass EXCEPT !.todo = @ \ {d}]) \/ PassBegins
          \/ pass' = [pass EXCEPT !.todo = @ \ {Min(pass.todo)}]
      <4>1. ASSUME NEW d \in Calls, Served(d) \/ Call(d) \/ Task(d) \/ LosesAnswer(d) PROVE pass' = pass
        BY <4>1 DEF Served, Serves, Checkpoint, Finalize, Status, Call, Task, BeginCall, Speaks,
                    Transcribes, HangsUp, Sends, Takes, GivesUp, LosesAnswer, gateway
      <4>2. ASSUME NEW d \in Calls, NEW answer, Leaves(d, answer)
            PROVE  pass' \in {pass, NoPass} \/ pass' = [pass EXCEPT !.todo = @ \ {d}]
        BY <4>2 DEF Leaves
      <4>3. ASSUME NEW d \in Calls, Held(d)
            PROVE  pass' \in {pass, NoPass} \/ pass' = [pass EXCEPT !.todo = @ \ {d}]
        BY <4>2, <4>3 DEF Held, GoesOn, Extracted, ExtractionFails, Merged, Saves, MergeFails
      <4>4. CASE Worker
        BY <4>4 DEF Worker, PassExpires, PassRetries
      <4>5. CASE Outside \/ DaemonRestarts
        BY <4>5 DEF Outside, OwnerReads, OwnerWrites, Forget, Expires, GatewayRestarts, DaemonRestarts
      <4>6. CASE UNCHANGED vars
        BY <4>6 DEF vars, gateway
      <4> QED
        BY <4>1, <4>3, <4>4, <4>5, <4>6 DEF Next, Recovery
    <3> QED
      BY <1>0, <3>1 DEF NoPass, PassBegins
  <2> QED
    BY <1>3, <2>1 DEF BegunInv, NoClose, Sealed
<1>5. work'[c].pc = "merging" => Sealed(c)'
  <2>1. CASE work'[c].pc # "merging" \/ work[c].pc = "merging"
    BY <1>3, <2>1 DEF BegunInv
  <2>2. ASSUME NEW q \in inbox[c], Finalize(c, q) PROVE work' = work \/ close'[c].sealed
    <3>1. CASE close' = [close EXCEPT ![c].sealed = TRUE, ![c].complete = @ /\ q.complete]
      BY <3>1 DEF TypeInv, GatewayTyped, Closeout
    <3> QED
      BY <2>2, <3>1 DEF Finalize
  <2>3. CASE PassRetries /\ c = Min(pass.todo)
    BY <1>3, <2>1, <2>3 DEF PassRetries, BegunInv
  <2>4. CASE work'[c].pc \in {work[c].pc, "extracting", "none"}
    BY <2>1, <2>4
  <2>5. CASE Held(c)
    BY <1>0, <2>4, <2>5 DEF Held, GoesOn, Extracted, ExtractionFails, Merged, Saves, MergeFails, Leaves, NoWork
  <2>6. ASSUME NEW q \in inbox[c], Checkpoint(c, q) \/ Status(c, q) PROVE Sealed(c)' \/ work'[c].pc # "merging"
    BY <1>0, <2>1, <2>6 DEF Checkpoint, Status, NoWork
  <2>7. CASE LosesAnswer(c) \/ DaemonRestarts \/ GatewayRestarts
    <3>1. work[c] \in Working
      BY <1>0
    <3>2. [work[c] EXCEPT !.request = Abandon(work[c].request)].pc = work[c].pc
      BY <3>1 DEF Working
    <3>3. CASE LosesAnswer(c) \/ DaemonRestarts
      <4>1. work'[c] = [work[c] EXCEPT !.request = Abandon(work[c].request)]
        BY <1>0, <3>3 DEF LosesAnswer, Abandons, DaemonRestarts
      <4> QED
        BY <2>4, <3>2, <4>1
    <3>4. CASE GatewayRestarts
      BY <2>4, <3>4 DEF GatewayRestarts, NoWork
    <3> QED
      BY <2>7, <3>3, <3>4
  <2>8. CASE work' = work \/ Untouched(c)
    BY <2>1, <2>8 DEF Untouched
  <2> QED
    BY <1>0, <2>2, <2>3, <2>5, <2>6, <2>7, <2>8
       DEF LocalStep, Served, Serves, Sealed, Call, Task, BeginCall, Speaks, Transcribes, HangsUp, Sends,
           Takes, GivesUp, PassExpires, Forget, gateway
<1> QED
  BY <1>3, <1>4, <1>5

-----------------------------------------------------------------------------
(* Nothing lost, nothing brought back *)

\* What a step may do to a closeout: it begins, or goes on, or is over for good.
Progresses(old, new) ==
  /\ old.status # "absent" => new.status # "absent"
  /\ old.status = "forgotten" => new.status = "forgotten"

\* A step that leaves the notes alone, in which they may be read.
LEMMA NotesUnmoved ==
  ASSUME TypeInv, NotesInv,
         notes'.facts = notes.facts, notes'.revision = notes.revision,
         UNCHANGED <<owed, gone>>, bound'.edits = bound.edits,
         \A c \in Calls : CloseInv(c)' /\ Progresses(close[c], close'[c]),
         \A c \in Calls : work'[c].pc = "merging" =>
           \/ /\ work[c].pc = "merging"
              /\ work'[c].base = work[c].base /\ work'[c].revision = work[c].revision
           \/ work'[c].base = notes.facts /\ work'[c].revision = notes.revision,
         edit'.open => \/ edit' = edit
                       \/ edit'.base = notes.facts /\ edit'.revision = notes.revision
  PROVE  NotesInv'
<1>1. notes.facts \subseteq Facts /\ gone \subseteq Facts /\ notes.revision \in Nat
  BY DEF TypeInv, GatewayTyped
<1>2. \A f \in Facts : f[1] = 0 \/ f[1] \in Calls
  BY BoundsAssumption DEF Facts, Calls
<1>3. OriginInv'
  BY <1>1, <1>2 DEF NotesInv, OriginInv, Progresses
<1>4. (ForgottenStays /\ NothingLost)'
  BY DEF NotesInv, ForgottenStays, NothingLost
<1>5. \A c \in Calls : work'[c].pc = "merging" => ReadInv(work[c])'
  BY <1>1 DEF NotesInv, ReadInv
<1>6. edit'.open => ReadInv(edit)'
  BY <1>1 DEF NotesInv, ReadInv
<1> QED
  BY <1>3, <1>4, <1>5, <1>6 DEF NotesInv

\* _commit adds a closeout's facts to the notes it has read, if they are still those.
LEMMA SavesNotes ==
  ASSUME TypeInv, NotesInv, NEW c \in Calls, Merged(c), Saves(c),
         close[c].status = "pending", Unchanged(work[c])
  PROVE  NotesInv'
<1> DEFINE facts == close[c].facts
           new == facts \ work[c].base
<1>0. /\ GatewayTyped /\ notes.facts \subseteq Facts /\ gone \subseteq Facts /\ notes.revision \in Nat
      /\ close \in [Calls -> Closeout] /\ work \in [Calls -> Working]
  BY DEF TypeInv, GatewayTyped
<1>1. work[c].base = notes.facts
  BY DEF Merged, Unchanged, NotesInv, ReadInv
<1>2. /\ close'[c].status \in {"failed", "saved", "skipped"} /\ \A d \in Calls : d # c => close'[d] = close[d]
      /\ work'[c] = NoWork /\ \A d \in Calls : d # c => work'[d] = work[d]
      /\ owed' = owed \cup facts /\ UNCHANGED <<edit, gone, bound>>
  BY <1>0 DEF Merged, Saves, Leaves, Result, Closeout
<1>3. facts = {c} \X close[c].events /\ close[c].events \subseteq Events
  BY <1>0 DEF NotesInv, CloseInv, Closeout
<1>4. /\ notes'.facts = notes.facts \cup facts
      /\ notes'.revision >= notes.revision
      /\ notes'.revision \in Nat
      /\ notes'.revision = notes.revision => notes'.facts = notes.facts
  <2>1. notes \in [facts : SUBSET Facts, revision : Nat, generation : Nat, allowed : BOOLEAN]
    BY <1>0 DEF GatewayTyped
  <2>2. CASE new = {}
    BY <1>0, <1>1, <2>2 DEF Saves
  <2>3. CASE new # {}
    <3>1. notes' = [notes EXCEPT !.facts = work[c].base \cup new, !.revision = @ + 1]
      BY <2>3 DEF Saves
    <3> QED
      BY <1>0, <1>1, <2>1, <3>1
  <2> QED
    BY <2>2, <2>3
<1>5. \A f \in Facts : f[1] = 0 \/ f[1] \in Calls
  BY BoundsAssumption DEF Facts, Calls
<1>6. \A f \in facts : f[1] = c /\ f[1] # 0
  BY <1>3 DEF Calls
<1>7. OriginInv'
  <2>1. \A f \in gone : f[1] = 0 \/ close'[f[1]].status = "forgotten"
    BY <1>0, <1>2, <1>5 DEF NotesInv, OriginInv
  <2>2. \A f \in notes'.facts : f[1] = 0 \/ close'[f[1]].status # "absent"
    BY <1>0, <1>2, <1>4, <1>5, <1>6 DEF NotesInv, OriginInv
  <2>3. \A f \in notes'.facts \cup gone : f[1] = 0 => f[2] > bound.edits
    BY <1>4, <1>6 DEF NotesInv, OriginInv
  <2> QED
    BY <1>2, <2>1, <2>2, <2>3 DEF OriginInv
<1>8. ForgottenStays'
  BY <1>2, <1>4, <1>6 DEF NotesInv, OriginInv, ForgottenStays
<1>9. NothingLost'
  BY <1>2, <1>4 DEF NotesInv, NothingLost
<1>10. \A d \in Calls : CloseInv(d)' /\ (work'[d].pc = "merging" => ReadInv(work[d])')
  <2> TAKE d \in Calls
  <2>1. CASE d = c
    BY <1>2, <2>1 DEF CloseInv, NoWork
  <2>2. CASE d # c
    BY <1>0, <1>2, <1>4, <2>2 DEF NotesInv, CloseInv, ReadInv, Working
  <2> QED
    BY <2>1, <2>2
<1>11. edit'.open => ReadInv(edit)'
  <2>1. edit.revision \in Nat
    BY <1>0 DEF GatewayTyped
  <2> QED
    BY <1>0, <1>2, <1>4, <2>1 DEF NotesInv, ReadInv
<1> QED
  BY <1>7, <1>8, <1>9, <1>10, <1>11 DEF NotesInv

\* The owner writes to the notes as he read them.
LEMMA OwnerWritesNotes ==
  ASSUME TypeInv, NotesInv, OwnerWrites
  PROVE  NotesInv'
<1> DEFINE line == <<0, bound.edits>>
<1>0. /\ notes.facts \subseteq Facts /\ gone \subseteq Facts /\ notes.revision \in Nat
      /\ bound.edits \in Nat /\ bound'.edits = bound.edits - 1
      /\ notes \in [facts : SUBSET Facts, revision : Nat, generation : Nat, allowed : BOOLEAN]
      /\ work \in [Calls -> Working]
  BY DEF TypeInv, GatewayTyped, Scenario, OwnerWrites
<1>1. UNCHANGED <<close, work, gone>> /\ ~edit'.open /\ edit.open
  BY DEF OwnerWrites, NoEdit
<1>2. \/ notes' = notes /\ owed' = owed
      \/ /\ notes'.facts = notes.facts \cup {line} /\ notes'.revision = notes.revision + 1
         /\ owed' = owed \cup {line}
  <2>1. CASE Unchanged(edit)
    <3>1. edit.base = notes.facts
      BY <1>1, <2>1 DEF Unchanged, NotesInv, ReadInv
    <3>2. notes' = [notes EXCEPT !.facts = edit.base \cup {line}, !.revision = @ + 1]
          /\ owed' = owed \cup {line}
      BY <2>1 DEF OwnerWrites
    <3> QED
      BY <1>0, <3>1, <3>2
  <2>2. CASE ~Unchanged(edit)
    BY <2>2 DEF OwnerWrites
  <2> QED
    BY <2>1, <2>2
<1>3. \A f \in notes.facts \cup gone : f[2] \in Nat
  BY <1>0 DEF Facts
<1>4. line[1] = 0 /\ line[2] = bound.edits /\ line \notin gone
  BY <1>0 DEF NotesInv, OriginInv
<1> HIDE DEF line
<1>5. OriginInv'
  BY <1>0, <1>1, <1>2, <1>3, <1>4 DEF NotesInv, OriginInv
<1>6. ForgottenStays' /\ NothingLost'
  BY <1>1, <1>2, <1>4 DEF NotesInv, ForgottenStays, NothingLost
<1>7. \A c \in Calls : CloseInv(c)' /\ (work'[c].pc = "merging" => ReadInv(work[c])')
  <2> TAKE c \in Calls
  <2>1. work[c].revision \in Nat
    BY <1>0 DEF Working
  <2> QED
    BY <1>0, <1>1, <1>2, <2>1 DEF NotesInv, CloseInv, ReadInv
<1> QED
  BY <1>1, <1>5, <1>6, <1>7 DEF NotesInv

\* What is forgotten is of closeouts that are forgotten with it.
LEMMA ForgetNotes ==
  ASSUME TypeInv, NotesInv, Forget
  PROVE  NotesInv'
<1>0. /\ notes.facts \subseteq Facts /\ gone \subseteq Facts /\ notes.revision \in Nat
      /\ notes \in [facts : SUBSET Facts, revision : Nat, generation : Nat, allowed : BOOLEAN]
      /\ close \in [Calls -> Closeout] /\ work \in [Calls -> Working] /\ edit.revision \in Nat
      /\ bound \in Scenario
  BY DEF TypeInv, GatewayTyped
<1>1. /\ notes'.facts = {} /\ notes'.revision = notes.revision + 1
      /\ UNCHANGED <<work, edit>> /\ owed' = {} /\ bound'.edits = bound.edits
      /\ gone' = gone \cup notes.facts \cup (Begun \X Events)
  <2>1. notes' = [notes EXCEPT !.facts = {}, !.revision = @ + 1, !.generation = @ + 1]
    BY DEF Forget, Forgets
  <2>2. bound'.edits = bound.edits
    BY <1>0 DEF Forget, Scenario
  <2> QED
    BY <1>0, <2>1, <2>2 DEF Forget
<1>2. \A c \in Calls : close'[c].status = IF close[c].status = "absent" THEN "absent" ELSE "forgotten"
  BY <1>0 DEF Forget, Forgets, Begun, NoClose, Closeout
<1>3. \A f \in Facts : f[1] = 0 \/ f[1] \in Calls
  BY BoundsAssumption DEF Facts, Calls
<1>4. \A f \in Begun \X Events : f[1] \in Calls /\ f[1] # 0 /\ close'[f[1]].status = "forgotten"
  BY <1>2 DEF Begun, Calls
<1>5. \A f \in notes.facts \cup gone : f[1] = 0 \/ close'[f[1]].status = "forgotten"
  BY <1>0, <1>2, <1>3 DEF NotesInv, OriginInv
<1>6. OriginInv'
  BY <1>1, <1>4, <1>5 DEF NotesInv, OriginInv
<1>7. ForgottenStays' /\ NothingLost'
  BY <1>1 DEF ForgottenStays, NothingLost
<1>8. \A c \in Calls : CloseInv(c)' /\ (work'[c].pc = "merging" => ReadInv(work[c])')
  <2> TAKE c \in Calls
  <2>1. work[c].revision \in Nat
    BY <1>0 DEF Working
  <2> QED
    BY <1>0, <1>1, <1>2, <2>1 DEF NotesInv, CloseInv, ReadInv
<1>9. edit'.open => ReadInv(edit)'
  BY <1>0, <1>1 DEF NotesInv, ReadInv
<1> QED
  BY <1>6, <1>7, <1>8, <1>9 DEF NotesInv

\* The other steps of the gateway leave the notes alone.
LEMMA NotesStep == TypeInv /\ BegunInv /\ NotesInv /\ [Next]_vars => NotesInv'
<1> SUFFICES ASSUME TypeInv, BegunInv, NotesInv, [Next]_vars PROVE NotesInv'
  OBVIOUS
<1>0. /\ close \in [Calls -> Closeout] /\ work \in [Calls -> Working]
      /\ notes \in [facts : SUBSET Facts, revision : Nat, generation : Nat, allowed : BOOLEAN]
      /\ bound \in Scenario /\ \A c \in Calls : CloseInv(c)
      /\ pass.rows \in [Calls -> Closeout]
  BY DEF TypeInv, GatewayTyped, NotesInv
<1>a. ASSUME NEW c \in Calls, NEW r,
             close' = [close EXCEPT ![c] = r], Progresses(close[c], r),
             r.status = "pending" => r.facts = {c} \X r.events
      PROVE  \A d \in Calls : CloseInv(d)' /\ Progresses(close[d], close'[d])
  BY <1>0, <1>a DEF CloseInv, Progresses
<1>b. close' = close => \A d \in Calls : CloseInv(d)' /\ Progresses(close[d], close'[d])
  BY <1>0 DEF CloseInv, Progresses
<1>c. ASSUME NEW c \in Calls, NEW status, status \notin {"absent", "pending", "forgotten"},
             close' = [close EXCEPT ![c].status = status], close[c].status = "pending"
      PROVE  \A d \in Calls : CloseInv(d)' /\ Progresses(close[d], close'[d])
  <2>1. close' = [close EXCEPT ![c] = [close[c] EXCEPT !.status = status]]
    BY <1>0, <1>c
  <2>2. [close[c] EXCEPT !.status = status].status = status
    BY <1>0 DEF Closeout
  <2> QED
    BY <1>a, <1>c, <2>1, <2>2 DEF Progresses
<1>d. \A q : Merging(q).base = notes.facts /\ Merging(q).revision = notes.revision
  BY DEF Merging, NoWork
<1>1. ASSUME NEW c \in Calls, Serves(c) PROVE NotesInv'
  <2>1. PICK q \in inbox[c] : Checkpoint(c, q) \/ Finalize(c, q) \/ Status(c, q)
    BY <1>1 DEF Serves
  <2>2. CASE Checkpoint(c, q)
    <3>1. \A d \in Calls : work'[d].pc = "merging" => work'[d] = work[d]
      BY <1>0, <2>2 DEF Checkpoint, NoWork
    <3> QED
      BY <1>b, <2>2, <3>1, NotesUnmoved DEF Checkpoint
  <2>3. CASE Finalize(c, q)
    <3>1. \A d \in Calls : \/ work'[d] = work[d]
                           \/ work'[d].base = notes.facts /\ work'[d].revision = notes.revision
      <4>1. work' = work \/ work' = [work EXCEPT ![c] = Merging(q)]
        BY <2>3 DEF Finalize
      <4> QED
        BY <1>0, <1>d, <4>1
    <3>2. \A d \in Calls : CloseInv(d)' /\ Progresses(close[d], close'[d])
      <4>1. CASE close' = close
        BY <1>b, <4>1
      <4>2. CASE /\ close' = [close EXCEPT ![c].sealed = TRUE, ![c].complete = @ /\ q.complete]
                 /\ close[c].status = "pending"
        <5> DEFINE r == [close[c] EXCEPT !.sealed = TRUE, !.complete = @ /\ q.complete]
        <5>1. close' = [close EXCEPT ![c] = r]
          BY <1>0, <4>2
        <5>2. r.status = "pending" /\ r.facts = close[c].facts /\ r.events = close[c].events
          BY <1>0, <4>2 DEF Closeout
        <5> HIDE DEF r
        <5> QED
          BY <1>0, <1>a, <4>2, <5>1, <5>2 DEF CloseInv, Progresses
      <4> QED
        BY <2>3, <4>1, <4>2 DEF Finalize
    <3> QED
      BY <2>3, <3>1, <3>2, NotesUnmoved DEF Finalize
  <2>4. CASE Status(c, q)
    BY <1>b, <2>4, NotesUnmoved DEF Status
  <2> QED
    BY <2>1, <2>2, <2>3, <2>4
<1>2. ASSUME NEW c \in Calls, GoesOn(c) PROVE NotesInv'
  <2>1. edit' = edit /\ bound'.edits = bound.edits
    BY <1>2, EditApart
  <2>2. CASE Extracted(c)
    <3>1. \A d \in Calls : work'[d].pc = "merging" => work'[d] = work[d]
      BY <1>0, <2>2 DEF Extracted, NoWork
    <3>2. \A d \in Calls : CloseInv(d)' /\ Progresses(close[d], close'[d])
      <4>1. CASE close' = close
        BY <1>b, <4>1
      <4>2. CASE close' = [close EXCEPT ![c].facts = @ \cup {<<c, e>> : e \in work[c].fresh},
                                        ![c].events = @ \cup work[c].fresh]
        <5> DEFINE r == [close[c] EXCEPT !.facts = @ \cup {<<c, e>> : e \in work[c].fresh},
                                         !.events = @ \cup work[c].fresh]
        <5>1. close' = [close EXCEPT ![c] = r]
          BY <1>0, <4>2
        <5>2. /\ r.status = close[c].status /\ r.events = close[c].events \cup work[c].fresh
              /\ r.facts = close[c].facts \cup {<<c, e>> : e \in work[c].fresh}
          BY <1>0 DEF Closeout
        <5>3. {<<c, e>> : e \in work[c].fresh} = {c} \X work[c].fresh
          OBVIOUS
        <5> HIDE DEF r
        <5> QED
          BY <1>0, <1>a, <5>1, <5>2, <5>3 DEF CloseInv, Progresses
      <4> QED
        BY <2>2, <4>1, <4>2 DEF Extracted
    <3> QED
      BY <2>1, <2>2, <3>1, <3>2, NotesUnmoved DEF Extracted
  <2>3. CASE ExtractionFails(c)
    <3>1. \A d \in Calls : work'[d].pc = "merging" => work'[d] = work[d]
      BY <1>0, <2>3 DEF ExtractionFails, NoWork
    <3> QED
      BY <1>b, <2>1, <2>3, <3>1, NotesUnmoved DEF ExtractionFails
  <2>4. ASSUME NEW answer, Leaves(c, answer)
        PROVE  \A d \in Calls : work'[d].pc = "merging" => work'[d] = work[d]
    BY <1>0, <2>4 DEF Leaves, NoWork
  <2>5. CASE Merged(c)
    <3>1. CASE close[c].status = "pending" /\ Authorised(c) /\ Unchanged(work[c]) /\ Saves(c)
      BY <2>5, <3>1, SavesNotes
    <3>2. CASE /\ \E answer : Leaves(c, answer)
               /\ UNCHANGED <<close, notes, owed>>
      BY <1>b, <2>1, <2>4, <2>5, <3>2, NotesUnmoved DEF Merged
    <3>3. CASE /\ close[c].status = "pending" /\ Leaves(c, "failed")
               /\ close' = [close EXCEPT ![c].status = "failed"]
               /\ UNCHANGED <<notes, owed>>
      <4>1. \A d \in Calls : CloseInv(d)' /\ Progresses(close[d], close'[d])
        <5>1. "failed" \notin {"absent", "pending", "forgotten"}
          OBVIOUS
        <5> QED
          BY <1>c, <3>3, <5>1
      <4>2. UNCHANGED gone
        BY <2>5 DEF Merged
      <4> QED
        BY <2>1, <2>4, <3>3, <4>1, <4>2, NotesUnmoved
    <3> QED
      BY <2>5, <3>1, <3>2, <3>3 DEF Merged
  <2>6. ASSUME NEW status \in {"pending", "failed"}, MergeFails(c, status) PROVE NotesInv'
    <3>1. \A d \in Calls : CloseInv(d)' /\ Progresses(close[d], close'[d])
      <4>1. CASE status = "failed"
        BY <1>c, <2>6, <4>1 DEF MergeFails
      <4>2. CASE status = "pending"
        <5>1. close' = close
          BY <1>0, <2>6, <4>2 DEF MergeFails, Closeout
        <5> QED
          BY <1>b, <5>1
      <4> QED
        BY <4>1, <4>2
    <3> QED
      BY <2>1, <2>4, <2>6, <3>1, NotesUnmoved DEF MergeFails
  <2> QED
    BY <1>2, <2>2, <2>3, <2>5, <2>6 DEF GoesOn
<1>3. CASE Worker
  <2>1. CASE PassBegins
    BY <1>b, <2>1, NotesUnmoved DEF PassBegins
  <2>2. CASE PassExpires
    <3> DEFINE c == Min(pass.todo)
               r == [pass.rows[c] EXCEPT !.status = "failed", !.facts = {}]
    <3>1. c \in Calls
      BY <2>2, NextRow DEF PassExpires, TypeInv
    <3>2. r.status = "failed"
      BY <1>0, <3>1 DEF Closeout
    <3>3. close' = close \/ (Kept(c) /\ close' = [close EXCEPT ![c] = r])
      BY <2>2 DEF PassExpires
    <3> HIDE DEF c, r
    <3>4. \A d \in Calls : CloseInv(d)' /\ Progresses(close[d], close'[d])
      BY <1>a, <1>b, <3>1, <3>2, <3>3 DEF Progresses, Kept
    <3> QED
      BY <2>2, <3>4, NotesUnmoved DEF PassExpires
  <2>3. CASE PassRetries
    <3>1. Min(pass.todo) \in Calls
      BY <2>3, NextRow DEF PassRetries, TypeInv
    <3>2. \A d \in Calls : \/ work'[d] = work[d]
                           \/ work'[d].base = notes.facts /\ work'[d].revision = notes.revision
      <4>1. work' = work \/ work' = [work EXCEPT ![Min(pass.todo)] = Merging(NoRequest)]
        BY <2>3 DEF PassRetries
      <4> QED
        BY <1>0, <1>d, <3>1, <4>1
    <3> QED
      BY <1>b, <2>3, <3>2, NotesUnmoved DEF PassRetries
  <2> QED
    BY <1>3, <2>1, <2>2, <2>3 DEF Worker
<1>4. CASE Outside
  <2>1. CASE OwnerReads
    BY <1>b, <2>1, NotesUnmoved DEF OwnerReads
  <2>2. ASSUME NEW c \in Calls, Expires(c) PROVE NotesInv'
    BY <1>b, <2>2, NotesUnmoved DEF Expires
  <2>3. CASE GatewayRestarts
    <3>1. notes'.facts = notes.facts /\ notes'.revision = notes.revision
      BY <1>0, <2>3 DEF GatewayRestarts
    <3>2. bound'.edits = bound.edits
      BY <1>0, <2>3 DEF GatewayRestarts, Scenario
    <3>3. ~edit'.open /\ \A c \in Calls : work'[c].pc # "merging"
      BY <2>3 DEF GatewayRestarts, NoEdit, NoWork
    <3> QED
      BY <1>b, <2>3, <3>1, <3>2, <3>3, NotesUnmoved DEF GatewayRestarts
  <2> QED
    BY <1>4, <2>1, <2>2, <2>3, OwnerWritesNotes, ForgetNotes DEF Outside
<1>5. CASE \/ \E c \in Calls : Call(c) \/ Task(c) \/ LosesAnswer(c)
           \/ DaemonRestarts
  <2>1. edit' = edit /\ bound'.edits = bound.edits
    BY <1>5, DaemonGatewayTyped
  <2>2. UNCHANGED <<notes, owed, gone>>
    BY <1>5 DEF Call, Task, LosesAnswer, DaemonRestarts, BeginCall, Speaks, Transcribes, HangsUp,
                Sends, Takes, GivesUp, gateway
  <2>3. \A d \in Calls : /\ work'[d].pc = work[d].pc /\ work'[d].base = work[d].base
                         /\ work'[d].revision = work[d].revision
    <3>1. CASE work' = work
      BY <3>1
    <3>2. ASSUME NEW c \in Calls, Abandons(c)
          PROVE  \A d \in Calls : /\ work'[d].pc = work[d].pc /\ work'[d].base = work[d].base
                                  /\ work'[d].revision = work[d].revision
      BY <1>0, <3>2 DEF Abandons, Working
    <3>3. CASE DaemonRestarts
      BY <1>0, <3>3 DEF DaemonRestarts, Working
    <3> QED
      BY <1>5, <3>1, <3>2, <3>3 DEF Call, Task, LosesAnswer, BeginCall, Speaks, Transcribes,
                                    HangsUp, Sends, Takes, GivesUp, gateway
  <2>4. \A d \in Calls : CloseInv(d)' /\ Progresses(close[d], close'[d])
    <3>1. CASE \E c \in Calls : BeginCall(c)
      <4>1. PICK c \in Calls : BeginCall(c)
        BY <3>1
      <4> DEFINE r == [NoClose EXCEPT !.status = "pending", !.generation = notes.generation]
      <4>2. close' = [close EXCEPT ![c] = r]
        BY <4>1 DEF BeginCall, Begins
      <4>3. r.status = "pending" /\ r.facts = {} /\ r.events = {}
        BY DEF NoClose
      <4>4. close[c].status = "absent"
        BY <4>1 DEF BeginCall, BegunInv
      <4> HIDE DEF r
      <4> QED
        BY <1>a, <4>2, <4>3, <4>4 DEF Progresses
    <3>2. CASE close' = close
      BY <1>b, <3>2
    <3> QED
      BY <1>5, <3>1, <3>2 DEF Call, Task, LosesAnswer, DaemonRestarts, Speaks, Transcribes, HangsUp,
                              Sends, Takes, GivesUp, gateway
  <2> QED
    BY <2>1, <2>2, <2>3, <2>4, NotesUnmoved
<1>6. CASE UNCHANGED vars
  BY <1>b, <1>6, NotesUnmoved DEF vars, gateway
<1> QED
  BY <1>1, <1>2, <1>3, <1>4, <1>5, <1>6 DEF Next, Served, Held, Recovery

LEMMA NotesKept == Spec => [](TypeInv /\ BegunInv /\ NotesInv)
<1>1. Init => BegunInv /\ NotesInv
  BY DEF Init, GatewayInit, NoClose, NoWork, NoPass, NoEdit, BegunInv, NotesInv, CloseInv, OriginInv,
         ForgottenStays, NothingLost
<1> QED
  BY <1>1, InitTyped, TypeStep, BegunStep, NotesStep, PTL DEF Spec

\* Whoever reads the notes holds them until somebody else has written, so no writer undoes
\* another.
THEOREM SavedFactsKept == Spec => []NothingLost
<1>1. NotesInv => NothingLost
  BY DEF NotesInv
<1> QED
  BY <1>1, NotesKept, PTL

\* What the owner had forgotten never comes back, whatever was under way at the time: no
\* closeout of a call that had begun is ever merged again, and no write based on the old
\* notes fits the new revision.
THEOREM ForgottenForGood == Spec => []ForgottenStays
<1>1. NotesInv => ForgottenStays
  BY DEF NotesInv
<1> QED
  BY <1>1, NotesKept, PTL
-----------------------------------------------------------------------------
(* One request at a time *)
LiveCalls == \A c \in Calls : LiveInv(c) /\ NewInv(c)

\* A lost connection leaves no request for which the daemon waits.
LEMMA Abandoned ==
  ASSUME TypeInv, NEW c \in Calls
  PROVE  /\ \A q \in inbox[c] : /\ ~Abandon(q).live /\ Abandon(q).op = q.op
                                /\ Abandon(q).complete = q.complete /\ Abandon(q).events = q.events
         /\ LET w == [work[c] EXCEPT !.request = Abandon(@)]
            IN  /\ ~w.request.live /\ w.pc = work[c].pc /\ w.fresh = work[c].fresh
                /\ w.request.events = work[c].request.events
<1>1. inbox[c] \subseteq Requests /\ work[c] \in Working
  BY DEF TypeInv, GatewayTyped
<1>2. \A q \in Requests : /\ ~Abandon(q).live /\ Abandon(q).op = q.op
                          /\ Abandon(q).complete = q.complete /\ Abandon(q).events = q.events
  BY DEF Abandon, Requests
<1>3. ~Abandon(NoRequest).live /\ Abandon(NoRequest).events = NoRequest.events
  BY DEF Abandon, NoRequest
<1>4. work[c].request \in Requests \cup {NoRequest}
  BY <1>1 DEF Working
<1>5. ~Abandon(work[c].request).live /\ Abandon(work[c].request).events = work[c].request.events
  BY <1>2, <1>3, <1>4
<1> DEFINE w == [work[c] EXCEPT !.request = Abandon(work[c].request)]
<1>6. w.request = Abandon(work[c].request) /\ w.pc = work[c].pc /\ w.fresh = work[c].fresh
  BY <1>1 DEF Working
<1> QED
  BY <1>1, <1>2, <1>5, <1>6

\* A call that has not begun is not served, and has no task.
LEMMA NewStep == TypeInv /\ BegunInv /\ LiveCalls /\ [Next]_vars => \A c \in Calls : NewInv(c)'
<1> SUFFICES ASSUME TypeInv, BegunInv, LiveCalls, [Next]_vars, NEW c \in Calls, run'[c].status = "none"
             PROVE  NewInv(c)'
  BY DEF NewInv
<1>0. /\ work \in [Calls -> Working] /\ run \in [Calls -> RunType] /\ run[c] \in RunType
      /\ inbox \in [Calls -> SUBSET Requests] /\ cap \in [Calls -> CapType]
      /\ reply \in [Calls -> TERMINAL \cup {"none", "ok", "pending", "refused", "error"}]
  BY DEF TypeInv, GatewayTyped, DaemonTyped
<1>1. LocalStep(c) /\ run[c].status = "none"
  BY Locally, RunStep
<1>2. /\ run[c] = NoRun /\ cap[c] = Off /\ talk[c] = {} /\ spoken[c] = {}
      /\ inbox[c] = {} /\ work[c] = NoWork /\ reply[c] = "none" /\ close[c].status = "absent"
  BY <1>1 DEF LiveCalls, NewInv, BegunInv
<1>3. cap[c].pc = "off" /\ cap[c].unsaved = {} /\ work[c].pc = "none" /\ ~pass.rows[c].sealed
  BY <1>2 DEF Off, Idle, NoWork, BegunInv, Sealed
<1>4. CASE Untouched(c)
  BY <1>2, <1>4 DEF Untouched, NewInv
<1>5. ~Call(c) /\ ~Task(c) /\ ~LosesAnswer(c)
  <2>1. ~BeginCall(c)
    BY <1>0 DEF BeginCall, RunType
  <2> QED
    BY <1>1, <1>2, <1>3, <2>1 DEF Call, Speaks, Transcribes, HangsUp, InCall, Task, Sends, Takes, GivesUp, LosesAnswer
<1>6. ~Served(c) /\ ~Held(c)
  BY <1>2, <1>3 DEF Served, Serves, Held, GoesOn, Extracted, ExtractionFails, Merged, MergeFails
<1>7. CASE (PassExpires \/ PassRetries) /\ c = Min(pass.todo) /\ UNCHANGED daemon
  BY <1>2, <1>3, <1>7 DEF PassExpires, PassRetries, daemon, NewInv
<1>8. CASE (Forget \/ GatewayRestarts) /\ UNCHANGED daemon
  <2>1. ~work[c].request.live
    BY <1>2 DEF NoWork, NoRequest
  <2> QED
    BY <1>0, <1>2, <1>8, <2>1 DEF Forget, GatewayRestarts, daemon, NewInv
<1>9. CASE DaemonRestarts
  <2>1. run'[c] = run[c] /\ cap'[c] = Off /\ UNCHANGED <<talk, spoken>>
    BY <1>1, <1>9 DEF DaemonRestarts, Recovers, InCall
  <2>2. inbox'[c] = {} /\ reply'[c] = "none"
    BY <1>2, <1>9 DEF DaemonRestarts
  <2>3. work'[c] = NoWork
    <3>1. work'[c] = [NoWork EXCEPT !.request = Abandon(@)]
      BY <1>2, <1>9 DEF DaemonRestarts
    <3> DEFINE W == [pc : {"none"}, request : {NoRequest}, fresh : {{}}, base : {{}}, revision : {0}]
    <3>2. work'[c] \in W
      <4>1. NoWork \in W /\ NoWork.request = NoRequest
        BY DEF NoWork
      <4> QED
        BY <3>1, <4>1, AbandonsNothing
    <3>3. ASSUME NEW w \in W PROVE w = NoWork
      BY DEF NoWork
    <3> QED
      BY <3>2, <3>3
  <2> QED
    BY <1>2, <2>1, <2>2, <2>3 DEF NewInv
<1> QED
  BY <1>1, <1>4, <1>5, <1>6, <1>7, <1>8, <1>9 DEF LocalStep

LEMMA LiveStep == TypeInv /\ BegunInv /\ LiveCalls /\ [Next]_vars => LiveCalls'
<1> SUFFICES ASSUME TypeInv, BegunInv, LiveCalls, [Next]_vars, NEW c \in Calls
             PROVE  LiveInv(c)'
  BY NewStep DEF LiveCalls
<1>0. /\ work \in [Calls -> Working] /\ cap \in [Calls -> CapType] /\ cap[c] \in CapType
      /\ inbox \in [Calls -> SUBSET Requests]
      /\ reply \in [Calls -> TERMINAL \cup {"none", "ok", "pending", "refused", "error"}]
      /\ work[c] \in Working /\ inbox[c] \subseteq Requests
      /\ LiveInv(c) /\ NewInv(c) /\ LocalStep(c)
  BY Locally DEF TypeInv, GatewayTyped, DaemonTyped, LiveCalls
\* The daemon waits for none, and none is under way.
<1>a. ASSUME ~work'[c].request.live, reply'[c] = "none", \A q \in inbox'[c] : ~q.live PROVE LiveInv(c)'
  BY <1>a DEF LiveInv
<1>b. ASSUME UNCHANGED <<inbox[c], work[c].request, reply[c]>>, cap'[c].pc = cap[c].pc, cap'[c].batch = cap[c].batch
      PROVE  LiveInv(c)'
  BY <1>0, <1>b DEF LiveInv
<1>c. cap[c].pc # "asking" => /\ ~work[c].request.live /\ reply[c] = "none" /\ \A q \in inbox[c] : ~q.live
  BY <1>0 DEF LiveInv
<1>d. ~NoWork.request.live /\ ~NoRequest.live
  BY DEF NoWork, NoRequest
<1>1. CASE Call(c)
  <2>1. UNCHANGED <<inbox, work, reply>>
    BY <1>1 DEF Call, BeginCall, Speaks, Transcribes, HangsUp, gateway
  <2>2. CASE BeginCall(c)
    BY <1>0, <1>c, <1>a, <2>1, <2>2 DEF BeginCall, NewInv, Off, Idle
  <2>3. CASE Speaks(c) \/ Transcribes(c) \/ HangsUp(c)
    <3>1. cap'[c].pc = cap[c].pc /\ cap'[c].batch = cap[c].batch
      BY <1>0, <2>3 DEF Speaks, Transcribes, HangsUp, CapType
    <3> QED
      BY <1>b, <2>1, <3>1
  <2> QED
    BY <1>1, <2>2, <2>3 DEF Call
<1>2. CASE Sends(c)
  <2> DEFINE batch == Prefix(cap[c].queue)
  <2>1. PICK op, events : Asks(c, op, events) /\ events = batch
    <3>1. cap[c].queue = {} => batch = {}
      BY DEF Prefix
    <3> QED
      BY <1>2, <3>1 DEF Sends
  <2> HIDE DEF batch
  <2> DEFINE q == [op |-> op, events |-> events, complete |-> run[c].complete, live |-> TRUE]
  <2>2. inbox'[c] = inbox[c] \cup {q} /\ q.events = batch
    BY <1>0, <2>1 DEF Asks
  <2>3. cap'[c].pc = "asking" /\ cap'[c].batch = batch
    BY <1>0, <1>2 DEF Sends, CapType, batch
  <2>4. cap[c].pc = "idle" /\ UNCHANGED <<work, reply>>
    BY <1>2 DEF Sends
  <2> HIDE DEF q
  <2> QED
    BY <1>c, <2>2, <2>3, <2>4 DEF LiveInv
<1>3. CASE Takes(c)
  <2>1. reply'[c] = "none" /\ reply[c] # "none" /\ UNCHANGED <<inbox, work>>
    BY <1>0, <1>3 DEF Takes
  <2> QED
    BY <1>0, <1>a, <2>1 DEF LiveInv
<1>4. CASE GivesUp(c)
  <2>1. UNCHANGED <<inbox, work, reply>> /\ cap[c].pc = "idle"
    BY <1>4 DEF GivesUp, gateway
  <2> QED
    BY <1>a, <1>c, <2>1
<1>5. CASE LosesAnswer(c) \/ DaemonRestarts
  <2>1. /\ inbox'[c] = {Abandon(q) : q \in inbox[c]} \/ inbox'[c] = {q \in inbox[c] : ~q.live}
        /\ work'[c] = [work[c] EXCEPT !.request = Abandon(work[c].request)]
        /\ reply'[c] = "none"
    BY <1>0, <1>5 DEF LosesAnswer, Abandons, DaemonRestarts
  <2> QED
    BY <1>a, <2>1, Abandoned
<1>6. ASSUME NEW q \in inbox[c], Checkpoint(c, q) \/ Finalize(c, q) \/ Status(c, q), UNCHANGED daemon
      PROVE  LiveInv(c)'
  <2>1. inbox'[c] = inbox[c] \ {q} /\ cap'[c] = cap[c]
    BY <1>0, <1>6 DEF Checkpoint, Finalize, Status, daemon
  <2>2. \/ work'[c] = work[c] /\ \E answer : Answers(c, q, answer)
        \/ work'[c].request = q /\ reply'[c] = reply[c]
    <3>1. Merging(q).request = q
      BY DEF Merging, NoWork
    <3>2. \A fresh : [NoWork EXCEPT !.pc = "extracting", !.request = q, !.fresh = fresh].request = q
      BY DEF NoWork
    <3>3. CASE Checkpoint(c, q)
      <4>1. \/ work' = work /\ Answers(c, q, "refused")
            \/ work' = work /\ Answers(c, q, "ok")
            \/ /\ work' = [work EXCEPT ![c] = [NoWork EXCEPT !.pc = "extracting", !.request = q,
                                                            !.fresh = q.events \ close[c].events]]
               /\ reply' = reply
        BY <3>3 DEF Checkpoint
      <4>2. CASE work' = work /\ (Answers(c, q, "refused") \/ Answers(c, q, "ok"))
        BY <4>2
      <4> QED
        BY <1>0, <3>2, <4>1, <4>2
    <3>4. CASE Finalize(c, q)
      <4>1. \/ work' = work /\ \E answer : Answers(c, q, answer)
            \/ work' = [work EXCEPT ![c] = Merging(q)] /\ reply' = reply
        BY <3>4 DEF Finalize
      <4> QED
        BY <1>0, <3>1, <4>1
    <3>5. CASE Status(c, q)
      BY <3>5 DEF Status
    <3> QED
      BY <1>6, <3>3, <3>4, <3>5
  <2>3. CASE q.live
    <3>1. ~work[c].request.live /\ reply[c] = "none" /\ cap[c].pc = "asking" /\ q.events = cap[c].batch
      BY <1>0, <2>3 DEF LiveInv
    <3>2. \A r \in inbox'[c] : ~r.live
      BY <1>0, <2>1, <2>3 DEF LiveInv
    <3> QED
      BY <2>1, <2>2, <3>1, <3>2 DEF LiveInv
  <2>4. CASE ~q.live
    <3>1. reply'[c] = reply[c] /\ (work'[c] = work[c] \/ ~work'[c].request.live)
      BY <2>2, <2>4 DEF Answers
    <3> QED
      BY <1>0, <2>1, <3>1 DEF LiveInv
  <2> QED
    BY <2>3, <2>4
<1>7. CASE Held(c)
  <2>1. UNCHANGED <<inbox, cap>>
    BY <1>7 DEF Held, GoesOn, Extracted, ExtractionFails, Merged, MergeFails, daemon
  <2>2. work'[c] = NoWork /\ \E answer : Answers(c, work[c].request, answer)
    <3>1. \A answer : Leaves(c, answer) => work'[c] = NoWork /\ Answers(c, work[c].request, answer)
      BY <1>0 DEF Leaves
    <3>2. GoesOn(c)
      BY <1>7 DEF Held
    <3>3. CASE Extracted(c) \/ ExtractionFails(c)
      BY <1>0, <3>3 DEF Extracted, ExtractionFails
    <3>4. CASE Merged(c)
      BY <3>1, <3>4 DEF Merged, Saves
    <3>5. ASSUME NEW status, MergeFails(c, status) PROVE \E answer : Leaves(c, answer)
      BY <3>5 DEF MergeFails
    <3> QED
      BY <3>1, <3>2, <3>3, <3>4, <3>5 DEF GoesOn
  <2>3. CASE work[c].request.live
    <3>1. \A q \in inbox[c] : ~q.live
      BY <1>0, <2>3 DEF LiveInv
    <3>2. cap[c].pc = "asking"
      BY <1>0, <2>3 DEF LiveInv
    <3> QED
      BY <1>d, <2>1, <2>2, <3>1, <3>2 DEF LiveInv
  <2>4. CASE ~work[c].request.live
    <3>1. reply'[c] = reply[c]
      BY <2>2, <2>4 DEF Answers
    <3> QED
      BY <1>0, <1>d, <2>1, <2>2, <2>4, <3>1 DEF LiveInv
  <2> QED
    BY <2>3, <2>4
<1>8. CASE (PassExpires \/ PassRetries) /\ c = Min(pass.todo) /\ UNCHANGED daemon
  <2>1. UNCHANGED <<inbox, reply, cap>>
    BY <1>8 DEF PassExpires, PassRetries, daemon
  <2>2. work'[c] = work[c] \/ (~work'[c].request.live /\ work[c] = NoWork)
    <3>1. Merging(NoRequest).request = NoRequest
      BY DEF Merging, NoWork
    <3>2. work' = work \/ (work' = [work EXCEPT ![c] = Merging(NoRequest)] /\ Unlocked(c))
      BY <1>8 DEF PassExpires, PassRetries
    <3> QED
      BY <1>0, <1>d, <3>1, <3>2 DEF Unlocked
  <2> QED
    BY <1>0, <1>d, <2>1, <2>2 DEF LiveInv
<1>9. CASE Forget /\ UNCHANGED daemon
  BY <1>b, <1>9 DEF Forget, daemon
<1>10. CASE GatewayRestarts /\ UNCHANGED daemon
  <2>1. /\ inbox'[c] = {} /\ work'[c] = NoWork /\ cap'[c] = cap[c]
        /\ reply'[c] = IF work[c].request.live \/ \E q \in inbox[c] : q.live THEN "error" ELSE reply[c]
    BY <1>10 DEF GatewayRestarts, daemon
  <2> QED
    BY <1>0, <1>d, <2>1 DEF LiveInv
<1>11. CASE Untouched(c)
  BY <1>b, <1>11 DEF Untouched
<1> QED
  BY <1>0, <1>1, <1>2, <1>3, <1>4, <1>5, <1>6, <1>7, <1>8, <1>9, <1>10, <1>11
     DEF LocalStep, Task, Served, Serves
-----------------------------------------------------------------------------
(* What was said, and what of it is queued *)
QueueCalls == \A c \in Calls : QueueInv(c)

\* When the daemon starts again and counts as many events as were captured, it has them all.
LEMMA NothingShort ==
  ASSUME TypeInv, NEW c \in Calls, QueueInv(c), run[c].complete, ~run[c].finalized, ~Short(c)
  PROVE  spoken[c] = run[c].acked \cup Retained(c)
<1>0. run[c] \in RunType /\ talk[c] \subseteq Events
  BY DEF TypeInv, DaemonTyped
<1>1. PICK n \in 0..MaxEvent : spoken[c] = 1..n /\ run[c].captured = n
  BY DEF TypeInv, SpokenInv
<1>2. n \in Nat /\ IsFiniteSet(spoken[c]) /\ Cardinality(spoken[c]) = n
  <2>1. n \in Int /\ 1 \in Int /\ n \in Nat
    BY BoundsAssumption
  <2> QED
    BY <1>1, <2>1, FS_Interval
<1> DEFINE A == run[c].acked
           R == Retained(c)
<1>3. A \subseteq spoken[c] /\ R \subseteq spoken[c] /\ A \cap R = {}
  BY DEF QueueInv, Retained
<1>4. ~(Cardinality(A) + Cardinality(R) < n)
  BY <1>1 DEF Short
<1> HIDE DEF A, R
<1>5. IsFiniteSet(A) /\ IsFiniteSet(R) /\ IsFiniteSet(A \cup R) /\ A \cup R \subseteq spoken[c]
  BY <1>2, <1>3, FS_Subset
<1>6. Cardinality(A \cup R) = Cardinality(A) + Cardinality(R)
  <2>1. Cardinality(A \cup R) = Cardinality(A) + Cardinality(R) - Cardinality(A \cap R)
    BY <1>5, FS_Union
  <2>2. Cardinality(A \cap R) = 0 /\ Cardinality(A) \in Nat /\ Cardinality(R) \in Nat
    BY <1>3, <1>5, FS_EmptySet, FS_CardinalityType
  <2> QED
    BY <2>1, <2>2
<1>7. Cardinality(A \cup R) <= n /\ Cardinality(A \cup R) \in Nat
  BY <1>2, <1>5, FS_Subset, FS_CardinalityType
<1>8. Cardinality(A \cup R) = Cardinality(spoken[c])
  BY <1>2, <1>4, <1>6, <1>7
<1>9. A \cup R = spoken[c]
  BY <1>2, <1>5, <1>8, FS_Subset
<1> QED
  BY <1>9 DEF A, R

LEMMA QueueStep == TypeInv /\ BegunInv /\ LiveCalls /\ QueueCalls /\ [Next]_vars => QueueCalls'
<1> SUFFICES ASSUME TypeInv, LiveCalls, QueueCalls, [Next]_vars, NEW c \in Calls
             PROVE  QueueInv(c)'
  BY DEF QueueCalls
<1>0. /\ run \in [Calls -> RunType] /\ cap \in [Calls -> CapType]
      /\ run[c] \in RunType /\ cap[c] \in CapType
      /\ talk \in [Calls -> SUBSET Events] /\ spoken \in [Calls -> SUBSET Events]
      /\ NewInv(c) /\ QueueInv(c) /\ LocalStep(c)
  BY Locally DEF TypeInv, DaemonTyped, LiveCalls, QueueCalls
<1>a. ASSUME UNCHANGED <<run[c], cap[c], talk[c], spoken[c]>> PROVE QueueInv(c)'
  BY <1>0, <1>a DEF QueueInv
<1>1. CASE BeginCall(c)
  <2>1. run[c] = NoRun /\ talk[c] = {} /\ spoken[c] = {}
    BY <1>0, <1>1 DEF BeginCall, NewInv
  <2>2. run'[c] = [NoRun EXCEPT !.status = "pending"] /\ cap'[c] = Idle /\ UNCHANGED <<talk, spoken>>
    BY <1>0, <1>1, <2>1 DEF BeginCall
  <2> QED
    BY <2>1, <2>2 DEF NoRun, Idle, QueueInv
<1>2. CASE Speaks(c)
  <2> DEFINE e == Cardinality(spoken[c]) + 1
             fits == Cardinality(cap[c].queue) < MaxWaiting
  <2>1. spoken'[c] = spoken[c] \cup {e} /\ talk'[c] = talk[c]
    BY <1>0, <1>2 DEF Speaks
  <2>2. run'[c] = IF fits THEN [run[c] EXCEPT !.captured = @ + 1] ELSE [run[c] EXCEPT !.complete = FALSE]
    BY <1>0, <1>2 DEF Speaks
  <2>3. cap'[c] = [cap[c] EXCEPT !.queue = IF fits THEN cap[c].queue \cup {e} ELSE cap[c].queue,
                                 !.unsaved = cap[c].unsaved \cup {e}]
    BY <1>0, <1>2 DEF Speaks
  <2> HIDE DEF e, fits
  <2>4. /\ run'[c].acked = run[c].acked /\ run'[c].status = run[c].status /\ run'[c].ended = run[c].ended
        /\ run'[c].finalized = run[c].finalized /\ run'[c].complete = (run[c].complete /\ fits)
    BY <1>0, <2>2 DEF RunType
  <2>5. /\ cap'[c].queue = IF fits THEN cap[c].queue \cup {e} ELSE cap[c].queue
        /\ cap'[c].unsaved = cap[c].unsaved \cup {e} /\ cap'[c].pc = cap[c].pc
        /\ cap'[c].batch = cap[c].batch /\ cap'[c].ending = cap[c].ending
    BY <1>0, <2>3 DEF CapType
  <2> QED
    BY <1>0, <2>1, <2>4, <2>5 DEF QueueInv
<1>3. CASE Transcribes(c)
  <2>1. talk'[c] = talk[c] \cup cap[c].unsaved /\ cap'[c] = [cap[c] EXCEPT !.unsaved = {}]
        /\ UNCHANGED <<run, spoken>>
    BY <1>0, <1>3 DEF Transcribes
  <2> QED
    BY <1>0, <2>1 DEF QueueInv, CapType
<1>4. CASE HangsUp(c)
  <2>1. PICK silent \in BOOLEAN :
          /\ run' = [run EXCEPT ![c].ended = TRUE, ![c].complete = @ /\ silent]
          /\ spoken' = IF silent THEN spoken
                       ELSE [spoken EXCEPT ![c] = @ \cup {Cardinality(spoken[c]) + 1}]
    BY <1>4 DEF HangsUp
  <2>2. /\ spoken[c] \subseteq spoken'[c] /\ (silent => spoken'[c] = spoken[c]) /\ talk'[c] = talk[c]
        /\ cap'[c] = [cap[c] EXCEPT !.ending = TRUE]
        /\ run'[c] = [run[c] EXCEPT !.ended = TRUE, !.complete = @ /\ silent]
    BY <1>0, <1>4, <2>1 DEF HangsUp
  <2>3. /\ run'[c].acked = run[c].acked /\ run'[c].status = run[c].status /\ run'[c].ended
        /\ run'[c].finalized = run[c].finalized /\ run'[c].complete = (run[c].complete /\ silent)
    BY <1>0, <2>2 DEF RunType
  <2>4. /\ cap'[c].queue = cap[c].queue /\ cap'[c].batch = cap[c].batch /\ cap'[c].pc = cap[c].pc
        /\ cap'[c].unsaved = cap[c].unsaved
    BY <1>0, <2>2 DEF CapType
  <2> QED
    BY <1>0, <2>2, <2>3, <2>4 DEF QueueInv
<1>5. CASE Sends(c)
  <2>1. cap'[c] = [cap[c] EXCEPT !.pc = "asking", !.batch = Prefix(cap[c].queue)]
        /\ UNCHANGED <<run, talk, spoken>> /\ cap[c].pc = "idle"
    BY <1>0, <1>5 DEF Sends
  <2>2. Prefix(cap[c].queue) \subseteq cap[c].queue
    BY DEF Prefix
  <2>3. /\ cap'[c].queue = cap[c].queue /\ cap'[c].batch \subseteq cap[c].queue /\ cap'[c].pc = "asking"
        /\ cap'[c].unsaved = cap[c].unsaved /\ cap'[c].ending = cap[c].ending
    BY <1>0, <2>1, <2>2 DEF CapType
  <2> QED
    BY <1>0, <2>1, <2>3 DEF QueueInv
\* The task is over, or asks again.
<1>b. ASSUME Ends(c) PROVE /\ cap'[c].pc = "off" /\ cap'[c].queue = {} /\ cap'[c].batch = {}
                           /\ cap'[c].ending = cap[c].ending /\ cap'[c].unsaved = cap[c].unsaved
  BY <1>0, <1>b DEF Ends, Off, Idle
<1>c. ASSUME cap' = [cap EXCEPT ![c].pc = "idle", ![c].batch = {}]
      PROVE  /\ cap'[c].pc = "idle" /\ cap'[c].queue = cap[c].queue /\ cap'[c].batch = {}
             /\ cap'[c].ending = cap[c].ending /\ cap'[c].unsaved = cap[c].unsaved
  BY <1>0, <1>c DEF CapType
<1>d. ASSUME NEW status \in TERMINAL \cup {"pending"}, run' = [run EXCEPT ![c].status = status]
      PROVE  /\ run'[c].acked = run[c].acked /\ run'[c].status = status /\ run'[c].ended = run[c].ended
             /\ run'[c].finalized = run[c].finalized /\ run'[c].complete = run[c].complete
  BY <1>0, <1>d DEF RunType
<1>6. CASE (Refused(c) \/ GivesUp(c)) /\ UNCHANGED <<talk, spoken>>
  <2>1. run' = [run EXCEPT ![c].status = "failed"] /\ Ends(c)
    BY <1>6 DEF Refused, GivesUp
  <2>2. "failed" \in TERMINAL \cup {"pending"}
    BY DEF TERMINAL
  <2> QED
    BY <1>0, <1>6, <1>b, <1>d, <2>1, <2>2 DEF QueueInv
<1>7. CASE Fails(c) /\ cap[c].pc = "asking" /\ UNCHANGED <<talk, spoken>>
  BY <1>0, <1>7, <1>c, <1>d DEF Fails, QueueInv
<1>8. CASE Acknowledges(c) /\ cap[c].pc = "asking" /\ UNCHANGED <<talk, spoken>>
  <2>1. run'[c] = [run[c] EXCEPT !.acked = run[c].acked \cup cap[c].batch]
        /\ cap'[c] = [cap[c] EXCEPT !.pc = "idle", !.queue = cap[c].queue \ cap[c].batch, !.batch = {}]
    BY <1>0, <1>8 DEF Acknowledges
  <2>2. /\ run'[c].acked = run[c].acked \cup cap[c].batch /\ run'[c].status = run[c].status
        /\ run'[c].ended = run[c].ended /\ run'[c].finalized = run[c].finalized
        /\ run'[c].complete = run[c].complete
    BY <1>0, <2>1 DEF RunType
  <2>3. /\ cap'[c].queue = cap[c].queue \ cap[c].batch /\ cap'[c].batch = {} /\ cap'[c].pc = "idle"
        /\ cap'[c].unsaved = cap[c].unsaved /\ cap'[c].ending = cap[c].ending
    BY <1>0, <2>1 DEF CapType
  <2> QED
    BY <1>0, <1>8, <2>2, <2>3 DEF QueueInv
<1>9. ASSUME NEW status \in TERMINAL \cup {"pending"}, Told(c, status), cap[c].pc = "asking",
             UNCHANGED <<talk, spoken>>
      PROVE  QueueInv(c)'
  <2>1. run'[c] = [run[c] EXCEPT !.status = status, !.finalized = TRUE]
    BY <1>0, <1>9 DEF Told
  <2>2. /\ run'[c].acked = run[c].acked /\ run'[c].status = status /\ run'[c].ended = run[c].ended
        /\ run'[c].finalized
    BY <1>0, <2>1 DEF RunType
  <2>3. CASE status \in TERMINAL
    BY <1>0, <1>9, <1>b, <2>2, <2>3 DEF Told, Stops, QueueInv, TERMINAL
  <2>4. CASE status = "pending"
    BY <1>0, <1>9, <1>c, <2>2, <2>4 DEF Told, Stops, QueueInv, TERMINAL
  <2> QED
    BY <2>3, <2>4
<1>10. CASE Takes(c)
  BY <1>6, <1>7, <1>8, <1>9, <1>10 DEF Takes
<1>11. CASE DaemonRestarts
  <2>1. UNCHANGED <<talk, spoken>>
    BY <1>11 DEF DaemonRestarts
  <2>2. CASE Recovers(c) /\ c \notin late
    <3>1. run'[c] = Restarted(c) /\ cap'[c] = [Idle EXCEPT !.queue = Retained(c), !.ending = TRUE]
      BY <1>11, <2>2 DEF DaemonRestarts
    <3>2. /\ run'[c].acked = run[c].acked /\ run'[c].status = "pending" /\ run'[c].ended
          /\ run'[c].finalized = run[c].finalized
          /\ run'[c].complete => run[c].complete /\ ~Short(c)
      BY <1>0, <2>2, <3>1 DEF Restarted, RunType, Recovers
    <3>3. /\ cap'[c].queue = Retained(c) /\ cap'[c].batch = {} /\ cap'[c].pc = "idle"
          /\ cap'[c].unsaved = {} /\ cap'[c].ending
      BY <3>1 DEF Idle
    <3>4. run'[c].complete /\ ~run'[c].finalized => spoken[c] = run[c].acked \cup Retained(c)
      BY <1>0, <3>2, NothingShort
    <3>5. Retained(c) \subseteq spoken[c]
      BY <1>0 DEF Retained, QueueInv
    <3> QED
      BY <1>0, <2>1, <3>2, <3>3, <3>4, <3>5 DEF QueueInv
  <2>3. CASE Recovers(c) /\ c \in late
    <3>1. run'[c] = Restarted(c) /\ cap'[c] = Off
      BY <1>11, <2>3 DEF DaemonRestarts
    <3>2. run'[c].acked = run[c].acked /\ run'[c].status = "failed"
      BY <1>0, <2>3, <3>1 DEF Restarted, RunType
    <3> QED
      BY <1>0, <2>1, <3>1, <3>2 DEF QueueInv, Off, Idle
  <2>4. CASE ~Recovers(c)
    <3>1. run'[c] \in {run[c], [run[c] EXCEPT !.ended = TRUE]} /\ cap'[c] = Off
      BY <1>11, <2>4 DEF DaemonRestarts
    <3>2. run'[c].acked = run[c].acked /\ run'[c].status # "pending"
      BY <1>0, <2>4, <3>1 DEF Recovers, RunType
    <3> QED
      BY <1>0, <2>1, <3>1, <3>2 DEF QueueInv, Off, Idle
  <2> QED
    BY <2>2, <2>3, <2>4
<1>12. CASE LosesAnswer(c)
  BY <1>7, <1>12 DEF LosesAnswer
<1>13. CASE UNCHANGED daemon \/ Untouched(c)
  BY <1>a, <1>13 DEF daemon, Untouched
<1>14. CASE GivesUp(c)
  BY <1>6, <1>14 DEF GivesUp
<1> QED
  BY <1>0, <1>1, <1>2, <1>3, <1>4, <1>5, <1>10, <1>11, <1>12, <1>13, <1>14
     DEF LocalStep, Call, Task, Served, Held
-----------------------------------------------------------------------------
(* From the acknowledgements to the report *)
ReportCalls == \A c \in Calls : AckInv(c) /\ SealInv(c) /\ ReportInv(c)

\* What a step may tell the daemon: how the closeout stands, or that a checkpoint is kept.
LEMMA ReplyStep == TypeInv /\ LiveCalls /\ [Next]_vars => \A c \in Calls :
  \/ reply'[c] \in {reply[c], "none", "refused", "error", "pending", "failed", close'[c].status}
  \/ /\ reply'[c] = "ok"
     /\ \/ cap[c].batch \subseteq close[c].events
        \/ /\ work[c].pc = "extracting" /\ cap[c].batch = work[c].request.events
           /\ close'[c].events = close[c].events \cup work[c].fresh
<1> SUFFICES ASSUME TypeInv, LiveCalls, [Next]_vars, NEW c \in Calls
             PROVE
  \/ reply'[c] \in {reply[c], "none", "refused", "error", "pending", "failed", close'[c].status}
  \/ /\ reply'[c] = "ok"
     /\ \/ cap[c].batch \subseteq close[c].events
        \/ /\ work[c].pc = "extracting" /\ cap[c].batch = work[c].request.events
           /\ close'[c].events = close[c].events \cup work[c].fresh
  OBVIOUS
<1>0. /\ LocalStep(c) /\ close \in [Calls -> Closeout] /\ close[c] \in Closeout /\ LiveInv(c)
      /\ reply \in [Calls -> TERMINAL \cup {"none", "ok", "pending", "refused", "error"}]
  BY Locally DEF TypeInv, GatewayTyped, LiveCalls
<1>a. ASSUME NEW q, NEW answer, Answers(c, q, answer)
      PROVE  (reply'[c] = answer /\ q.live) \/ reply'[c] = reply[c]
  BY <1>0, <1>a DEF Answers
<1>1. ASSUME NEW q \in inbox[c], Checkpoint(c, q)
      PROVE  reply'[c] \in {reply[c], "refused"} \/ (reply'[c] = "ok" /\ cap[c].batch \subseteq close[c].events)
  <2>1. CASE Answers(c, q, "ok") /\ q.events \ close[c].events = {}
    BY <1>0, <1>a, <2>1 DEF LiveInv
  <2>2. CASE Answers(c, q, "refused") \/ reply' = reply
    BY <1>a, <2>2
  <2> QED
    BY <1>1, <2>1, <2>2 DEF Checkpoint
<1>2. ASSUME NEW q \in inbox[c], Finalize(c, q) PROVE reply'[c] \in {reply[c], "refused", close'[c].status}
  BY <1>2, <1>a DEF Finalize
<1>3. ASSUME NEW q \in inbox[c], Status(c, q) PROVE reply'[c] \in {reply[c], "refused", close'[c].status}
  BY <1>3, <1>a DEF Status
<1>4. ASSUME Extracted(c)
      PROVE  \/ reply'[c] \in {reply[c], "refused"}
             \/ /\ reply'[c] = "ok" /\ work[c].pc = "extracting" /\ cap[c].batch = work[c].request.events
                /\ close'[c].events = close[c].events \cup work[c].fresh
  <2>1. CASE Authorised(c) /\ work[c].request.live
    <3>1. close'[c] = [close[c] EXCEPT !.facts = @ \cup {<<c, e>> : e \in work[c].fresh},
                                       !.events = @ \cup work[c].fresh]
      BY <1>0, <1>4, <2>1 DEF Extracted
    <3>2. close'[c].events = close[c].events \cup work[c].fresh
      BY <1>0, <3>1 DEF Closeout
    <3> QED
      BY <1>0, <1>4, <1>a, <2>1, <3>2 DEF Extracted, LiveInv
  <2> QED
    BY <1>4, <1>a, <2>1 DEF Extracted
<1>5. ASSUME Held(c), ~Extracted(c)
      PROVE  reply'[c] \in {reply[c], "refused", "error", "pending", "failed", close'[c].status}
  <2>1. \A answer : Leaves(c, answer) => reply'[c] \in {answer, reply[c]}
    BY <1>a DEF Leaves
  <2>2. CASE ExtractionFails(c)
    BY <1>a, <2>2 DEF ExtractionFails
  <2>3. CASE Merged(c)
    <3>1. CASE Saves(c)
      <4>1. close'[c].status = Result(close[c])
        BY <1>0, <3>1 DEF Saves
      <4> QED
        BY <2>1, <3>1, <4>1 DEF Saves
    <3>2. CASE close' = close /\ Leaves(c, IF Kept(c) THEN close[c].status ELSE "refused")
      BY <2>1, <3>2
    <3>3. CASE Leaves(c, "pending") \/ Leaves(c, "failed")
      BY <2>1, <3>3
    <3> QED
      BY <2>3, <3>1, <3>2, <3>3 DEF Merged
  <2>4. ASSUME NEW status \in {"pending", "failed"}, MergeFails(c, status)
        PROVE  reply'[c] \in {reply[c], "pending", "failed"}
    BY <2>1, <2>4 DEF MergeFails
  <2> QED
    BY <1>5, <2>2, <2>3, <2>4 DEF Held, GoesOn
<1>6. CASE Takes(c) \/ LosesAnswer(c) \/ DaemonRestarts \/ GatewayRestarts
  BY <1>0, <1>6 DEF Takes, LosesAnswer, Abandons, DaemonRestarts, GatewayRestarts
<1>7. CASE reply'[c] = reply[c]
  BY <1>7
<1> QED
  BY <1>0, <1>1, <1>2, <1>3, <1>4, <1>5, <1>6, <1>7
     DEF LocalStep, Untouched, Call, BeginCall, Speaks, Transcribes, HangsUp, gateway, Task, Sends,
         GivesUp, Served, Serves, PassExpires, PassRetries, Forget


\* What a step may add to the acknowledgements and the requests, and where a report is from.
LEMMA DaemonStep == TypeInv /\ LiveCalls /\ QueueCalls /\ [Next]_vars => \A c \in Calls :
  /\ run'[c].acked = run[c].acked \/ (reply[c] = "ok" /\ run'[c].acked = run[c].acked \cup cap[c].batch)
  /\ reply'[c] = "ok" => cap'[c].batch = cap[c].batch
  /\ \A q \in inbox'[c] : q.op = "finalize" /\ q.complete =>
       \/ \E r \in inbox[c] : r.op = "finalize" /\ r.complete
       \/ run[c].ended /\ spoken[c] = run[c].acked
  /\ run'[c].status \in {"saved", "skipped"} => \/ run[c].status = run'[c].status
                                                \/ reply[c] = run'[c].status
<1> SUFFICES ASSUME TypeInv, LiveCalls, QueueCalls, [Next]_vars, NEW c \in Calls
             PROVE
  /\ run'[c].acked = run[c].acked \/ (reply[c] = "ok" /\ run'[c].acked = run[c].acked \cup cap[c].batch)
  /\ reply'[c] = "ok" => cap'[c].batch = cap[c].batch
  /\ \A q \in inbox'[c] : q.op = "finalize" /\ q.complete =>
       \/ \E r \in inbox[c] : r.op = "finalize" /\ r.complete
       \/ run[c].ended /\ spoken[c] = run[c].acked
  /\ run'[c].status \in {"saved", "skipped"} => \/ run[c].status = run'[c].status
                                                \/ reply[c] = run'[c].status
  OBVIOUS
<1>0. /\ run \in [Calls -> RunType] /\ cap \in [Calls -> CapType] /\ inbox \in [Calls -> SUBSET Requests]
      /\ run[c] \in RunType /\ cap[c] \in CapType /\ inbox[c] \subseteq Requests
      /\ reply \in [Calls -> TERMINAL \cup {"none", "ok", "pending", "refused", "error"}]
      /\ LocalStep(c) /\ LiveInv(c) /\ NewInv(c) /\ QueueInv(c)
  BY Locally DEF TypeInv, GatewayTyped, DaemonTyped, LiveCalls, QueueCalls
<1>1. run'[c].acked = run[c].acked \/ (reply[c] = "ok" /\ run'[c].acked = run[c].acked \cup cap[c].batch)
  <2>1. CASE Takes(c)
    <3>1. CASE reply[c] = "ok" /\ Acknowledges(c)
      BY <1>0, <3>1 DEF Acknowledges, RunType
    <3>2. ASSUME NEW status, Told(c, status) PROVE run'[c].acked = run[c].acked
      BY <1>0, <3>2 DEF Told, RunType
    <3>3. CASE Refused(c) \/ Fails(c)
      BY <1>0, <3>3 DEF Refused, Fails, RunType
    <3> QED
      BY <2>1, <3>1, <3>2, <3>3 DEF Takes
  <2>2. CASE Call(c) \/ GivesUp(c) \/ LosesAnswer(c)
    BY <1>0, <2>2 DEF Call, BeginCall, Speaks, Transcribes, HangsUp, GivesUp, LosesAnswer, Fails, RunType
  <2>3. CASE DaemonRestarts
    <3>1. run'[c] \in {Restarted(c), [run[c] EXCEPT !.ended = TRUE], run[c]}
      BY <2>3 DEF DaemonRestarts
    <3> QED
      BY <1>0, <3>1 DEF Restarted, RunType
  <2>4. CASE run'[c] = run[c]
    BY <2>4
  <2> QED
    BY <1>0, <2>1, <2>2, <2>3, <2>4 DEF LocalStep, Untouched, Task, Sends, Served, Held, daemon
<1>2. ASSUME reply'[c] = "ok" PROVE cap'[c].batch = cap[c].batch
  <2>1. CASE Call(c)
    <3>1. reply'[c] = reply[c] /\ cap[c].pc = "asking"
      BY <1>0, <1>2, <2>1 DEF Call, BeginCall, Speaks, Transcribes, HangsUp, gateway, LiveInv
    <3>2. ~BeginCall(c)
      BY <1>0, <3>1 DEF BeginCall, NewInv, Off, Idle
    <3> QED
      BY <1>0, <2>1, <3>2 DEF Call, Speaks, Transcribes, HangsUp, CapType
  <2>2. CASE Sends(c) \/ GivesUp(c)
    BY <1>0, <1>2, <2>2 DEF Sends, GivesUp, gateway, LiveInv
  <2>3. CASE Takes(c) \/ LosesAnswer(c) \/ DaemonRestarts
    BY <1>0, <1>2, <2>3 DEF Takes, LosesAnswer, Abandons, DaemonRestarts
  <2> QED
    BY <1>0, <2>1, <2>2, <2>3 DEF LocalStep, Untouched, Task, Served, Held, daemon
<1>3. ASSUME NEW q \in inbox'[c], q.op = "finalize", q.complete
      PROVE  \/ \E r \in inbox[c] : r.op = "finalize" /\ r.complete
             \/ run[c].ended /\ spoken[c] = run[c].acked
  <2>1. CASE Sends(c)
    <3>1. CASE cap[c].queue = {} /\ cap[c].ending /\ ~run[c].finalized /\ Asks(c, "finalize", {})
      <4>1. q \in inbox[c] \/ q.complete = run[c].complete
        BY <1>0, <3>1 DEF Asks
      <4>2. run[c].complete => run[c].ended /\ spoken[c] = run[c].acked
        BY <1>0, <2>1, <3>1 DEF Sends, QueueInv
      <4> QED
        BY <1>3, <4>1, <4>2
    <3>2. ASSUME NEW op, NEW events, op # "finalize", Asks(c, op, events) PROVE q \in inbox[c]
      BY <1>0, <1>3, <3>2 DEF Asks
    <3> QED
      BY <1>3, <2>1, <3>1, <3>2 DEF Sends
  <2>2. CASE LosesAnswer(c) \/ DaemonRestarts
    <3>1. inbox'[c] = {Abandon(r) : r \in inbox[c]} \/ inbox'[c] \subseteq inbox[c]
      <4>1. CASE inbox' = [inbox EXCEPT ![c] = {r \in @ : ~r.live}]
        BY <1>0, <4>1
      <4>2. CASE inbox' = [inbox EXCEPT ![c] = {Abandon(r) : r \in @}]
        BY <1>0, <4>2
      <4>3. CASE inbox' = [d \in Calls |-> {Abandon(r) : r \in inbox[d]}]
        BY <4>3
      <4> QED
        BY <2>2, <4>1, <4>2, <4>3 DEF LosesAnswer, Abandons, DaemonRestarts
    <3> QED
      BY <1>3, <3>1, Abandoned
  <2>3. CASE inbox'[c] \subseteq inbox[c]
    BY <1>3, <2>3
  <2>4. CASE Served(c)
    <3>1. \E r \in inbox[c] : inbox' = [inbox EXCEPT ![c] = @ \ {r}]
      BY <2>4 DEF Served, Serves, Checkpoint, Finalize, Status
    <3> QED
      BY <1>0, <2>3, <3>1
  <2>5. CASE GatewayRestarts
    BY <2>3, <2>5 DEF GatewayRestarts
  <2> QED
    BY <1>0, <2>1, <2>2, <2>3, <2>4, <2>5
       DEF LocalStep, Untouched, Call, BeginCall, Speaks, Transcribes, HangsUp, Task, Takes, GivesUp,
           Held, GoesOn, Extracted, ExtractionFails, Merged, MergeFails, PassExpires, PassRetries, Forget, gateway
<1>4. ASSUME run'[c].status \in {"saved", "skipped"}
      PROVE  run[c].status = run'[c].status \/ reply[c] = run'[c].status
  <2>1. CASE Takes(c)
    <3>1. CASE Acknowledges(c)
      BY <1>0, <3>1 DEF Acknowledges, RunType
    <3>2. ASSUME Told(c, reply[c]) PROVE run'[c].status = reply[c]
      BY <1>0, <3>2 DEF Told, RunType
    <3>3. CASE Refused(c) \/ Fails(c)
      BY <1>0, <1>4, <3>3 DEF Refused, Fails, RunType
    <3> QED
      BY <2>1, <3>1, <3>2, <3>3 DEF Takes
  <2>2. CASE Call(c) \/ GivesUp(c) \/ LosesAnswer(c)
    BY <1>0, <1>4, <2>2 DEF Call, BeginCall, Speaks, Transcribes, HangsUp, GivesUp, LosesAnswer, Fails, RunType
  <2>3. CASE DaemonRestarts
    <3>1. run'[c] \in {Restarted(c), [run[c] EXCEPT !.ended = TRUE], run[c]}
      BY <2>3 DEF DaemonRestarts
    <3> QED
      BY <1>0, <1>4, <3>1 DEF Restarted, RunType
  <2>4. CASE run'[c] = run[c]
    BY <2>4
  <2> QED
    BY <1>0, <2>1, <2>2, <2>3, <2>4 DEF LocalStep, Untouched, Task, Sends, Served, Held, daemon
<1> QED
  BY <1>1, <1>2, <1>3, <1>4

\* Which events a checkpoint awaits the model for; and what is in the notes has been.
LEMMA WorkStep == TypeInv /\ [Next]_vars => \A c \in Calls :
  /\ work'[c].pc = "extracting" =>
       \/ /\ work[c].pc = "extracting" /\ work'[c].fresh = work[c].fresh
          /\ work'[c].request.events = work[c].request.events
       \/ work'[c].request.events \subseteq close'[c].events \cup work'[c].fresh
  /\ written \subseteq written'
<1> SUFFICES ASSUME TypeInv, [Next]_vars, NEW c \in Calls
             PROVE
  /\ work'[c].pc = "extracting" =>
       \/ /\ work[c].pc = "extracting" /\ work'[c].fresh = work[c].fresh
          /\ work'[c].request.events = work[c].request.events
       \/ work'[c].request.events \subseteq close'[c].events \cup work'[c].fresh
  /\ written \subseteq written'
  OBVIOUS
<1>0. LocalStep(c) /\ work \in [Calls -> Working] /\ work[c] \in Working
  BY Locally DEF TypeInv, GatewayTyped
<1>1. written \subseteq written'
  <2>1. ASSUME NEW d \in Calls, Held(d) PROVE written \subseteq written'
    BY <2>1 DEF Held, GoesOn, Extracted, ExtractionFails, Merged, Saves, MergeFails
  <2>2. ASSUME NEW d \in Calls, Served(d) \/ Call(d) \/ Task(d) \/ LosesAnswer(d) PROVE written' = written
    BY <2>2 DEF Served, Serves, Checkpoint, Finalize, Status, Call, BeginCall, Speaks, Transcribes, HangsUp,
                Task, Sends, Takes, GivesUp, LosesAnswer, gateway
  <2>3. CASE Recovery \/ Outside \/ DaemonRestarts
    BY <2>3 DEF Recovery, Worker, PassBegins, PassExpires, PassRetries, Outside, OwnerReads, OwnerWrites,
                Forget, Expires, GatewayRestarts, DaemonRestarts
  <2>4. CASE UNCHANGED vars
    BY <2>4 DEF vars, gateway
  <2> QED
    BY <2>1, <2>2, <2>3, <2>4 DEF Next
<1>2. ASSUME work'[c].pc = "extracting"
      PROVE  \/ /\ work[c].pc = "extracting" /\ work'[c].fresh = work[c].fresh
                /\ work'[c].request.events = work[c].request.events
             \/ work'[c].request.events \subseteq close'[c].events \cup work'[c].fresh
  <2>1. CASE work'[c] = work[c]
    BY <1>2, <2>1
  <2>2. ASSUME NEW q \in inbox[c], Checkpoint(c, q), work' # work
        PROVE  work'[c].request.events \subseteq close'[c].events \cup work'[c].fresh
    <3> DEFINE fresh == q.events \ close[c].events
    <3>1. work' = [work EXCEPT ![c] = [NoWork EXCEPT !.pc = "extracting", !.request = q, !.fresh = fresh]]
          /\ close' = close
      BY <2>2 DEF Checkpoint
    <3> HIDE DEF fresh
    <3>2. work'[c].request = q /\ work'[c].fresh = fresh
      BY <1>0, <3>1 DEF NoWork
    <3> QED
      BY <3>1, <3>2 DEF fresh
  <2>3. CASE LosesAnswer(c) \/ DaemonRestarts
    <3>1. work'[c] = [work[c] EXCEPT !.request = Abandon(work[c].request)]
      BY <1>0, <2>3 DEF LosesAnswer, Abandons, DaemonRestarts
    <3> QED
      BY <1>2, <3>1, Abandoned
  <2>4. CASE work'[c] = NoWork
    BY <1>2, <2>4 DEF NoWork
  <2>5. \A q : Merging(q).pc = "merging"
    BY DEF Merging, NoWork
  <2>6. ASSUME NEW q \in inbox[c], Finalize(c, q) PROVE work' = work
    <3>1. work' = work \/ work'[c] = Merging(q)
      BY <1>0, <2>6 DEF Finalize
    <3> QED
      BY <1>2, <2>5, <2>6, <3>1 DEF Finalize
  <2>7. CASE PassRetries /\ c = Min(pass.todo)
    BY <1>0, <1>2, <2>1, <2>5, <2>7 DEF PassRetries
  <2>8. CASE Held(c) \/ GatewayRestarts
    BY <1>0, <2>4, <2>8 DEF Held, GoesOn, Extracted, ExtractionFails, Merged, Saves, MergeFails, Leaves,
                       GatewayRestarts
  <2> QED
    BY <1>0, <2>1, <2>2, <2>3, <2>6, <2>7, <2>8
       DEF LocalStep, Untouched, Call, BeginCall, Speaks, Transcribes, HangsUp, Task, Sends, Takes, GivesUp,
           Served, Serves, Status, PassExpires, Forget, gateway
<1> QED
  BY <1>1, <1>2

LEMMA ReportStep ==
  TypeInv /\ BegunInv /\ NotesInv /\ LiveCalls /\ QueueCalls /\ ReportCalls /\ [Next]_vars => ReportCalls'
<1> SUFFICES ASSUME TypeInv, BegunInv, NotesInv, LiveCalls, QueueCalls, ReportCalls, [Next]_vars,
                    NEW c \in Calls
             PROVE  (AckInv(c) /\ SealInv(c) /\ ReportInv(c))'
  BY DEF ReportCalls
<1>0. NewInv(c) /\ QueueInv(c) /\ AckInv(c) /\ SealInv(c) /\ ReportInv(c) /\ CloseInv(c)
  BY DEF LiveCalls, QueueCalls, ReportCalls, NotesInv
<1>1. \/ close'[c] = close[c]
      \/ Opens(c) \/ Grows(c) \/ Seals(c) \/ Commits(c) \/ Closes(c)
  BY CloseStep
<1>2. /\ run[c].acked \subseteq run'[c].acked
      /\ run[c].ended => run'[c].ended /\ spoken'[c] = spoken[c]
      /\ written \subseteq written'
  BY RunStep, WorkStep
<1>3. AckInv(c)'
  <2> SUFFICES ASSUME close'[c].status = "pending"
               PROVE  /\ run'[c].acked \subseteq close'[c].events
                      /\ reply'[c] = "ok" => cap'[c].batch \subseteq close'[c].events
                      /\ work'[c].pc = "extracting" =>
                           work'[c].request.events \subseteq close'[c].events \cup work'[c].fresh
    BY DEF AckInv
  <2>1. CASE Opens(c)
    <3>1. run[c].acked = {} /\ cap[c].batch = {} /\ reply[c] = "none" /\ work[c].pc # "extracting"
      BY <1>0, <2>1 DEF Opens, NewInv, NoRun, Off, Idle, NoWork
    <3> QED
      BY <3>1, DaemonStep, WorkStep
  <2>2. CASE ~Opens(c)
    <3>1. close[c].status = "pending" /\ close[c].events \subseteq close'[c].events
      BY <1>1, <2>2 DEF Grows, Seals, Commits, Closes, TERMINAL
    <3>2. run'[c].acked \subseteq close'[c].events
      BY <1>0, <3>1, DaemonStep DEF AckInv
    <3>3. ASSUME reply'[c] = "ok" PROVE cap'[c].batch \subseteq close'[c].events
      <4>1. cap'[c].batch = cap[c].batch
        BY <3>3, DaemonStep
      <4>2. \/ reply[c] = "ok" \/ cap[c].batch \subseteq close[c].events
            \/ /\ work[c].pc = "extracting" /\ cap[c].batch = work[c].request.events
               /\ close'[c].events = close[c].events \cup work[c].fresh
        BY <3>3, ReplyStep
      <4> QED
        BY <1>0, <3>1, <4>1, <4>2 DEF AckInv
    <3>4. ASSUME work'[c].pc = "extracting"
          PROVE  work'[c].request.events \subseteq close'[c].events \cup work'[c].fresh
      BY <1>0, <3>1, <3>4, WorkStep DEF AckInv
    <3> QED
      BY <3>2, <3>3, <3>4
  <2> QED
    BY <2>1, <2>2
<1>4. SealInv(c)'
  <2>1. ASSUME NEW q \in inbox'[c], q.op = "finalize", q.complete
        PROVE  run'[c].ended /\ spoken'[c] \subseteq run'[c].acked
    <3>1. run[c].ended /\ spoken[c] \subseteq run[c].acked
      BY <1>0, <2>1, DaemonStep DEF SealInv
    <3> QED
      BY <1>2, <3>1
  <2>2. ASSUME close'[c].status = "pending", close'[c].sealed, close'[c].complete
        PROVE  run'[c].ended /\ spoken'[c] \subseteq close'[c].events
    <3>1. CASE Seals(c)
      <4>1. run[c].ended /\ spoken[c] \subseteq run[c].acked /\ run[c].acked \subseteq close[c].events
        BY <1>0, <2>2, <3>1 DEF Seals, SealInv, AckInv
      <4> QED
        BY <1>2, <3>1, <4>1 DEF Seals
    <3>2. CASE ~Seals(c)
      <4>1. /\ close[c].status = "pending" /\ close[c].sealed /\ close[c].complete
            /\ close[c].events \subseteq close'[c].events
        BY <1>1, <2>2, <3>2 DEF Opens, Grows, Commits, Closes, TERMINAL
      <4> QED
        BY <1>0, <1>2, <4>1 DEF SealInv
    <3> QED
      BY <3>1, <3>2
  <2> QED
    BY <2>1, <2>2 DEF SealInv
<1>5. ReportInv(c)'
  <2>1. Done(c) => Done(c)'
    BY <1>2 DEF Done
  <2>2. ASSUME close'[c].status \in {"saved", "skipped"} PROVE Done(c)'
    <3>1. CASE Commits(c)
      <4>1. close[c].sealed /\ close[c].complete /\ close[c].facts \subseteq written'
        BY <2>2, <3>1 DEF Commits, BegunInv, Sealed
      <4>2. run[c].ended /\ spoken[c] \subseteq close[c].events /\ close[c].facts = {c} \X close[c].events
        BY <1>0, <3>1, <4>1 DEF Commits, SealInv, CloseInv
      <4>3. {c} \X spoken[c] \subseteq written'
        BY <4>1, <4>2
      <4> QED
        BY <1>2, <4>2, <4>3 DEF Done
    <3>2. CASE ~Commits(c)
      <4>1. close[c].status = close'[c].status
        BY <1>1, <2>2, <3>2 DEF Opens, Grows, Seals, Closes
      <4> QED
        BY <1>0, <2>1, <2>2, <4>1 DEF ReportInv
    <3> QED
      BY <3>1, <3>2
  <2>3. ASSUME reply'[c] \in {"saved", "skipped"} PROVE Done(c)'
    <3>1. reply'[c] = reply[c] \/ reply'[c] = close'[c].status
      BY <2>3, ReplyStep
    <3> QED
      BY <1>0, <2>1, <2>2, <2>3, <3>1 DEF ReportInv
  <2>4. ASSUME run'[c].status \in {"saved", "skipped"} PROVE Done(c)'
    BY <1>0, <2>1, <2>4, DaemonStep DEF ReportInv
  <2> QED
    BY <2>2, <2>3, <2>4 DEF ReportInv
<1> QED
  BY <1>3, <1>4, <1>5

\* The report can be believed, for any number of calls, events, lost answers, restarts of
\* the daemon and of the gateway: a call is saved, or has left nothing to save, only if all
\* that was said in it is in the notes.  And what was forgotten stays so.
THEOREM HonestReports == Spec => []Inv
<1> DEFINE IInv == TypeInv /\ BegunInv /\ NotesInv /\ LiveCalls /\ QueueCalls /\ ReportCalls
<1>1. Init => IInv
  <2>1. Init => BegunInv /\ NotesInv
    BY DEF Init, GatewayInit, NoClose, NoWork, NoPass, NoEdit, BegunInv, NotesInv, CloseInv, OriginInv,
           ForgottenStays, NothingLost
  <2>2. Init => LiveCalls
    BY DEF Init, GatewayInit, LiveCalls, LiveInv, NewInv, NoWork, NoRequest
  <2>3. Init => QueueCalls
    BY DEF Init, GatewayInit, QueueCalls, QueueInv, NoRun, Off, Idle
  <2>4. Init => ReportCalls
    BY DEF Init, GatewayInit, ReportCalls, AckInv, SealInv, ReportInv, NoRun, NoClose, NoWork
  <2> QED
    BY <2>1, <2>2, <2>3, <2>4, InitTyped
<1>2. IInv /\ [Next]_vars => IInv'
  BY TypeStep, BegunStep, NotesStep, LiveStep, QueueStep, ReportStep
<1>3. IInv => Inv
  <2> SUFFICES ASSUME IInv PROVE TypeOK /\ HonestReport /\ ForgottenStays
    BY DEF Inv
  <2>1. TypeOK
    <3>1. GatewayTyped /\ DaemonTyped /\ \A c \in Calls : CloseInv(c)
      BY DEF TypeInv, NotesInv
    <3>2. \A c \in Calls : work[c].request \in Requests \cup {NoRequest} /\ work[c].fresh \subseteq Events
      BY <3>1 DEF GatewayTyped, Working
    <3> QED
      BY <3>1, <3>2 DEF TypeOK, GatewayTyped, DaemonTyped, Closeout, RunType, CapType
  <2>2. HonestReport
    BY DEF HonestReport, ReportCalls, ReportInv, Done
  <2>3. ForgottenStays
    BY DEF NotesInv
  <2> QED
    BY <2>1, <2>2, <2>3
<1> QED
  BY <1>1, <1>2, <1>3, PTL DEF Spec
=============================================================================
