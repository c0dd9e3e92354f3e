--------------------------- MODULE PhoneController ---------------------------
(***************************************************************************)
(* The phone controller of the daemon (phone_controller.py) and the caller  *)
(* bindings it holds at the Hermes gateway (hermes_bridge.py,               *)
(* caller_context.py).                                                      *)
(*                                                                          *)
(* Four tasks interleave at their awaits: watch() polls the phone, starts   *)
(* and finishes calls; serve() sets one call up; heartbeat() renews its     *)
(* leases; events() runs one Hermes request under a lease of its own.  A    *)
(* request to the gateway takes effect, and is answered, at any later time  *)
(* or never, also when the task that made it is gone.                       *)
(*                                                                          *)
(* Time is counted in heartbeat periods: a lease lasts TTL of them at the   *)
(* gateway, and the controller gives up Margin before its own reckoning.    *)
(* The phone's calls are numbered; end_call and its stored replies are one  *)
(* step here (CallControl and Idempotency tell how they work).              *)
(***************************************************************************)
EXTENDS Naturals, Sequences, SequencesExt, FiniteSets

CONSTANTS Numbers, Unknown,    \* verified numbers, and none
          Recipient,           \* whom start_phone_call dials
          Refused,             \* callers without a route
          TTL, Margin,
          Scenarios            \* bounds: [from (who calls in), calls, requests, ends (by the
                               \* daemon), refusals, losses, changes, dials]

ASSUME LeaseAssumption == TTL \in Nat /\ Margin \in Nat /\ 0 < Margin /\ Margin < TTL
ASSUME NumberAssumption == Unknown \notin Numbers /\ Recipient \in Numbers \ Refused
\* One of the scenarios has the most calls.
ASSUME ScenarioAssumption ==
  /\ Scenarios \subseteq [from : SUBSET (Numbers \cup {Unknown}), calls : Nat, requests : Nat,
                          ends : Nat, refusals : Nat, losses : Nat, delays : Nat, changes : Nat,
                          dials : Nat]
  /\ \E s \in Scenarios : \A t \in Scenarios : t.calls <= s.calls

VARIABLES
  phone,     \* what HFPState shows
  hangups,   \* the stored reply to phone-end-<call>, by call
  bindings,  \* the gateway's table, in the order of creation
  wire,      \* binding requests under way
  deadline,  \* _binding_deadlines: time left, by binding
  renewal,   \* renewals under way, by binding
  ctl,       \* the controller's attributes
  watch, serve, beat, request,   \* the tasks
  authority, \* _authority_lock
  staged,    \* pending_outbound_context
  dial,      \* start_phone_call
  failed,    \* <<call, number>> whose service has failed (history)
  bound      \* what is left of the scenario's bounds

tasks == <<watch, serve, beat, request>>
vars == <<phone, hangups, bindings, wire, deadline, renewal, ctl, tasks, authority,
          staged, dial, failed, bound>>

None == 0
MaxCalls == CHOOSE n \in {s.calls : s \in Scenarios} : \A s \in Scenarios : s.calls <= n
MaxBindings == 2 * MaxCalls + 2
Calls == 1..MaxCalls
BindingIds == 1..MaxBindings
Callers == Numbers \cup {Unknown}

\* by: whether start_phone_call dialed it; link: the connection's generation.
Phone == [id : 0..MaxCalls, phase : {"idle", "incoming", "dialing", "active", "ending"},
          number : Callers, out : BOOLEAN, by : BOOLEAN, link : Nat]
Binding == [call : Calls, revoked : BOOLEAN, left : 0..TTL]
NoPhone == [id |-> 0, phase |-> "idle", number |-> Unknown, out |-> FALSE, by |-> FALSE,
            link |-> 1]
NoRenewal == [state |-> "none", age |-> 0]
NoServe == [pc |-> "off", call |-> None, got |-> None, age |-> 0]
NoStage == [generation |-> 0, link |-> 0, on |-> FALSE]
NoRequest == [pc |-> "idle", call |-> None, child |-> None, age |-> 0, closed |-> FALSE, tries |-> 0]

TypeOK ==
  /\ phone \in Phone
  /\ hangups \in [Calls -> {"none", "ok", "refused"}]
  /\ bindings \in Seq(Binding) /\ Len(bindings) <= MaxBindings
  /\ wire \subseteq [call : Calls, child : BOOLEAN, stray : BOOLEAN]
  /\ deadline \in [BindingIds -> 0..TTL]
  /\ renewal \in [BindingIds -> [state : {"none", "sent", "granted", "denied", "lost"},
                                 age : 0..TTL]]
  /\ ctl \in [call : 0..MaxCalls, number : Callers, binding : 0..Len(bindings),
              child : 0..Len(bindings), excluded : 0..MaxCalls, ending : 0..MaxCalls,
              api : BOOLEAN, voice : BOOLEAN, brief : 0..MaxCalls]
  /\ watch.pc \in {"poll", "end", "finish", "stop", "close"}
  /\ watch.then \in {"poll", "take", "exclude", "finish"} /\ watch.seen \in Phone
  /\ watch.call \in 0..MaxCalls
  /\ watch.revoke \in Seq(BindingIds)
  /\ serve \in [pc : {"off", "start", "check", "bind", "answer", "wait", "voice",
                      "ready", "unwell", "fail", "expire", "done"},
                call : 0..MaxCalls, got : 0..Len(bindings), age : 0..TTL]
  /\ beat \in {"off", "sleep", "due", "renew", "stop", "end"}
  /\ request \in [pc : {"idle", "bind", "run", "ending", "revoke"}, call : 0..MaxCalls,
                  child : 0..Len(bindings), age : 0..TTL, closed : BOOLEAN, tries : 0..1]
  /\ authority \in {"free", "beat", "request"}
  /\ staged \in [generation : 0..MaxCalls, link : Nat, on : BOOLEAN]
  /\ dial \in {"idle", "atd", "waits"}
  /\ failed \subseteq Calls \X Callers

Init ==
  /\ phone = NoPhone
  /\ hangups = [c \in Calls |-> "none"]
  /\ bindings = <<>> /\ wire = {}
  /\ deadline = [b \in BindingIds |-> 0]
  /\ renewal = [b \in BindingIds |-> NoRenewal]
  /\ ctl = [call |-> None, number |-> Unknown, binding |-> None, child |-> None,
            excluded |-> None, ending |-> None, api |-> FALSE, voice |-> FALSE, brief |-> None]
  /\ watch = [pc |-> "poll", then |-> "poll", call |-> None, seen |-> NoPhone, revoke |-> <<>>]
  /\ serve = NoServe
  /\ beat = "off" /\ request = NoRequest /\ authority = "free"
  /\ staged = NoStage /\ dial = "idle" /\ failed = {}
  /\ bound \in Scenarios

table == <<bindings, wire, deadline, renewal>>
Live(b) == b \in DOMAIN bindings /\ ~bindings[b].revoked /\ bindings[b].left > 0
Up == phone.phase # "idle"
Over(c) == c < phone.id \/ (c = phone.id /\ ~Up)
ServedPhases == {"incoming", "dialing", "active"}

Spend(what) == bound[what] > 0 /\ bound' = [bound EXCEPT ![what] = @ - 1]

----------------------------------------------------------------------------
\* end(): end_call under the request id phone-end-<call>.  The first answer is
\* stored and repeated; only the first call asks the phone, which may refuse.
Answer(c) ==
  CASE hangups[c] # "none" -> {hangups[c]}
    [] ~Up \/ (phone.id = c /\ phone.phase = "ending") -> {"ok"}
    [] phone.id # c -> {"refused"}
    [] bound.refusals > 0 -> {"ok", "refused"}
    [] OTHER -> {"ok"}

End(c, answer) ==
  /\ answer \in Answer(c)
  /\ hangups' = [hangups EXCEPT ![c] = answer]
  /\ LET asked == hangups[c] = "none" /\ Up /\ phone.id = c /\ phone.phase # "ending"
     IN /\ phone' = IF asked /\ answer = "ok" THEN [phone EXCEPT !.phase = "ending"] ELSE phone
        /\ bound' = IF asked /\ answer = "refused"
                      THEN [bound EXCEPT !.refusals = @ - 1] ELSE bound

\* Mutant: the direction and the generation are not compared.
OutboundByNumber(call) == staged.on /\ call.number = Recipient /\ call.link = staged.link
\* find_outbound(): the staged dial of this very call.
Outbound(call) == /\ staged.on /\ call.out /\ call.number = Recipient
                  /\ call.id = staged.generation + 1 /\ call.link = staged.link

Revoked(b) == [bindings EXCEPT ![b].revoked = TRUE, ![b].left = 0]

----------------------------------------------------------------------------
\* Tasks that another task cancels.

\* The requester of a lease is gone.
Strays(child) == {IF w.child = child THEN [w EXCEPT !.stray = TRUE] ELSE w : w \in wire}

\* The voice stops its request.
CancelRequest ==
  CASE request.pc = "bind" -> request' = NoRequest /\ wire' = Strays(TRUE)
    [] request.pc = "run" -> request' = [request EXCEPT !.pc = "ending"] /\ UNCHANGED wire
    [] OTHER -> UNCHANGED <<request, wire>>

\* call_task.cancel(): a task that has ended stays as it is.
CancelServe ==
  IF serve.pc \in {"off", "done"} THEN UNCHANGED <<serve, wire, failed>>
  ELSE /\ serve' = [serve EXCEPT !.pc = "done", !.got = None, !.age = 0]
       /\ wire' = Strays(FALSE)
       /\ failed' = failed \cup {<<serve.call, ctl.number>>}

\* The renewals that a cancelled heartbeat waits for are no longer answered.
Abandoned == [b \in BindingIds |-> IF renewal[b].state = "sent" THEN renewal[b] ELSE NoRenewal]

----------------------------------------------------------------------------
\* watch()

\* Mutant: only the phase tells that the call is gone.
GoneByPhase(seen) == seen.phase \notin ServedPhases
\* The phone's call is another one than the call that is served, or ending.
Gone(seen) == seen.phase \notin ServedPhases \/ seen.id # ctl.call

\* Mutant: only the identity of the call is compared.
SwappedNever(seen) == FALSE
Swapped(seen) == seen.number # Unknown /\ seen.number # ctl.number

Known(b) == IF b = None THEN <<>> ELSE <<b>>
\* finish(), up to its first await: no call, no heartbeat, and the leases known
\* now are to be revoked.
BeginFinish(then, call, seen) ==
  /\ ctl' = [ctl EXCEPT !.call = None, !.excluded = None]
  /\ beat' = "off" /\ renewal' = Abandoned
  /\ authority' = IF authority = "beat" THEN "free" ELSE authority
  /\ watch' = [pc |-> "finish", then |-> then, call |-> call, seen |-> seen,
               revoke |-> IF ctl.api THEN Known(ctl.binding) \o Known(ctl.child) ELSE <<>>]

Looks == watch.pc = "poll" /\ ~(Up /\ phone.id = ctl.excluded)
Serving == ctl.call # None
Done == Serving /\ serve.pc = "done"
Ends(then, call) == watch' = [watch EXCEPT !.pc = "end", !.then = then, !.call = call]

\* The call's task has ended: hang up, finish, and leave this call alone.
WatchDone ==
  /\ Looks /\ Done
  /\ Ends("exclude", ctl.call)
  /\ ctl' = [ctl EXCEPT !.excluded = None]
  /\ UNCHANGED <<phone, hangups, table, serve, beat, request, authority, staged, dial, failed, bound>>

\* Another call, or none: finish, and go on with the phone as it was seen.
WatchGone ==
  /\ Looks /\ Serving /\ ~Done /\ Gone(phone)
  /\ BeginFinish("take", None, phone)
  /\ UNCHANGED <<phone, hangups, bindings, wire, deadline, serve, request, staged, dial, failed, bound>>

\* The same call, of somebody else.
WatchSwapped ==
  /\ Looks /\ Serving /\ ~Done /\ ~Gone(phone) /\ Swapped(phone)
  /\ Ends("finish", ctl.call)
  /\ ctl' = [ctl EXCEPT !.excluded = None]
  /\ UNCHANGED <<phone, hangups, table, serve, beat, request, authority, staged, dial, failed, bound>>

\* What watch() makes of a phone that it does not serve, "base" being its
\* attributes: nothing, or, of a call whose caller is known or has been waited
\* for, a refusal or a service.
Polls == watch' = [watch EXCEPT !.pc = "poll", !.then = "poll", !.seen = NoPhone, !.call = None,
                                !.revoke = <<>>]
Takeable(seen) == seen.phase \in {"incoming", "active"}
Routed(seen) == Outbound(seen) \/ seen.number \notin Refused
Take(seen, base) ==
  \/ /\ ~Takeable(seen) \/ seen.number = Unknown
     /\ Polls /\ ctl' = base /\ UNCHANGED serve
  \/ /\ Takeable(seen) /\ ~Routed(seen)
     /\ Ends("poll", seen.id) /\ ctl' = base /\ UNCHANGED serve
  \/ /\ Takeable(seen) /\ Routed(seen)
     /\ Polls /\ ctl' = [base EXCEPT !.call = seen.id, !.number = seen.number]
     /\ serve' = [NoServe EXCEPT !.pc = "start", !.call = seen.id]

WatchTakes ==
  /\ Looks /\ ~Serving
  /\ Take(phone, [ctl EXCEPT !.excluded = None])
  /\ UNCHANGED <<phone, hangups, table, beat, request, authority, staged, dial, failed, bound>>

\* The hang-up is answered.
WatchEnds ==
  /\ watch.pc = "end"
  /\ \E answer \in {"ok", "refused"} : End(watch.call, answer)
  /\ IF watch.then = "poll" THEN Polls /\ UNCHANGED <<ctl, beat, renewal, authority>>
     ELSE BeginFinish(watch.then, watch.call, watch.seen)
  /\ UNCHANGED <<bindings, wire, deadline, serve, request, staged, dial, failed>>

\* finish(): the gateway revokes the next lease, or the request is lost.
FinishRevokes ==
  /\ watch.pc = "finish" /\ watch.revoke # <<>>
  /\ \/ bindings' = Revoked(Head(watch.revoke)) /\ UNCHANGED bound
     \/ Spend("losses") /\ UNCHANGED bindings
  /\ watch' = [watch EXCEPT !.revoke = Tail(@)]
  /\ UNCHANGED <<phone, hangups, wire, deadline, renewal, ctl, serve, beat, request,
                 authority, staged, dial, failed>>

\* The call's task is cancelled, then the voice is stopped, which cancels its
\* request without waiting for it.
FinishCancels ==
  /\ watch.pc = "finish" /\ watch.revoke = <<>>
  /\ serve' = NoServe
  /\ wire' = IF serve.pc = "bind" THEN Strays(FALSE) ELSE wire
  /\ watch' = [watch EXCEPT !.pc = "stop"]
  /\ UNCHANGED <<phone, hangups, bindings, deadline, renewal, ctl, beat, request, authority,
                 staged, dial, failed, bound>>
FinishStops ==
  /\ watch.pc = "stop"
  /\ IF ctl.voice THEN CancelRequest ELSE UNCHANGED <<request, wire>>
  /\ watch' = [watch EXCEPT !.pc = "close"]
  /\ UNCHANGED <<phone, hangups, bindings, deadline, renewal, ctl, serve, beat, authority,
                 staged, dial, failed, bound>>

\* Mutant: the watcher does not remember which call has failed.
ForgetsFailed(closed) == closed
\* A call that has failed is left alone from now on.
Excludes(closed) ==
  IF watch.then = "exclude" THEN [closed EXCEPT !.excluded = watch.call] ELSE closed

\* The client is closed, also under a request that still cleans up, and all
\* but request_binding is forgotten.
FinishCloses ==
  LET closed == [ctl EXCEPT !.api = FALSE, !.binding = None, !.voice = FALSE, !.brief = None]
  IN /\ watch.pc = "close"
     /\ deadline' = [b \in BindingIds |-> 0]
     /\ request' = [request EXCEPT !.closed = request.pc # "idle"]
     /\ IF watch.then = "take" THEN Take(watch.seen, closed)
        ELSE Polls /\ ctl' = Excludes(closed) /\ UNCHANGED serve
     /\ UNCHANGED <<phone, hangups, bindings, wire, renewal, beat, authority, staged, dial, failed,
                    bound>>

----------------------------------------------------------------------------
\* The gateway.

\* bind(): a lease for the call, or for one request of it.  Nobody waits for a
\* stray one.
Binds(w) ==
  /\ w \in wire /\ Len(bindings) < MaxBindings
  /\ wire' = wire \ {w}
  /\ bindings' = Append(bindings, [call |-> w.call, revoked |-> FALSE, left |-> TTL])
  /\ serve' = IF w.stray \/ w.child THEN serve ELSE [serve EXCEPT !.got = Len(bindings) + 1]
  /\ request' = IF w.stray \/ ~w.child THEN request
                ELSE [request EXCEPT !.child = Len(bindings) + 1]
  /\ UNCHANGED <<phone, hangups, deadline, renewal, ctl, watch, beat, authority, staged, dial,
                 failed, bound>>

\* renew(): a lease that has expired or is revoked is not renewed.
Renews(b) ==
  /\ renewal[b].state = "sent"
  /\ LET answer == IF beat # "renew" THEN "none" ELSE IF Live(b) THEN "granted" ELSE "denied"
     IN renewal' = [renewal EXCEPT ![b].state = answer,
                                   ![b].age = IF answer = "none" THEN 0 ELSE @]
  /\ bindings' = IF Live(b) THEN [bindings EXCEPT ![b].left = TTL] ELSE bindings
  /\ UNCHANGED <<phone, hangups, wire, deadline, ctl, tasks, authority, staged, dial, failed,
                 bound>>

\* The renewal or its answer is lost, or the gateway has an error of its own.
RenewalLost(b) ==
  /\ renewal[b].state = "sent" /\ beat = "renew"
  /\ Spend("losses")
  /\ renewal' = [renewal EXCEPT ![b].state = "lost"]
  /\ \/ UNCHANGED bindings
     \/ Live(b) /\ bindings' = [bindings EXCEPT ![b].left = TTL]
  /\ UNCHANGED <<phone, hangups, wire, deadline, ctl, tasks, authority, staged, dial, failed>>

----------------------------------------------------------------------------
\* heartbeat()

Held == {ctl.binding, ctl.child} \ {None}

\* One round, under the lock: every lease that is held is renewed.
BeatRenews ==
  /\ beat = "due" /\ authority = "free"
  /\ beat' = "renew" /\ authority' = "beat"
  /\ renewal' = [b \in BindingIds |->
                   IF b \notin Held THEN renewal[b]
                   ELSE [state |-> IF deadline[b] > Margin THEN "sent" ELSE "lost", age |-> 0]]
  /\ UNCHANGED <<phone, hangups, bindings, wire, deadline, ctl, watch, serve, request, staged,
                 dial, failed, bound>>

\* Mutant: the lease is reckoned from the answer on.
LeaseFromAnswer(age) == TTL
\* A lease is reckoned from the moment it was asked for.
LeaseFrom(age) == TTL - age

BeatConfirmed(b) ==
  /\ beat = "renew" /\ renewal[b].state = "granted"
  /\ deadline' = [deadline EXCEPT ![b] = LeaseFrom(renewal[b].age)]
  /\ renewal' = [renewal EXCEPT ![b] = NoRenewal]
  /\ IF \A o \in Held \ {b} : renewal[o] = NoRenewal
       THEN beat' = "sleep" /\ authority' = "free"
       ELSE UNCHANGED <<beat, authority>>
  /\ UNCHANGED <<phone, hangups, bindings, wire, ctl, watch, serve, request, staged, dial,
                 failed, bound>>

BeatRetries(b) ==
  /\ beat = "renew" /\ renewal[b].state = "lost" /\ deadline[b] > Margin
  /\ renewal' = [renewal EXCEPT ![b] = [state |-> "sent", age |-> 0]]
  /\ UNCHANGED <<phone, hangups, bindings, wire, deadline, ctl, tasks, authority, staged, dial,
                 failed, bound>>

\* A renewal is denied, or not confirmed within the lease: the service ends.
TooLate(b) == renewal[b].state # "none" /\ deadline[b] <= Margin
BeatFails ==
  /\ beat = "renew"
  /\ \E b \in Held : renewal[b].state = "denied" \/ TooLate(b)
  /\ beat' = "stop" /\ authority' = "free" /\ renewal' = Abandoned
  /\ CancelServe
  /\ UNCHANGED <<phone, hangups, bindings, deadline, ctl, watch, request, staged, dial, bound>>

BeatStops ==
  /\ beat = "stop"
  /\ beat' = "end"
  /\ IF ctl.voice THEN CancelRequest ELSE UNCHANGED <<request, wire>>
  /\ UNCHANGED <<phone, hangups, bindings, deadline, renewal, ctl, watch, serve, authority,
                 staged, dial, failed, bound>>

BeatEnds ==
  /\ beat = "end"
  /\ beat' = "off"
  /\ \E answer \in {"ok", "refused"} : End(ctl.call, answer)
  /\ UNCHANGED <<table, ctl, watch, serve, request, authority, staged, dial, failed>>

----------------------------------------------------------------------------
\* serve()

Goes(pc) == serve' = [serve EXCEPT !.pc = pc]
ServeAlone == UNCHANGED <<hangups, table, ctl, watch, beat, request, authority, staged, dial, failed>>

\* The brief of the call that was dialed for it is claimed.
ServeStarts ==
  /\ serve.pc = "start"
  /\ Goes("check")
  /\ LET claims == /\ Outbound([phone EXCEPT !.number = ctl.number])
                   /\ phone.id = serve.call
     IN /\ ctl' = [ctl EXCEPT !.api = TRUE, !.ending = None,
                              !.brief = IF claims THEN serve.call ELSE None]
        /\ staged' = IF claims THEN NoStage ELSE staged
  /\ UNCHANGED <<phone, hangups, table, watch, beat, request, authority, dial, failed, bound>>

ServeChecks ==
  /\ serve.pc = "check"
  /\ Goes("bind")
  /\ wire' = wire \cup {[call |-> serve.call, child |-> FALSE, stray |-> FALSE]}
  /\ UNCHANGED <<phone, hangups, bindings, deadline, renewal, ctl, watch, beat, request,
                 authority, staged, dial, failed, bound>>

\* The lease is there; the call may be finished already.
ServeBound ==
  /\ serve.pc = "bind" /\ serve.got # None
  /\ ctl' = [ctl EXCEPT !.binding = serve.got]
  /\ deadline' = [deadline EXCEPT ![serve.got] = LeaseFrom(serve.age)]
  /\ serve' = [serve EXCEPT !.got = None, !.age = 0,
                 !.pc = IF ctl.call # serve.call THEN "done"
                        ELSE IF phone.phase = "incoming" THEN "answer" ELSE "wait"]
  /\ beat' = IF ctl.call = serve.call THEN "sleep" ELSE beat
  /\ UNCHANGED <<phone, hangups, bindings, wire, renewal, watch, request, authority, staged,
                 dial, failed, bound>>

ServeAnswers ==
  /\ serve.pc = "answer"
  /\ \/ /\ phone.id = serve.call /\ phone.phase \in {"incoming", "active"}
        /\ phone' = [phone EXCEPT !.phase = "active"]
        /\ Goes("wait") /\ UNCHANGED bound
     \/ /\ phone.id = serve.call /\ phone.phase = "incoming" /\ Spend("refusals")
        /\ Goes("fail") /\ UNCHANGED phone
     \/ /\ phone.id # serve.call \/ phone.phase \notin {"incoming", "active"}
        /\ Goes("fail") /\ UNCHANGED <<phone, bound>>
  /\ ServeAlone

\* Only the phase of the phone's call is compared here.
ServeWaits ==
  /\ serve.pc = "wait"
  /\ IF phone.phase = "active" THEN Goes("voice") /\ ctl' = [ctl EXCEPT !.voice = TRUE]
     ELSE Goes("fail") /\ UNCHANGED ctl
  /\ UNCHANGED <<phone, hangups, table, watch, beat, request, authority, staged, dial, failed,
                 bound>>

ServeVoice ==
  /\ serve.pc = "voice" /\ Goes("ready")
  /\ UNCHANGED <<phone, bound>> /\ ServeAlone

Left == phone.id # serve.call \/ phone.phase # "active" \/ ctl.ending = serve.call

\* The call is over or asked to end; its minutes are used up; or the voice has
\* stopped, which is looked at twice.
ServeLoops ==
  /\ \/ /\ serve.pc = "ready" /\ Left /\ Goes("done") /\ UNCHANGED bound
     \/ /\ serve.pc = "ready" /\ ~Left /\ Goes("expire") /\ Spend("ends")
     \/ /\ serve.pc = "ready" /\ ~Left /\ Goes("unwell") /\ Spend("losses")
     \/ /\ serve.pc = "unwell" /\ Goes(IF Left THEN "done" ELSE "fail") /\ UNCHANGED bound
     \/ /\ serve.pc = "unwell" /\ ~Left /\ Goes("ready") /\ UNCHANGED bound
  /\ UNCHANGED phone /\ ServeAlone

\* The gateway, the conversation or the voice fails on the way.
ServeFails ==
  /\ serve.pc \in {"check", "bind", "wait", "voice"} /\ Spend("losses")
  /\ serve' = [serve EXCEPT !.pc = "fail", !.got = None, !.age = 0]
  /\ IF serve.pc = "voice" THEN CancelRequest
     ELSE UNCHANGED request /\ wire' = (IF serve.pc = "bind" THEN Strays(FALSE) ELSE wire)
  /\ UNCHANGED <<phone, hangups, bindings, deadline, renewal, ctl, watch, beat, authority,
                 staged, dial, failed>>

ServeEnds ==
  /\ serve.pc \in {"fail", "expire"}
  /\ \E answer \in {"ok", "refused"} : End(serve.call, answer)
  /\ Goes("done")
  /\ failed' = failed \cup {<<serve.call, ctl.number>>}
  /\ UNCHANGED <<table, ctl, watch, beat, request, authority, staged, dial>>

----------------------------------------------------------------------------
\* events(): one Hermes request of the voice at a time, under its own lease.

RequestBegins ==
  /\ request.pc = "idle"
  /\ ctl.voice /\ ctl.api /\ ctl.binding # None
  /\ ctl.call = phone.id /\ phone.phase = "active"
  /\ Spend("requests")
  /\ request' = [NoRequest EXCEPT !.pc = "bind", !.call = ctl.call]
  /\ wire' = wire \cup {[call |-> ctl.call, child |-> TRUE, stray |-> FALSE]}
  /\ UNCHANGED <<phone, hangups, bindings, deadline, renewal, ctl, watch, serve, beat,
                 authority, staged, dial, failed>>

RequestBound ==
  /\ request.pc = "bind" /\ request.child # None
  /\ ctl' = [ctl EXCEPT !.child = request.child]
  /\ deadline' = [deadline EXCEPT ![request.child] = LeaseFrom(request.age)]
  /\ request' = [request EXCEPT !.pc = "run", !.age = 0]
  /\ UNCHANGED <<phone, hangups, bindings, wire, renewal, watch, serve, beat, authority, staged,
                 dial, failed, bound>>

RequestUnbound ==
  /\ request.pc = "bind" /\ request.child = None
  /\ (request.closed /\ UNCHANGED bound) \/ (~request.closed /\ Spend("losses"))
  /\ request' = NoRequest /\ wire' = Strays(TRUE)
  /\ UNCHANGED <<phone, hangups, bindings, deadline, renewal, ctl, watch, serve, beat,
                 authority, staged, dial, failed>>

\* The run has a result, fails, or belongs to another call than the current.
RequestEnds ==
  /\ request.pc = "run"
  /\ request' = [request EXCEPT !.pc = "ending"]
  /\ UNCHANGED <<phone, hangups, table, ctl, watch, serve, beat, authority, staged, dial,
                 failed, bound>>

RequestLocks ==
  /\ request.pc = "ending" /\ authority = "free"
  /\ request' = [request EXCEPT !.pc = "revoke"] /\ authority' = "request"
  /\ UNCHANGED <<phone, hangups, table, ctl, watch, serve, beat, staged, dial, failed, bound>>

RequestRevokes ==
  /\ request.pc = "revoke" /\ ~request.closed
  /\ bindings' = Revoked(request.child)
  /\ deadline' = [deadline EXCEPT ![request.child] = 0]
  /\ ctl' = [ctl EXCEPT !.child = None]
  /\ request' = NoRequest /\ authority' = "free"
  /\ UNCHANGED <<phone, hangups, wire, renewal, watch, serve, beat, staged, dial, failed, bound>>

\* The revocation or its answer is lost: the task that serves a call now is
\* cancelled, and the second of the two finally clauses tries again.
RequestUnrevoked ==
  /\ request.pc = "revoke"
  /\ \/ request.closed /\ UNCHANGED <<bindings, bound>>
     \/ /\ ~request.closed /\ Spend("losses")
        /\ \/ UNCHANGED bindings
           \/ bindings' = Revoked(request.child)
  /\ CancelServe
  /\ request' = IF request.tries = 0 THEN [request EXCEPT !.pc = "ending", !.tries = 1]
                ELSE NoRequest
  /\ authority' = "free"
  /\ UNCHANGED <<phone, hangups, deadline, renewal, ctl, watch, beat, staged, dial>>

\* The voice asks to end the call.
EndCall ==
  /\ ctl.voice /\ serve.pc = "ready" /\ ctl.ending # ctl.call /\ bound.ends > 0
  /\ ctl.call = phone.id /\ phone.phase = "active"
  /\ \E answer \in {"ok", "refused"} :
       /\ End(ctl.call, answer)
       /\ ctl' = IF answer = "ok" THEN [ctl EXCEPT !.ending = ctl.call] ELSE ctl
  /\ UNCHANGED <<table, tasks, authority, staged, dial, failed>>

----------------------------------------------------------------------------
\* start_phone_call and the phone.

controller == <<hangups, table, ctl, tasks, authority, failed>>

NewCall(phase, number, out, by) ==
  /\ ~Up /\ Spend("calls")
  /\ phone' = [phone EXCEPT !.id = @ + 1, !.phase = phase, !.number = number, !.out = out,
                            !.by = by]

\* stage_outbound(), before ATD; the phone dials, or does not; the caller
\* discards what was not claimed.
Stages == /\ ~Up /\ dial = "idle" /\ Spend("dials")
          /\ dial' = "atd"
          /\ staged' = [generation |-> phone.id, link |-> phone.link, on |-> TRUE]
          /\ UNCHANGED <<controller, phone>>
Dials == /\ dial = "atd" /\ dial' = "waits"
         /\ NewCall("dialing", Recipient, TRUE, TRUE)
         /\ UNCHANGED <<controller, staged>>
Discards == /\ dial # "idle" /\ dial' = "idle" /\ staged' = NoStage
            /\ UNCHANGED <<controller, phone, bound>>

Incoming(n) == n \in bound.from /\ NewCall("incoming", n, FALSE, FALSE) /\ UNCHANGED <<controller, staged, dial>>
\* The number arrives late, or is corrected.
Named(n) == /\ Up /\ phone.phase # "ending" /\ phone.number # n
            /\ \/ phone.number = Unknown /\ UNCHANGED bound
               \/ phone.number # Unknown /\ Spend("changes")
            /\ phone' = [phone EXCEPT !.number = n]
            /\ UNCHANGED <<controller, staged, dial>>
PickedUp == /\ phone.phase \in {"dialing", "incoming"}
            /\ phone' = [phone EXCEPT !.phase = "active"]
            /\ UNCHANGED <<controller, staged, dial, bound>>
CallOver == /\ Up
            /\ phone' = [phone EXCEPT !.phase = "idle", !.number = Unknown]
            /\ UNCHANGED <<controller, staged, dial, bound>>
LinkDrops == /\ Spend("losses")
             /\ phone' = [phone EXCEPT !.phase = "idle", !.number = Unknown, !.link = @ + 1]
             /\ UNCHANGED <<controller, staged, dial>>

Older(n) == IF n < TTL THEN n + 1 ELSE n
Younger(n) == IF n > 0 THEN n - 1 ELSE 0

\* A task that can go on does so within a heartbeat period; what waits for the
\* phone, the gateway or Hermes may take any time.
Ready == \/ (Looks /\ (Done \/ (Serving /\ (Gone(phone) \/ Swapped(phone)))))
         \/ (Looks /\ ~Serving /\ Takeable(phone) /\ phone.number # Unknown)
         \/ serve.pc = "start"
         \/ (serve.pc = "wait" /\ phone.phase = "active")
         \/ (serve.pc \in {"ready", "unwell"} /\ Left)
         \/ (authority = "free" /\ (beat = "due" \/ request.pc = "ending"))
         \/ (watch.pc = "finish" /\ watch.revoke = <<>>)
         \/ \E b \in Held : renewal[b].state = "lost"
         \/ (beat = "renew" /\ \E b \in Held : TooLate(b))

\* The gateway has something to answer, or its answer is under way.
Asked == \/ wire # {} \/ (serve.pc = "bind" /\ serve.got # None)
         \/ (request.pc = "bind" /\ request.child # None)
         \/ \E b \in BindingIds : renewal[b].state \in {"sent", "granted", "denied"}
         \/ (watch.pc = "finish" /\ watch.revoke # <<>>) \/ request.pc = "revoke"

\* A heartbeat period; the gateway may take so long to answer.
Tick ==
  /\ ~Ready
  /\ IF Asked THEN Spend("delays") ELSE UNCHANGED bound
  /\ bindings' = [b \in DOMAIN bindings |-> [bindings[b] EXCEPT !.left = Younger(@)]]
  /\ deadline' = [b \in BindingIds |-> Younger(deadline[b])]
  /\ renewal' = [b \in BindingIds |-> IF renewal[b].state \in {"none", "lost"} THEN renewal[b]
                                      ELSE [renewal[b] EXCEPT !.age = Older(@)]]
  /\ serve' = IF serve.pc = "bind" THEN [serve EXCEPT !.age = Older(@)] ELSE serve
  /\ request' = IF request.pc = "bind" THEN [request EXCEPT !.age = Older(@)] ELSE request
  /\ beat' = IF beat = "sleep" THEN "due" ELSE beat
  /\ UNCHANGED <<phone, hangups, wire, ctl, watch, authority, staged, dial, failed>>

----------------------------------------------------------------------------
Watches == \/ WatchDone \/ WatchGone \/ WatchSwapped \/ WatchTakes \/ WatchEnds
           \/ FinishRevokes \/ FinishCancels \/ FinishStops \/ FinishCloses
Gateway == \/ \E w \in wire : Binds(w)
           \/ \E b \in BindingIds : Renews(b)
Beats == \/ BeatRenews \/ BeatFails \/ BeatStops \/ BeatEnds
         \/ \E b \in BindingIds : BeatConfirmed(b) \/ BeatRetries(b)
Serves == \/ ServeStarts \/ ServeChecks \/ ServeBound \/ ServeAnswers \/ ServeWaits
          \/ ServeVoice \/ ServeLoops \/ ServeEnds
Requests == RequestBound \/ RequestEnds \/ RequestLocks \/ RequestRevokes

Next == \/ Watches \/ Gateway \/ Beats \/ Serves \/ Requests \/ Tick
        \/ \E b \in BindingIds : RenewalLost(b)
        \/ ServeFails \/ RequestBegins \/ RequestUnbound \/ RequestUnrevoked \/ EndCall
        \/ Stages \/ Dials \/ Discards
        \/ \E n \in Callers : Incoming(n)
        \/ \E n \in Numbers : Named(n)
        \/ PickedUp \/ CallOver \/ LinkDrops

Spec == Init /\ [][Next]_vars

\* The event loop keeps running watch(); and as long as another task can go on,
\* the gateway has something to answer, or a lease runs, something of that
\* happens.  Nothing is asked of the phone.
Fairness == /\ WF_vars(Watches)
            /\ WF_vars(Gateway \/ Beats \/ Serves \/ Requests \/ Tick
                       \/ (request.closed /\ (RequestUnbound \/ RequestUnrevoked)))
LiveSpec == Spec /\ Fairness

----------------------------------------------------------------------------
\* The controller never takes a lease for longer than the gateway does,
\* whatever is delayed, lost or retried: it has given a call up by the time
\* the gateway refuses it.
LeaseConservative ==
  \A b \in DOMAIN bindings : bindings[b].revoked \/ deadline[b] <= bindings[b].left

\* A call whose service has failed, and whose hang-up may have failed too, is
\* not served again for the caller it failed with.  Holds while its number changes
\* at most once: a change back during the clean-up escapes the exclusion.
NotReopened ==
  [][serve.pc # "start" /\ serve'.pc = "start" => <<serve'.call, ctl'.number>> \notin failed]_vars

\* The purpose of a staged dial is read to no call but the one dialed for it.
BriefForRecipient == Up /\ ctl.brief = phone.id => phone.by

\* What every state satisfies: the types, leases the gateway still honours, and
\* briefs with their call.
Inv == TypeOK /\ LeaseConservative /\ BriefForRecipient

\* When a call is over, the gateway's authority for it ends for good, also that
\* of leases that nobody knows of.
LiveFor(c) == \E b \in DOMAIN bindings : bindings[b].call = c /\ Live(b)
AuthorityEnds == <>[](\A c \in Calls : Over(c) => ~LiveFor(c))

\* A service for one caller does not go on when the call turns out to be of
\* another.
WrongCallerEnds ==
  []<>~(ctl.call = phone.id /\ Up /\ phone.number \notin {Unknown, ctl.number})

\* The leases that a call's heartbeat renews are the call's own.
\* Refuted by TLC: a request whose lease cannot be revoked any more leaves it to the
\* next call.
OwnLeases == beat # "off" /\ request.pc = "idle" /\ ctl.child # None
               => bindings[ctl.child].call = ctl.call
=============================================================================
