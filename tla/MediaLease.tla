------------------------------ MODULE MediaLease ------------------------------
(***************************************************************************)
(* The audio of a call: the exclusive lease (media.py), the sessions and   *)
(* the one physical SCO link they share (audio/sco.py), the WebSocket      *)
(* grants and clients (audio/sidecar.py) and the coroutines of server.py   *)
(* that acquire, start, release, reclaim and clean them up.                *)
(*                                                                         *)
(* The coroutines run on one event loop.  They are serialised by the       *)
(* lifecycle lock, a FIFO queue of jobs whose head holds it, and give the  *)
(* loop up while an executor thread opens or closes the link; the thread   *)
(* and the sidecar post their events to the loop, which runs them in       *)
(* order.  A lease, its stream id and its session are named by the lease's *)
(* generation, 0 standing for none.                                        *)
(***************************************************************************)
EXTENDS Naturals, Sequences, FiniteSets, Queues

CONSTANTS
    Requests,   \* tool invocations
    Owners,     \* the owners that acquire the lease
    MaxCalls    \* bound: calls

ASSUME CallsAssumption == MaxCalls \in Nat

VARIABLES
    call,      \* HFPState: the call's state and id
    m,         \* the media state owned by the event loop
    sessions,  \* AudioManager._sessions
    link,      \* _SCOTransport: state, and the sessions that hold it
    ready,     \* callbacks posted to the event loop
    result     \* what each request has come to

vars == <<call, m, sessions, link, ready, result>>

-----------------------------------------------------------------------------
(* The event loop's state and the synchronous operations on it *)

NoLease == [gen |-> 0, call |-> 0, owner |-> "none"]

\* Mutant: a new stream inherits the attached client of the one before.
SetScoKeepsClient(x, st, g) ==
    IF st = "ready" THEN [x EXCEPT !.sco.st = st, !.sco.stream = IF g = 0 THEN @ ELSE g]
    ELSE [x EXCEPT !.sco.st = st]

\* HFPState.set_sco_state, for the stream g or for no stream at all.
SetSco(x, st, g) ==
    IF st = "ready"
    THEN [x EXCEPT !.sco.st = st,
                   !.sco.stream = IF g = 0 THEN @ ELSE g,
                   !.sco.attached = @ /\ g \in {0, x.sco.stream}]
    ELSE [x EXCEPT !.sco.st = st, !.sco.stream = 0, !.sco.attached = FALSE]

\* HFPState.set_audio_active
SetActive(x, b) == [x EXCEPT !.sco.active = b]

Job(k, r, g) == [k |-> k, r |-> r, gen |-> g, call |-> 0, reused |-> FALSE,
                 s |-> 0, drop |-> {}, pc |-> "wait"]

\* Mutant: a job goes before those that wait for the lock.
EnqueueFirst(x, job) == [x EXCEPT !.lock = <<job>> \o @]

Enqueue(x, job) == [x EXCEPT !.lock = Append(@, job)]
Unlock(x)       == [x EXCEPT !.lock = Tail(@)]
SetHead(x, job) == [x EXCEPT !.lock = <<job>> \o Tail(@)]

\* _cancel_audio_reclaim: the reclaim may still sleep, or wait for the lock.
CancelReclaim(x, g) ==
    [x EXCEPT !.timers = @ \ {g},
              !.lock = Without(@, {Job("reclaim", "timer", g)})]

\* AudioStreamServer.detach_session
DetachSession(x, g) == [x EXCEPT !.tokens = @ \ {g}, !.attached = @ \ {g}]

\* Mutant: the sidecar keeps the grants and the client of the stream.
DetachLeaseOnly(x) ==
    CancelReclaim([x EXCEPT !.lease = NoLease,
                            !.aliases = {a \in @ : a[2] # x.lease.gen}], x.lease.gen)

\* _detach_logical_media_lease, of the current lease
DetachLease(x) ==
    LET g == x.lease.gen
    IN  DetachSession(
            CancelReclaim([x EXCEPT !.lease = NoLease,
                                    !.aliases = {a \in @ : a[2] # g}], g), g)

\* _arm_audio_lease_reclaim, of the current lease
ArmReclaim(x) == [CancelReclaim(x, x.lease.gen) EXCEPT !.timers = @ \cup {x.lease.gen}]

\* MediaLeaseManager.acquire, when there is no lease
NewLease(x, owner) ==
    [x EXCEPT !.last = @ + 1,
              !.lease = [gen |-> x.last + 1, call |-> call.id, owner |-> owner]]

\* has_active_transport
Up == link.st = "up"

\* _refresh_audio_state_after_cleanup
Refresh(x, up) ==
    IF x.lease.gen # 0 /\ up THEN SetSco(x, "ready", x.lease.gen)
    ELSE SetSco(x, IF up THEN "ready" ELSE "disconnected", 0)

\* The lease is the active call's (the check repeated after every await).
OfActiveCall(x) == x.lease.gen # 0 /\ call.st = "active" /\ call.id = x.lease.call

-----------------------------------------------------------------------------
(* Requests: what a tool does before it waits for the lifecycle lock *)

\* acquire_audio_stream
Acquire(r, owner) ==
    /\ result[r] = "new" /\ call.st = "active"
    /\ LET fresh == m.lease.gen = 0
           same  == m.lease.call = call.id /\ m.lease.owner = owner
           x     == IF fresh THEN NewLease(m, owner) ELSE m
           job   == [Job("acquire", r, x.lease.gen)
                        EXCEPT !.call = call.id, !.reused = ~fresh]
       IN  \/ /\ fresh \/ same
              /\ m' = Enqueue(x, job)
              /\ result' = [result EXCEPT ![r] = "waiting"]
           \/ /\ ~fresh /\ ~same
              /\ result' = [result EXCEPT ![r] = "conflict"] /\ UNCHANGED m
    /\ UNCHANGED <<call, sessions, link, ready>>

\* ensure_audio_stream, stop_audio_capture and cleanup_audio_sessions
Ask(r, tool) ==
    /\ result[r] = "new"
    /\ m' = Enqueue(m, Job(tool, r, 0))
    /\ result' = [result EXCEPT ![r] = "waiting"]
    /\ UNCHANGED <<call, sessions, link, ready>>

\* release_audio_stream, and end_call once the call has ended
Release(r) ==
    /\ result[r] = "new" /\ m.lease.gen # 0
    /\ m' = Enqueue(m, Job("release", r, m.lease.gen))
    /\ result' = [result EXCEPT ![r] = "waiting"]
    /\ UNCHANGED <<call, sessions, link, ready>>

-----------------------------------------------------------------------------
(* The holder of the lifecycle lock *)

Holder == Head(m.lock)
Holds(kinds, pc) == m.lock # <<>> /\ Holder.k \in kinds /\ Holder.pc = pc
Starting == Holds({"acquire", "ensure"}, "wait")

\* The stream a start asks for belongs to the current lease.
Named(x, name) ==
    x.lease.gen # 0 /\ (name = x.lease.gen \/ <<name, x.lease.gen>> \in x.aliases)

\* Mutant: a failed start leaves the lifecycle lock taken.
AbortHoldsLock(x, job) == [x EXCEPT !.lease = IF x.lease.gen = job.gen THEN NoLease ELSE @]

\* A start that fails: the caller revokes the lease if it created it.
Abort(x, job) ==
    Unlock(IF job.k = "acquire" /\ ~job.reused /\ x.lease.gen = job.gen
           THEN [x EXCEPT !.lease = NoLease] ELSE x)

\* Mutant: no reclaim is armed for the stream that was granted.
GrantUnarmed(x, job) ==
    Unlock(SetSco([x EXCEPT !.tokens = @ \cup {x.lease.gen}], "ready", x.lease.gen))

\* The end of _start_audio_stream_unlocked, and of _acquire: a one-time token
\* for the current lease, the reclaim, and the check that it is the one asked for.
Grant(x, job) ==
    LET g == x.lease.gen
        y == SetSco([x EXCEPT !.tokens = @ \cup {g}], "ready", g)
        z == Unlock(IF g \in y.attached THEN CancelReclaim(y, g) ELSE ArmReclaim(y))
    IN  IF job.k = "acquire" /\ job.gen # g
        THEN Enqueue(z, Job("exact", job.r, job.gen)) ELSE z

Outcome(x, job) ==
    IF job.k = "acquire" /\ job.gen # x.lease.gen THEN "ended" ELSE "ok"

\* The session s is open: the lease and the call are compared again.
Conclude(x, job, s) ==
    IF OfActiveCall(x) /\ x.lease.gen = s
    THEN /\ m' = Grant(x, job)
         /\ result' = [result EXCEPT ![job.r] = Outcome(x, job)]
    ELSE /\ m' = SetHead(x, [job EXCEPT !.drop = {s}, !.pc = "removing"])
         /\ UNCHANGED result

StartReuses ==
    /\ Starting /\ Named(m, Holder.gen) /\ m.lease.gen \in sessions
    /\ Conclude(m, Holder, m.lease.gen)
    /\ UNCHANGED <<call, sessions, link, ready>>

\* _resolve_media_session_id takes a lease of its own when there is none, under
\* an alias; _open_audio_session hands the link to the executor.
StartOpens ==
    /\ Starting /\ call.st = "active"
    /\ \/ Named(m, Holder.gen) /\ m.lease.gen \notin sessions
       \/ m.lease.gen = 0
    /\ LET y == NewLease(m, "mcp_client")
           x == IF m.lease.gen # 0 THEN m
                ELSE [y EXCEPT !.aliases = @ \cup {<<Holder.gen, y.lease.gen>>}]
           s == x.lease.gen
       IN  /\ sessions' = sessions \cup {s}
           /\ m' = SetHead(SetSco(x, "connecting", 0), [Holder EXCEPT !.s = s, !.pc = "opening"])
    /\ UNCHANGED <<call, link, ready, result>>

\* Another lease holds the audio, or no call is active.
StartRefused ==
    /\ Starting
    /\ IF m.lease.gen # 0
       THEN ~Named(m, Holder.gen) \/ (call.st # "active" /\ m.lease.gen \notin sessions)
       ELSE call.st # "active"
    /\ m' = Abort(m, Holder)
    /\ result' = [result EXCEPT ![Holder.r] = "unavailable"]
    /\ UNCHANGED <<call, sessions, link, ready>>

Finished(job) == IF job.r \in Requests /\ result[job.r] = "waiting"
                 THEN [result EXCEPT ![job.r] = "done"] ELSE result

\* Mutant: the cleanup of one lease detaches whichever is current.
ReleasesAny(job) == m.lease.gen # 0

\* release_if: only the exact lease.
Releases(job) == m.lease.gen = job.gen

\* _release_media_lease_exact, with the lease still to detach
ReleaseStarts ==
    /\ Holds({"release", "reclaim"}, "wait")
    /\ LET job == [Holder EXCEPT !.drop = {Holder.gen}, !.pc = "removing"]
       IN  IF ~Releases(job)
           THEN m' = Unlock(m) /\ result' = Finished(Holder)
           ELSE IF job.gen \in sessions
           THEN m' = DetachLease(SetHead(m, job)) /\ UNCHANGED result
           ELSE m' = Unlock(Refresh(DetachLease(SetHead(m, job)), Up)) /\ result' = Finished(Holder)
    /\ UNCHANGED <<call, sessions, link, ready>>

\* _release_media_lease_exact of a lease already detached by the end of its
\* call, and _cleanup_released_media_lease
ExactStarts ==
    /\ Holds({"exact"}, "wait")
    /\ IF Holder.gen \in sessions
       THEN m' = SetHead(m, [Holder EXCEPT !.drop = {Holder.gen}, !.pc = "removing"])
       ELSE m' = Unlock(Refresh(m, Up))
    /\ UNCHANGED <<call, sessions, link, ready, result>>

\* stop_audio_capture("active-call")
StopStarts ==
    /\ Holds({"stop"}, "wait")
    /\ LET g == m.lease.gen
       IN  IF Named(m, 0) /\ g \in sessions
           THEN /\ m' = DetachLease(SetHead(m, [Holder EXCEPT !.drop = {g}, !.pc = "removing"]))
                /\ UNCHANGED result
           ELSE m' = Unlock(m) /\ result' = Finished(Holder)
    /\ UNCHANGED <<call, sessions, link, ready>>

\* detach_all, the release and the cancelled reclaims of _cleanup_all_audio_sessions
CleanupStarts ==
    /\ Holds({"cleanup"}, "wait")
    /\ LET job == [Holder EXCEPT !.drop = sessions, !.pc = "removing"]
           x   == [SetHead(m, job) EXCEPT !.timers = {}, !.tokens = {}, !.attached = {},
                                          !.lease = NoLease, !.aliases = {}]
       IN  m' = [x EXCEPT !.lock = Without(@, {Job("reclaim", "timer", g) : g \in 1 .. x.last})]
    /\ UNCHANGED <<call, sessions, link, ready, result>>

-----------------------------------------------------------------------------
(* The executor threads and the SCO link; what they post to the loop *)

Health(st)  == [k |-> st, gen |-> 0, ok |-> TRUE]
Resume(b)   == [k |-> "resume", gen |-> 0, ok |-> b]
Posted(k, g) == [k |-> k, gen |-> g, ok |-> TRUE]
HealthStates == {"connecting", "connected", "failed", "stopped"}

Advance(pc) == m' = SetHead(m, [Holder EXCEPT !.pc = pc])

\* _SCOTransport.acquire: a session joins a healthy link ...
LinkJoins ==
    /\ Holds({"acquire", "ensure"}, "opening") /\ Up
    /\ link' = [link EXCEPT !.users = @ \cup {Holder.s}]
    /\ ready' = Append(ready, Resume(TRUE))
    /\ Advance("opened")
    /\ UNCHANGED <<call, sessions, result>>

\* ... or starts to connect it,
LinkConnects ==
    /\ Holds({"acquire", "ensure"}, "opening") /\ ~Up
    /\ link' = [st |-> "connecting", users |-> link.users \cup {Holder.s}]
    /\ ready' = Append(ready, Health("connecting"))
    /\ Advance("connecting")
    /\ UNCHANGED <<call, sessions, result>>

\* and the link comes up, its health being published before the lease is returned,
LinkUp ==
    /\ Holds({"acquire", "ensure"}, "connecting")
    /\ link' = [link EXCEPT !.st = "up"]
    /\ ready' = ready \o <<Health("connected"), Resume(TRUE)>>
    /\ Advance("opened")
    /\ UNCHANGED <<call, sessions, result>>

\* or does not (_record_start_failure).
LinkFails ==
    /\ Holds({"acquire", "ensure"}, "connecting")
    /\ link' = [st |-> "failed", users |-> link.users \ {Holder.s}]
    /\ ready' = ready \o <<Health("failed"), Resume(FALSE)>>
    /\ Advance("opened")
    /\ UNCHANGED <<call, sessions, result>>

\* _bridge_ended
BridgeFails ==
    /\ Up
    /\ link' = [link EXCEPT !.st = "failed"]
    /\ ready' = Append(ready, Health("failed"))
    /\ UNCHANGED <<call, m, sessions, result>>

\* AudioManager.remove_session and stop_all: the last session stops the link.
SessionsRemoved ==
    /\ m.lock # <<>> /\ Holder.pc = "removing"
    /\ LET users == link.users \ Holder.drop
           last  == link.users # {} /\ users = {}
       IN  /\ sessions' = sessions \ Holder.drop
           /\ link' = [st |-> IF last THEN "stopped" ELSE link.st, users |-> users]
           /\ ready' = ready \o (IF last THEN <<Health("stopped")>> ELSE <<>>) \o <<Resume(TRUE)>>
    /\ Advance("removed")
    /\ UNCHANGED <<call, result>>

-----------------------------------------------------------------------------
(* The callbacks of the event loop, in the order in which they were posted *)

Callback(kinds) == ready # <<>> /\ Head(ready).k \in kinds /\ ready' = Tail(ready)

\* _on_sco_health
ApplyHealth(x, st) ==
    LET carried == Up /\ OfActiveCall(x)
        down    == SetActive(SetSco(x, IF st = "failed" THEN "failed" ELSE "disconnected", 0), FALSE)
    IN  IF st = "connected"
        THEN IF carried THEN SetActive(SetSco(x, "ready", x.lease.gen), TRUE) ELSE x
        ELSE IF carried THEN SetSco(x, "ready", x.lease.gen)
        ELSE IF st = "failed"
        THEN Enqueue([down EXCEPT !.tokens = {}, !.attached = {}], Job("cleanup", "health", 0))
        ELSE down

LinkHealth ==
    /\ Callback(HealthStates)
    /\ m' = ApplyHealth(m, Head(ready).k)
    /\ UNCHANGED <<call, sessions, link, result>>

\* _on_audio_client_connected
ClientConnected ==
    /\ Callback({"attached"})
    /\ LET g == Head(ready).gen
           x == IF g = m.sco.stream THEN [m EXCEPT !.sco.attached = TRUE] ELSE m
       IN  m' = IF m.lease.gen = g /\ m.lease.call = call.id /\ call.st # "idle"
                THEN CancelReclaim(x, g) ELSE m
    /\ UNCHANGED <<call, sessions, link, result>>

\* _on_audio_client_disconnected
ClientDisconnected ==
    /\ Callback({"detached"})
    /\ LET g == Head(ready).gen
           x == IF g = m.sco.stream THEN [m EXCEPT !.sco.attached = FALSE] ELSE m
       IN  m' = IF m.lease.gen = g THEN ArmReclaim(x) ELSE m
    /\ UNCHANGED <<call, sessions, link, result>>

\* _create_cleanup_task, which waits for the lifecycle lock
CleanupTask ==
    /\ Callback({"cleanup"})
    /\ m' = Enqueue(m, Job("exact", "call", Head(ready).gen))
    /\ UNCHANGED <<call, sessions, link, result>>

\* The holder's session is open: _open_audio_session returns.
Opened ==
    /\ Holds({"acquire", "ensure"}, "opened") /\ Callback({"resume"})
    /\ IF Head(ready).ok
       THEN /\ Conclude(SetActive(SetSco(m, "ready", 0), TRUE), Holder, Holder.s)
            /\ UNCHANGED sessions
       ELSE /\ m' = Abort(SetSco(m, "failed", 0), Holder)
            /\ result' = [result EXCEPT ![Holder.r] = "unavailable"]
            /\ sessions' = sessions \ {Holder.s}
    /\ UNCHANGED <<call, link>>

\* The holder's sessions are closed.
Closed ==
    /\ m.lock # <<>> /\ Holder.pc = "removed" /\ Callback({"resume"})
    /\ IF Holder.k \in {"acquire", "ensure"}
       THEN /\ m' = Abort(m, Holder)
            /\ result' = [result EXCEPT ![Holder.r] = "unavailable"]
       ELSE /\ m' = Unlock(IF Holder.k = "cleanup"
                           THEN SetSco(m, IF Up THEN "ready" ELSE "disconnected", 0)
                           ELSE Refresh(m, Up))
            /\ result' = Finished(Holder)
    /\ UNCHANGED <<call, sessions, link>>

\* _reclaim wakes up.
ReclaimFires ==
    \E g \in m.timers :
        /\ LET x == [m EXCEPT !.timers = @ \ {g}]
           IN  m' = IF m.lease.gen = g /\ g \notin m.attached
                    THEN Enqueue(x, Job("reclaim", "timer", g)) ELSE x
        /\ UNCHANGED <<call, sessions, link, ready, result>>

-----------------------------------------------------------------------------
(* The sidecar's clients, and the call *)

\* The grant is current (_audio_grant_is_current), has a session and no client.
Admits(g) == OfActiveCall(m) /\ m.lease.gen = g /\ g \in sessions /\ g \notin m.attached

\* on_connect consumes the token before it checks anything.
ClientConnects ==
    \E g \in m.tokens :
        /\ m' = [m EXCEPT !.tokens = @ \ {g}, !.attached = IF Admits(g) THEN @ \cup {g} ELSE @]
        /\ ready' = IF Admits(g) THEN Append(ready, Posted("attached", g)) ELSE ready
        /\ UNCHANGED <<call, sessions, link, result>>

\* on_disconnect of a client that was not detached before
Leaves(g) ==
    /\ m' = [m EXCEPT !.attached = @ \ {g}]
    /\ ready' = Append(ready, Posted("detached", g))
    /\ UNCHANGED <<call, sessions, link, result>>

ClientLeaves == \E g \in m.attached : Leaves(g)

\* _send_capture closes a client whose session is gone.
SenderCloses == \E g \in m.attached \ sessions : Leaves(g)

TokenExpires ==
    \E g \in m.tokens :
        /\ m' = [m EXCEPT !.tokens = @ \ {g}]
        /\ UNCHANGED <<call, sessions, link, ready, result>>

CallStarts ==
    /\ call.st = "idle" /\ call.id < MaxCalls
    /\ call' = [st |-> "active", id |-> call.id + 1]
    /\ UNCHANGED <<m, sessions, link, ready, result>>

CallEnding ==
    /\ call.st = "active"
    /\ call' = [call EXCEPT !.st = "ending"]
    /\ UNCHANGED <<m, sessions, link, ready, result>>

\* Mutant: the end of a call leaves its lease for the cleanup task.
EndsLater(x) == x

\* _schedule_call_end_audio_cleanup revokes the lease before it returns.
EndsNow(x) == IF x.lease.gen = 0 THEN x ELSE DetachLease(x)

CallEnds ==
    /\ call.st # "idle"
    /\ call' = [call EXCEPT !.st = "idle"]
    /\ m' = EndsNow(SetActive(m, FALSE))
    /\ ready' = IF m.lease.gen = 0 THEN ready ELSE Append(ready, Posted("cleanup", m.lease.gen))
    /\ UNCHANGED <<sessions, link, result>>

-----------------------------------------------------------------------------
Init ==
    /\ call = [st |-> "idle", id |-> 0]
    /\ m = [lease |-> NoLease, last |-> 0, aliases |-> {}, tokens |-> {}, attached |-> {},
            timers |-> {}, lock |-> <<>>,
            sco |-> [st |-> "disconnected", stream |-> 0, attached |-> FALSE, active |-> FALSE]]
    /\ sessions = {} /\ link = [st |-> "stopped", users |-> {}] /\ ready = <<>>
    /\ result = [r \in Requests |-> "new"]

Loop ==
    \/ StartReuses \/ StartOpens \/ StartRefused \/ ReleaseStarts \/ ExactStarts
    \/ StopStarts \/ CleanupStarts
    \/ LinkHealth \/ ClientConnected \/ ClientDisconnected \/ CleanupTask \/ Opened \/ Closed

Threads == LinkJoins \/ LinkConnects \/ LinkUp \/ LinkFails \/ SessionsRemoved

Environment ==
    \/ \E r \in Requests :
          \/ \E owner \in Owners : Acquire(r, owner)
          \/ \E tool \in {"ensure", "stop", "cleanup"} : Ask(r, tool)
          \/ Release(r)
    \/ BridgeFails \/ ClientConnects \/ ClientLeaves \/ TokenExpires
    \/ CallStarts \/ CallEnding \/ CallEnds

Next == Loop \/ Threads \/ ReclaimFires \/ SenderCloses \/ Environment

Spec == Init /\ [][Next]_vars

\* The loop runs its callbacks, the executor its threads, and timers fire.
Fairness == WF_vars(Loop) /\ WF_vars(Threads) /\ WF_vars(ReclaimFires) /\ WF_vars(SenderCloses)
LiveSpec == Spec /\ Fairness

-----------------------------------------------------------------------------
(* Properties *)

\* The generations given so far.
Given == 0 .. m.last

\* Every variable stays in its range: the lease is the one given last, nothing
\* names one that was not given, and only the holder of the lifecycle lock has
\* work in the executor.
TypeOK ==
    /\ call \in [st : {"idle", "active", "ending"}, id : 0 .. MaxCalls]
    /\ m.last \in Nat
    /\ m.lease \in [gen : {0, m.last}, call : 0 .. MaxCalls,
                     owner : Owners \cup {"mcp_client", "none"}]
    /\ m.aliases \subseteq Given \X Given
    /\ m.tokens \cup m.attached \cup m.timers \subseteq Given
    /\ m.sco \in [st : {"disconnected", "connecting", "ready", "failed"}, stream : Given,
                   attached : BOOLEAN, active : BOOLEAN]
    /\ sessions \subseteq Given \ {0} /\ link.users \subseteq Given
    /\ link.st \in {"stopped", "connecting", "up", "failed"}
    /\ \A i \in 2 .. Len(m.lock) : m.lock[i].pc = "wait"

\* A token or an attached client is of the lease in force: whatever revokes a
\* lease revokes them in the same step, on every path of server.py.
GrantsCurrent == m.tokens \cup m.attached \subseteq {m.lease.gen} /\ 0 \notin m.tokens

\* A lease is of the call that is up: no ended call's lease survives it, and
\* none is created for it by a request that was waiting.
LeaseOfCall == m.lease.gen # 0 => call.st # "idle" /\ m.lease.call = call.id

\* The job removes session s, or decides whether it stays.
Removes(job, s) ==
    s \in job.drop \/ (job.k \in {"exact", "reclaim"} /\ job.gen = s) \/ job.k = "cleanup"
    \/ (job.s = s /\ job.pc # "removed")

\* No audio session is left behind: it is the lease's, or work already
\* scheduled removes it.
NoOrphanSession ==
    \A s \in sessions :
        \/ m.lease.gen = s
        \/ \E i \in DOMAIN m.lock : Removes(m.lock[i], s)
        \/ \E i \in DOMAIN ready : ready[i].k = "cleanup" /\ ready[i].gen = s

Quiet == m.lock = <<>> /\ ready = <<>>

\* When nothing is pending the state shows the link: ready exactly when it is
\* up, with the lease's stream and its client.
StateAgrees ==
    Quiet => /\ m.sco.st = "ready" <=> Up
             /\ m.sco.active => Up
             /\ m.sco.stream \in {0, m.lease.gen}
             /\ m.lease.gen \in sessions => (m.sco.attached <=> m.lease.gen \in m.attached)

\* What every state satisfies: the types; no token or client of a lease that was
\* revoked; no lease of a call that is over; no audio session without its lease.
Inv == TypeOK /\ GrantsCurrent /\ LeaseOfCall /\ NoOrphanSession

\* The leases of a run: a request makes two at most, one of its own and one that a
\* start takes for it when that is gone.
Gens == 0 .. (Cardinality(Requests) + Cardinality(Requests))

\* A lease whose client never came, or left, is reclaimed while the call lasts.
AbandonedReclaimed ==
    \A g \in Gens \ {0} :
        (m.lease.gen = g) ~> (m.lease.gen # g \/ g \in m.attached \/ call.st # "active")

\* Every request that waits for the lifecycle lock is answered.
RequestsAnswered == \A r \in Requests : (result[r] = "waiting") ~> (result[r] # "waiting")

\* Refuted by TLC: "call ended while audio was being acquired" is answered only
\* when it did.
EndedMeansEnded ==
    [][\A r \in Requests :
          result[r] # "ended" /\ result'[r] = "ended" =>
              call.st # "active" \/ call.id # Holder.call]_vars

\* Refuted by TLC: the cleanup after a failed link does not revoke a lease whose
\* link is healthy.
FailureSparesSuccessor ==
    [][Holds({"cleanup"}, "wait") /\ Holder.r = "health" /\ Up /\ OfActiveCall(m)
          => m'.lease = m.lease]_vars
=============================================================================
