----------------------------- MODULE CallControl -----------------------------
(***************************************************************************)
(* Call control: the call part of HFPState (state.py), the dispatcher that *)
(* reduces the phone's events into it (hfp/session.py), the handshake, and *)
(* the dial, answer and end-call tools of server.py that read it, wait for *)
(* an AT command and then write it.  The AT broker is abstracted to what   *)
(* ATBroker establishes: one command at a time, its own answer, and a      *)
(* quarantine after a timeout until the late answer has been consumed.     *)
(*                                                                         *)
(* The phone is a set of calls that come and go; it reports its indicators *)
(* in the order of the HFP specification, call before callsetup.           *)
(***************************************************************************)
EXTENDS Naturals, Sequences, FiniteSets

CONSTANTS
    Numbers,         \* telephone numbers
    Nobody,          \* no number (None), and a caller who withholds it
    Dials,           \* invocations of _dial_normalized
    Target,          \* the number each of them dials
    MaxOverlap,      \* bound: calls the phone has at a time
    MaxConnections,  \* bound: RFCOMM connections
    Scenarios        \* what a behaviour may contain

ASSUME NobodyAssumption == Nobody \notin Numbers
ASSUME TargetAssumption == Target \in [Dials -> Numbers]
ASSUME BoundsAssumption ==
    /\ MaxOverlap \in Nat /\ MaxConnections \in Nat
\* The dials, the numbers of incoming calls (Nobody among them or not), the calls
\* of the phone altogether, the end_call requests, the events not yet dispatched,
\* and whether the phone answers AT+CLCC with its calls.
ASSUME ScenariosAssumption ==
    Scenarios \subseteq [dials : SUBSET Dials, callers : SUBSET (Numbers \cup {Nobody}),
                         calls : Nat, ends : Nat, queue : Nat, clcc : BOOLEAN]

VARIABLES
    hfp,         \* HFPState: connection generation, call and remote identity
    ind,         \* indicators[...][1] of call and callsetup
    info,        \* the dispatcher's CallInfo: direction and number
    link,        \* the connection context: "none", "cind", "cmer", "live"
    queue,       \* the connection's event queue
    quarantine,  \* the connection's broker refuses commands
    ctl,         \* the holder of _call_control_locks and its AT command
    waiters,     \* hangup() calls waiting for that lock: the call meant, and by whom
    answered,    \* _answered_call_token
    dial,        \* progress of each dial
    intent,      \* the intent each dial observed before its ATD
    query,       \* the session's initial AT+CLCC
    bound,       \* the scenario, with the end_call requests left
    phone,       \* the phone's calls
    inbox,       \* AT command the phone has received and not handled
    truth,       \* history: number of the call the daemon was last told of
    stale,       \* history: a snapshot of the phone was outdated when applied
    cancelled    \* history: dials whose task was cancelled during the ATD

vars == <<hfp, ind, info, link, queue, quarantine, ctl, waiters, answered, dial,
          intent, query, bound, phone, inbox, truth, stale, cancelled>>

CallStates == {"idle", "incoming", "dialing", "ringing", "active", "ending"}
Sources    == {"none", "dialed_pending", "dialed", "clip", "clip_unvalidated",
               "clcc", "clcc_unvalidated"}
Verified   == {"clip", "clcc", "dialed"}

-----------------------------------------------------------------------------
(* HFPState *)

NoCall == [st |-> "idle", dir |-> "unknown", id |-> 0, num |-> Nobody, src |-> "none"]

Override(s, call) == [s EXCEPT !.st = call.st, !.dir = call.dir, !.id = call.id,
                               !.num = call.num, !.src = call.src]

\* Mutant: the pending target is left as it is when a call starts.
SetCallStateKeepsPending(s, to, d) ==
    IF to = "idle" THEN Override(s, NoCall)
    ELSE [s EXCEPT !.st = to, !.dir = IF d = "none" THEN s.dir ELSE d,
                   !.cgen = IF s.st = "idle" THEN s.cgen + 1 ELSE s.cgen,
                   !.id = IF s.id = 0 THEN s.cgen + 1 ELSE s.id]

\* Mutant: the pending target becomes the identity of whatever call starts.
SetCallStatePromotesAny(s, to, d) ==
    IF to = "idle" THEN Override(s, NoCall)
    ELSE [s EXCEPT !.st = to, !.dir = IF d = "none" THEN s.dir ELSE d,
                   !.cgen = IF s.st = "idle" THEN s.cgen + 1 ELSE s.cgen,
                   !.id = IF s.id = 0 THEN s.cgen + 1 ELSE s.id,
                   !.src = IF s.src = "dialed_pending" THEN "dialed" ELSE s.src]

\* set_call_state.  A call's uuid4 is modelled by the generation it starts.
SetCallState(s, to, d) ==
    LET dir   == IF d # "none" THEN d
                 ELSE IF to = "incoming" THEN "incoming"
                 ELSE IF to \in {"dialing", "ringing"} THEN "outgoing" ELSE s.dir
        fresh == s.st = "idle"
        raced == fresh /\ s.src = "dialed_pending" /\ dir # "outgoing"
    IN  IF to = "idle" THEN Override(s, NoCall)
        ELSE [s EXCEPT !.st = to, !.dir = dir,
                       !.cgen = IF fresh THEN s.cgen + 1 ELSE s.cgen,
                       !.id = IF s.id = 0 THEN s.cgen + 1 ELSE s.id,
                       !.num = IF raced THEN Nobody ELSE s.num,
                       !.src = IF raced THEN "none"
                               ELSE IF fresh /\ s.src = "dialed_pending" THEN "dialed"
                               ELSE s.src]

\* Mutant: the call observed before the await is not compared.
TransitionAnyCall(s, c, states) == s.gen = c.gen /\ s.st \in states

\* transition_call_state: the exact call observed before an await, or nothing.
TransitionAllowed(s, c, states) ==
    s.gen = c.gen /\ s.id = c.id /\ s.cgen = c.cgen /\ s.st \in states

SetIdentity(s, n, source, d) ==
    [s EXCEPT !.num = n, !.src = source, !.dir = IF d = "none" THEN s.dir ELSE d]

\* Mutant: the intent is expected to have become a call.
ClearPendingOfCall(s, n, i) ==
    IF s.gen = i.gen /\ s.cgen = i.cgen + 1 /\ s.num = n /\ s.src = "dialed_pending"
    THEN [s EXCEPT !.num = Nobody, !.src = "none", !.dir = "unknown"] ELSE s

\* clear_pending_outbound_identity
ClearPending(s, n, i) ==
    IF /\ s.gen = i.gen /\ s.cgen = i.cgen /\ s.st = "idle" /\ s.id = 0
       /\ s.num = n /\ s.src = "dialed_pending"
    THEN [s EXCEPT !.num = Nobody, !.src = "none", !.dir = "unknown"] ELSE s

-----------------------------------------------------------------------------
(* The dispatcher: reductions of <<HFPState, CallInfo>> *)

NoInfo == [dir |-> "none", num |-> Nobody]

Validated(source) ==
    CASE source = "clip_unvalidated" -> "clip"
      [] source \in {"clcc_unvalidated", "none"} -> "clcc"
      [] OTHER -> source

\* _on_call_info: a number that normalizes becomes the remote identity, under
\* the source recorded so far.
OnCallInfo(s, i) ==
    IF i.num = Nobody THEN s ELSE SetIdentity(s, i.num, Validated(s.src), i.dir)

\* _set_call_state: ENDING is only left for IDLE.
DispatchState(r, to, d) ==
    IF r.s.st = "ending" THEN r
    ELSE LET i == [r.i EXCEPT !.dir = d]
         IN  [s |-> OnCallInfo(SetCallState(r.s, to, d), i), i |-> i]

\* Mutant: ENDING is not left for IDLE either.
DispatchEndNotEnding(r) ==
    IF r.s.st = "ending" THEN r ELSE [s |-> SetCallState(r.s, "idle", "none"), i |-> NoInfo]

\* _end_call
DispatchEnd(r) == [s |-> SetCallState(r.s, "idle", "none"), i |-> NoInfo]

\* _reconcile_indicators
Reconcile(r, call, setup) ==
    CASE setup = 1 -> DispatchState(r, "incoming", "incoming")
      [] setup = 2 -> DispatchState(r, "dialing", "outgoing")
      [] setup = 3 -> DispatchState(r, "ringing", "outgoing")
      [] setup = 0 /\ call = 1 -> DispatchState(r, "active", r.i.dir)
      [] OTHER -> DispatchEnd(r)

\* _apply_clip
DispatchClip(r, n) ==
    LET i == [dir |-> "incoming", num |-> n]
    IN  [s |-> OnCallInfo(SetIdentity(r.s, n, "clip_unvalidated", "incoming"), i), i |-> i]

\* apply_clcc_entries, for the entry of highest priority or none at all
DispatchClcc(r, entry) ==
    IF entry.st = "idle" THEN DispatchEnd(r)
    ELSE LET q == DispatchState(r, entry.st, entry.dir)
             i == [dir |-> entry.dir, num |-> IF entry.num = Nobody THEN q.i.num ELSE entry.num]
             s == IF entry.num = Nobody THEN q.s
                  ELSE SetIdentity(q.s, entry.num, "clcc_unvalidated", entry.dir)
         IN  [s |-> OnCallInfo(s, i), i |-> i]

Reduced == [s |-> hfp, i |-> info]
Apply(r) == hfp' = r.s /\ info' = r.i

-----------------------------------------------------------------------------
(* The phone *)

Live(ph)    == {p \in DOMAIN ph : ph[p].st \in {"incoming", "dialing", "ringing", "active"}}
InSetup(ph) == {p \in Live(ph) : ph[p].st # "active"}
CallInd(ph) == IF \E p \in Live(ph) : ph[p].st = "active" THEN 1 ELSE 0
SetupInd(ph) ==
    IF \E p \in Live(ph) : ph[p].st = "incoming" THEN 1
    ELSE IF \E p \in Live(ph) : ph[p].st = "dialing" THEN 2
    ELSE IF \E p \in Live(ph) : ph[p].st = "ringing" THEN 3 ELSE 0

NoEntry == [st |-> "idle", dir |-> "none", num |-> Nobody]
Ev(k, v, n) == [k |-> k, v |-> v, num |-> n, entry |-> NoEntry]

\* The +CIEV results of a change that concerns call p.
Reports(ph, next, p) ==
    (IF CallInd(next) # CallInd(ph)
        THEN <<Ev("call", CallInd(next), next[p].num)>> ELSE <<>>)
    \o (IF SetupInd(next) # SetupInd(ph)
        THEN <<Ev("callsetup", SetupInd(next), next[p].num)>> ELSE <<>>)

\* Indicator events are reported once AT+CMER has been accepted.
PhoneChanges(next, p, before, after) ==
    /\ phone' = next
    /\ queue' = queue \o before
                \o (IF link = "live" THEN Reports(phone, next, p) ELSE <<>>) \o after
    /\ Len(queue') <= bound.queue
    /\ stale' = (stale \/ link = "cmer")

Quiet == UNCHANGED <<hfp, ind, info, link, quarantine, ctl, waiters, answered, dial,
                     intent, query, bound, truth, cancelled>>

Fresh(p, call) == [phone EXCEPT ![p] = call]
MayStart(p) ==
    /\ phone[p].st = "none" /\ \A q \in 1..(p - 1) : phone[q].st # "none"
    /\ InSetup(phone) = {} /\ Cardinality(Live(phone)) < MaxOverlap

PhoneIncoming(p, n) ==
    /\ MayStart(p)
    /\ PhoneChanges(Fresh(p, [st |-> "incoming", dir |-> "incoming", num |-> n, rung |-> FALSE]),
                    p, <<>>, <<>>)
    /\ Quiet /\ UNCHANGED inbox

\* RING, and +CLIP unless the phone leaves it out for a withheld number.
PhoneRings(p) ==
    /\ link = "live" /\ phone[p].st = "incoming" /\ ~phone[p].rung
    /\ \E clip \in {<<>>, <<Ev("clip", 0, phone[p].num)>>} :
          /\ clip = <<>> => phone[p].num = Nobody
          /\ PhoneChanges([phone EXCEPT ![p].rung = TRUE], p,
                          <<Ev("ring", 0, phone[p].num)>> \o clip, <<>>)
    /\ Quiet /\ UNCHANGED inbox

\* The far end, or the user at the handset, moves a call along.
PhoneProgress(p) ==
    /\ p \in InSetup(phone)
    /\ \E to \in {"ringing", "active"} :
          /\ to = "ringing" => phone[p].st = "dialing"
          /\ PhoneChanges([phone EXCEPT ![p].st = to], p, <<>>, <<>>)
    /\ Quiet /\ UNCHANGED inbox

\* A phone may also say NO CARRIER, BUSY or NO ANSWER.
PhoneEnds(p) ==
    /\ p \in Live(phone)
    /\ \E gone \in {<<>>, <<Ev("gone", 0, Nobody)>>} :
          /\ gone # <<>> => link = "live" /\ Live(phone) = {p}
          /\ PhoneChanges([phone EXCEPT ![p].st = "over"], p, <<>>, gone)
    /\ Quiet /\ UNCHANGED inbox

Ok == <<Ev("ok", 0, Nobody)>>
Error == <<Ev("error", 0, Nobody)>>

\* The phone's answer may come before or after the events it causes.
PhoneDoes(next, p) ==
    /\ inbox' = [op |-> "none", num |-> Nobody]
    /\ PhoneChanges(next, p, Ok, <<>>) \/ PhoneChanges(next, p, <<>>, Ok)
    /\ Quiet

PhoneDials(p) ==
    /\ inbox.op = "dial" /\ MayStart(p)
    /\ PhoneDoes(Fresh(p, [st |-> "dialing", dir |-> "outgoing", num |-> inbox.num,
                           rung |-> FALSE]), p)

\* ATA is accepted for an incoming call when no other call is active.
PhoneAccepts(p) ==
    /\ inbox.op = "answer" /\ phone[p].st = "incoming" /\ Cardinality(Live(phone)) = 1
    /\ PhoneDoes([phone EXCEPT ![p].st = "active"], p)

\* AT+CHUP ends the call being set up, otherwise the active one.
PhoneHangsUp(p) ==
    /\ inbox.op = "hangup" /\ p \in Live(phone)
    /\ p \in InSetup(phone) \/ InSetup(phone) = {}
    /\ PhoneDoes([phone EXCEPT ![p].st = "over"], p)

PhoneRefuses ==
    /\ inbox.op \in {"dial", "answer", "hangup"}
    /\ inbox' = [op |-> "none", num |-> Nobody]
    /\ queue' = queue \o Error
    /\ Len(queue') <= bound.queue
    /\ UNCHANGED <<phone, stale>> /\ Quiet

\* The calls AT+CLCC lists, reduced to the one apply_clcc_entries picks.
Primary ==
    LET rank(p) == CASE phone[p].st = "active" -> 0 [] phone[p].st = "incoming" -> 1
                     [] phone[p].st = "dialing" -> 2 [] OTHER -> 3
        first == CHOOSE p \in Live(phone) : \A q \in Live(phone) : rank(p) <= rank(q)
    IN  IF Live(phone) = {} THEN NoEntry
        ELSE [st |-> phone[first].st, dir |-> phone[first].dir, num |-> phone[first].num]

PhoneLists ==
    /\ inbox.op = "list"
    /\ inbox' = [op |-> "none", num |-> Nobody]
    /\ queue' = queue \o IF bound.clcc
                          THEN <<[Ev("listed", 0, Nobody) EXCEPT !.entry = Primary]>>
                          ELSE <<Ev("unlisted", 0, Nobody)>>
    /\ Len(queue') <= bound.queue
    /\ UNCHANGED <<phone, stale>> /\ Quiet

-----------------------------------------------------------------------------
(* Connections *)

\* The AT broker's lock is held until the task that holds it has resumed.
BrokerBusy == ctl.ph \in {"sent", "ok", "failed", "timeout"} \/ query.ph \in {"sent", "done"}

IdleCtl == [op |-> "none", ph |-> "free", who |-> 0, want |-> 0, gen |-> 0, id |-> 0,
            cgen |-> 0, st |-> "idle"]
NoQuery == [ph |-> "none", entry |-> NoEntry]

\* Retiring a context aborts its pending command and cancels its tasks.  A tool
\* still waiting for the old broker's lock writes to a queue nobody reads.
Retired(c) ==
    IF c.ph = "sent" THEN [c EXCEPT !.ph = "failed"]
    ELSE IF c.ph = "prepared" THEN [c EXCEPT !.ph = "timeout"] ELSE c

RetireContext ==
    /\ ctl' = Retired(ctl)
    /\ queue' = <<>>
    /\ query' = NoQuery
    /\ inbox' = [op |-> "none", num |-> Nobody]

\* _accept_connection: the previous context is retired, a broker and queues are
\* created, and set_connected bumps the generation.  The call state is kept.
Connect ==
    /\ hfp.gen < MaxConnections
    /\ RetireContext
    /\ link' = "cind"
    /\ hfp' = [hfp EXCEPT !.gen = @ + 1, !.conn = "handshaking"]
    /\ quarantine' = FALSE
    /\ info' = NoInfo
    /\ UNCHANGED <<ind, waiters, answered, dial, intent, bound, phone, truth, stale, cancelled>>

\* The answer to AT+CIND? is stored and _apply_initial_call_state reduces it.
ReadIndicators ==
    /\ link = "cind" /\ ~BrokerBusy /\ ~quarantine
    /\ link' = "cmer"
    /\ LET call == CallInd(phone)
           setup == SetupInd(phone)
           to == CASE setup = 1 -> "incoming" [] setup = 2 -> "dialing"
                   [] setup = 3 -> "ringing" [] setup = 0 /\ call = 1 -> "active"
                   [] OTHER -> "idle"
       IN  /\ ind' = [call |-> call, callsetup |-> setup]
           /\ hfp' = SetCallState(hfp, to, "none")
           /\ truth' = IF to = "idle" THEN Nobody
                       ELSE phone[CHOOSE p \in Live(phone) :
                                  InSetup(phone) = {} \/ p \in InSetup(phone)].num
    /\ UNCHANGED <<info, queue, quarantine, ctl, waiters, answered, dial, intent, query,
                   bound, phone, inbox, stale, cancelled>>

\* AT+CMER is accepted, the handshake completes and the dispatcher starts; the
\* session asks once for the current calls.
EnableReports ==
    /\ link = "cmer" /\ ~BrokerBusy /\ ~quarantine
    /\ link' = "live"
    /\ hfp' = [hfp EXCEPT !.conn = "connected"]
    /\ query' = [NoQuery EXCEPT !.ph = "ready"]
    /\ UNCHANGED <<ind, info, queue, quarantine, ctl, waiters, answered, dial, intent,
                   bound, phone, inbox, truth, stale, cancelled>>

\* The connection ends: end of stream at the dispatcher, a failed handshake,
\* disconnect_phone or BlueZ, all of which retire the context and call
\* set_disconnected with its generation.
Disconnect ==
    /\ link # "none"
    /\ RetireContext
    /\ link' = "none"
    /\ hfp' = [Override(hfp, NoCall) EXCEPT !.conn = "disconnected"]
    /\ ind' = [call |-> 0, callsetup |-> 0]
    /\ info' = NoInfo
    /\ truth' = Nobody
    /\ UNCHANGED <<quarantine, waiters, answered, dial, intent, bound, phone, stale, cancelled>>

-----------------------------------------------------------------------------
(* The dispatcher's round *)

\* A terminal completes the command that is waiting for it, or is the orphan the
\* quarantine was set for.
Terminal(ok) ==
    IF quarantine
    THEN quarantine' = FALSE /\ UNCHANGED ctl
    ELSE /\ ctl' = IF ctl.ph = "sent" THEN [ctl EXCEPT !.ph = IF ok THEN "ok" ELSE "failed"]
                   ELSE ctl
         /\ UNCHANGED quarantine

Dispatch ==
    /\ link = "live" /\ queue # <<>>
    /\ queue' = Tail(queue)
    /\ LET e == Head(queue) IN
        \/ /\ e.k \in {"ok", "error"}
           /\ Terminal(e.k = "ok")
           /\ UNCHANGED <<hfp, ind, info, query, truth>>
        \/ /\ e.k \in {"listed", "unlisted"} /\ query.ph = "sent"
           /\ query' = IF e.k = "listed" THEN [ph |-> "done", entry |-> e.entry] ELSE NoQuery
           /\ UNCHANGED <<hfp, ind, info, quarantine, ctl, truth>>
        \/ /\ e.k \in {"listed", "unlisted"} /\ query.ph # "sent"
           /\ quarantine' = FALSE
           /\ IF e.entry = NoEntry THEN UNCHANGED <<hfp, info, truth>>
              ELSE Apply(DispatchClcc(Reduced, e.entry)) /\ truth' = e.entry.num
           /\ UNCHANGED <<ind, ctl, query>>
        \/ /\ e.k \in {"call", "callsetup"}
           /\ ind' = [ind EXCEPT ![e.k] = e.v]
           /\ LET r == Reconcile(Reduced, ind'["call"], ind'["callsetup"])
              IN  Apply(r) /\ truth' = IF r.s.st = "idle" THEN Nobody ELSE e.num
           /\ UNCHANGED <<quarantine, ctl, query>>
        \/ /\ e.k = "ring"
           /\ Apply(DispatchState(Reduced, "incoming", "incoming"))
           /\ truth' = e.num
           /\ UNCHANGED <<ind, quarantine, ctl, query>>
        \/ /\ e.k = "gone"
           /\ Apply(DispatchEnd(Reduced)) /\ truth' = Nobody
           /\ UNCHANGED <<ind, quarantine, ctl, query>>
        \/ /\ e.k = "clip"
           /\ Apply(DispatchClip(Reduced, e.num))
           /\ UNCHANGED <<ind, quarantine, ctl, query, truth>>
    /\ stale' = (stale \/ (query'.ph = "done" /\ Head(queue).k \in {"call", "callsetup", "ring"}))
    /\ UNCHANGED <<link, waiters, answered, dial, intent, bound, phone, inbox, cancelled>>

\* query_current_calls resumes and applies what AT+CLCC listed.
ApplyListing ==
    /\ query.ph = "done"
    /\ Apply(DispatchClcc(Reduced, query.entry))
    /\ truth' = query.entry.num
    /\ query' = NoQuery
    /\ UNCHANGED <<ind, link, queue, quarantine, ctl, waiters, answered, dial, intent,
                   bound, phone, inbox, stale, cancelled>>

-----------------------------------------------------------------------------
(* AT commands of the tools *)

\* The broker's lock is granted: the command is refused or sent.
SendCommand ==
    /\ ctl.ph = "prepared" /\ ~BrokerBusy
    /\ IF quarantine
       THEN ctl' = [ctl EXCEPT !.ph = "failed"] /\ UNCHANGED inbox
       ELSE /\ ctl' = [ctl EXCEPT !.ph = "sent"]
            /\ inbox' = [op |-> ctl.op, num |-> IF ctl.op = "dial" THEN Target[ctl.who] ELSE Nobody]
    /\ UNCHANGED <<hfp, ind, info, link, queue, quarantine, waiters, answered, dial,
                   intent, query, bound, phone, truth, stale, cancelled>>

SendQuery ==
    /\ query.ph = "ready" /\ link = "live" /\ ~BrokerBusy
    /\ IF quarantine
       THEN query' = NoQuery /\ UNCHANGED inbox
       ELSE query' = [query EXCEPT !.ph = "sent"] /\ inbox' = [op |-> "list", num |-> Nobody]
    /\ UNCHANGED <<hfp, ind, info, link, queue, quarantine, ctl, waiters, answered, dial,
                   intent, bound, phone, truth, stale, cancelled>>

CommandTimesOut ==
    /\ ctl.ph = "sent"
    /\ ctl' = [ctl EXCEPT !.ph = "timeout"]
    /\ quarantine' = TRUE
    /\ UNCHANGED <<hfp, ind, info, link, queue, waiters, answered, dial, intent, query,
                   bound, phone, inbox, truth, stale, cancelled>>

QueryTimesOut ==
    /\ query.ph = "sent"
    /\ query' = NoQuery
    /\ quarantine' = TRUE
    /\ UNCHANGED <<hfp, ind, info, link, queue, ctl, waiters, answered, dial, intent,
                   bound, phone, inbox, truth, stale, cancelled>>

\* A late answer is assumed to arrive within the quarantine (see ATBroker): it
\* runs out only when the command was lost.
QuarantineExpires ==
    /\ quarantine /\ inbox.op = "none"
    /\ \A i \in 1..Len(queue) : queue[i].k \notin {"ok", "error", "listed", "unlisted"}
    /\ quarantine' = FALSE
    /\ UNCHANGED <<hfp, ind, info, link, queue, ctl, waiters, answered, dial, intent, query,
                   bound, phone, inbox, truth, stale, cancelled>>

CommandLost ==
    /\ inbox.op # "none"
    /\ inbox' = [op |-> "none", num |-> Nobody]
    /\ UNCHANGED <<hfp, ind, info, link, queue, quarantine, ctl, waiters, answered, dial,
                   intent, query, bound, phone, truth, stale, cancelled>>

Acquire(op, who, want) ==
    ctl' = [op |-> op, ph |-> "prepared", who |-> who, want |-> want,
            gen |-> hfp.gen, id |-> hfp.id, cgen |-> hfp.cgen, st |-> hfp.st]

-----------------------------------------------------------------------------
(* _dial_normalized *)

Busy == ctl.ph # "free"

\* Under the call-control lock: the target is bound to the state before ATD.
DialStart(d) ==
    /\ d \in bound.dials /\ dial[d] = "new" /\ ~Busy
    /\ hfp.conn = "connected" /\ hfp.st = "idle" /\ hfp.id = 0
    /\ dial' = [dial EXCEPT ![d] = "dialing"]
    /\ intent' = [intent EXCEPT ![d] = [gen |-> hfp.gen, cgen |-> hfp.cgen]]
    /\ hfp' = [hfp EXCEPT !.num = Target[d], !.src = "dialed_pending", !.dir = "outgoing"]
    /\ Acquire("dial", d, 0)
    /\ UNCHANGED <<ind, info, link, queue, quarantine, waiters, answered, query, bound, phone,
                   inbox, truth, stale, cancelled>>

\* _outgoing_call_for_intent
Progressed(s, i) ==
    s.gen = i.gen /\ s.cgen = i.cgen + 1 /\ s.st # "idle" /\ s.dir = "outgoing"

\* The rest of _dial_normalized.  A timed-out ATD keeps its intent for a watcher
\* that cancels a late call, or for a timer that forgets the intent.
DialFinish(d) ==
    /\ ctl.op = "dial" /\ ctl.who = d /\ ctl.ph \in {"ok", "failed", "timeout"}
    /\ LET moved == ctl.ph = "ok" /\ TransitionAllowed(hfp, ctl, {"idle"})
           s == IF moved THEN SetCallState(hfp, "dialing", "outgoing") ELSE hfp
           taken == Progressed(s, intent[d]) \/ moved
       IN  /\ hfp' = IF taken THEN SetIdentity(s, Target[d], "dialed", "outgoing")
                     ELSE IF ctl.ph = "timeout" THEN s
                     ELSE ClearPending(s, Target[d], intent[d])
           /\ truth' = IF moved THEN Target[d] ELSE truth
           /\ \E next \in {"watch", "expire"} :
                 dial' = [dial EXCEPT ![d] = IF taken \/ ctl.ph = "timeout" THEN next
                                             ELSE "done"]
    /\ ctl' = IdleCtl
    /\ UNCHANGED <<ind, info, link, queue, quarantine, waiters, answered, intent, query, bound,
                   phone, inbox, stale, cancelled>>

\* The task is cancelled while it waits for ATD: nothing after the await runs.
DialCancelled(d) ==
    /\ ctl.op = "dial" /\ ctl.who = d /\ ctl.ph \in {"prepared", "sent"}
    /\ dial' = [dial EXCEPT ![d] = "done"]
    /\ cancelled' = cancelled \cup {d}
    /\ quarantine' = (quarantine \/ ctl.ph = "sent")
    /\ ctl' = IdleCtl
    /\ UNCHANGED <<hfp, ind, info, link, queue, waiters, answered, intent, query, bound, phone,
                   inbox, truth, stale>>

\* _expire_pending_dial_intent, and a caller that saw its call become active.
IntentExpires(d) ==
    /\ dial[d] = "expire"
    /\ dial' = [dial EXCEPT ![d] = "done"]
    /\ hfp' = ClearPending(hfp, Target[d], intent[d])
    /\ UNCHANGED <<ind, info, link, queue, quarantine, ctl, waiters, answered, intent, query,
                   bound, phone, inbox, truth, stale, cancelled>>

\* _cancel_late_dial_intent and the deadline of _place_call: the call the intent
\* became is to be hung up.
WatchHangsUp(d) ==
    /\ dial[d] = "watch" /\ Progressed(hfp, intent[d])
    /\ dial' = [dial EXCEPT ![d] = "hanging"]
    /\ waiters' = waiters \cup {[want |-> hfp.id, by |-> d]}
    /\ UNCHANGED <<hfp, ind, info, link, queue, quarantine, ctl, answered, intent, query,
                   bound, phone, inbox, truth, stale, cancelled>>

\* The watcher's intent is gone, or its grace period is over.
WatchEnds(d) ==
    /\ dial[d] = "watch" /\ ~Progressed(hfp, intent[d])
    /\ dial' = [dial EXCEPT ![d] = "done"]
    /\ hfp' = ClearPending(hfp, Target[d], intent[d])
    /\ UNCHANGED <<ind, info, link, queue, quarantine, ctl, waiters, answered, intent, query,
                   bound, phone, inbox, truth, stale, cancelled>>

-----------------------------------------------------------------------------
(* answer_call, end_call and hangup *)

AnswerToken == [gen |-> hfp.gen, cgen |-> hfp.cgen, id |-> hfp.id]

AnswerStart ==
    /\ ~Busy /\ hfp.conn = "connected" /\ hfp.st = "incoming"
    /\ answered # AnswerToken
    /\ Acquire("answer", 0, hfp.id)
    /\ UNCHANGED <<hfp, ind, info, link, queue, quarantine, waiters, answered, dial, intent,
                   query, bound, phone, inbox, truth, stale, cancelled>>

AnswerFinish ==
    /\ ctl.op = "answer" /\ ctl.ph \in {"ok", "failed", "timeout"}
    /\ answered' = IF ctl.ph = "ok" THEN [gen |-> ctl.gen, cgen |-> ctl.cgen, id |-> ctl.id]
                   ELSE answered
    /\ ctl' = IdleCtl
    /\ UNCHANGED <<hfp, ind, info, link, queue, quarantine, waiters, dial, intent, query, bound,
                   phone, inbox, truth, stale, cancelled>>

\* end_call compares its call_id, then calls hangup(), which waits for the lock.
EndCall ==
    /\ bound.ends > 0 /\ hfp.st # "idle"
    /\ bound' = [bound EXCEPT !.ends = @ - 1]
    /\ waiters' = waiters \cup {[want |-> hfp.id, by |-> "user"]}
    /\ UNCHANGED <<hfp, ind, info, link, queue, quarantine, ctl, answered, dial, intent, query,
                   phone, inbox, truth, stale, cancelled>>

\* The result of hangup().  The watcher of a late call tries again as long as
\* the broker's quarantine may be what kept AT+CHUP from being sent.
HangupReturns(by, ok) ==
    dial' = IF by \in Dials
            THEN [dial EXCEPT ![by] = IF ~ok /\ quarantine THEN "watch" ELSE "done"]
            ELSE dial

\* hangup() has the lock: it takes whatever call there is now.
HangupStart(w) ==
    /\ ~Busy
    /\ waiters' = waiters \ {w}
    /\ IF hfp.st \in {"idle", "ending"}
       THEN HangupReturns(w.by, hfp.st = "ending") /\ UNCHANGED ctl
       ELSE Acquire("hangup", w.by, w.want) /\ UNCHANGED dial
    /\ UNCHANGED <<hfp, ind, info, link, queue, quarantine, answered, intent, query, bound,
                   phone, inbox, truth, stale, cancelled>>

HangupFinish ==
    /\ ctl.op = "hangup" /\ ctl.ph \in {"ok", "failed", "timeout"}
    /\ hfp' = IF ctl.ph = "ok" /\ TransitionAllowed(hfp, ctl, {ctl.st})
              THEN SetCallState(hfp, "ending", "none") ELSE hfp
    /\ HangupReturns(ctl.who, ctl.ph = "ok")
    /\ ctl' = IdleCtl
    /\ UNCHANGED <<ind, info, link, queue, quarantine, waiters, answered, intent, query,
                   bound, phone, inbox, truth, stale, cancelled>>

-----------------------------------------------------------------------------

Init ==
    /\ hfp = [gen |-> 0, conn |-> "disconnected", cgen |-> 0, st |-> "idle", dir |-> "unknown",
              id |-> 0, num |-> Nobody, src |-> "none"]
    /\ ind = [call |-> 0, callsetup |-> 0]
    /\ info = NoInfo
    /\ link = "none"
    /\ queue = <<>>
    /\ quarantine = FALSE
    /\ ctl = IdleCtl
    /\ waiters = {}
    /\ answered = [gen |-> 0, cgen |-> 0, id |-> 0]
    /\ dial = [d \in Dials |-> "new"]
    /\ intent = [d \in Dials |-> [gen |-> 0, cgen |-> 0]]
    /\ query = NoQuery
    /\ bound \in Scenarios
    /\ phone = [p \in 1..bound.calls |->
                   [st |-> "none", dir |-> "none", num |-> Nobody, rung |-> FALSE]]
    /\ inbox = [op |-> "none", num |-> Nobody]
    /\ truth = Nobody
    /\ stale = FALSE
    /\ cancelled = {}

Phone ==
    \/ \E p \in DOMAIN phone :
          \/ \E n \in bound.callers : PhoneIncoming(p, n)
          \/ PhoneRings(p) \/ PhoneProgress(p) \/ PhoneEnds(p)
          \/ PhoneDials(p) \/ PhoneAccepts(p) \/ PhoneHangsUp(p)
    \/ PhoneRefuses \/ PhoneLists

Connection == Connect \/ ReadIndicators \/ EnableReports \/ Disconnect

Commands ==
    \/ SendCommand \/ SendQuery \/ CommandTimesOut \/ QueryTimesOut
    \/ QuarantineExpires \/ CommandLost

DialStep(d) ==
    \/ DialStart(d) \/ DialFinish(d) \/ DialCancelled(d)
    \/ IntentExpires(d) \/ WatchHangsUp(d) \/ WatchEnds(d)

Tools ==
    \/ \E d \in Dials : DialStep(d)
    \/ AnswerStart \/ AnswerFinish
    \/ EndCall \/ (\E w \in waiters : HangupStart(w)) \/ HangupFinish

Next == Phone \/ Connection \/ Commands \/ Dispatch \/ ApplyListing \/ Tools

Spec == Init /\ [][Next]_vars

\* Ready tasks run and timers fire; the phone, the handshake and the callers of
\* the tools need not do anything.
Fairness ==
    /\ WF_vars(Dispatch)
    /\ WF_vars(SendCommand) /\ WF_vars(CommandTimesOut)
    /\ WF_vars(QueryTimesOut) /\ WF_vars(ApplyListing)
    /\ WF_vars(AnswerFinish) /\ WF_vars(HangupFinish)
    /\ WF_vars(\E w \in waiters : HangupStart(w))
    /\ \A d \in Dials : WF_vars(DialFinish(d)) /\ WF_vars(IntentExpires(d))
                         /\ WF_vars(WatchHangsUp(d)) /\ WF_vars(WatchEnds(d))

FairSpec == Spec /\ Fairness

-----------------------------------------------------------------------------
(* Properties *)

\* Every variable stays in its range.
TypeOK ==
    /\ hfp \in [gen : Nat, conn : {"disconnected", "handshaking", "connected"}, cgen : Nat,
                 st : CallStates, dir : {"unknown", "incoming", "outgoing"}, id : Nat,
                 num : Numbers \cup {Nobody}, src : Sources]
    /\ ind \in [call : 0..1, callsetup : 0..3]
    /\ info \in [dir : {"none", "incoming", "outgoing"}, num : Numbers \cup {Nobody}]
    /\ link \in {"none", "cind", "cmer", "live"}
    /\ quarantine \in BOOLEAN
    /\ ctl.op \in {"none", "dial", "answer", "hangup"}
    /\ ctl.ph \in {"free", "prepared", "sent", "ok", "failed", "timeout"}
    /\ waiters \subseteq [want : Nat, by : Dials \cup {"user"}]
    /\ dial \in [Dials -> {"new", "dialing", "watch", "hanging", "expire", "done"}]
    /\ query.ph \in {"none", "ready", "sent", "done"}

\* An outbound identity that the phone has not confirmed belongs to no call.
PendingOnlyIdle == hfp.src = "dialed_pending" => hfp.st = "idle" /\ hfp.id = 0

\* A number the daemon reports as verified is the number of the call the phone
\* last told it of, whatever overtakes what.  Refuted by TLC for dials of two
\* numbers: a dial that was given up may place its call under the next one.
IdentityMatches ==
    ~stale /\ hfp.st # "idle" /\ hfp.src \in Verified => hfp.num = truth

\* What every state satisfies: the types, and no identity on a call it is not of.
Inv == TypeOK /\ PendingOnlyIdle /\ IdentityMatches

\* Once everything the phone said has been handled, the daemon has a call exactly
\* if the phone has one.
AgreesWhenQuiet ==
    /\ ~stale /\ link = "live" /\ queue = <<>>
    /\ inbox.op = "none" /\ ~Busy /\ query.ph = "none"
    => (hfp.st # "idle" <=> Live(phone) # {})

\* An intent bound before ATD does not outlive its dial, its connection and the
\* timers that watch it, unless the dialing task was cancelled.
PendingCleared ==
    hfp.src = "dialed_pending" ~> (hfp.src # "dialed_pending" \/ cancelled # {})

\* A call that was hung up does not stay ENDING, which every report but the end
\* of the call is ignored in, if the phone's calls end and all were reported.
EndingEnds == hfp.st = "ending" ~> (hfp.st # "ending" \/ stale)

\* Refuted by TLC with two connections.  state.py, on an incoming call that races a dial: "Never attach the outbound
\* target (or its privileges) to that caller."
OutboundTargetNotOnIncoming ==
    hfp.st # "idle" /\ hfp.dir = "incoming" => hfp.src # "dialed"

\* Refuted by TLC with two calls and end_call.  Its docstring: "Idempotently end the specified call": AT+CHUP goes out
\* while the call it was requested for is the current one.
EndsSpecifiedCall ==
    [][ctl.op = "hangup" /\ ctl.ph = "prepared" /\ ctl'.ph = "sent"
          => hfp.id = ctl.want]_vars

\* Refuted by TLC when the phone lists its calls.  server.py, on the initial AT+CLCC:
\* "CLIP/CIEV remain authoritative."
IndicatorsAuthoritative ==
    link = "live" /\ queue = <<>> /\ query.ph = "none" /\ ~Busy
       => (ind = [call |-> 0, callsetup |-> 0] => hfp.st = "idle")
=============================================================================
