-------------------------- MODULE CallControlProofs --------------------------
(***************************************************************************)
(* CallControl for any calls, dials, connections and scenario: once all the *)
(* phone said has been handled the daemon has a call exactly if the phone   *)
(* has one, and a number that was dialed is on no call before the phone     *)
(* confirms one.                                                            *)
(*                                                                          *)
(* The argument: the last report of an indicator in the queue, or what the  *)
(* daemon has stored, is what the phone shows, so the report that is        *)
(* handled last puts it right; what may speak of the call besides reports   *)
(* (RING, NO CARRIER, a listing, the answer to ATD) is in order with them.  *)
(***************************************************************************)
EXTENDS CallControl, SequenceTheorems, TLAPS

-----------------------------------------------------------------------------
(* The types *)

Num      == Numbers \cup {Nobody}
Kinds    == {"call", "callsetup", "ring", "clip", "gone", "ok", "error", "listed", "unlisted"}
CallOf   == {"incoming", "dialing", "ringing", "active"}
Entries  == [st : CallOf, dir : {"incoming", "outgoing"}, num : Num] \cup {NoEntry}
CallType == {c \in [st : CallOf \cup {"none", "over"}, dir : {"none", "incoming", "outgoing"},
                    num : Num, rung : BOOLEAN] : c.st \in CallOf => c.dir # "none"}
CtlType  == [op : {"none", "dial", "answer", "hangup"},
             ph : {"free", "prepared", "sent", "ok", "failed", "timeout"},
             who : {ctl.who}, want : Nat, gen : Nat, id : Nat, cgen : Nat,
             st : CallStates]
BoundType == [dials : SUBSET Dials, callers : SUBSET Num, calls : Nat, ends : Nat,
              queue : Nat, clcc : BOOLEAN]

HfpType  == [gen : Nat, conn : {"disconnected", "handshaking", "connected"}, cgen : Nat,
             st : CallStates, dir : {"unknown", "incoming", "outgoing"}, id : Nat,
             num : Num, src : Sources]
IndType  == [call : 0..1, callsetup : 0..3]
InfoType == [dir : {"none", "incoming", "outgoing"}, num : Num]
QueryType == [ph : {"none", "ready", "sent", "done"}, entry : Entries]
InboxType == [op : {"none", "dial", "answer", "hangup", "list"}, num : Num]

Events == [k : Kinds, v : 0..3, num : Num, entry : Entries]
Event  == {e \in Events : /\ e.k = "call" => e.v \in 0..1
                          /\ e.k # "listed" => e.entry = NoEntry}

\* The types, with those of the queue, the phone and the command in progress.
Types ==
  /\ hfp \in HfpType /\ ind \in IndType /\ info \in InfoType
  /\ link \in {"none", "cind", "cmer", "live"}
  /\ queue \in Seq(Event) /\ quarantine \in BOOLEAN
  /\ ctl \in CtlType
  /\ waiters \subseteq [want : Nat, by : Dials \cup {"user"}]
  /\ dial \in [Dials -> {"new", "dialing", "watch", "hanging", "expire", "done"}]
  /\ intent \in [Dials -> [gen : Nat, cgen : Nat]]
  /\ query \in QueryType /\ bound \in BoundType
  /\ phone \in [1..bound.calls -> CallType]
  /\ inbox \in InboxType /\ truth \in Num /\ stale \in BOOLEAN

-----------------------------------------------------------------------------
(* The connection and the commands on it *)

\* No call, no identifier; a dialed number waits for its call only when there is none.
Pending ==
  /\ hfp.st = "idle" => hfp.id = 0
  /\ hfp.src = "dialed_pending" => hfp.st = "idle"

\* What a tool observed is not newer than what there is.  A dial began on a live connection.
Observed ==
  /\ ctl.op = "none" <=> ctl.ph = "free"
  /\ ctl.op = "hangup" => ctl.st # "idle"
  /\ ctl.op = "dial" => ctl.who \in Dials
  /\ ctl.gen <= hfp.gen /\ ctl.cgen <= hfp.cgen
  /\ ctl.op = "dial" /\ ctl.cgen = hfp.cgen => hfp.st = "idle"
  /\ ctl.op = "dial" /\ ctl.gen = hfp.gen => link \in {"live", "none"}
  /\ hfp.conn = "connected" <=> link = "live"

\* Before the connection is live it carries nothing but answers to a tool.
Terse ==
  link # "live" => /\ \A i \in DOMAIN queue : queue[i].k \in {"ok", "error"}
                   /\ inbox.op # "list" /\ query.ph = "none"

\* One command at a time is unanswered; it is the one that is waited for, or the channel
\* is under quarantine and nobody waits.
ToolAnswer(e) == e.k \in {"ok", "error"}
ListAnswer(e) == e.k \in {"listed", "unlisted"}
Answer(e)     == ToolAnswer(e) \/ ListAnswer(e)
Unanswered ==
  /\ \A i, j \in DOMAIN queue : Answer(queue[i]) /\ Answer(queue[j]) => i = j
  /\ inbox.op # "none" => \A i \in DOMAIN queue : ~Answer(queue[i])
  /\ ctl.ph \in {"sent", "ok", "failed", "timeout"} => query.ph \notin {"sent", "done"}
  /\ quarantine => ctl.ph # "sent" /\ query.ph # "sent"
  /\ ~quarantine =>
       /\ inbox.op = "list" => query.ph = "sent"
       /\ inbox.op \notin {"none", "list"} => ctl.ph = "sent" /\ ctl.op = inbox.op
       /\ \A i \in DOMAIN queue : /\ ToolAnswer(queue[i]) => ctl.ph = "sent"
                                  /\ ListAnswer(queue[i]) => query.ph = "sent"

\* An accepted ATD whose call the daemon has not begun is followed by the report of it.
SetupTold == \E i \in DOMAIN queue : queue[i].k = "callsetup" /\ queue[i].v = 2
Accepted  == ctl.ph = "ok"
             \/ (ctl.ph = "sent" /\ ~quarantine /\ \E i \in DOMAIN queue : queue[i].k = "ok")
DialTold  ==
  ctl.op = "dial" /\ Accepted /\ link = "live" /\ TransitionAllowed(hfp, ctl, {"idle"})
    => SetupTold

-----------------------------------------------------------------------------
(* The daemon and the phone *)

Reading(ph) == [call |-> CallInd(ph), callsetup |-> SetupInd(ph)]
IsReport(e) == e.k \in {"call", "callsetup"}
Reported(q) == \E i \in DOMAIN q : IsReport(q[i])
\* No report follows the event at place i.
Final(q, i) == i \in DOMAIN q /\ \A j \in DOMAIN q : j > i => ~IsReport(q[j])
HasCall(ph) == Live(ph) # {}

\* Indicator k is stored as the phone shows it, or the last report of it says so.
ToldLast(k, q, ds, ph) ==
  /\ (\A i \in DOMAIN q : q[i].k # k) => ds[k] = Reading(ph)[k]
  /\ \A i \in DOMAIN q : q[i].k = k /\ (\A j \in DOMAIN q : j > i => q[j].k # k)
                           => q[i].v = Reading(ph)[k]

\* What an event says besides the reports holds when no report follows it.
InOrder(q, ph) ==
  \A i \in DOMAIN q : Final(q, i) =>
     /\ q[i].k = "ring" => HasCall(ph)
     /\ q[i].k = "gone" => ~HasCall(ph)
     /\ q[i].k = "listed" => (q[i].entry.st # "idle" <=> HasCall(ph))

Agreement ==
  link \in {"cmer", "live"} /\ ~stale =>
    /\ ToldLast("call", queue, ind, phone) /\ ToldLast("callsetup", queue, ind, phone)
    /\ InOrder(queue, phone)
    /\ ~Reported(queue) =>
         /\ hfp.st # "idle" <=> HasCall(phone)
         /\ query.ph = "done" => (query.entry.st # "idle" <=> HasCall(phone))

IInv == Types /\ Pending /\ Observed /\ Terse /\ Unanswered /\ DialTold /\ Agreement

-----------------------------------------------------------------------------
(* HFPState: what each of its operations does to the call *)

\* No call, no identifier; a dialed number waits for its call only while there is none.
Sound(s) == /\ s \in HfpType
            /\ s.st = "idle" => s.id = 0
            /\ s.src = "dialed_pending" => s.st = "idle"

\* The connection stays, and a generation begins when a call does.
Moves(s, t) ==
  /\ Sound(t) /\ t.gen = s.gen /\ t.conn = s.conn
  /\ t.cgen = IF s.st = "idle" /\ t.st # "idle" THEN s.cgen + 1 ELSE s.cgen

LEMMA SetCallStateMoves ==
  ASSUME NEW s, Sound(s), NEW to \in CallStates, NEW d \in {"none", "incoming", "outgoing"}
  PROVE  Moves(s, SetCallState(s, to, d)) /\ SetCallState(s, to, d).st = to
<1> DEFINE t == SetCallState(s, to, d)
           dir == IF d # "none" THEN d
                  ELSE IF to = "incoming" THEN "incoming"
                  ELSE IF to \in {"dialing", "ringing"} THEN "outgoing" ELSE s.dir
           raced == s.st = "idle" /\ s.src = "dialed_pending" /\ dir # "outgoing"
           num == IF raced THEN Nobody ELSE s.num
           src == IF raced THEN "none"
                  ELSE IF s.st = "idle" /\ s.src = "dialed_pending" THEN "dialed" ELSE s.src
           cgen == IF s.st = "idle" THEN s.cgen + 1 ELSE s.cgen
           id == IF s.id = 0 THEN s.cgen + 1 ELSE s.id
<1>1. PICK g \in Nat, c \in {"disconnected", "handshaking", "connected"}, cg \in Nat,
           st \in CallStates, di \in {"unknown", "incoming", "outgoing"}, x \in Nat,
           n \in Num, sr \in Sources :
        s = [gen |-> g, conn |-> c, cgen |-> cg, st |-> st, dir |-> di, id |-> x,
             num |-> n, src |-> sr]
  BY DEF Sound, HfpType
<1>2. ASSUME to = "idle" PROVE Moves(s, t) /\ t.st = to
  <2>1. t = [gen |-> g, conn |-> c, cgen |-> cg, st |-> "idle", dir |-> "unknown", id |-> 0,
             num |-> Nobody, src |-> "none"]
    BY <1>1, <1>2 DEF SetCallState, Override, NoCall
  <2> HIDE DEF t
  <2> QED
    BY <1>1, <1>2, <2>1 DEF Moves, Sound, HfpType, CallStates, Sources, Num
<1>3. ASSUME to # "idle" PROVE Moves(s, t) /\ t.st = to
  <2>1. t = [gen |-> g, conn |-> c, cgen |-> cgen, st |-> to, dir |-> dir, id |-> id,
             num |-> num, src |-> src]
    BY <1>1, <1>3 DEF SetCallState
  <2>2. dir \in {"unknown", "incoming", "outgoing"} /\ num \in Num
    BY <1>1 DEF Num
  <2>3. src \in Sources /\ (s.src = "dialed_pending" => s.st = "idle") /\ src # "dialed_pending"
    BY <1>1 DEF Sound, Sources
  <2>4. cgen \in Nat /\ id \in Nat
    BY <1>1
  <2> HIDE DEF t, dir, num, src, id
  <2> QED
    BY <1>1, <1>3, <2>1, <2>2, <2>3, <2>4 DEF Moves, Sound, HfpType
<1> QED
  BY <1>2, <1>3

LEMMA SetIdentityMoves ==
  ASSUME NEW s, Sound(s), NEW n \in Num, NEW source \in Sources, source # "dialed_pending",
         NEW d \in {"none", "incoming", "outgoing"}
  PROVE  Moves(s, SetIdentity(s, n, source, d)) /\ SetIdentity(s, n, source, d).st = s.st
BY DEF SetIdentity, Moves, Sound, HfpType, Sources

LEMMA ClearPendingMoves ==
  ASSUME NEW s, Sound(s), NEW n, NEW i
  PROVE  Moves(s, ClearPending(s, n, i)) /\ ClearPending(s, n, i).st = s.st
BY DEF ClearPending, Moves, Sound, HfpType, Sources, Num

LEMMA OnCallInfoMoves ==
  ASSUME NEW s, Sound(s), s.src # "dialed_pending", NEW i \in InfoType
  PROVE  Moves(s, OnCallInfo(s, i)) /\ OnCallInfo(s, i).st = s.st
<1>1. s.src \in Sources
  BY DEF Sound, HfpType
<1>2. Validated(s.src) \in Sources /\ Validated(s.src) # "dialed_pending"
  BY <1>1 DEF Validated, Sources
<1>3. CASE i.num = Nobody
  BY <1>3 DEF OnCallInfo, Moves, Sound, HfpType
<1>4. CASE i.num # Nobody
  BY <1>2, <1>4, SetIdentityMoves DEF OnCallInfo, InfoType
<1> QED
  BY <1>3, <1>4

\* An operation that leaves the state of the call goes with what came before it.
LEMMA MovesOn ==
  ASSUME NEW s, NEW t, NEW u, Sound(s), Moves(s, t), Moves(t, u), u.st = t.st
  PROVE  Moves(s, u)
BY DEF Moves

-----------------------------------------------------------------------------
(* The dispatcher's reductions *)

Reducible(r) == Sound(r.s) /\ r.i \in InfoType

LEMMA DispatchStateMoves ==
  ASSUME NEW r, Reducible(r), NEW to \in CallOf, NEW d \in {"none", "incoming", "outgoing"}
  PROVE  LET q == DispatchState(r, to, d)
         IN  /\ Moves(r.s, q.s) /\ q.i \in InfoType
             /\ q.s.st = IF r.s.st = "ending" THEN "ending" ELSE to
<1>1. CASE r.s.st = "ending"
  BY <1>1 DEF DispatchState, Reducible, Moves
<1>2. CASE r.s.st # "ending"
  <2> DEFINE i == [r.i EXCEPT !.dir = d]
             t == SetCallState(r.s, to, d)
             u == OnCallInfo(t, i)
  <2>1. DispatchState(r, to, d) = [s |-> u, i |-> i]
    BY <1>2 DEF DispatchState
  <2>2. i \in InfoType
    BY DEF Reducible, InfoType
  <2>3. to \in CallStates /\ to # "idle"
    BY DEF CallOf, CallStates
  <2>4. Moves(r.s, t) /\ t.st = to
    BY <2>3, SetCallStateMoves DEF Reducible
  <2>5. Sound(t) /\ t.src # "dialed_pending"
    BY <2>3, <2>4 DEF Moves, Sound
  <2> HIDE DEF i, t
  <2>6. Moves(t, u) /\ u.st = t.st
    BY <2>2, <2>5, OnCallInfoMoves
  <2>7. Moves(r.s, u)
    BY <2>4, <2>6, MovesOn DEF Reducible
  <2> HIDE DEF u
  <2> QED
    BY <1>2, <2>1, <2>2, <2>4, <2>6, <2>7
<1> QED
  BY <1>1, <1>2

LEMMA DispatchEndMoves ==
  ASSUME NEW r, Reducible(r)
  PROVE  LET q == DispatchEnd(r) IN Moves(r.s, q.s) /\ q.i \in InfoType /\ q.s.st = "idle"
<1>1. "idle" \in CallStates /\ "none" \in {"none", "incoming", "outgoing"}
  BY DEF CallStates
<1>2. NoInfo \in InfoType
  BY DEF NoInfo, InfoType, Num
<1> QED
  BY <1>1, <1>2, SetCallStateMoves DEF DispatchEnd, Reducible

\* After the indicators have been reconciled there is a call exactly if they show one.
LEMMA ReconcileMoves ==
  ASSUME NEW r, Reducible(r), NEW call \in 0..1, NEW setup \in 0..3
  PROVE  LET q == Reconcile(r, call, setup)
         IN  /\ Moves(r.s, q.s) /\ q.i \in InfoType
             /\ q.s.st # "idle" <=> call # 0 \/ setup # 0
<1>1. \A to \in CallOf : to # "idle"
  BY DEF CallOf
<1>2. /\ "incoming" \in CallOf /\ "dialing" \in CallOf /\ "ringing" \in CallOf
      /\ "active" \in CallOf /\ r.i.dir \in {"none", "incoming", "outgoing"}
  BY DEF CallOf, Reducible, InfoType
<1>3. CASE setup = 1
  BY <1>1, <1>2, <1>3, DispatchStateMoves DEF Reconcile
<1>4. CASE setup = 2
  BY <1>1, <1>2, <1>4, DispatchStateMoves DEF Reconcile
<1>5. CASE setup = 3
  BY <1>1, <1>2, <1>5, DispatchStateMoves DEF Reconcile
<1>6. CASE setup = 0 /\ call = 1
  BY <1>1, <1>2, <1>6, DispatchStateMoves DEF Reconcile
<1>7. CASE setup = 0 /\ call = 0
  BY <1>7, DispatchEndMoves DEF Reconcile
<1> QED
  BY <1>3, <1>4, <1>5, <1>6, <1>7

LEMMA DispatchClipMoves ==
  ASSUME NEW r, Reducible(r), NEW n \in Num
  PROVE  LET q == DispatchClip(r, n)
         IN  Moves(r.s, q.s) /\ q.i \in InfoType /\ q.s.st = r.s.st
<1> DEFINE i == [dir |-> "incoming", num |-> n]
           t == SetIdentity(r.s, n, "clip_unvalidated", "incoming")
           u == OnCallInfo(t, i)
<1>1. DispatchClip(r, n) = [s |-> u, i |-> i] /\ i \in InfoType
  BY DEF DispatchClip, InfoType
<1>2. "clip_unvalidated" \in Sources
  BY DEF Sources
<1>3. Moves(r.s, t) /\ t.st = r.s.st
  BY <1>2, SetIdentityMoves DEF Reducible
<1>4. t.src # "dialed_pending"
  BY DEF SetIdentity, Reducible, Sound, HfpType
<1> HIDE DEF i, t
<1>5. Moves(t, u) /\ u.st = t.st
  BY <1>1, <1>3, <1>4, OnCallInfoMoves DEF Moves
<1>6. Moves(r.s, u)
  BY <1>3, <1>5, MovesOn DEF Reducible
<1> HIDE DEF u
<1> QED
  BY <1>1, <1>3, <1>5, <1>6

\* A listing leaves a call exactly if it has one.
LEMMA DispatchClccMoves ==
  ASSUME NEW r, Reducible(r), NEW e \in Entries
  PROVE  LET q == DispatchClcc(r, e)
         IN  Moves(r.s, q.s) /\ q.i \in InfoType /\ (q.s.st # "idle" <=> e.st # "idle")
<1>1. CASE e.st = "idle"
  BY <1>1, DispatchEndMoves DEF DispatchClcc
<1>2. CASE e.st # "idle"
  <2> DEFINE q == DispatchState(r, e.st, e.dir)
             i == [dir |-> e.dir, num |-> IF e.num = Nobody THEN q.i.num ELSE e.num]
             t == IF e.num = Nobody THEN q.s
                  ELSE SetIdentity(q.s, e.num, "clcc_unvalidated", e.dir)
             u == OnCallInfo(t, i)
  <2>1. DispatchClcc(r, e) = [s |-> u, i |-> i]
    BY <1>2 DEF DispatchClcc
  <2>2. e.st \in CallOf /\ e.dir \in {"none", "incoming", "outgoing"} /\ e.num \in Num
    BY <1>2 DEF Entries, NoEntry
  <2>3. Moves(r.s, q.s) /\ q.i \in InfoType /\ q.s.st # "idle"
    BY <2>2, DispatchStateMoves DEF CallOf
  <2> HIDE DEF q
  <2>4. i \in InfoType
    BY <2>2, <2>3 DEF InfoType
  <2>5. Sound(q.s) /\ q.s.src # "dialed_pending"
    BY <2>3 DEF Moves, Sound
  <2>6. "clcc_unvalidated" \in Sources
    BY DEF Sources
  <2>7. Moves(q.s, t) /\ t.st = q.s.st
    BY <2>2, <2>5, <2>6, SetIdentityMoves DEF Moves
  <2>8. t.src # "dialed_pending"
    BY <2>3, <2>7 DEF Moves, Sound
  <2> HIDE DEF t, i
  <2>9. Moves(t, u) /\ u.st = t.st
    BY <2>4, <2>7, <2>8, OnCallInfoMoves DEF Moves
  <2>10. Moves(r.s, u)
    BY <2>3, <2>5, <2>7, <2>9, MovesOn DEF Reducible
  <2> HIDE DEF u
  <2> QED
    BY <1>2, <2>1, <2>3, <2>4, <2>7, <2>9, <2>10
<1> QED
  BY <1>1, <1>2

-----------------------------------------------------------------------------
(* The phone and its reports *)

LEMMA ReadingTyped ==
  ASSUME NEW ph
  PROVE  /\ Reading(ph) \in IndType
         /\ CallInd(ph) = Reading(ph)["call"] /\ SetupInd(ph) = Reading(ph)["callsetup"]
         /\ CallInd(ph) \in 0..1 /\ SetupInd(ph) \in 0..3
BY DEF Reading, IndType, CallInd, SetupInd

LEMMA ReadingShows ==
  ASSUME NEW ph
  PROVE  HasCall(ph) <=> CallInd(ph) # 0 \/ SetupInd(ph) # 0
<1>1. \A p \in Live(ph) : ph[p].st \in {"incoming", "dialing", "ringing", "active"}
  BY DEF Live
<1> HIDE DEF Live
<1> QED
  BY <1>1 DEF HasCall, CallInd, SetupInd

\* What events say besides the reports is so.
Speaks(r, ph) ==
  \A i \in DOMAIN r : /\ r[i].k = "ring" => HasCall(ph)
                      /\ r[i].k = "gone" => ~HasCall(ph)
                      /\ r[i].k = "listed" => (r[i].entry.st # "idle" <=> HasCall(ph))

\* What is added to the queue reports the indicators that change, and speaks of the
\* phone as it is then.
Tells(r, ph, next) ==
  /\ r \in Seq(Event)
  /\ \A i \in DOMAIN r : IsReport(r[i]) => r[i].v = Reading(next)[r[i].k]
  /\ \A k \in {"call", "callsetup"} :
        (\A i \in DOMAIN r : r[i].k # k) => Reading(next)[k] = Reading(ph)[k]
  /\ Speaks(r, next)

LEMMA EvTyped ==
  ASSUME NEW k \in Kinds, NEW v \in 0..3, NEW n \in Num, k = "call" => v \in 0..1
  PROVE  /\ Ev(k, v, n) \in Event
         /\ Ev(k, v, n).k = k /\ Ev(k, v, n).v = v /\ Ev(k, v, n).entry = NoEntry
BY DEF Ev, Event, Events, Entries

\* The places of a sequence with another one behind it.
LEMMA Joined ==
  ASSUME NEW q \in Seq(Event), NEW r \in Seq(Event)
  PROVE  /\ q \o r \in Seq(Event)
         /\ \A i \in DOMAIN q : i \in DOMAIN (q \o r) /\ (q \o r)[i] = q[i]
         /\ \A j \in DOMAIN r : Len(q) + j \in DOMAIN (q \o r) /\ (q \o r)[Len(q) + j] = r[j]
         /\ \A i \in DOMAIN (q \o r) : i \in DOMAIN q \/ (i - Len(q) \in DOMAIN r /\ i > Len(q))
         /\ \A i \in DOMAIN q, j \in DOMAIN r : Len(q) + j > i
         /\ DOMAIN q \subseteq Nat /\ DOMAIN r \subseteq Nat /\ Len(q) \in Nat
<1> DEFINE s == q \o r
<1>1. s \in Seq(Event) /\ Len(s) = Len(q) + Len(r)
  OBVIOUS
<1>2. \A i \in 1..(Len(q) + Len(r)) : s[i] = IF i <= Len(q) THEN q[i] ELSE r[i - Len(q)]
  OBVIOUS
<1>3. DOMAIN s = 1..Len(s) /\ DOMAIN q = 1..Len(q) /\ DOMAIN r = 1..Len(r)
      /\ Len(q) \in Nat /\ Len(r) \in Nat
  BY <1>1
<1> HIDE DEF s
<1>4. \A j \in DOMAIN r : Len(q) + j \in DOMAIN s /\ ~(Len(q) + j <= Len(q)) /\ Len(q) + j - Len(q) = j
  BY <1>1, <1>3
<1>5. \A i \in DOMAIN s : i \in DOMAIN q \/ (i - Len(q) \in DOMAIN r /\ i > Len(q))
  BY <1>1, <1>3
<1>6. \A i \in DOMAIN q : i \in DOMAIN s /\ s[i] = q[i]
  BY <1>1, <1>2, <1>3
<1>7. \A j \in DOMAIN r : s[Len(q) + j] = r[j]
  BY <1>1, <1>2, <1>3, <1>4
<1>8. \A i \in DOMAIN q, j \in DOMAIN r : Len(q) + j > i
  BY <1>3
<1> QED
  BY <1>1, <1>3, <1>4, <1>5, <1>6, <1>7, <1>8 DEF s

OnlyReports(r) == \A i \in DOMAIN r : IsReport(r[i])

LEMMA TellsReports ==
  ASSUME NEW ph, NEW next, NEW p, next[p].num \in Num
  PROVE  /\ Tells(Reports(ph, next, p), ph, next)
         /\ OnlyReports(Reports(ph, next, p))
<1> DEFINE a == IF CallInd(next) # CallInd(ph)
                THEN <<Ev("call", CallInd(next), next[p].num)>> ELSE <<>>
           b == IF SetupInd(next) # SetupInd(ph)
                THEN <<Ev("callsetup", SetupInd(next), next[p].num)>> ELSE <<>>
           r == a \o b
<1>1. Reports(ph, next, p) = r
  BY DEF Reports
<1>2. /\ CallInd(next) \in 0..1 /\ SetupInd(next) \in 0..3
      /\ CallInd(ph) = Reading(ph)["call"] /\ SetupInd(ph) = Reading(ph)["callsetup"]
      /\ CallInd(next) = Reading(next)["call"] /\ SetupInd(next) = Reading(next)["callsetup"]
  BY ReadingTyped
<1>3. /\ a \in Seq(Event) /\ \A i \in DOMAIN a : a[i].k = "call" /\ a[i].v = CallInd(next)
      /\ CallInd(next) # CallInd(ph) => 1 \in DOMAIN a
      /\ CallInd(next) = CallInd(ph) => a = <<>>
  <2> DEFINE e == Ev("call", CallInd(next), next[p].num)
  <2>1. e \in Event /\ e.k = "call" /\ e.v = CallInd(next)
    BY <1>2, EvTyped DEF Kinds
  <2> HIDE DEF e
  <2>2. <<e>> \in Seq(Event) /\ DOMAIN <<e>> = {1} /\ <<e>>[1] = e
    BY <2>1
  <2> QED
    BY <2>1, <2>2 DEF e
<1>4. /\ b \in Seq(Event) /\ \A i \in DOMAIN b : b[i].k = "callsetup" /\ b[i].v = SetupInd(next)
      /\ SetupInd(next) # SetupInd(ph) => 1 \in DOMAIN b
      /\ SetupInd(next) = SetupInd(ph) => b = <<>>
  <2> DEFINE e == Ev("callsetup", SetupInd(next), next[p].num)
  <2>1. e \in Event /\ e.k = "callsetup" /\ e.v = SetupInd(next)
    BY <1>2, EvTyped DEF Kinds
  <2> HIDE DEF e
  <2>2. <<e>> \in Seq(Event) /\ DOMAIN <<e>> = {1} /\ <<e>>[1] = e
    BY <2>1
  <2> QED
    BY <2>1, <2>2 DEF e
<1> HIDE DEF a, b
<1>5. /\ r \in Seq(Event)
      /\ \A i \in DOMAIN a : i \in DOMAIN r /\ r[i] = a[i]
      /\ \A j \in DOMAIN b : Len(a) + j \in DOMAIN r /\ r[Len(a) + j] = b[j]
      /\ \A i \in DOMAIN r : i \in DOMAIN a \/ (i - Len(a) \in DOMAIN b /\ i > Len(a))
  BY <1>3, <1>4, Joined
<1>6. \A i \in DOMAIN r : \/ i \in DOMAIN a /\ r[i] = a[i]
                          \/ \E j \in DOMAIN b : r[i] = b[j]
  <2> TAKE i \in DOMAIN r
  <2>1. ASSUME i - Len(a) \in DOMAIN b PROVE r[i] = b[i - Len(a)]
    <3>1. i \in Nat /\ Len(a) \in Nat
      BY <1>3, <1>5
    <3>2. Len(a) + (i - Len(a)) = i
      BY <3>1
    <3> HIDE DEF r
    <3> QED
      BY <1>5, <2>1, <3>2
  <2> HIDE DEF r
  <2> QED
    BY <1>5, <2>1
<1> HIDE DEF r
<1>8. \A i \in DOMAIN r : IsReport(r[i]) /\ r[i].v = Reading(next)[r[i].k]
  BY <1>2, <1>3, <1>4, <1>6 DEF IsReport
<1>9. (\A i \in DOMAIN r : r[i].k # "call") => Reading(next)["call"] = Reading(ph)["call"]
  BY <1>2, <1>3, <1>5
<1>10. (\A i \in DOMAIN r : r[i].k # "callsetup")
          => Reading(next)["callsetup"] = Reading(ph)["callsetup"]
  BY <1>2, <1>4, <1>5
<1>11. OnlyReports(r) /\ Speaks(r, next)
  BY <1>8 DEF OnlyReports, Speaks, IsReport
<1> QED
  BY <1>1, <1>5, <1>8, <1>9, <1>10, <1>11 DEF Tells

\* The events of a sequence with another one behind it are those of the two.
LEMMA Members ==
  ASSUME NEW q \in Seq(Event), NEW r \in Seq(Event)
  PROVE  /\ \A i \in DOMAIN (q \o r) : \/ i \in DOMAIN q /\ (q \o r)[i] = q[i]
                                       \/ \E j \in DOMAIN r : i = Len(q) + j /\ (q \o r)[i] = r[j]
         /\ \A j \in DOMAIN q : \E i \in DOMAIN (q \o r) : (q \o r)[i] = q[j]
         /\ \A j \in DOMAIN r : \E i \in DOMAIN (q \o r) : (q \o r)[i] = r[j]
<1> DEFINE s == q \o r
<1>1. /\ s \in Seq(Event) /\ Len(q) \in Nat
      /\ \A i \in DOMAIN q : i \in DOMAIN s /\ s[i] = q[i]
      /\ \A j \in DOMAIN r : Len(q) + j \in DOMAIN s /\ s[Len(q) + j] = r[j]
      /\ \A i \in DOMAIN s : i \in DOMAIN q \/ (i - Len(q) \in DOMAIN r /\ i > Len(q))
  BY Joined
<1> HIDE DEF s
<1>2. DOMAIN s \subseteq Nat
  BY <1>1
<1>3. ASSUME NEW i \in DOMAIN s, i - Len(q) \in DOMAIN r
      PROVE  \E j \in DOMAIN r : i = Len(q) + j /\ s[i] = r[j]
  <2>1. i = Len(q) + (i - Len(q))
    BY <1>1, <1>2
  <2>2. s[i] = r[i - Len(q)]
    BY <1>1, <1>3, <2>1
  <2> QED
    BY <1>3, <2>1, <2>2
<1> QED
  BY <1>1, <1>3 DEF s

\* Events that report nothing may stand before and behind the reports.
LEMMA TellsAround ==
  ASSUME NEW ph, NEW next, NEW b \in Seq(Event), NEW a \in Seq(Event), NEW r,
         Tells(r, ph, next), Speaks(b, next), Speaks(a, next), ~Reported(b), ~Reported(a)
  PROVE  Tells(b \o r \o a, ph, next) /\ (Reported(b \o r \o a) => Reported(r))
<1> DEFINE q == b \o r
           s == q \o a
<1>0. r \in Seq(Event)
  BY DEF Tells
<1>1. q \in Seq(Event) /\ s \in Seq(Event)
  BY <1>0
<1>2. /\ \A i \in DOMAIN q : \/ i \in DOMAIN b /\ q[i] = b[i]
                             \/ \E j \in DOMAIN r : i = Len(b) + j /\ q[i] = r[j]
      /\ \A j \in DOMAIN r : \E i \in DOMAIN q : q[i] = r[j]
  BY <1>0, Members
<1> HIDE DEF q
<1>3. /\ \A i \in DOMAIN s : \/ i \in DOMAIN q /\ s[i] = q[i]
                             \/ \E j \in DOMAIN a : i = Len(q) + j /\ s[i] = a[j]
      /\ \A j \in DOMAIN q : \E i \in DOMAIN s : s[i] = q[j]
  BY <1>1, Members
<1> HIDE DEF s
<1>4. /\ \A i \in DOMAIN s : \/ \E j \in DOMAIN b : s[i] = b[j]
                             \/ \E j \in DOMAIN r : s[i] = r[j]
                             \/ \E j \in DOMAIN a : s[i] = a[j]
      /\ \A j \in DOMAIN r : \E i \in DOMAIN s : s[i] = r[j]
  BY <1>2, <1>3
<1>5. \A i \in DOMAIN s : IsReport(s[i]) => s[i].v = Reading(next)[s[i].k]
  BY <1>4 DEF Tells, Reported
<1>6. ASSUME NEW k \in {"call", "callsetup"}, \A i \in DOMAIN s : s[i].k # k
      PROVE  Reading(next)[k] = Reading(ph)[k]
  <2>1. \A j \in DOMAIN r : r[j].k # k
    BY <1>4, <1>6
  <2> QED
    BY <2>1 DEF Tells
<1>7. Speaks(s, next)
  BY <1>4 DEF Tells, Speaks
<1>8. Reported(s) => Reported(r)
  BY <1>4 DEF Reported
<1>9. Tells(s, ph, next)
  BY <1>1, <1>5, <1>6, <1>7 DEF Tells
<1> QED
  BY <1>8, <1>9 DEF s, q

\* The reading does not change behind the queue's back.
LEMMA SameReading ==
  ASSUME NEW ph, NEW next, NEW r, Tells(r, ph, next), ~Reported(r)
  PROVE  Reading(next)["call"] = Reading(ph)["call"]
         /\ Reading(next)["callsetup"] = Reading(ph)["callsetup"]
         /\ (HasCall(next) <=> HasCall(ph))
<1>1. \A k \in {"call", "callsetup"} : Reading(next)[k] = Reading(ph)[k]
  BY DEF Tells, Reported, IsReport
<1> QED
  BY <1>1, ReadingShows, ReadingTyped

LEMMA ToldLastGrows ==
  ASSUME NEW k \in {"call", "callsetup"}, NEW q \in Seq(Event), NEW ds, NEW ph, NEW next,
         NEW r, Tells(r, ph, next), ToldLast(k, q, ds, ph)
  PROVE  ToldLast(k, q \o r, ds, next)
<1> DEFINE s == q \o r
<1>1. r \in Seq(Event) /\ \A i \in DOMAIN r : r[i].k = k => r[i].v = Reading(next)[k]
  BY DEF Tells, IsReport
<1>2. /\ Len(q) \in Nat /\ DOMAIN q \subseteq Nat /\ DOMAIN r \subseteq Nat
      /\ \A i \in DOMAIN q : i \in DOMAIN s /\ s[i] = q[i]
      /\ \A j \in DOMAIN r : Len(q) + j \in DOMAIN s /\ s[Len(q) + j] = r[j]
      /\ \A i \in DOMAIN q, j \in DOMAIN r : Len(q) + j > i
  BY <1>1, Joined
<1>3. \A i \in DOMAIN s : \/ i \in DOMAIN q /\ s[i] = q[i]
                          \/ \E j \in DOMAIN r : i = Len(q) + j /\ s[i] = r[j]
  BY <1>1, Members
<1> HIDE DEF s
<1>4. ASSUME \A i \in DOMAIN s : s[i].k # k
      PROVE  ds[k] = Reading(next)[k]
  <2>1. (\A i \in DOMAIN q : q[i].k # k) /\ (\A j \in DOMAIN r : r[j].k # k)
    BY <1>2, <1>4
  <2> QED
    BY <2>1 DEF ToldLast, Tells
<1>5. ASSUME NEW i \in DOMAIN s, s[i].k = k, \A j \in DOMAIN s : j > i => s[j].k # k
      PROVE  s[i].v = Reading(next)[k]
  <2>1. CASE \E j \in DOMAIN r : s[i] = r[j]
    BY <1>1, <1>5, <2>1
  <2>2. CASE i \in DOMAIN q /\ s[i] = q[i]
    <3>1. \A j \in DOMAIN r : r[j].k # k
      BY <1>2, <1>5, <2>2
    <3>2. \A j \in DOMAIN q : j > i => q[j].k # k
      BY <1>2, <1>5
    <3>3. Reading(next)[k] = Reading(ph)[k]
      BY <3>1 DEF Tells
    <3> QED
      BY <1>5, <2>2, <3>2, <3>3 DEF ToldLast
  <2> QED
    BY <1>3, <2>1, <2>2
<1>6. ToldLast(k, s, ds, next)
  BY <1>4, <1>5 DEF ToldLast
<1> QED
  BY <1>6 DEF s

LEMMA InOrderGrows ==
  ASSUME NEW q \in Seq(Event), NEW ph, NEW next, NEW r, Tells(r, ph, next), InOrder(q, ph)
  PROVE  InOrder(q \o r, next)
<1> DEFINE s == q \o r
<1>1. r \in Seq(Event)
  BY DEF Tells
<1>2. /\ Len(q) \in Nat /\ DOMAIN q \subseteq Nat /\ DOMAIN r \subseteq Nat
      /\ \A i \in DOMAIN q : i \in DOMAIN s /\ s[i] = q[i]
      /\ \A j \in DOMAIN r : Len(q) + j \in DOMAIN s /\ s[Len(q) + j] = r[j]
      /\ \A i \in DOMAIN q, j \in DOMAIN r : Len(q) + j > i
  BY <1>1, Joined
<1>3. \A i \in DOMAIN s : \/ i \in DOMAIN q /\ s[i] = q[i]
                          \/ \E j \in DOMAIN r : i = Len(q) + j /\ s[i] = r[j]
  BY <1>1, Members
<1> HIDE DEF s
<1>4. ASSUME NEW i \in DOMAIN s, Final(s, i)
      PROVE  /\ s[i].k = "ring" => HasCall(next)
             /\ s[i].k = "gone" => ~HasCall(next)
             /\ s[i].k = "listed" => (s[i].entry.st # "idle" <=> HasCall(next))
  <2>1. CASE \E j \in DOMAIN r : s[i] = r[j]
    BY <2>1 DEF Tells, Speaks
  <2>2. CASE i \in DOMAIN q /\ s[i] = q[i]
    <3>1. ~Reported(r)
      BY <1>2, <1>4, <2>2 DEF Final, Reported
    <3>2. Final(q, i)
      BY <1>2, <1>4, <2>2 DEF Final
    <3>3. HasCall(next) <=> HasCall(ph)
      BY <3>1, SameReading
    <3> QED
      BY <2>2, <3>2, <3>3 DEF InOrder
  <2> QED
    BY <1>3, <2>1, <2>2
<1>5. InOrder(s, next)
  BY <1>4 DEF InOrder, Final
<1> QED
  BY <1>5 DEF s

\* What is left of a queue whose head is taken.
LEMMA Taken ==
  ASSUME NEW q \in Seq(Event), q # <<>>
  PROVE  /\ Tail(q) \in Seq(Event) /\ Head(q) \in Event /\ Head(q) = q[1] /\ 1 \in DOMAIN q
         /\ DOMAIN q \subseteq Nat /\ DOMAIN Tail(q) \subseteq Nat
         /\ \A i \in DOMAIN Tail(q) : i + 1 \in DOMAIN q /\ Tail(q)[i] = q[i + 1]
         /\ \A i \in DOMAIN q : i = 1 \/ (i - 1 \in DOMAIN Tail(q) /\ Tail(q)[i - 1] = q[i])
<1> DEFINE t == Tail(q)
<1>1. t \in Seq(Event) /\ Len(t) = Len(q) - 1 /\ Len(q) \in Nat /\ Len(q) > 0
      /\ Head(q) = q[1] /\ Head(q) \in Event
  OBVIOUS
<1>2. \A i \in 1..(Len(q) - 1) : t[i] = q[i + 1]
  OBVIOUS
<1>3. DOMAIN t = 1..Len(t) /\ DOMAIN q = 1..Len(q)
  BY <1>1
<1> HIDE DEF t
<1>4. \A i \in DOMAIN t : i + 1 \in DOMAIN q /\ t[i] = q[i + 1]
  BY <1>1, <1>2, <1>3
<1>5. \A i \in DOMAIN q : i = 1 \/ (i - 1 \in DOMAIN t /\ t[i - 1] = q[i])
  <2> TAKE i \in DOMAIN q
  <2>1. i # 1 => i - 1 \in 1..(Len(q) - 1) /\ (i - 1) + 1 = i
    BY <1>1, <1>3
  <2> QED
    BY <1>1, <1>2, <1>3, <2>1
<1> QED
  BY <1>1, <1>3, <1>4, <1>5 DEF t

LEMMA TailMembers ==
  ASSUME NEW q \in Seq(Event), q # <<>>
  PROVE  /\ \A i \in DOMAIN Tail(q) : \E j \in DOMAIN q : j > 1 /\ j = i + 1 /\ Tail(q)[i] = q[j]
         /\ \A j \in DOMAIN q : q[j] = Head(q) \/ \E i \in DOMAIN Tail(q) : Tail(q)[i] = q[j]
         /\ Reported(q) <=> IsReport(Head(q)) \/ Reported(Tail(q))
         /\ ~Reported(Tail(q)) => Final(q, 1)
<1> DEFINE t == Tail(q)
<1>1. /\ Head(q) = q[1] /\ 1 \in DOMAIN q /\ DOMAIN q \subseteq Nat /\ DOMAIN t \subseteq Nat
      /\ \A i \in DOMAIN t : i + 1 \in DOMAIN q /\ t[i] = q[i + 1]
      /\ \A i \in DOMAIN q : i = 1 \/ (i - 1 \in DOMAIN t /\ t[i - 1] = q[i])
  BY Taken
<1>0. DOMAIN t \subseteq 1..Len(t)
  BY Taken
<1> HIDE DEF t
<1>2. \A i \in DOMAIN t : i + 1 > 1
  BY <1>0, <1>1
<1>3. \A i \in DOMAIN t : \E j \in DOMAIN q : j > 1 /\ j = i + 1 /\ t[i] = q[j]
  BY <1>1, <1>2
<1>4. \A j \in DOMAIN q : q[j] = Head(q) \/ \E i \in DOMAIN t : t[i] = q[j]
  BY <1>1
<1>5. Reported(q) <=> IsReport(Head(q)) \/ Reported(t)
  BY <1>1, <1>3, <1>4 DEF Reported
<1>6. ~Reported(t) => Final(q, 1)
  <2>1. \A j \in DOMAIN q : j \in Nat /\ (j > 1 => j # 1)
    BY <1>1
  <2> QED
    BY <1>1, <2>1 DEF Final, Reported
<1> QED
  BY <1>3, <1>4, <1>5, <1>6 DEF t

LEMMA ToldLastTaken ==
  ASSUME NEW k, NEW q \in Seq(Event), q # <<>>, NEW ds, NEW after, NEW ph,
         ToldLast(k, q, ds, ph),
         after[k] = IF Head(q).k = k THEN Head(q).v ELSE ds[k]
  PROVE  ToldLast(k, Tail(q), after, ph)
<1> DEFINE t == Tail(q)
<1>1. /\ Head(q) = q[1] /\ 1 \in DOMAIN q /\ DOMAIN q \subseteq Nat /\ DOMAIN t \subseteq Nat
      /\ \A i \in DOMAIN t : i + 1 \in DOMAIN q /\ t[i] = q[i + 1]
      /\ \A i \in DOMAIN q : i = 1 \/ (i - 1 \in DOMAIN t /\ t[i - 1] = q[i])
  BY Taken
<1> HIDE DEF t
<1>2. ASSUME \A i \in DOMAIN t : t[i].k # k PROVE after[k] = Reading(ph)[k]
  <2>0. \A j \in DOMAIN q : j \in Nat /\ (j > 1 => j # 1)
    BY <1>1
  <2>1. \A j \in DOMAIN q : j > 1 => q[j].k # k
    BY <1>1, <1>2, <2>0
  <2>2. CASE Head(q).k = k
    BY <1>1, <2>1, <2>2 DEF ToldLast
  <2>3. CASE Head(q).k # k
    <3>1. \A j \in DOMAIN q : q[j].k # k
      BY <1>1, <1>2, <2>3
    <3> QED
      BY <2>3, <3>1 DEF ToldLast
  <2> QED
    BY <2>2, <2>3
<1>3. ASSUME NEW i \in DOMAIN t, t[i].k = k, \A j \in DOMAIN t : j > i => t[j].k # k
      PROVE  t[i].v = Reading(ph)[k]
  <2>1. \A j \in DOMAIN q : j > i + 1 => q[j].k # k
    <3> TAKE j \in DOMAIN q
    <3>0. i \in Nat /\ j \in Nat
      BY <1>1
    <3>1. j > i + 1 => j # 1 /\ j - 1 > i
      BY <3>0
    <3> QED
      BY <1>1, <1>3, <3>1
  <2> QED
    BY <1>1, <1>3, <2>1 DEF ToldLast
<1>4. ToldLast(k, t, after, ph)
  BY <1>2, <1>3 DEF ToldLast
<1> QED
  BY <1>4 DEF t

LEMMA InOrderTaken ==
  ASSUME NEW q \in Seq(Event), q # <<>>, NEW ph, InOrder(q, ph)
  PROVE  InOrder(Tail(q), ph)
<1> DEFINE t == Tail(q)
<1>1. /\ DOMAIN q \subseteq Nat /\ DOMAIN t \subseteq Nat
      /\ \A i \in DOMAIN t : i + 1 \in DOMAIN q /\ t[i] = q[i + 1]
      /\ \A i \in DOMAIN q : i = 1 \/ (i - 1 \in DOMAIN t /\ t[i - 1] = q[i])
  BY Taken
<1> HIDE DEF t
<1>2. ASSUME NEW i \in DOMAIN t, Final(t, i) PROVE Final(q, i + 1)
  <2>1. \A j \in DOMAIN q : j > i + 1 => ~IsReport(q[j])
    <3> TAKE j \in DOMAIN q
    <3>0. i \in Nat /\ j \in Nat
      BY <1>1
    <3>1. j > i + 1 => j # 1 /\ j - 1 > i
      BY <3>0
    <3> QED
      BY <1>1, <1>2, <3>1 DEF Final
  <2> QED
    BY <1>1, <2>1 DEF Final
<1>3. InOrder(t, ph)
  BY <1>1, <1>2 DEF InOrder
<1> QED
  BY <1>3 DEF t

-----------------------------------------------------------------------------
(* What the phone does: it appends events to the queue *)

NoCommand == [op |-> "none", num |-> Nobody]

\* A step of the phone adds r to the queue and may take the command it was given.
PhoneSays(r) ==
  /\ r \in Seq(Event) /\ queue' = queue \o r /\ Quiet
  /\ phone' \in [1..bound.calls -> CallType]
  /\ link = "live" => Tells(r, phone, phone')
  /\ link # "live" => \A i \in DOMAIN r : ToolAnswer(r[i])
  /\ stale' \in BOOLEAN /\ (~stale' => ~stale /\ (link = "cmer" => phone' = phone))
  /\ \/ inbox' = inbox /\ \A i \in DOMAIN r : ~Answer(r[i])
     \/ /\ inbox.op # "none" /\ inbox' = NoCommand
        /\ \A i, j \in DOMAIN r : Answer(r[i]) /\ Answer(r[j]) => i = j
        /\ \A i \in DOMAIN r : Answer(r[i]) => (ListAnswer(r[i]) <=> inbox.op = "list")
        /\ link = "live" /\ inbox.op = "dial" /\ (\E i \in DOMAIN r : r[i].k = "ok")
             => \E i \in DOMAIN r : r[i].k = "callsetup" /\ r[i].v = 2

LEMMA Single ==
  ASSUME NEW e \in Event
  PROVE  /\ <<e>> \in Seq(Event) /\ DOMAIN <<e>> = {1} /\ <<e>>[1] = e
         /\ \A i \in DOMAIN <<e>> : <<e>>[i] = e
OBVIOUS

LEMMA Nothing ==
  /\ <<>> \in Seq(Event) /\ DOMAIN <<>> = {} /\ ~Reported(<<>>)
  /\ \A ph : Speaks(<<>>, ph)
BY DEF Reported, Speaks

\* The events of r are those of b, m and a.
PartsOf(r, b, m, a) ==
  \A i \in DOMAIN r :
     \/ \E j \in DOMAIN b : r[i] = b[j]
     \/ \E j \in DOMAIN m : r[i] = m[j]
     \/ \E j \in DOMAIN a : r[i] = a[j]

LEMMA ThreeParts ==
  ASSUME NEW b \in Seq(Event), NEW m \in Seq(Event), NEW a \in Seq(Event)
  PROVE  PartsOf(b \o m \o a, b, m, a)
<1> DEFINE q == b \o m
           s == q \o a
<1>1. q \in Seq(Event)
  BY ConcatProperties
<1>2. \A i \in DOMAIN q : \/ i \in DOMAIN b /\ q[i] = b[i]
                          \/ \E j \in DOMAIN m : i = Len(b) + j /\ q[i] = m[j]
  BY Members
<1> HIDE DEF q
<1>3. \A i \in DOMAIN s : \/ i \in DOMAIN q /\ s[i] = q[i]
                          \/ \E j \in DOMAIN a : i = Len(q) + j /\ s[i] = a[j]
  BY <1>1, Members
<1> HIDE DEF s
<1>4. PartsOf(s, b, m, a)
  <2>1. ASSUME NEW i \in DOMAIN s
        PROVE  \/ \E j \in DOMAIN b : s[i] = b[j]
               \/ \E j \in DOMAIN m : s[i] = m[j]
               \/ \E j \in DOMAIN a : s[i] = a[j]
    <3>1. CASE i \in DOMAIN q /\ s[i] = q[i]
      BY <1>2, <3>1
    <3> QED
      BY <1>3, <3>1
  <2> QED
    BY <2>1 DEF PartsOf
<1> QED
  BY <1>4 DEF s, q

\* A change of the phone is reported on a live connection, between what is said
\* before it and after it.
LEMMA ChangesTell ==
  ASSUME Types, NEW p \in DOMAIN phone, NEW next \in [1..bound.calls -> CallType],
         NEW b \in Seq(Event), NEW a \in Seq(Event),
         Speaks(b, next), Speaks(a, next), ~Reported(b), ~Reported(a),
         PhoneChanges(next, p, b, a)
  PROVE  \E r \in Seq(Event), m \in Seq(Event) :
           /\ r = b \o m \o a /\ PartsOf(r, b, m, a) /\ queue' = queue \o r
           /\ OnlyReports(m)
           /\ link = "live" => Tells(r, phone, next)
           /\ link # "live" => m = <<>>
           /\ phone' = next /\ stale' \in BOOLEAN
           /\ ~stale' => ~stale /\ link # "cmer"
<1> DEFINE m == IF link = "live" THEN Reports(phone, next, p) ELSE <<>>
           r == b \o m \o a
<1>1. p \in 1..bound.calls /\ next[p].num \in Num /\ queue \in Seq(Event) /\ stale \in BOOLEAN
  BY DEF Types, CallType
<1>2. Tells(Reports(phone, next, p), phone, next) /\ OnlyReports(Reports(phone, next, p))
  BY <1>1, TellsReports
<1>4. /\ m \in Seq(Event) /\ OnlyReports(m)
      /\ link = "live" => Tells(m, phone, next)
      /\ link # "live" => m = <<>>
  BY <1>2, Nothing DEF Tells, OnlyReports
<1>5. queue' = queue \o b \o m \o a /\ phone' = next /\ stale' = (stale \/ link = "cmer")
  BY DEF PhoneChanges
<1> HIDE DEF m
<1>6. r \in Seq(Event) /\ queue' = queue \o r
  <2>1. queue \o b \in Seq(Event) /\ b \o m \in Seq(Event)
    BY <1>1, <1>4, ConcatProperties
  <2>2. (queue \o b) \o m = queue \o (b \o m)
    BY <1>1, <1>4, ConcatAssociative
  <2>3. \A q \in Seq(Event) : (queue \o q) \o a = queue \o (q \o a)
    <3>1. queue \in Seq(Event)
      BY <1>1
    <3> QED
      BY <3>1, ConcatAssociative
  <2>4. (b \o m) \o a \in Seq(Event)
    BY <2>1, ConcatProperties
  <2> QED
    BY <1>5, <2>1, <2>2, <2>3, <2>4
<1>7. link = "live" => Tells(r, phone, next)
  BY <1>4, TellsAround
<1>8. r = b \o m \o a /\ PartsOf(r, b, m, a)
  BY <1>4, ThreeParts
<1> HIDE DEF r
<1>9. stale' \in BOOLEAN /\ (~stale' => ~stale /\ link # "cmer")
  BY <1>1, <1>5
<1> QED
  BY <1>4, <1>5, <1>6, <1>7, <1>8, <1>9

\* An event of the phone's own: a call that comes in, rings, goes on or ends.
LEMMA PhoneActs ==
  ASSUME Types, NEW p \in DOMAIN phone, NEW next \in [1..bound.calls -> CallType],
         NEW b \in Seq(Event), NEW a \in Seq(Event),
         Speaks(b, next), Speaks(a, next), ~Reported(b), ~Reported(a),
         \A i \in DOMAIN b : ~Answer(b[i]), \A i \in DOMAIN a : ~Answer(a[i]),
         link = "live" \/ (b = <<>> /\ a = <<>>),
         PhoneChanges(next, p, b, a), Quiet, UNCHANGED inbox
  PROVE  \E r : PhoneSays(r)
<1>1. PICK r \in Seq(Event), m \in Seq(Event) :
           /\ r = b \o m \o a /\ PartsOf(r, b, m, a) /\ queue' = queue \o r
           /\ OnlyReports(m)
           /\ link = "live" => Tells(r, phone, next)
           /\ link # "live" => m = <<>>
           /\ phone' = next /\ stale' \in BOOLEAN
           /\ ~stale' => ~stale /\ link # "cmer"
  BY ChangesTell
<1>2. \A i \in DOMAIN r : ~Answer(r[i])
  <2>2. \A i \in DOMAIN m : ~Answer(m[i])
    BY <1>1 DEF OnlyReports, Answer, ToolAnswer, ListAnswer, IsReport
  <2> QED
    BY <1>1, <2>2 DEF PartsOf
<1>3. link # "live" => DOMAIN r = {}
  BY <1>1
<1> QED
  BY <1>1, <1>2, <1>3 DEF PhoneSays

\* The phone answers the command it was given, before or after the events it causes.
LEMMA PhoneAnswers ==
  ASSUME Types, NEW p \in DOMAIN phone, NEW next \in [1..bound.calls -> CallType],
         inbox.op \in {"dial", "answer", "hangup"},
         inbox.op = "dial" => SetupInd(phone) = 0 /\ SetupInd(next) = 2,
         PhoneDoes(next, p)
  PROVE  \E r : PhoneSays(r)
<1>1. Ev("ok", 0, Nobody) \in Event /\ Ev("ok", 0, Nobody).k = "ok"
  BY EvTyped DEF Kinds, Num
<1>2. /\ Ok \in Seq(Event) /\ DOMAIN Ok = {1} /\ Ok[1].k = "ok"
      /\ ~Reported(Ok) /\ Speaks(Ok, next)
  <2>1. Ok \in Seq(Event) /\ DOMAIN Ok = {1} /\ Ok[1] = Ev("ok", 0, Nobody)
    BY <1>1, Single DEF Ok
  <2> QED
    BY <1>1, <2>1 DEF Reported, IsReport, Speaks
<1>3. PICK b \in Seq(Event), a \in Seq(Event) :
        /\ (b = Ok /\ a = <<>>) \/ (b = <<>> /\ a = Ok)
        /\ PhoneChanges(next, p, b, a)
  BY <1>2, Nothing DEF PhoneDoes
<1>4. Speaks(b, next) /\ Speaks(a, next) /\ ~Reported(b) /\ ~Reported(a)
  BY <1>2, <1>3, Nothing
<1>5. PICK r \in Seq(Event), m \in Seq(Event) :
           /\ r = b \o m \o a /\ PartsOf(r, b, m, a) /\ queue' = queue \o r
           /\ OnlyReports(m)
           /\ link = "live" => Tells(r, phone, next)
           /\ link # "live" => m = <<>>
           /\ phone' = next /\ stale' \in BOOLEAN
           /\ ~stale' => ~stale /\ link # "cmer"
  BY <1>3, <1>4, ChangesTell
<1>6. \A i \in DOMAIN m : ~Answer(m[i])
  BY <1>5 DEF OnlyReports, Answer, ToolAnswer, ListAnswer, IsReport
<1>7. \A i \in DOMAIN r : ~ListAnswer(r[i]) /\ (Answer(r[i]) => r[i].k = "ok")
  <2>1. /\ \A i \in DOMAIN b : ~ListAnswer(b[i]) /\ b[i].k = "ok"
        /\ \A i \in DOMAIN a : ~ListAnswer(a[i]) /\ a[i].k = "ok"
    BY <1>2, <1>3, Nothing DEF ListAnswer
  <2>2. \A i \in DOMAIN m : ~ListAnswer(m[i])
    BY <1>6 DEF Answer
  <2> QED
    BY <1>5, <1>6, <2>1, <2>2 DEF PartsOf
<1>8. \A i, j \in DOMAIN r : Answer(r[i]) /\ Answer(r[j]) => i = j
  <2>1. CASE b = Ok /\ a = <<>>
    <3>1. r = Ok \o m
      BY <1>2, <1>5, <2>1
    <3>2. \A i \in DOMAIN (Ok \o m) :
             \/ i \in DOMAIN Ok /\ (Ok \o m)[i] = Ok[i]
             \/ \E j \in DOMAIN m : i = Len(Ok) + j /\ (Ok \o m)[i] = m[j]
      BY <1>2, Members
    <3>3. \A i \in DOMAIN r : Answer(r[i]) => i = 1
      BY <1>2, <1>6, <3>1, <3>2
    <3> QED
      BY <3>3
  <2>2. CASE b = <<>> /\ a = Ok
    <3>1. r = m \o Ok
      BY <1>2, <1>5, <2>2
    <3>2. \A i \in DOMAIN (m \o Ok) :
             \/ i \in DOMAIN m /\ (m \o Ok)[i] = m[i]
             \/ \E j \in DOMAIN Ok : i = Len(m) + j /\ (m \o Ok)[i] = Ok[j]
      BY <1>2, Members
    <3>3. \A i \in DOMAIN r : Answer(r[i]) => i = Len(m) + 1
      BY <1>2, <1>6, <3>1, <3>2
    <3> QED
      BY <3>3
  <2> QED
    BY <1>3, <2>1, <2>2
<1>9. ASSUME link = "live", inbox.op = "dial"
      PROVE  \E i \in DOMAIN r : r[i].k = "callsetup" /\ r[i].v = 2
  <2>1. Reading(next)["callsetup"] = 2 /\ Reading(phone)["callsetup"] = 0
    BY <1>9, ReadingTyped
  <2>2. PICK i \in DOMAIN r : r[i].k = "callsetup"
    BY <1>5, <1>9, <2>1 DEF Tells
  <2> QED
    BY <1>5, <1>9, <2>1, <2>2 DEF Tells, IsReport
<1>10. link # "live" => \A i \in DOMAIN r : ToolAnswer(r[i])
  <2>1. \A i \in DOMAIN Ok : ToolAnswer(Ok[i])
    BY <1>2 DEF ToolAnswer
  <2> QED
    BY <1>3, <1>5, <2>1, Nothing DEF PartsOf
<1>11. inbox' = NoCommand /\ Quiet
  BY DEF PhoneDoes, NoCommand
<1>12. \A i \in DOMAIN r : Answer(r[i]) => (ListAnswer(r[i]) <=> inbox.op = "list")
  BY <1>7
<1> HIDE DEF Quiet
<1>13. PhoneSays(r)
  BY <1>5, <1>8, <1>9, <1>10, <1>11, <1>12 DEF PhoneSays
<1> QED
  BY <1>13

\* An answer that no event comes with.
LEMMA PhoneReplies ==
  ASSUME Types, Terse, NEW e \in Event, Answer(e), inbox.op # "none",
         ListAnswer(e) <=> inbox.op = "list", e.k # "ok",
         e.k = "listed" => (e.entry.st # "idle" <=> HasCall(phone)),
         inbox' = NoCommand, queue' = queue \o <<e>>, UNCHANGED <<phone, stale>>, Quiet
  PROVE  \E r : PhoneSays(r)
<1> DEFINE r == <<e>>
<1>1. r \in Seq(Event) /\ DOMAIN r = {1} /\ r[1] = e
  BY Single
<1> HIDE DEF r
<1>2. ~IsReport(e) /\ e.k # "ring" /\ e.k # "gone"
  BY DEF Answer, ToolAnswer, ListAnswer, IsReport
<1>3. Tells(r, phone, phone')
  BY <1>1, <1>2 DEF Tells, Speaks
<1>4. link # "live" => ToolAnswer(r[1])
  BY <1>1 DEF Terse, Answer
<1>5. phone' \in [1..bound.calls -> CallType] /\ stale' \in BOOLEAN
  BY DEF Types
<1>6. queue' = queue \o r
  BY DEF r
<1> HIDE DEF Quiet
<1>7. PhoneSays(r)
  BY <1>1, <1>3, <1>4, <1>5, <1>6 DEF PhoneSays
<1> QED
  BY <1>7

\* A call of the phone changes: the phone stays one, and what is up is what was, but for it.
LEMMA CallChanges ==
  ASSUME Types, NEW p \in DOMAIN phone, NEW call \in CallType
  PROVE  LET next == [phone EXCEPT ![p] = call]
         IN  /\ next \in [1..bound.calls -> CallType] /\ next[p] = call
             /\ \A q \in DOMAIN phone : q # p => next[q] = phone[q]
             /\ DOMAIN next = DOMAIN phone
             /\ Live(next) = IF call.st \in CallOf THEN Live(phone) \cup {p}
                             ELSE Live(phone) \ {p}
<1> DEFINE next == [phone EXCEPT ![p] = call]
<1>1. phone \in [1..bound.calls -> CallType] /\ p \in 1..bound.calls
  BY DEF Types
<1>2. /\ next \in [1..bound.calls -> CallType] /\ next[p] = call
      /\ \A q \in DOMAIN phone : q # p => next[q] = phone[q]
      /\ DOMAIN next = DOMAIN phone
  BY <1>1
<1> HIDE DEF next
<1>3. Live(next) = IF call.st \in CallOf THEN Live(phone) \cup {p} ELSE Live(phone) \ {p}
  BY <1>1, <1>2 DEF Live, CallOf
<1> QED
  BY <1>2, <1>3 DEF next

LEMMA Silent ==
  ASSUME Types, NEW p \in DOMAIN phone, NEW call \in CallType,
         PhoneChanges([phone EXCEPT ![p] = call], p, <<>>, <<>>), Quiet, UNCHANGED inbox
  PROVE  \E r : PhoneSays(r)
<1> DEFINE next == [phone EXCEPT ![p] = call]
<1>1. next \in [1..bound.calls -> CallType]
  BY CallChanges
<1>2. PhoneChanges(next, p, <<>>, <<>>)
  OBVIOUS
<1> HIDE DEF next, Quiet, PhoneChanges
<1>3. \A i \in DOMAIN <<>> : ~Answer(<<>>[i])
  BY Nothing
<1> QED
  BY <1>1, <1>2, <1>3, Nothing, PhoneActs

LEMMA IncomingSays ==
  ASSUME Types, NEW p \in DOMAIN phone, NEW n \in bound.callers, PhoneIncoming(p, n)
  PROVE  \E r : PhoneSays(r)
<1> DEFINE call == [st |-> "incoming", dir |-> "incoming", num |-> n, rung |-> FALSE]
<1>1. call \in CallType
  BY DEF CallType, CallOf, Types, BoundType
<1>2. PhoneChanges([phone EXCEPT ![p] = call], p, <<>>, <<>>) /\ Quiet /\ UNCHANGED inbox
  BY DEF PhoneIncoming, Fresh
<1> HIDE DEF call, Quiet
<1> QED
  BY <1>1, <1>2, Silent

LEMMA ProgressSays ==
  ASSUME Types, NEW p \in DOMAIN phone, PhoneProgress(p)
  PROVE  \E r : PhoneSays(r)
<1>1. PICK to \in {"ringing", "active"} :
        /\ PhoneChanges([phone EXCEPT ![p].st = to], p, <<>>, <<>>)
        /\ p \in InSetup(phone) /\ Quiet /\ UNCHANGED inbox
  BY DEF PhoneProgress
<1> DEFINE call == [phone[p] EXCEPT !.st = to]
<1>2. phone[p] \in CallType /\ phone[p].st \in CallOf
  BY <1>1 DEF Types, InSetup, Live, CallOf
<1>3. call \in CallType
  BY <1>2 DEF CallType, CallOf
<1>4. PhoneChanges([phone EXCEPT ![p] = call], p, <<>>, <<>>)
  BY <1>1
<1> HIDE DEF call, Quiet
<1> QED
  BY <1>1, <1>3, <1>4, Silent

LEMMA RingsSays ==
  ASSUME Types, NEW p \in DOMAIN phone, PhoneRings(p)
  PROVE  \E r : PhoneSays(r)
<1> DEFINE call == [phone[p] EXCEPT !.rung = TRUE]
           next == [phone EXCEPT ![p] = call]
           ring == Ev("ring", 0, phone[p].num)
           clip == Ev("clip", 0, phone[p].num)
<1>1. /\ link = "live" /\ phone[p].st = "incoming" /\ Quiet /\ UNCHANGED inbox
      /\ \/ PhoneChanges(next, p, <<ring>> \o <<>>, <<>>)
         \/ PhoneChanges(next, p, <<ring>> \o <<clip>>, <<>>)
  BY DEF PhoneRings
<1>2. phone[p] \in CallType
  BY DEF Types
<1>3. call \in CallType /\ call.st = "incoming"
  BY <1>1, <1>2 DEF CallType, CallOf
<1> HIDE DEF call
<1>4. next \in [1..bound.calls -> CallType] /\ Live(next) = Live(phone) \cup {p}
  BY <1>3, CallChanges DEF CallOf
<1>5. HasCall(next)
  BY <1>4 DEF HasCall
<1>6. ring \in Event /\ ring.k = "ring" /\ clip \in Event /\ clip.k = "clip"
  BY <1>2, EvTyped DEF Kinds, CallType
<1> HIDE DEF next, ring, clip, Quiet
<1>7. PICK b \in Seq(Event) :
        /\ PhoneChanges(next, p, b, <<>>)
        /\ \A i \in DOMAIN b : b[i] = ring \/ b[i] = clip
  <2> DEFINE one == <<ring>>
             two == <<clip>>
  <2>1. /\ one \in Seq(Event) /\ \A i \in DOMAIN one : one[i] = ring
        /\ two \in Seq(Event) /\ \A i \in DOMAIN two : two[i] = clip
    BY <1>6, Single
  <2>2. PhoneChanges(next, p, one \o <<>>, <<>>) \/ PhoneChanges(next, p, one \o two, <<>>)
    BY <1>1
  <2> HIDE DEF one, two
  <2>3. one \o <<>> = one
    BY <2>1
  <2>4. /\ one \o two \in Seq(Event)
        /\ \A i \in DOMAIN (one \o two) : (one \o two)[i] = ring \/ (one \o two)[i] = clip
    BY <2>1, Members, ConcatProperties
  <2> QED
    BY <2>1, <2>2, <2>3, <2>4
<1>8. Speaks(b, next) /\ ~Reported(b) /\ \A i \in DOMAIN b : ~Answer(b[i])
  BY <1>5, <1>6, <1>7 DEF Speaks, Reported, IsReport, Answer, ToolAnswer, ListAnswer
<1>9. \A i \in DOMAIN <<>> : ~Answer(<<>>[i])
  BY Nothing
<1> QED
  BY <1>1, <1>4, <1>7, <1>8, <1>9, Nothing, PhoneActs

LEMMA EndsSays ==
  ASSUME Types, NEW p \in DOMAIN phone, PhoneEnds(p)
  PROVE  \E r : PhoneSays(r)
<1> DEFINE call == [phone[p] EXCEPT !.st = "over"]
           next == [phone EXCEPT ![p] = call]
           event == Ev("gone", 0, Nobody)
<1>1. /\ Quiet /\ UNCHANGED inbox
      /\ \/ PhoneChanges(next, p, <<>>, <<>>)
         \/ /\ link = "live" /\ Live(phone) = {p}
            /\ PhoneChanges(next, p, <<>>, <<event>>)
  BY DEF PhoneEnds
<1>2. phone[p] \in CallType
  BY DEF Types
<1>3. call \in CallType /\ call.st = "over"
  BY <1>2 DEF CallType, CallOf
<1> HIDE DEF call
<1>4. next \in [1..bound.calls -> CallType] /\ Live(next) = Live(phone) \ {p}
  BY <1>3, CallChanges DEF CallOf
<1>5. event \in Event /\ event.k = "gone"
  BY EvTyped DEF Kinds, Num
<1>6. /\ <<event>> \in Seq(Event) /\ DOMAIN <<event>> = {1} /\ <<event>>[1] = event
  BY <1>5, Single
<1>7. /\ ~Reported(<<event>>) /\ \A i \in DOMAIN <<event>> : ~Answer(<<event>>[i])
  BY <1>5, <1>6 DEF Reported, IsReport, Answer, ToolAnswer, ListAnswer
<1> HIDE DEF next, event, Quiet
<1>8. Live(phone) = {p} => Speaks(<<event>>, next)
  BY <1>4, <1>5, <1>6 DEF Speaks, HasCall
<1>9. \A i \in DOMAIN <<>> : ~Answer(<<>>[i])
  BY Nothing
<1>10. CASE PhoneChanges(next, p, <<>>, <<>>)
  BY <1>1, <1>4, <1>9, <1>10, Nothing, PhoneActs
<1>11. CASE link = "live" /\ Live(phone) = {p} /\ PhoneChanges(next, p, <<>>, <<event>>)
  BY <1>1, <1>4, <1>6, <1>7, <1>8, <1>9, <1>11, Nothing, PhoneActs
<1> QED
  BY <1>1, <1>10, <1>11

LEMMA DialsSays ==
  ASSUME Types, NEW p \in DOMAIN phone, PhoneDials(p)
  PROVE  \E r : PhoneSays(r)
<1> DEFINE call == [st |-> "dialing", dir |-> "outgoing", num |-> inbox.num, rung |-> FALSE]
           next == [phone EXCEPT ![p] = call]
<1>1. inbox.op = "dial" /\ InSetup(phone) = {} /\ PhoneDoes(next, p)
  BY DEF PhoneDials, MayStart, Fresh
<1>2. call \in CallType /\ call.st = "dialing"
  BY DEF CallType, CallOf, Types, InboxType
<1> HIDE DEF call
<1>3. /\ next \in [1..bound.calls -> CallType] /\ next[p].st = "dialing"
      /\ \A q \in DOMAIN phone : q # p => next[q] = phone[q]
      /\ DOMAIN next = DOMAIN phone /\ Live(next) = Live(phone) \cup {p}
  BY <1>2, CallChanges DEF CallOf
<1> HIDE DEF next
<1>4. \A q \in Live(phone) : phone[q].st = "active" /\ q \in DOMAIN phone
  BY <1>1 DEF InSetup, Live
<1>5. SetupInd(phone) = 0
  BY <1>4 DEF SetupInd
<1>6. SetupInd(next) = 2
  <2>1. \A q \in Live(next) : next[q].st = "active" \/ next[q].st = "dialing"
    BY <1>3, <1>4
  <2>2. p \in Live(next)
    BY <1>3
  <2> QED
    BY <1>3, <2>1, <2>2 DEF SetupInd
<1> QED
  BY <1>1, <1>3, <1>5, <1>6, PhoneAnswers

LEMMA AcceptsSays ==
  ASSUME Types, NEW p \in DOMAIN phone, PhoneAccepts(p)
  PROVE  \E r : PhoneSays(r)
<1> DEFINE call == [phone[p] EXCEPT !.st = "active"]
           next == [phone EXCEPT ![p] = call]
<1>1. inbox.op = "answer" /\ phone[p].st = "incoming" /\ PhoneDoes(next, p)
  BY DEF PhoneAccepts
<1>2. phone[p] \in CallType
  BY DEF Types
<1>3. call \in CallType
  BY <1>1, <1>2 DEF CallType, CallOf
<1> HIDE DEF call
<1>4. next \in [1..bound.calls -> CallType]
  BY <1>3, CallChanges
<1> HIDE DEF next
<1> QED
  BY <1>1, <1>4, PhoneAnswers

LEMMA HangsUpSays ==
  ASSUME Types, NEW p \in DOMAIN phone, PhoneHangsUp(p)
  PROVE  \E r : PhoneSays(r)
<1> DEFINE call == [phone[p] EXCEPT !.st = "over"]
           next == [phone EXCEPT ![p] = call]
<1>1. inbox.op = "hangup" /\ PhoneDoes(next, p)
  BY DEF PhoneHangsUp
<1>2. phone[p] \in CallType
  BY DEF Types
<1>3. call \in CallType
  BY <1>2 DEF CallType, CallOf
<1> HIDE DEF call
<1>4. next \in [1..bound.calls -> CallType]
  BY <1>3, CallChanges
<1> HIDE DEF next
<1> QED
  BY <1>1, <1>4, PhoneAnswers

\* The call AT+CLCC's listing is reduced to is one of those that are up.
LEMMA PrimaryIsLive ==
  ASSUME Types
  PROVE  Primary \in Entries /\ (Primary.st # "idle" <=> HasCall(phone))
<1> DEFINE rank(p) == CASE phone[p].st = "active" -> 0 [] phone[p].st = "incoming" -> 1
                         [] phone[p].st = "dialing" -> 2 [] OTHER -> 3
           first == CHOOSE p \in Live(phone) : \A q \in Live(phone) : rank(p) <= rank(q)
<1>1. CASE Live(phone) = {}
  <2>1. Primary = NoEntry
    BY <1>1 DEF Primary
  <2> QED
    BY <1>1, <2>1 DEF Entries, NoEntry, HasCall
<1>2. CASE Live(phone) # {}
  <2>1. \A p \in Live(phone) : rank(p) \in 0..3
    OBVIOUS
  <2> HIDE DEF rank
  <2>2. \E p \in Live(phone) : \A q \in Live(phone) : rank(p) <= rank(q)
    <3>1. CASE \E p \in Live(phone) : rank(p) = 0
      BY <2>1, <3>1
    <3>2. CASE (\A p \in Live(phone) : rank(p) # 0) /\ \E p \in Live(phone) : rank(p) = 1
      BY <2>1, <3>2
    <3>3. CASE (\A p \in Live(phone) : rank(p) \notin {0, 1}) /\ \E p \in Live(phone) : rank(p) = 2
      BY <2>1, <3>3
    <3>4. CASE \A p \in Live(phone) : rank(p) \notin {0, 1, 2}
      BY <1>2, <2>1, <3>4
    <3> QED
      BY <3>1, <3>2, <3>3, <3>4
  <2>3. first \in Live(phone)
    BY <2>2
  <2>4. Primary = [st |-> phone[first].st, dir |-> phone[first].dir, num |-> phone[first].num]
    BY <1>2 DEF Primary, rank
  <2> HIDE DEF first
  <2>5. phone[first] \in CallType /\ phone[first].st \in CallOf
    BY <2>3 DEF Types, Live, CallOf
  <2>6. Primary \in Entries /\ Primary.st = phone[first].st
    BY <2>4, <2>5 DEF Entries, CallType
  <2> QED
    BY <1>2, <2>5, <2>6 DEF HasCall, CallOf
<1> QED
  BY <1>1, <1>2

LEMMA RefusesSays ==
  ASSUME Types, Terse, PhoneRefuses
  PROVE  \E r : PhoneSays(r)
<1> DEFINE e == Ev("error", 0, Nobody)
<1>1. /\ inbox.op \in {"dial", "answer", "hangup"} /\ inbox' = NoCommand
      /\ queue' = queue \o <<e>> /\ UNCHANGED <<phone, stale>> /\ Quiet
  BY DEF PhoneRefuses, NoCommand, Error
<1>2. e \in Event /\ e.k = "error"
  BY EvTyped DEF Kinds, Num
<1> HIDE DEF e, Quiet
<1>3. Answer(e) /\ ~ListAnswer(e)
  BY <1>2 DEF Answer, ToolAnswer, ListAnswer
<1> QED
  BY <1>1, <1>2, <1>3, PhoneReplies

LEMMA ListsSays ==
  ASSUME Types, Terse, PhoneLists
  PROVE  \E r : PhoneSays(r)
<1> DEFINE e == IF bound.clcc THEN [Ev("listed", 0, Nobody) EXCEPT !.entry = Primary]
                ELSE Ev("unlisted", 0, Nobody)
<1>1. /\ inbox.op = "list" /\ inbox' = NoCommand
      /\ queue' = queue \o <<e>> /\ UNCHANGED <<phone, stale>> /\ Quiet
  BY DEF PhoneLists, NoCommand
<1>2. /\ e \in Event /\ e.k \in {"listed", "unlisted"}
      /\ e.k = "listed" => e.entry = Primary
  <2>1. Ev("unlisted", 0, Nobody) \in Event /\ Ev("unlisted", 0, Nobody).k = "unlisted"
    BY EvTyped DEF Kinds, Num
  <2>2. [Ev("listed", 0, Nobody) EXCEPT !.entry = Primary]
          = [k |-> "listed", v |-> 0, num |-> Nobody, entry |-> Primary]
    BY DEF Ev
  <2>3. [k |-> "listed", v |-> 0, num |-> Nobody, entry |-> Primary] \in Event
    BY PrimaryIsLive DEF Event, Events, Kinds, Num
  <2> QED
    BY <2>1, <2>2, <2>3
<1> HIDE DEF e, Quiet
<1>3. Answer(e) /\ ListAnswer(e)
  BY <1>2 DEF Answer, ListAnswer
<1> QED
  BY <1>1, <1>2, <1>3, PrimaryIsLive, PhoneReplies

LEMMA PhoneSpeaks ==
  ASSUME Types, Terse, Phone
  PROVE  \E r : PhoneSays(r)
BY IncomingSays, RingsSays, ProgressSays, EndsSays, DialsSays, AcceptsSays, HangsUpSays,
   RefusesSays, ListsSays DEF Phone

-----------------------------------------------------------------------------
(* What a step leaves as it was *)

\* The call moves on: what the tools observed before an await stays as old as it was, and
\* a dial whose call has begun does not find the state it started from.
LEMMA CallMoves ==
  ASSUME Types, Pending, Observed, Moves(hfp, hfp'), link' = link,
         ctl'.op = ctl.op, ctl'.who = ctl.who, ctl'.gen = ctl.gen, ctl'.cgen = ctl.cgen,
         ctl'.id = ctl.id, ctl'.st = ctl.st, ctl'.op = "none" <=> ctl'.ph = "free"
  PROVE  /\ Pending' /\ Observed'
         /\ ctl.op = "dial" /\ TransitionAllowed(hfp', ctl', {"idle"})
               => TransitionAllowed(hfp, ctl, {"idle"})
<1>1. /\ hfp.gen \in Nat /\ hfp.cgen \in Nat /\ ctl.gen \in Nat /\ ctl.cgen \in Nat
      /\ hfp'.gen = hfp.gen /\ hfp'.conn = hfp.conn
      /\ hfp'.cgen = IF hfp.st = "idle" /\ hfp'.st # "idle" THEN hfp.cgen + 1 ELSE hfp.cgen
  BY DEF Types, HfpType, CtlType, Moves
<1>2. Pending'
  BY DEF Moves, Sound, Pending
<1>3. ctl.op = "dial" /\ ctl.cgen = hfp'.cgen => ctl.cgen = hfp.cgen /\ hfp.st = "idle"
                                                 /\ hfp'.st = "idle"
  BY <1>1 DEF Observed
<1>4. Observed'
  BY <1>1, <1>3 DEF Observed
<1>5. ctl.op = "dial" /\ TransitionAllowed(hfp', ctl', {"idle"})
         => TransitionAllowed(hfp, ctl, {"idle"})
  BY <1>1, <1>2, <1>3 DEF TransitionAllowed, Pending
<1> QED
  BY <1>2, <1>4, <1>5

LEMMA CallStays ==
  ASSUME Types, Pending
  PROVE  Sound(hfp) /\ Moves(hfp, hfp)
BY DEF Types, Pending, Sound, Moves

\* Nothing was said, and there is a call exactly if there was one.
LEMMA AgreementStays ==
  ASSUME Agreement, UNCHANGED <<link, queue, ind, phone, stale>>,
         hfp'.st # "idle" <=> hfp.st # "idle", query'.ph = "done" => query' = query
  PROVE  Agreement'
BY DEF Agreement

\* An event that is no report was taken, and there is a call exactly if there was one.
LEMMA AgreementTaken ==
  ASSUME Types, Agreement, queue # <<>>, queue' = Tail(queue), UNCHANGED <<link, phone>>,
         ~stale' => ~stale,
         \A k \in {"call", "callsetup"} :
            ind'[k] = IF Head(queue).k = k THEN Head(queue).v ELSE ind[k],
         ~stale' /\ link \in {"cmer", "live"} /\ ~Reported(Tail(queue))
            => /\ hfp'.st # "idle" <=> HasCall(phone)
               /\ query'.ph = "done" => (query'.entry.st # "idle" <=> HasCall(phone))
  PROVE  Agreement'
<1>1. queue \in Seq(Event)
  BY DEF Types
<1>2. ASSUME link \in {"cmer", "live"}, ~stale
      PROVE  /\ ToldLast("call", Tail(queue), ind', phone)
             /\ ToldLast("callsetup", Tail(queue), ind', phone)
             /\ InOrder(Tail(queue), phone)
  <2>1. ToldLast("call", queue, ind, phone) /\ ToldLast("callsetup", queue, ind, phone)
        /\ InOrder(queue, phone)
    BY <1>2 DEF Agreement
  <2>2. /\ ind'["call"] = IF Head(queue).k = "call" THEN Head(queue).v ELSE ind["call"]
        /\ ind'["callsetup"] = IF Head(queue).k = "callsetup" THEN Head(queue).v
                               ELSE ind["callsetup"]
    OBVIOUS
  <2>3. ToldLast("call", Tail(queue), ind', phone)
    BY <1>1, <2>1, <2>2, ToldLastTaken
  <2>4. ToldLast("callsetup", Tail(queue), ind', phone)
    BY <1>1, <2>1, <2>2, ToldLastTaken
  <2>5. InOrder(Tail(queue), phone)
    BY <1>1, <2>1, InOrderTaken
  <2> QED
    BY <2>3, <2>4, <2>5
<1>3. phone' = phone /\ queue' = Tail(queue) /\ link' = link
  OBVIOUS
<1> QED
  BY <1>2, <1>3 DEF Agreement

LEMMA TersenessStays ==
  ASSUME Terse, UNCHANGED <<link, queue, query>>,
         inbox' = inbox \/ inbox'.op # "list"
  PROVE  Terse'
BY DEF Terse

-----------------------------------------------------------------------------
(* The phone's steps *)

LEMMA PhoneTypes ==
  ASSUME Types, NEW r, PhoneSays(r)
  PROVE  Types'
<1>1. r \in Seq(Event) /\ queue' = queue \o r /\ queue \in Seq(Event)
  BY DEF PhoneSays, Types
<1>2. queue' \in Seq(Event)
  BY <1>1, ConcatProperties
<1>3. inbox' \in InboxType
  BY DEF PhoneSays, Types, InboxType, NoCommand, Num
<1>4. /\ UNCHANGED <<hfp, ind, info, link, quarantine, ctl, waiters, dial, intent, query,
                     bound, truth>>
      /\ phone' \in [1..bound.calls -> CallType] /\ stale' \in BOOLEAN
  BY DEF PhoneSays, Quiet
<1> QED
  BY <1>2, <1>3, <1>4 DEF Types, CtlType

LEMMA PhoneAnswered ==
  ASSUME Types, Unanswered, NEW r, PhoneSays(r)
  PROVE  Unanswered'
<1>1. r \in Seq(Event) /\ queue' = queue \o r /\ queue \in Seq(Event)
  BY DEF PhoneSays, Types
<1>2. UNCHANGED <<ctl, query, quarantine>>
  BY DEF PhoneSays, Quiet
<1>3. \A i \in DOMAIN queue' : \/ i \in DOMAIN queue /\ queue'[i] = queue[i]
                               \/ \E j \in DOMAIN r : i = Len(queue) + j /\ queue'[i] = r[j]
  BY <1>1, Members
<1>4. CASE inbox' = inbox /\ \A i \in DOMAIN r : ~Answer(r[i])
  <2>1. \A i \in DOMAIN queue' : Answer(queue'[i]) => i \in DOMAIN queue /\ queue'[i] = queue[i]
    BY <1>3, <1>4
  <2>2. \A i \in DOMAIN queue' : ToolAnswer(queue'[i]) \/ ListAnswer(queue'[i])
                                   => Answer(queue'[i])
    BY DEF Answer
  <2> QED
    BY <1>2, <1>4, <2>1, <2>2 DEF Unanswered
<1>5. CASE inbox' # inbox \/ \E i \in DOMAIN r : Answer(r[i])
  <2>1. /\ inbox.op # "none" /\ inbox' = NoCommand
        /\ \A i, j \in DOMAIN r : Answer(r[i]) /\ Answer(r[j]) => i = j
        /\ \A i \in DOMAIN r : Answer(r[i]) => (ListAnswer(r[i]) <=> inbox.op = "list")
    BY <1>5 DEF PhoneSays
  <2>2. \A i \in DOMAIN queue : ~Answer(queue[i])
    BY <2>1 DEF Unanswered
  <2>3. \A i \in DOMAIN queue' : Answer(queue'[i]) =>
           \E j \in DOMAIN r : i = Len(queue) + j /\ queue'[i] = r[j]
    BY <1>3, <2>2
  <2>4. \A i, j \in DOMAIN queue' : Answer(queue'[i]) /\ Answer(queue'[j]) => i = j
    BY <2>1, <2>3
  <2>5. ASSUME ~quarantine, NEW i \in DOMAIN queue'
        PROVE  /\ ToolAnswer(queue'[i]) => ctl.ph = "sent"
               /\ ListAnswer(queue'[i]) => query.ph = "sent"
    <3>1. ASSUME Answer(queue'[i])
          PROVE  ListAnswer(queue'[i]) <=> inbox.op = "list"
      BY <2>1, <2>3, <3>1
    <3>2. ~(ToolAnswer(queue'[i]) /\ ListAnswer(queue'[i]))
      BY DEF ToolAnswer, ListAnswer
    <3> QED
      BY <2>1, <2>5, <3>1, <3>2 DEF Unanswered, Answer
  <2>6. inbox'.op = "none"
    BY <2>1 DEF NoCommand
  <2> QED
    BY <1>2, <2>4, <2>5, <2>6 DEF Unanswered
<1> QED
  BY <1>4, <1>5

LEMMA PhoneTellsOfDial ==
  ASSUME Types, Unanswered, DialTold, NEW r, PhoneSays(r)
  PROVE  DialTold'
<1>1. r \in Seq(Event) /\ queue' = queue \o r /\ queue \in Seq(Event)
  BY DEF PhoneSays, Types
<1>2. UNCHANGED <<hfp, link, ctl, quarantine>>
  BY DEF PhoneSays, Quiet
<1>3. /\ \A i \in DOMAIN queue' : \/ i \in DOMAIN queue /\ queue'[i] = queue[i]
                                  \/ \E j \in DOMAIN r : i = Len(queue) + j /\ queue'[i] = r[j]
      /\ \A j \in DOMAIN queue : \E i \in DOMAIN queue' : queue'[i] = queue[j]
      /\ \A j \in DOMAIN r : \E i \in DOMAIN queue' : queue'[i] = r[j]
  BY <1>1, Members
<1>4. SetupTold => SetupTold'
  BY <1>3 DEF SetupTold
<1>5. ASSUME ctl.op = "dial", ctl.ph = "sent", ~quarantine, link = "live",
             \E j \in DOMAIN r : r[j].k = "ok"
      PROVE  SetupTold'
  <2>1. \E j \in DOMAIN r : Answer(r[j]) /\ ~ListAnswer(r[j])
    BY <1>5 DEF Answer, ToolAnswer, ListAnswer
  <2>2. /\ inbox.op # "none" /\ inbox.op # "list"
        /\ link = "live" /\ inbox.op = "dial" /\ (\E i \in DOMAIN r : r[i].k = "ok")
             => \E i \in DOMAIN r : r[i].k = "callsetup" /\ r[i].v = 2
    BY <2>1 DEF PhoneSays
  <2>3. inbox.op = "dial"
    BY <1>5, <2>2 DEF Unanswered
  <2> QED
    BY <1>3, <1>5, <2>2, <2>3 DEF SetupTold
<1>6. ctl.ph = "ok" \/ (\E i \in DOMAIN queue : queue[i].k = "ok")
         \/ (\E j \in DOMAIN r : r[j].k = "ok") \/ ~Accepted'
  BY <1>2, <1>3 DEF Accepted
<1>7. ASSUME ctl.op = "dial", Accepted', link = "live", TransitionAllowed(hfp, ctl, {"idle"})
      PROVE  SetupTold'
  <2>1. CASE Accepted
    BY <1>4, <1>7, <2>1 DEF DialTold
  <2>2. CASE ~Accepted
    BY <1>2, <1>5, <1>6, <1>7, <2>2 DEF Accepted
  <2> QED
    BY <2>1, <2>2
<1> QED
  BY <1>2, <1>7 DEF DialTold

LEMMA PhoneAgrees ==
  ASSUME Types, Terse, Agreement, NEW r, PhoneSays(r)
  PROVE  Agreement'
<1>1. r \in Seq(Event) /\ queue' = queue \o r /\ queue \in Seq(Event)
  BY DEF PhoneSays, Types
<1>2. UNCHANGED <<hfp, link, ind, query>>
  BY DEF PhoneSays, Quiet
<1>3. ASSUME link \in {"cmer", "live"}, ~stale'
      PROVE  Tells(r, phone, phone')
  <2>1. CASE link = "live"
    BY <2>1 DEF PhoneSays
  <2>2. CASE link = "cmer"
    <3>1. phone' = phone /\ \A i \in DOMAIN r : r[i].k \in {"ok", "error"}
      BY <1>3, <2>2 DEF PhoneSays, ToolAnswer
    <3> QED
      BY <1>1, <3>1 DEF Tells, Speaks, IsReport
  <2> QED
    BY <1>3, <2>1, <2>2
<1>4. \A i \in DOMAIN queue : \E j \in DOMAIN queue' : queue'[j] = queue[i]
  BY <1>1, Members
<1>5. \A i \in DOMAIN r : \E j \in DOMAIN queue' : queue'[j] = r[i]
  BY <1>1, Members
<1>6. ~stale' => ~stale
  BY DEF PhoneSays
<1>7. ASSUME link \in {"cmer", "live"}, ~stale'
      PROVE  /\ ToldLast("call", queue', ind, phone')
             /\ ToldLast("callsetup", queue', ind, phone')
             /\ InOrder(queue', phone')
             /\ ~Reported(queue') =>
                  /\ hfp.st # "idle" <=> HasCall(phone')
                  /\ query.ph = "done" => (query.entry.st # "idle" <=> HasCall(phone'))
  <2>1. /\ ToldLast("call", queue, ind, phone) /\ ToldLast("callsetup", queue, ind, phone)
        /\ InOrder(queue, phone)
        /\ ~Reported(queue) =>
             /\ hfp.st # "idle" <=> HasCall(phone)
             /\ query.ph = "done" => (query.entry.st # "idle" <=> HasCall(phone))
    BY <1>6, <1>7 DEF Agreement
  <2>2. Tells(r, phone, phone')
    BY <1>3, <1>7
  <2>3. ToldLast("call", queue \o r, ind, phone')
    BY <1>1, <2>1, <2>2, ToldLastGrows
  <2>4. ToldLast("callsetup", queue \o r, ind, phone')
    BY <1>1, <2>1, <2>2, ToldLastGrows
  <2>5. InOrder(queue \o r, phone')
    BY <1>1, <2>1, <2>2, InOrderGrows
  <2>6. ~Reported(queue') => ~Reported(queue) /\ ~Reported(r)
    BY <1>4, <1>5 DEF Reported
  <2>7. ~Reported(r) => (HasCall(phone') <=> HasCall(phone))
    BY <2>2, SameReading
  <2> QED
    BY <1>1, <2>1, <2>3, <2>4, <2>5, <2>6, <2>7
<1> QED
  BY <1>2, <1>7 DEF Agreement

LEMMA PhoneStep ==
  ASSUME IInv, Phone
  PROVE  IInv'
<1>1. PICK r : PhoneSays(r)
  BY PhoneSpeaks DEF IInv
<1>2. UNCHANGED <<hfp, link, ctl, query>>
  BY <1>1 DEF PhoneSays, Quiet
<1>3. Types' /\ Unanswered' /\ DialTold' /\ Agreement'
  BY <1>1, PhoneTypes, PhoneAnswered, PhoneTellsOfDial, PhoneAgrees DEF IInv
<1>4. Pending' /\ Observed'
  BY <1>2 DEF IInv, Pending, Observed
<1>5. Terse'
  <2>1. r \in Seq(Event) /\ queue' = queue \o r /\ queue \in Seq(Event)
    BY <1>1 DEF PhoneSays, Types, IInv
  <2>2. \A i \in DOMAIN queue' : \/ i \in DOMAIN queue /\ queue'[i] = queue[i]
                                 \/ \E j \in DOMAIN r : i = Len(queue) + j /\ queue'[i] = r[j]
    BY <2>1, Members
  <2>3. link # "live" => /\ \A i \in DOMAIN r : r[i].k \in {"ok", "error"}
                         /\ inbox'.op \in {inbox.op, "none"}
    BY <1>1 DEF PhoneSays, ToolAnswer, NoCommand
  <2> QED
    BY <1>2, <2>2, <2>3 DEF IInv, Terse
<1> QED
  BY <1>3, <1>4, <1>5 DEF IInv

-----------------------------------------------------------------------------
(* Connections *)

LEMMA Empty ==
  /\ IdleCtl.op = "none" /\ IdleCtl.ph = "free" /\ IdleCtl.st = "idle"
  /\ IdleCtl.gen = 0 /\ IdleCtl.cgen = 0 /\ IdleCtl.id = 0
  /\ NoQuery.ph = "none" /\ NoQuery \in QueryType
  /\ NoInfo \in InfoType /\ NoCommand.op = "none" /\ NoCommand \in InboxType
BY DEF IdleCtl, NoQuery, QueryType, Entries, NoInfo, InfoType, NoCommand, InboxType, Num

LEMMA RetiredTyped ==
  ASSUME Types, Observed, ctl' = Retired(ctl)
  PROVE  /\ ctl' \in CtlType'
         /\ ctl'.op = ctl.op /\ ctl'.who = ctl.who /\ ctl'.gen = ctl.gen /\ ctl'.id = ctl.id
         /\ ctl'.cgen = ctl.cgen /\ ctl'.st = ctl.st
         /\ ctl'.ph # "sent" /\ (ctl'.ph = "free" <=> ctl.ph = "free")
<1>1. ctl \in CtlType
  BY DEF Types
<1>2. PICK x \in {"free", "prepared", "sent", "ok", "failed", "timeout"} :
        /\ ctl' = [ctl EXCEPT !.ph = x]
        /\ x # "sent" /\ (x = "free" <=> ctl.ph = "free")
  <2>1. CASE ctl.ph = "sent"
    BY <2>1 DEF Retired
  <2>2. CASE ctl.ph = "prepared"
    BY <2>2 DEF Retired
  <2>3. CASE ctl.ph \notin {"sent", "prepared"}
    <3>1. ctl' = [ctl EXCEPT !.ph = ctl.ph]
      BY <1>1, <2>3 DEF Retired, CtlType
    <3> QED
      BY <1>1, <2>3, <3>1 DEF CtlType
  <2> QED
    BY <2>1, <2>2, <2>3
<1> QED
  BY <1>1, <1>2 DEF CtlType

LEMMA RetiredAnswered ==
  ASSUME Types, Observed, Unanswered, RetireContext, quarantine' \in BOOLEAN
  PROVE  Unanswered' /\ queue' = <<>> /\ query'.ph = "none" /\ inbox'.op = "none"
<1>1. /\ queue' = <<>> /\ query'.ph = "none" /\ inbox'.op = "none" /\ ctl' = Retired(ctl)
      /\ DOMAIN queue' = {}
  BY Empty DEF RetireContext
<1>2. ctl'.ph # "sent"
  BY <1>1, RetiredTyped
<1> QED
  BY <1>1, <1>2 DEF Unanswered

LEMMA ConnectStep ==
  ASSUME IInv, Connect
  PROVE  IInv'
<1> USE DEF IInv
<1>1. /\ RetireContext /\ link' = "cind" /\ info' = NoInfo /\ quarantine' = FALSE
      /\ hfp' = [hfp EXCEPT !.gen = @ + 1, !.conn = "handshaking"]
      /\ UNCHANGED <<ind, waiters, dial, intent, bound, phone, truth, stale>>
  BY DEF Connect
<1>2. /\ hfp \in HfpType /\ hfp.gen \in Nat /\ ctl.gen \in Nat /\ ctl.cgen \in Nat
      /\ hfp' \in HfpType /\ hfp'.gen = hfp.gen + 1 /\ hfp'.cgen = hfp.cgen
      /\ hfp'.conn = "handshaking" /\ hfp'.st = hfp.st /\ hfp'.id = hfp.id /\ hfp'.src = hfp.src
  <2>1. hfp \in HfpType /\ ctl \in CtlType
    BY DEF Types
  <2>2. ctl.gen \in Nat /\ ctl.cgen \in Nat /\ hfp.gen \in Nat
    BY <2>1 DEF CtlType, HfpType
  <2>3. hfp' = [hfp EXCEPT !.gen = hfp.gen + 1, !.conn = "handshaking"] /\ hfp.gen + 1 \in Nat
    BY <1>1, <2>2
  <2>4. hfp' \in HfpType
    BY <2>1, <2>3 DEF HfpType
  <2>5. /\ hfp'.gen = hfp.gen + 1 /\ hfp'.cgen = hfp.cgen
        /\ hfp'.conn = "handshaking" /\ hfp'.st = hfp.st /\ hfp'.id = hfp.id /\ hfp'.src = hfp.src
    BY <2>1, <2>3 DEF HfpType
  <2> QED
    BY <2>1, <2>2, <2>4, <2>5
<1>3. ctl' = Retired(ctl) /\ queue' = <<>> /\ query' = NoQuery /\ inbox' = NoCommand
  BY <1>1 DEF RetireContext, NoCommand
<1>4. /\ ctl' \in CtlType'
      /\ ctl'.op = ctl.op /\ ctl'.who = ctl.who /\ ctl'.gen = ctl.gen
      /\ ctl'.cgen = ctl.cgen /\ ctl'.st = ctl.st /\ (ctl'.ph = "free" <=> ctl.ph = "free")
  BY <1>3, RetiredTyped
<1>5. Types'
  BY <1>1, <1>2, <1>3, <1>4, Empty, Nothing DEF Types
<1>6. Unanswered' /\ Terse'
  BY <1>1, <1>3, Nothing, RetiredAnswered, Empty DEF Terse
<1>7. Pending' /\ Observed'
  <2>1. ctl.gen <= hfp.gen /\ ~(ctl.gen = hfp.gen + 1) /\ ctl.gen <= hfp.gen + 1
    BY <1>2 DEF Observed
  <2> QED
    BY <1>1, <1>2, <1>4, <2>1 DEF Pending, Observed
<1>8. DialTold' /\ Agreement'
  BY <1>1 DEF DialTold, Agreement
<1> QED
  BY <1>5, <1>6, <1>7, <1>8

LEMMA DisconnectStep ==
  ASSUME IInv, Disconnect
  PROVE  IInv'
<1> USE DEF IInv
<1>1. /\ RetireContext /\ link' = "none" /\ info' = NoInfo /\ truth' = Nobody
      /\ hfp' = [Override(hfp, NoCall) EXCEPT !.conn = "disconnected"]
      /\ ind' = [call |-> 0, callsetup |-> 0]
      /\ UNCHANGED <<quarantine, waiters, dial, intent, bound, phone, stale>>
  BY DEF Disconnect
<1>2. /\ ctl.gen \in Nat /\ ctl.cgen \in Nat /\ ind' \in IndType
      /\ hfp' \in HfpType /\ hfp'.gen = hfp.gen /\ hfp'.cgen = hfp.cgen
      /\ hfp'.conn = "disconnected" /\ hfp'.st = "idle" /\ hfp'.id = 0 /\ hfp'.src = "none"
  <2>1. hfp \in HfpType /\ ctl \in CtlType
    BY DEF Types
  <2>2. ctl.gen \in Nat /\ ctl.cgen \in Nat /\ ind' \in IndType
    BY <1>1, <2>1 DEF CtlType, IndType
  <2>3. /\ NoCall.st \in CallStates /\ NoCall.dir \in {"unknown", "incoming", "outgoing"}
        /\ NoCall.id \in Nat /\ NoCall.num \in Num /\ NoCall.src \in Sources
        /\ NoCall.st = "idle" /\ NoCall.id = 0 /\ NoCall.src = "none"
    BY DEF NoCall, CallStates, Sources, Num
  <2> QED
    BY <1>1, <2>1, <2>2, <2>3 DEF HfpType, Override
<1>3. ctl' = Retired(ctl) /\ queue' = <<>> /\ query' = NoQuery /\ inbox' = NoCommand
  BY <1>1 DEF RetireContext, NoCommand
<1>4. /\ ctl' \in CtlType'
      /\ ctl'.op = ctl.op /\ ctl'.who = ctl.who /\ ctl'.gen = ctl.gen
      /\ ctl'.cgen = ctl.cgen /\ ctl'.st = ctl.st /\ (ctl'.ph = "free" <=> ctl.ph = "free")
  BY <1>3, RetiredTyped
<1>5. Types'
  BY <1>1, <1>2, <1>3, <1>4, Empty, Nothing DEF Types, Num
<1>6. Unanswered' /\ Terse'
  <2>1. quarantine' \in BOOLEAN
    BY <1>1 DEF Types
  <2> QED
    BY <1>1, <1>3, <2>1, Nothing, RetiredAnswered, Empty DEF Terse
<1>7. Pending' /\ Observed'
  BY <1>1, <1>2, <1>4 DEF Pending, Observed
<1>8. DialTold' /\ Agreement'
  BY <1>1 DEF DialTold, Agreement
<1> QED
  BY <1>5, <1>6, <1>7, <1>8

LEMMA ReadStep ==
  ASSUME IInv, ReadIndicators
  PROVE  IInv'
<1> USE DEF IInv
<1> DEFINE call == CallInd(phone)
           setup == SetupInd(phone)
           to == CASE setup = 1 -> "incoming" [] setup = 2 -> "dialing"
                   [] setup = 3 -> "ringing" [] setup = 0 /\ call = 1 -> "active"
                   [] OTHER -> "idle"
           first == CHOOSE p \in Live(phone) : InSetup(phone) = {} \/ p \in InSetup(phone)
<1>1. /\ link = "cind" /\ link' = "cmer" /\ ind' = [call |-> call, callsetup |-> setup]
      /\ hfp' = SetCallState(hfp, to, "none")
      /\ truth' = IF to = "idle" THEN Nobody ELSE phone[first].num
      /\ UNCHANGED <<info, queue, quarantine, ctl, waiters, dial, intent, query, bound,
                     phone, inbox, stale>>
  BY DEF ReadIndicators
<1>2. call \in 0..1 /\ setup \in 0..3 /\ (HasCall(phone) <=> call # 0 \/ setup # 0)
      /\ Reading(phone)["call"] = call /\ Reading(phone)["callsetup"] = setup
  BY ReadingTyped, ReadingShows
<1>3. to \in CallStates /\ (to # "idle" <=> call # 0 \/ setup # 0)
  BY <1>2 DEF CallStates
<1>4. ASSUME to # "idle" PROVE phone[first].num \in Num
  <2>1. Live(phone) # {}
    BY <1>2, <1>3, <1>4 DEF HasCall
  <2>2. \E p \in Live(phone) : InSetup(phone) = {} \/ p \in InSetup(phone)
    BY <2>1 DEF InSetup
  <2>3. first \in DOMAIN phone
    BY <2>2 DEF Live
  <2> HIDE DEF first
  <2> QED
    BY <2>3 DEF Types, CallType
<1> HIDE DEF call, setup, to, first
<1>5. Sound(hfp)
  BY CallStays
<1>6. Moves(hfp, hfp') /\ hfp'.st = to
  BY <1>1, <1>3, <1>5, SetCallStateMoves
<1>7. ind' \in IndType /\ ind'["call"] = call /\ ind'["callsetup"] = setup
  BY <1>1, <1>2 DEF IndType
<1>8. Types'
  <2>1. hfp' \in HfpType
    BY <1>6 DEF Moves, Sound
  <2>2. truth' \in Num
    BY <1>1, <1>4 DEF Num
  <2> QED
    BY <1>1, <1>7, <2>1, <2>2 DEF Types, CtlType
<1>9. Pending' /\ Observed'
  <2>1. ctl.gen \in Nat /\ hfp.gen \in Nat /\ hfp.cgen \in Nat /\ ctl.cgen \in Nat
    BY DEF Types, HfpType, CtlType
  <2>2. hfp'.conn = hfp.conn /\ hfp'.gen = hfp.gen
    BY <1>6 DEF Moves
  <2>3. ctl.op = "dial" => ctl.gen # hfp.gen
    BY <1>1 DEF Observed
  <2>4. hfp'.cgen = IF hfp.st = "idle" /\ hfp'.st # "idle" THEN hfp.cgen + 1 ELSE hfp.cgen
    BY <1>6 DEF Moves
  <2>5. ctl.cgen <= hfp'.cgen /\ (ctl.op = "dial" /\ ctl.cgen = hfp'.cgen => hfp'.st = "idle")
    BY <2>1, <2>4 DEF Observed
  <2>6. Pending'
    BY <1>6 DEF Moves, Sound, Pending
  <2> QED
    BY <1>1, <2>2, <2>3, <2>5, <2>6 DEF Observed
<1>10. Terse' /\ Unanswered' /\ DialTold'
  BY <1>1 DEF Terse, Unanswered, DialTold
<1>11. Agreement'
  <2>1. \A i \in DOMAIN queue : queue[i].k \in {"ok", "error"}
    BY <1>1 DEF Terse
  <2>2. ToldLast("call", queue, ind', phone) /\ ToldLast("callsetup", queue, ind', phone)
    BY <1>2, <1>7, <2>1 DEF ToldLast
  <2>3. InOrder(queue, phone)
    BY <2>1 DEF InOrder
  <2>4. query.ph = "none"
    BY <1>1 DEF Terse
  <2> QED
    BY <1>1, <1>2, <1>3, <1>6, <2>2, <2>3, <2>4 DEF Agreement
<1> QED
  BY <1>8, <1>9, <1>10, <1>11

LEMMA EnableStep ==
  ASSUME IInv, EnableReports
  PROVE  IInv'
<1> USE DEF IInv
<1>1. /\ link = "cmer" /\ link' = "live" /\ ~BrokerBusy
      /\ hfp' = [hfp EXCEPT !.conn = "connected"] /\ query' = [NoQuery EXCEPT !.ph = "ready"]
      /\ UNCHANGED <<ind, info, queue, quarantine, ctl, waiters, dial, intent, bound, phone,
                     inbox, truth, stale>>
  BY DEF EnableReports
<1>2. /\ hfp' \in HfpType /\ hfp'.gen = hfp.gen /\ hfp'.cgen = hfp.cgen
      /\ hfp'.conn = "connected" /\ hfp'.st = hfp.st /\ hfp'.id = hfp.id /\ hfp'.src = hfp.src
  BY <1>1 DEF Types, HfpType
<1>3. query' \in QueryType /\ query'.ph = "ready"
  BY <1>1 DEF NoQuery, QueryType, Entries
<1>4. Types'
  BY <1>1, <1>2, <1>3 DEF Types, CtlType
<1>5. Pending' /\ Observed' /\ Terse'
  BY <1>1, <1>2 DEF Pending, Observed, Terse
<1>6. Unanswered'
  <2>1. /\ \A i \in DOMAIN queue : queue[i].k \in {"ok", "error"}
        /\ inbox.op # "list" /\ query.ph = "none"
    BY <1>1 DEF Terse
  <2> QED
    BY <1>1, <1>3, <2>1 DEF Unanswered, ListAnswer
<1>7. DialTold'
  <2>1. ctl.op = "dial" => ctl.gen # hfp.gen
    BY <1>1 DEF Observed
  <2> QED
    BY <1>1, <1>2, <2>1 DEF DialTold, TransitionAllowed
<1>8. Agreement'
  BY <1>1, <1>2, <1>3 DEF Agreement
<1> QED
  BY <1>4, <1>5, <1>6, <1>7, <1>8

-----------------------------------------------------------------------------
(* AT commands of the tools *)

\* The command in progress goes on to x, or stays.
GoesOn(c, x) == c.ph # "free" /\ x \in {"prepared", "sent", "ok", "failed", "timeout"}
                /\ ctl' = [c EXCEPT !.ph = x]

LEMMA CommandGoesOn ==
  ASSUME ctl \in CtlType, NEW x, GoesOn(ctl, x)
  PROVE  /\ ctl' \in CtlType' /\ ctl'.ph = x /\ ctl'.ph # "free"
         /\ ctl'.op = ctl.op /\ ctl'.who = ctl.who /\ ctl'.gen = ctl.gen
         /\ ctl'.cgen = ctl.cgen /\ ctl'.id = ctl.id /\ ctl'.st = ctl.st
BY DEF GoesOn, CtlType

\* A step of a command changes nothing else.
LEMMA CommandStays ==
  ASSUME IInv, NEW x, GoesOn(ctl, x) \/ ctl' = ctl,
         UNCHANGED <<hfp, ind, info, link, queue, waiters, dial, intent, bound, phone, truth,
                     stale>>,
         query' \in QueryType, inbox' \in InboxType, quarantine' \in BOOLEAN,
         query'.ph = "done" => query' = query, Terse', Unanswered', DialTold'
  PROVE  IInv'
<1> USE DEF IInv
<1>1. ctl \in CtlType
  BY DEF Types
<1>2. /\ ctl' \in CtlType' /\ ctl'.op = ctl.op /\ ctl'.who = ctl.who /\ ctl'.gen = ctl.gen
      /\ ctl'.cgen = ctl.cgen /\ ctl'.st = ctl.st /\ (ctl'.ph = "free" <=> ctl.ph = "free")
  <2>1. CASE GoesOn(ctl, x)
    BY <1>1, <2>1, CommandGoesOn DEF GoesOn
  <2>2. CASE ctl' = ctl
    BY <1>1, <2>2 DEF CtlType
  <2> QED
    BY <2>1, <2>2
<1>3. Types'
  BY <1>2 DEF Types
<1>4. Pending' /\ Observed'
  BY <1>2 DEF Pending, Observed
<1>5. Agreement'
  BY AgreementStays
<1> QED
  BY <1>3, <1>4, <1>5

LEMMA SendStep ==
  ASSUME IInv, SendCommand
  PROVE  IInv'
<1> USE DEF IInv
<1>1. /\ ctl.ph = "prepared" /\ ~BrokerBusy
      /\ \/ quarantine /\ GoesOn(ctl, "failed") /\ UNCHANGED inbox
         \/ /\ ~quarantine /\ GoesOn(ctl, "sent")
            /\ inbox' = [op |-> ctl.op, num |-> IF ctl.op = "dial" THEN Target[ctl.who]
                                                ELSE Nobody]
      /\ UNCHANGED <<hfp, ind, info, link, queue, quarantine, waiters, dial, intent, query,
                     bound, phone, truth, stale>>
  BY DEF SendCommand, GoesOn
<1>2. /\ ctl \in CtlType /\ quarantine' \in BOOLEAN /\ query' \in QueryType
      /\ inbox \in InboxType
  BY <1>1 DEF Types
<1>3. ctl.op \in {"dial", "answer", "hangup"} /\ (ctl.op = "dial" => ctl.who \in Dials)
  BY <1>1, <1>2 DEF Observed, CtlType
<1>4. query.ph \notin {"sent", "done"}
  BY <1>1 DEF BrokerBusy
<1>5. CASE quarantine /\ GoesOn(ctl, "failed") /\ UNCHANGED inbox
  <2>1. ctl'.ph = "failed" /\ ctl'.op = ctl.op
    BY <1>2, <1>5, CommandGoesOn
  <2>2. Terse'
    BY <1>1, <1>5, TersenessStays
  <2>3. Unanswered' /\ DialTold'
    BY <1>1, <1>4, <1>5, <2>1 DEF Unanswered, DialTold, Accepted
  <2> QED
    BY <1>1, <1>2, <1>5, <2>2, <2>3, CommandStays
<1>6. CASE ~quarantine /\ GoesOn(ctl, "sent")
           /\ inbox' = [op |-> ctl.op, num |-> IF ctl.op = "dial" THEN Target[ctl.who]
                                                ELSE Nobody]
  <2>1. ctl'.ph = "sent" /\ ctl'.op = ctl.op
    BY <1>2, <1>6, CommandGoesOn
  <2>2. inbox' \in InboxType /\ inbox'.op = ctl.op
    BY <1>3, <1>6, TargetAssumption DEF InboxType, Num
  <2>3. Terse'
    BY <1>1, <1>3, <2>2, TersenessStays
  <2>4. \A i \in DOMAIN queue : ~Answer(queue[i])
    BY <1>1, <1>4, <1>6 DEF Unanswered, Answer
  <2>5. \A i \in DOMAIN queue : queue[i].k # "ok"
    BY <2>4 DEF Answer, ToolAnswer
  <2>6. Unanswered'
    BY <1>1, <1>3, <1>4, <1>6, <2>1, <2>2, <2>4 DEF Unanswered, Answer
  <2>7. DialTold'
    BY <1>1, <2>1, <2>5 DEF DialTold, Accepted
  <2> QED
    BY <1>1, <1>2, <1>6, <2>2, <2>3, <2>6, <2>7, CommandStays
<1> QED
  BY <1>1, <1>5, <1>6

LEMMA SendQueryStep ==
  ASSUME IInv, SendQuery
  PROVE  IInv'
<1> USE DEF IInv
<1>1. /\ query.ph = "ready" /\ link = "live" /\ ~BrokerBusy
      /\ \/ quarantine /\ query' = NoQuery /\ UNCHANGED inbox
         \/ /\ ~quarantine /\ query' = [query EXCEPT !.ph = "sent"]
            /\ inbox' = [op |-> "list", num |-> Nobody]
      /\ UNCHANGED <<hfp, ind, info, link, queue, quarantine, ctl, waiters, dial, intent,
                     bound, phone, truth, stale>>
  BY DEF SendQuery
<1>2. quarantine' \in BOOLEAN /\ query \in QueryType /\ inbox \in InboxType
  BY <1>1 DEF Types
<1>3. ctl.ph \notin {"sent", "ok", "failed", "timeout"}
  BY <1>1 DEF BrokerBusy
<1>4. Terse'
  BY <1>1 DEF Terse
<1>5. DialTold'
  BY <1>1, <1>3 DEF DialTold, Accepted
<1>6. CASE quarantine /\ query' = NoQuery /\ UNCHANGED inbox
  <2>1. query' \in QueryType /\ query'.ph = "none"
    BY <1>6, Empty
  <2>2. Unanswered'
    BY <1>1, <1>6, <2>1 DEF Unanswered
  <2> QED
    BY <1>1, <1>2, <1>4, <1>5, <1>6, <2>1, <2>2, CommandStays
<1>7. CASE ~quarantine /\ query' = [query EXCEPT !.ph = "sent"]
           /\ inbox' = [op |-> "list", num |-> Nobody]
  <2>1. query' \in QueryType /\ query'.ph = "sent"
    BY <1>2, <1>7 DEF QueryType
  <2>2. inbox' \in InboxType /\ inbox'.op = "list"
    BY <1>7 DEF InboxType, Num
  <2>3. \A i \in DOMAIN queue : ~Answer(queue[i])
    BY <1>1, <1>3, <1>7 DEF Unanswered, Answer
  <2>4. Unanswered'
    BY <1>1, <1>3, <1>7, <2>1, <2>2, <2>3 DEF Unanswered, Answer
  <2> QED
    BY <1>1, <1>2, <1>4, <1>5, <2>1, <2>2, <2>4, CommandStays
<1> QED
  BY <1>1, <1>6, <1>7

LEMMA TimeoutStep ==
  ASSUME IInv, CommandTimesOut \/ QueryTimesOut
  PROVE  IInv'
<1> USE DEF IInv
<1>1. /\ UNCHANGED <<hfp, ind, info, link, queue, waiters, dial, intent, bound, phone, inbox,
                     truth, stale>>
      /\ quarantine' = TRUE
      /\ \/ ctl.ph = "sent" /\ ctl' = [ctl EXCEPT !.ph = "timeout"] /\ UNCHANGED query
         \/ query.ph = "sent" /\ query' = NoQuery /\ UNCHANGED ctl
  BY DEF CommandTimesOut, QueryTimesOut
<1>2. quarantine' \in BOOLEAN /\ query \in QueryType /\ inbox' \in InboxType /\ ctl \in CtlType
  BY <1>1 DEF Types
<1>3. CASE ctl.ph = "sent" /\ ctl' = [ctl EXCEPT !.ph = "timeout"] /\ UNCHANGED query
  <2>1. GoesOn(ctl, "timeout")
    BY <1>3 DEF GoesOn
  <2>2. ctl'.ph = "timeout" /\ ctl'.op = ctl.op
    BY <1>2, <2>1, CommandGoesOn
  <2>3. Terse'
    BY <1>1, <1>3, TersenessStays
  <2>4. Unanswered'
    BY <1>1, <1>3, <2>2 DEF Unanswered
  <2>5. DialTold'
    BY <1>1, <2>2 DEF DialTold, Accepted
  <2>6. query' \in QueryType
    BY <1>2, <1>3
  <2> QED
    BY <1>1, <1>2, <1>3, <2>1, <2>3, <2>4, <2>5, <2>6, CommandStays
<1>4. CASE query.ph = "sent" /\ query' = NoQuery /\ UNCHANGED ctl
  <2>1. query' \in QueryType /\ query'.ph = "none"
    BY <1>4, Empty
  <2>2. ctl.ph \notin {"sent", "ok"}
    BY <1>4 DEF Unanswered
  <2>3. Terse'
    BY <1>1, <2>1 DEF Terse
  <2>4. Unanswered' /\ DialTold'
    BY <1>1, <1>4, <2>1, <2>2 DEF Unanswered, DialTold, Accepted
  <2> QED
    BY <1>1, <1>2, <1>4, <2>1, <2>3, <2>4, CommandStays
<1> QED
  BY <1>1, <1>3, <1>4

LEMMA QuarantineStep ==
  ASSUME IInv, QuarantineExpires
  PROVE  IInv'
<1> USE DEF IInv
<1>1. /\ quarantine /\ inbox.op = "none" /\ quarantine' = FALSE
      /\ \A i \in 1..Len(queue) : queue[i].k \notin {"ok", "error", "listed", "unlisted"}
      /\ UNCHANGED <<hfp, ind, info, link, queue, ctl, waiters, dial, intent, query, bound,
                     phone, inbox, truth, stale>>
  BY DEF QuarantineExpires
<1>2. quarantine' \in BOOLEAN /\ query' \in QueryType /\ inbox' \in InboxType
      /\ queue \in Seq(Event)
  BY <1>1 DEF Types
<1>3. \A i \in DOMAIN queue : ~ToolAnswer(queue[i]) /\ ~ListAnswer(queue[i])
                              /\ queue[i].k # "ok"
  <2>1. DOMAIN queue = 1..Len(queue)
    BY <1>2
  <2> QED
    BY <1>1, <2>1 DEF ToolAnswer, ListAnswer
<1>4. Terse'
  BY <1>1, TersenessStays
<1>5. Unanswered' /\ DialTold'
  <2>1. Unanswered'
    BY <1>1, <1>3 DEF Unanswered, Answer
  <2>2. Accepted' => Accepted
    BY <1>1, <1>3 DEF Accepted
  <2>3. SetupTold' <=> SetupTold
    BY <1>1 DEF SetupTold
  <2> QED
    BY <1>1, <2>1, <2>2, <2>3 DEF DialTold
<1> QED
  BY <1>1, <1>2, <1>4, <1>5, CommandStays

LEMMA LostStep ==
  ASSUME IInv, CommandLost
  PROVE  IInv'
<1> USE DEF IInv
<1>1. /\ inbox' = NoCommand
      /\ UNCHANGED <<hfp, ind, info, link, queue, quarantine, ctl, waiters, dial, intent, query,
                     bound, phone, truth, stale>>
  BY DEF CommandLost, NoCommand
<1>2. quarantine' \in BOOLEAN /\ query' \in QueryType /\ inbox' \in InboxType
      /\ inbox'.op = "none"
  BY <1>1, Empty DEF Types
<1>3. Terse'
  BY <1>1, <1>2, TersenessStays
<1>4. Unanswered' /\ DialTold'
  BY <1>1, <1>2 DEF Unanswered, DialTold, SetupTold, Accepted, TransitionAllowed
<1> QED
  BY <1>1, <1>2, <1>3, <1>4, CommandStays

-----------------------------------------------------------------------------
(* The dispatcher *)

LEMMA AnswersTaken ==
  ASSUME queue \in Seq(Event), queue # <<>>, queue' = Tail(queue), Unanswered
  PROVE  /\ \A i \in DOMAIN queue' : \E j \in DOMAIN queue : queue'[i] = queue[j]
         /\ \A i, j \in DOMAIN queue' : Answer(queue'[i]) /\ Answer(queue'[j]) => i = j
         /\ Answer(Head(queue)) => \A i \in DOMAIN queue' : ~Answer(queue'[i])
         /\ Answer(Head(queue)) => inbox.op = "none"
         /\ inbox.op # "none" => \A i \in DOMAIN queue' : ~Answer(queue'[i])
<1>1. \A i \in DOMAIN queue' : \E j \in DOMAIN queue : j > 1 /\ j = i + 1 /\ queue'[i] = queue[j]
  BY TailMembers
<1>2. /\ Head(queue) = queue[1] /\ 1 \in DOMAIN queue
      /\ DOMAIN queue \subseteq Nat /\ DOMAIN queue' \subseteq Nat
  BY Taken
<1>3. \A i, j \in DOMAIN queue : Answer(queue[i]) /\ Answer(queue[j]) => i = j
  BY DEF Unanswered
<1>4. ASSUME NEW i \in DOMAIN queue', NEW j \in DOMAIN queue',
             Answer(queue'[i]), Answer(queue'[j])
      PROVE  i = j
  <2>1. /\ i + 1 \in DOMAIN queue /\ queue'[i] = queue[i + 1]
        /\ j + 1 \in DOMAIN queue /\ queue'[j] = queue[j + 1]
    BY <1>1
  <2>2. i + 1 = j + 1
    BY <1>3, <1>4, <2>1
  <2> QED
    BY <1>2, <2>2
<1>5. ASSUME Answer(Head(queue)), NEW i \in DOMAIN queue' PROVE ~Answer(queue'[i])
  <2>1. PICK j \in DOMAIN queue : j > 1 /\ queue'[i] = queue[j]
    BY <1>1
  <2>2. j # 1
    BY <1>2, <2>1
  <2> QED
    BY <1>2, <1>3, <1>5, <2>1, <2>2
<1>6. inbox.op # "none" => \A i \in DOMAIN queue : ~Answer(queue[i])
  BY DEF Unanswered
<1> QED
  BY <1>1, <1>2, <1>4, <1>5, <1>6

\* What a round of the dispatcher leaves as it was.
LEMMA DispatchStays ==
  ASSUME IInv, queue # <<>>, link = "live", queue' = Tail(queue),
         UNCHANGED <<link, waiters, dial, intent, bound, phone, inbox>>,
         NEW x, GoesOn(ctl, x) \/ ctl' = ctl,
         Moves(hfp, hfp'), ind' \in IndType, info' \in InfoType, truth' \in Num,
         stale' \in BOOLEAN, query' \in QueryType, quarantine' \in BOOLEAN,
         Unanswered', Agreement', Accepted' => Accepted,
         hfp'.st = "idle" => ~(Head(queue).k = "callsetup" /\ Head(queue).v = 2)
  PROVE  IInv'
<1> USE DEF IInv
<1>1. ctl \in CtlType /\ queue \in Seq(Event)
  BY DEF Types
<1>2. /\ ctl' \in CtlType' /\ ctl'.op = ctl.op /\ ctl'.who = ctl.who /\ ctl'.gen = ctl.gen
      /\ ctl'.cgen = ctl.cgen /\ ctl'.id = ctl.id /\ ctl'.st = ctl.st
      /\ (ctl'.ph = "free" <=> ctl.ph = "free")
  <2>1. CASE GoesOn(ctl, x)
    BY <1>1, <2>1, CommandGoesOn DEF GoesOn
  <2>2. CASE ctl' = ctl
    BY <1>1, <2>2 DEF CtlType
  <2> QED
    BY <2>1, <2>2
<1>3. Types'
  <2>1. hfp' \in HfpType
    BY DEF Moves, Sound
  <2>2. queue' \in Seq(Event)
    BY <1>1, Taken
  <2> QED
    BY <1>2, <2>1, <2>2 DEF Types
<1>4. ctl'.op = "none" <=> ctl'.ph = "free"
  BY <1>2 DEF Observed
<1>5. /\ Pending' /\ Observed'
      /\ ctl.op = "dial" /\ TransitionAllowed(hfp', ctl', {"idle"})
               => TransitionAllowed(hfp, ctl, {"idle"})
  BY <1>2, <1>4, CallMoves
<1>6. Terse'
  BY DEF Terse
<1>7. ASSUME SetupTold, hfp'.st = "idle" PROVE SetupTold'
  <2>1. PICK j \in DOMAIN queue : queue[j].k = "callsetup" /\ queue[j].v = 2
    BY <1>7 DEF SetupTold
  <2>2. queue[j] # Head(queue)
    BY <1>7, <2>1
  <2>3. \E i \in DOMAIN queue' : queue'[i] = queue[j]
    BY <1>1, <2>2, TailMembers
  <2> QED
    BY <2>1, <2>3 DEF SetupTold
<1>8. DialTold'
  <2>1. TransitionAllowed(hfp', ctl', {"idle"}) => hfp'.st = "idle"
    BY DEF TransitionAllowed
  <2> QED
    BY <1>2, <1>5, <1>7, <2>1 DEF DialTold
<1> QED
  BY <1>3, <1>5, <1>6, <1>8

\* What every round of the dispatcher does.
Round ==
  /\ link = "live" /\ queue # <<>> /\ queue' = Tail(queue)
  /\ stale' = (stale \/ (query'.ph = "done" /\ Head(queue).k \in {"call", "callsetup", "ring"}))
  /\ UNCHANGED <<link, waiters, dial, intent, bound, phone, inbox>>

LEMMA RoundFacts ==
  ASSUME IInv, Round
  PROVE  /\ queue \in Seq(Event) /\ Head(queue) \in Event /\ stale' \in BOOLEAN
         /\ ctl \in CtlType /\ Sound(hfp) /\ Moves(hfp, hfp)
         /\ Reduced.s = hfp /\ Reduced.i = info /\ Reducible(Reduced)
         /\ (~stale' => ~stale)
<1>1. queue \in Seq(Event) /\ ctl \in CtlType /\ info \in InfoType /\ stale \in BOOLEAN
  BY DEF IInv, Types
<1>2. Head(queue) \in Event
  BY <1>1, Taken DEF Round
<1>3. Sound(hfp) /\ Moves(hfp, hfp)
  BY CallStays DEF IInv
<1>4. stale' \in BOOLEAN /\ (~stale' => ~stale)
  BY <1>1 DEF Round
<1>5. Reduced.s = hfp /\ Reduced.i = info
  BY DEF Reduced
<1>6. Reducible(Reduced)
  BY <1>1, <1>3, <1>5 DEF Reducible
<1> QED
  BY <1>1, <1>2, <1>3, <1>4, <1>5, <1>6

\* An event that is no report: the daemon agrees if the event spoke of what is.
LEMMA RoundAgrees ==
  ASSUME IInv, Round, ~IsReport(Head(queue)), ind' = ind,
         ~stale' /\ ~Reported(queue) =>
            \/ hfp'.st # "idle" <=> hfp.st # "idle"
            \/ /\ Head(queue).k = "ring" => hfp'.st # "idle"
               /\ Head(queue).k = "gone" => hfp'.st = "idle"
               /\ Head(queue).k = "listed" => (hfp'.st # "idle" <=> Head(queue).entry.st # "idle")
               /\ Head(queue).k \in {"ring", "gone", "listed"},
         query'.ph = "done" => \/ query' = query
                               \/ Head(queue).k = "listed" /\ query'.entry = Head(queue).entry
  PROVE  Agreement'
<1>1. queue \in Seq(Event) /\ (~stale' => ~stale)
  BY RoundFacts
<1>2. /\ Reported(queue) <=> Reported(Tail(queue))
      /\ ~Reported(Tail(queue)) => Final(queue, 1)
      /\ Head(queue) = queue[1] /\ 1 \in DOMAIN queue
  BY <1>1, TailMembers, Taken DEF Round
<1>3. \A k \in {"call", "callsetup"} :
         ind'[k] = IF Head(queue).k = k THEN Head(queue).v ELSE ind[k]
  BY DEF IsReport
<1>4. ASSUME ~stale', ~Reported(Tail(queue))
      PROVE  /\ hfp'.st # "idle" <=> HasCall(phone)
             /\ query'.ph = "done" => (query'.entry.st # "idle" <=> HasCall(phone))
  <2>1. ~Reported(queue) /\ Final(queue, 1) /\ ~stale
    BY <1>1, <1>2, <1>4
  <2>2. /\ InOrder(queue, phone)
        /\ hfp.st # "idle" <=> HasCall(phone)
        /\ query.ph = "done" => (query.entry.st # "idle" <=> HasCall(phone))
    BY <2>1 DEF IInv, Agreement, Round
  <2>3. /\ Head(queue).k = "ring" => HasCall(phone)
        /\ Head(queue).k = "gone" => ~HasCall(phone)
        /\ Head(queue).k = "listed" => (Head(queue).entry.st # "idle" <=> HasCall(phone))
    BY <1>2, <2>1, <2>2 DEF InOrder
  <2>4. hfp'.st # "idle" <=> HasCall(phone)
    BY <1>4, <2>1, <2>2, <2>3
  <2>5. query'.ph = "done" => (query'.entry.st # "idle" <=> HasCall(phone))
    BY <2>2, <2>3
  <2> QED
    BY <2>4, <2>5
<1>5. queue # <<>> /\ queue' = Tail(queue) /\ UNCHANGED <<link, phone>>
  BY DEF Round
<1>6. Types /\ Agreement
  BY DEF IInv
<1> QED
  BY <1>1, <1>3, <1>4, <1>5, <1>6, AgreementTaken

LEMMA TerminalStep ==
  ASSUME IInv, Round, Head(queue).k \in {"ok", "error"}, Terminal(Head(queue).k = "ok"),
         UNCHANGED <<hfp, ind, info, query, truth>>
  PROVE  IInv'
<1> DEFINE e == Head(queue)
           done == IF e.k = "ok" THEN "ok" ELSE "failed"
<1>0. /\ link = "live" /\ queue # <<>> /\ queue' = Tail(queue)
      /\ UNCHANGED <<link, waiters, dial, intent, bound, phone, inbox>>
  BY DEF Round
<1>1. /\ queue \in Seq(Event) /\ stale' \in BOOLEAN /\ ctl \in CtlType /\ Moves(hfp, hfp)
      /\ ind' \in IndType /\ info' \in InfoType /\ truth' \in Num /\ query' \in QueryType
      /\ quarantine \in BOOLEAN /\ hfp \in HfpType
  BY RoundFacts DEF IInv, Types
<1>2. /\ \A i \in DOMAIN queue' : ~Answer(queue'[i])
      /\ inbox.op = "none"
  <2>1. Answer(e)
    BY DEF Answer, ToolAnswer
  <2>2. Unanswered
    BY DEF IInv
  <2> QED
    BY <1>0, <1>1, <2>1, <2>2, AnswersTaken
<1>3. ~quarantine => ctl.ph = "sent"
  <2>1. Head(queue) = queue[1] /\ 1 \in DOMAIN queue /\ ToolAnswer(e)
    BY <1>0, <1>1, Taken DEF ToolAnswer
  <2> QED
    BY <2>1 DEF IInv, Unanswered
<1>4. \A i \in DOMAIN queue' : queue'[i].k # "ok" /\ ~ToolAnswer(queue'[i]) /\ ~ListAnswer(queue'[i])
  BY <1>2 DEF Answer, ToolAnswer
<1>5. /\ quarantine' = FALSE /\ (ctl' = ctl \/ GoesOn(ctl, done))
      /\ quarantine => ctl' = ctl
      /\ ~quarantine => GoesOn(ctl, done)
  BY <1>1, <1>3 DEF Terminal, GoesOn
<1>6. ~quarantine => ctl'.ph = done
  BY <1>1, <1>5, CommandGoesOn
<1>7. Unanswered'
  <2>1. ctl'.ph \in {"sent", "ok", "failed", "timeout"} => ctl.ph \in {"sent", "ok", "failed", "timeout"}
    BY <1>3, <1>5
  <2> QED
    BY <1>0, <1>2, <1>4, <1>5, <2>1 DEF IInv, Unanswered
<1>8. Accepted' => Accepted
  <2>1. Head(queue) = queue[1] /\ 1 \in DOMAIN queue
    BY <1>0, <1>1, Taken
  <2>2. Accepted' => ctl'.ph = "ok"
    BY <1>4 DEF Accepted
  <2> QED
    BY <1>3, <1>5, <1>6, <2>1, <2>2 DEF Accepted
<1>9. Agreement'
  BY RoundAgrees DEF IsReport
<1>10. quarantine' \in BOOLEAN /\ Moves(hfp, hfp')
  BY <1>1, <1>5
<1> HIDE DEF done
<1> QED
  BY <1>0, <1>1, <1>5, <1>7, <1>8, <1>9, <1>10, DispatchStays

LEMMA NotAnswered ==
  ASSUME IInv, Round, UNCHANGED <<ctl, quarantine, query>>
  PROVE  Unanswered' /\ (Accepted' => Accepted)
<1>1. queue \in Seq(Event) /\ queue # <<>> /\ queue' = Tail(queue) /\ UNCHANGED inbox
      /\ Unanswered
  BY RoundFacts DEF Round, IInv
<1>2. /\ \A i \in DOMAIN queue' : \E j \in DOMAIN queue : queue'[i] = queue[j]
      /\ \A i, j \in DOMAIN queue' : Answer(queue'[i]) /\ Answer(queue'[j]) => i = j
      /\ inbox.op # "none" => \A i \in DOMAIN queue' : ~Answer(queue'[i])
  BY <1>1, AnswersTaken
<1>3. ASSUME ~quarantine, NEW i \in DOMAIN queue'
      PROVE  /\ ToolAnswer(queue'[i]) => ctl.ph = "sent"
             /\ ListAnswer(queue'[i]) => query.ph = "sent"
  BY <1>1, <1>2, <1>3 DEF Unanswered
<1>4. Unanswered'
  BY <1>1, <1>2, <1>3 DEF Unanswered
<1>5. Accepted' => Accepted
  BY <1>2 DEF Accepted
<1> QED
  BY <1>4, <1>5

LEMMA ListingStep ==
  ASSUME IInv, Round, Head(queue).k \in {"listed", "unlisted"}, query.ph = "sent",
         query' = IF Head(queue).k = "listed" THEN [ph |-> "done", entry |-> Head(queue).entry]
                  ELSE NoQuery,
         UNCHANGED <<hfp, ind, info, quarantine, ctl, truth>>
  PROVE  IInv'
<1> DEFINE e == Head(queue)
<1>0. /\ link = "live" /\ queue # <<>> /\ queue' = Tail(queue)
      /\ UNCHANGED <<link, waiters, dial, intent, bound, phone, inbox>>
  BY DEF Round
<1>1. /\ queue \in Seq(Event) /\ e \in Event /\ stale' \in BOOLEAN /\ ctl \in CtlType
      /\ Moves(hfp, hfp) /\ ind' \in IndType /\ info' \in InfoType /\ truth' \in Num
      /\ quarantine' \in BOOLEAN /\ Unanswered
  BY RoundFacts DEF IInv, Types
<1>2. query' \in QueryType /\ (query'.ph = "done" => query'.entry = e.entry /\ e.k = "listed")
      /\ query'.ph # "sent"
  BY <1>1, Empty DEF QueryType, Event, Events
<1>3. /\ \A i \in DOMAIN queue' : ~Answer(queue'[i])
      /\ inbox.op = "none"
  <2>1. Answer(e)
    BY DEF Answer, ListAnswer
  <2> QED
    BY <1>0, <1>1, <2>1, AnswersTaken
<1>4. \A i \in DOMAIN queue' : queue'[i].k # "ok" /\ ~ToolAnswer(queue'[i]) /\ ~ListAnswer(queue'[i])
  BY <1>3 DEF Answer, ToolAnswer
<1>5. ctl.ph \notin {"sent", "ok", "failed", "timeout"}
  BY <1>1 DEF Unanswered
<1>6. Unanswered'
  BY <1>0, <1>1, <1>3, <1>4, <1>5 DEF Unanswered, Answer
<1>7. Accepted' => Accepted
  BY <1>4 DEF Accepted
<1>8. Agreement'
  BY <1>2, RoundAgrees DEF IsReport
<1>9. Moves(hfp, hfp')
  BY <1>1
<1> HIDE DEF e
<1> QED
  BY <1>0, <1>1, <1>2, <1>6, <1>7, <1>8, <1>9, DispatchStays DEF e

LEMMA OrphanStep ==
  ASSUME IInv, Round, Head(queue).k \in {"listed", "unlisted"}, query.ph # "sent",
         quarantine' = FALSE,
         IF Head(queue).entry = NoEntry THEN UNCHANGED <<hfp, info, truth>>
         ELSE Apply(DispatchClcc(Reduced, Head(queue).entry)) /\ truth' = Head(queue).entry.num,
         UNCHANGED <<ind, ctl, query>>
  PROVE  IInv'
<1> DEFINE e == Head(queue)
<1>0. /\ link = "live" /\ queue # <<>> /\ queue' = Tail(queue)
      /\ UNCHANGED <<link, waiters, dial, intent, bound, phone, inbox>>
  BY DEF Round
<1>1. /\ queue \in Seq(Event) /\ e \in Event /\ stale' \in BOOLEAN /\ ctl \in CtlType
      /\ Sound(hfp) /\ Moves(hfp, hfp) /\ ind' \in IndType /\ info \in InfoType
      /\ truth \in Num /\ query' \in QueryType /\ quarantine' \in BOOLEAN /\ Unanswered
      /\ Reduced.s = hfp /\ Reducible(Reduced)
  BY RoundFacts DEF IInv, Types
<1>2. /\ \A i \in DOMAIN queue' : ~Answer(queue'[i])
      /\ inbox.op = "none"
  <2>1. Answer(e)
    BY DEF Answer, ListAnswer
  <2> QED
    BY <1>0, <1>1, <2>1, AnswersTaken
<1>3. \A i \in DOMAIN queue' : queue'[i].k # "ok" /\ ~ToolAnswer(queue'[i]) /\ ~ListAnswer(queue'[i])
  BY <1>2 DEF Answer, ToolAnswer
<1>4. Unanswered'
  BY <1>0, <1>1, <1>2, <1>3 DEF Unanswered
<1>5. Accepted' => Accepted
  BY <1>3 DEF Accepted
<1>6. e.entry \in Entries /\ (e.k # "listed" => e.entry = NoEntry)
  BY <1>1 DEF Event, Events
<1>7. /\ Moves(hfp, hfp') /\ info' \in InfoType /\ truth' \in Num
      /\ \/ hfp'.st # "idle" <=> hfp.st # "idle"
         \/ e.k = "listed" /\ (hfp'.st # "idle" <=> e.entry.st # "idle")
  <2>1. CASE e.entry = NoEntry
    BY <1>1, <2>1
  <2>2. CASE e.entry # NoEntry
    <3> DEFINE r == DispatchClcc(Reduced, e.entry)
    <3>1. hfp' = r.s /\ info' = r.i /\ truth' = e.entry.num
      BY <2>2 DEF Apply
    <3>2. Moves(hfp, r.s) /\ r.i \in InfoType /\ (r.s.st # "idle" <=> e.entry.st # "idle")
      BY <1>1, <1>6, DispatchClccMoves
    <3> HIDE DEF r
    <3>3. e.entry.num \in Num
      BY <1>6, <2>2 DEF Entries
    <3> QED
      BY <1>6, <2>2, <3>1, <3>2, <3>3
  <2> QED
    BY <2>1, <2>2
<1>8. Agreement'
  BY <1>7, RoundAgrees DEF IsReport
<1> HIDE DEF e
<1> QED
  BY <1>0, <1>1, <1>4, <1>5, <1>7, <1>8, DispatchStays DEF e

\* RING, NO CARRIER and +CLIP.
LEMMA WordStep ==
  ASSUME IInv, Round, UNCHANGED <<ind, quarantine, ctl, query>>,
         \/ /\ Head(queue).k = "ring"
            /\ Apply(DispatchState(Reduced, "incoming", "incoming"))
            /\ truth' = Head(queue).num
         \/ Head(queue).k = "gone" /\ Apply(DispatchEnd(Reduced)) /\ truth' = Nobody
         \/ /\ Head(queue).k = "clip" /\ Apply(DispatchClip(Reduced, Head(queue).num))
            /\ UNCHANGED truth
  PROVE  IInv'
<1> DEFINE e == Head(queue)
<1>0. /\ link = "live" /\ queue # <<>> /\ queue' = Tail(queue)
      /\ UNCHANGED <<link, waiters, dial, intent, bound, phone, inbox>>
  BY DEF Round
<1>1. /\ queue \in Seq(Event) /\ e \in Event /\ stale' \in BOOLEAN /\ ctl \in CtlType
      /\ ind' \in IndType /\ truth \in Num /\ query' \in QueryType
      /\ quarantine' \in BOOLEAN /\ Reduced.s = hfp /\ Reducible(Reduced)
  BY RoundFacts DEF IInv, Types
<1>2. e.num \in Num /\ Nobody \in Num
  BY <1>1 DEF Event, Events, Num
<1>3. /\ Moves(hfp, hfp') /\ info' \in InfoType /\ truth' \in Num
      /\ e.k = "ring" => hfp'.st # "idle"
      /\ e.k = "gone" => hfp'.st = "idle"
      /\ e.k = "clip" => hfp'.st = hfp.st
  <2>1. CASE e.k = "ring"
    <3> DEFINE r == DispatchState(Reduced, "incoming", "incoming")
    <3>1. hfp' = r.s /\ info' = r.i /\ truth' = e.num
      BY <2>1 DEF Apply
    <3>2. "incoming" \in CallOf
      BY DEF CallOf
    <3>3. Moves(hfp, r.s) /\ r.i \in InfoType /\ r.s.st \in {"ending", "incoming"}
      BY <1>1, <3>2, DispatchStateMoves
    <3> HIDE DEF r
    <3> QED
      BY <1>2, <2>1, <3>1, <3>3
  <2>2. CASE e.k = "gone"
    <3> DEFINE r == DispatchEnd(Reduced)
    <3>1. hfp' = r.s /\ info' = r.i /\ truth' = Nobody
      BY <2>2 DEF Apply
    <3>2. Moves(hfp, r.s) /\ r.i \in InfoType /\ r.s.st = "idle"
      BY <1>1, DispatchEndMoves
    <3> HIDE DEF r
    <3> QED
      BY <1>2, <2>2, <3>1, <3>2
  <2>3. CASE e.k = "clip"
    <3> DEFINE r == DispatchClip(Reduced, e.num)
    <3>1. hfp' = r.s /\ info' = r.i /\ truth' = truth
      BY <2>3 DEF Apply
    <3>2. Moves(hfp, r.s) /\ r.i \in InfoType /\ r.s.st = hfp.st
      BY <1>1, <1>2, DispatchClipMoves
    <3> HIDE DEF r
    <3> QED
      BY <1>1, <2>3, <3>1, <3>2
  <2> QED
    BY <2>1, <2>2, <2>3
<1>4. e.k \in {"ring", "gone", "clip"}
  OBVIOUS
<1>5. Agreement'
  <2>1. ~IsReport(e) /\ ind' = ind /\ query' = query
    BY <1>4 DEF IsReport
  <2> QED
    BY <1>3, <1>4, <2>1, RoundAgrees
<1>6. Unanswered' /\ (Accepted' => Accepted)
  BY NotAnswered
<1> HIDE DEF e
<1> QED
  BY <1>0, <1>1, <1>3, <1>4, <1>5, <1>6, DispatchStays DEF e

LEMMA ReportStep ==
  ASSUME IInv, Round, Head(queue).k \in {"call", "callsetup"},
         ind' = [ind EXCEPT ![Head(queue).k] = Head(queue).v],
         LET r == Reconcile(Reduced, ind'["call"], ind'["callsetup"])
         IN  Apply(r) /\ truth' = IF r.s.st = "idle" THEN Nobody ELSE Head(queue).num,
         UNCHANGED <<quarantine, ctl, query>>
  PROVE  IInv'
<1> DEFINE e == Head(queue)
           r == Reconcile(Reduced, ind'["call"], ind'["callsetup"])
<1>0. /\ link = "live" /\ queue # <<>> /\ queue' = Tail(queue)
      /\ UNCHANGED <<link, waiters, dial, intent, bound, phone, inbox>>
  BY DEF Round
<1>1. /\ queue \in Seq(Event) /\ e \in Event /\ stale' \in BOOLEAN /\ ctl \in CtlType
      /\ ind \in IndType /\ query' \in QueryType
      /\ quarantine' \in BOOLEAN /\ Reduced.s = hfp /\ Reducible(Reduced)
      /\ (~stale' => ~stale)
  BY RoundFacts DEF IInv, Types
<1>2. e.num \in Num /\ Nobody \in Num /\ e.v \in 0..3 /\ (e.k = "call" => e.v \in 0..1)
  BY <1>1 DEF Event, Events, Num
<1>3. /\ ind' \in IndType /\ ind'["call"] \in 0..1 /\ ind'["callsetup"] \in 0..3
      /\ \A k \in {"call", "callsetup"} : ind'[k] = IF e.k = k THEN e.v ELSE ind[k]
  BY <1>1, <1>2 DEF IndType
<1>4. /\ Moves(hfp, r.s) /\ r.i \in InfoType
      /\ r.s.st # "idle" <=> ind'["call"] # 0 \/ ind'["callsetup"] # 0
  BY <1>1, <1>3, ReconcileMoves
<1>5. hfp' = r.s /\ info' = r.i /\ truth' \in Num
  BY <1>2 DEF Apply
<1> HIDE DEF r
<1>6. hfp'.st = "idle" => ~(e.k = "callsetup" /\ e.v = 2)
  BY <1>3, <1>4, <1>5
<1>7. ~stale' => query'.ph # "done"
  BY DEF Round
<1>8. Agreement'
  <2>1. ASSUME ~stale', ~Reported(Tail(queue))
        PROVE  hfp'.st # "idle" <=> HasCall(phone)
    <3>1. ToldLast("call", queue, ind, phone) /\ ToldLast("callsetup", queue, ind, phone)
      BY <1>0, <1>1, <2>1 DEF IInv, Agreement
    <3>2. /\ ind'["call"] = IF e.k = "call" THEN e.v ELSE ind["call"]
          /\ ind'["callsetup"] = IF e.k = "callsetup" THEN e.v ELSE ind["callsetup"]
      BY <1>3
    <3>3. ToldLast("call", Tail(queue), ind', phone)
      BY <1>0, <1>1, <3>1, <3>2, ToldLastTaken
    <3>4. ToldLast("callsetup", Tail(queue), ind', phone)
      BY <1>0, <1>1, <3>1, <3>2, ToldLastTaken
    <3>5. \A i \in DOMAIN Tail(queue) : Tail(queue)[i].k # "call" /\ Tail(queue)[i].k # "callsetup"
      BY <2>1 DEF Reported, IsReport
    <3>6. ind'["call"] = Reading(phone)["call"] /\ ind'["callsetup"] = Reading(phone)["callsetup"]
      BY <3>3, <3>4, <3>5 DEF ToldLast
    <3>7. HasCall(phone) <=> Reading(phone)["call"] # 0 \/ Reading(phone)["callsetup"] # 0
      BY ReadingShows, ReadingTyped
    <3> QED
      BY <1>4, <1>5, <3>6, <3>7
  <2>2. Types /\ Agreement
    BY DEF IInv
  <2> QED
    BY <1>0, <1>1, <1>3, <1>7, <2>1, <2>2, AgreementTaken
<1>9. Unanswered' /\ (Accepted' => Accepted)
  BY NotAnswered
<1>10. Moves(hfp, hfp') /\ info' \in InfoType
  BY <1>4, <1>5
<1> HIDE DEF e
<1> QED
  BY <1>0, <1>1, <1>3, <1>5, <1>6, <1>8, <1>9, <1>10, DispatchStays DEF e

LEMMA DispatchStep ==
  ASSUME IInv, Dispatch
  PROVE  IInv'
<1>1. Round
  BY DEF Dispatch, Round
<1>2. \/ /\ Head(queue).k \in {"ok", "error"} /\ Terminal(Head(queue).k = "ok")
         /\ UNCHANGED <<hfp, ind, info, query, truth>>
      \/ /\ Head(queue).k \in {"listed", "unlisted"} /\ query.ph = "sent"
         /\ query' = IF Head(queue).k = "listed"
                     THEN [ph |-> "done", entry |-> Head(queue).entry] ELSE NoQuery
         /\ UNCHANGED <<hfp, ind, info, quarantine, ctl, truth>>
      \/ /\ Head(queue).k \in {"listed", "unlisted"} /\ query.ph # "sent"
         /\ quarantine' = FALSE
         /\ IF Head(queue).entry = NoEntry THEN UNCHANGED <<hfp, info, truth>>
            ELSE Apply(DispatchClcc(Reduced, Head(queue).entry)) /\ truth' = Head(queue).entry.num
         /\ UNCHANGED <<ind, ctl, query>>
      \/ /\ Head(queue).k \in {"call", "callsetup"}
         /\ ind' = [ind EXCEPT ![Head(queue).k] = Head(queue).v]
         /\ LET r == Reconcile(Reduced, ind'["call"], ind'["callsetup"])
            IN  Apply(r) /\ truth' = IF r.s.st = "idle" THEN Nobody ELSE Head(queue).num
         /\ UNCHANGED <<quarantine, ctl, query>>
      \/ /\ UNCHANGED <<ind, quarantine, ctl, query>>
         /\ \/ /\ Head(queue).k = "ring"
               /\ Apply(DispatchState(Reduced, "incoming", "incoming"))
               /\ truth' = Head(queue).num
            \/ Head(queue).k = "gone" /\ Apply(DispatchEnd(Reduced)) /\ truth' = Nobody
            \/ /\ Head(queue).k = "clip" /\ Apply(DispatchClip(Reduced, Head(queue).num))
               /\ UNCHANGED truth
  BY DEF Dispatch
<1> HIDE DEF Dispatch
<1> QED
  BY <1>1, <1>2, TerminalStep, ListingStep, OrphanStep, ReportStep, WordStep

-----------------------------------------------------------------------------
(* The tools *)

\* The tools' own state is typed.
Kept ==
  /\ waiters' \subseteq [want : Nat, by : Dials \cup {"user"}]
  /\ dial' \in [Dials -> {"new", "dialing", "watch", "hanging", "expire", "done"}]
  /\ intent' \in [Dials -> [gen : Nat, cgen : Nat]]
  /\ bound' \in BoundType /\ bound'.calls = bound.calls
  /\ UNCHANGED <<ind, link, queue, phone, inbox, stale>>

\* A step that leaves the command in progress alone.
LEMMA BesideCommand ==
  ASSUME IInv, Kept, UNCHANGED <<ctl, quarantine>>, Moves(hfp, hfp'),
         info' \in InfoType, truth' \in Num,
         \/ query' = query /\ (hfp'.st # "idle" <=> hfp.st # "idle")
         \/ /\ query.ph = "done" /\ query' = NoQuery
            /\ hfp'.st # "idle" <=> query.entry.st # "idle"
  PROVE  IInv'
<1> USE DEF IInv
<1>1. query' \in QueryType /\ (query' = query \/ (query.ph = "done" /\ query'.ph = "none"))
  BY Empty DEF Types
<1>2. Types'
  <2>1. hfp' \in HfpType
    BY DEF Moves, Sound
  <2>2. ctl' \in CtlType'
    BY DEF Types, CtlType
  <2> QED
    BY <1>1, <2>1, <2>2 DEF Types, Kept
<1>3. /\ Pending' /\ Observed'
      /\ ctl.op = "dial" /\ TransitionAllowed(hfp', ctl', {"idle"})
            => TransitionAllowed(hfp, ctl, {"idle"})
  <2>1. ctl'.op = "none" <=> ctl'.ph = "free"
    BY DEF Observed
  <2> QED
    BY <2>1, CallMoves DEF Kept
<1>4. Terse'
  BY <1>1 DEF Terse, Kept
<1>5. Unanswered'
  <2>1. CASE query' = query
    BY <2>1 DEF Unanswered, Kept
  <2>2. CASE query.ph = "done" /\ query'.ph = "none"
    BY <2>2 DEF Unanswered, Kept
  <2> QED
    BY <1>1, <2>1, <2>2
<1>6. DialTold'
  BY <1>3 DEF DialTold, SetupTold, Accepted, Kept
<1>7. Agreement'
  <2>1. ASSUME link \in {"cmer", "live"}, ~stale, ~Reported(queue)
        PROVE  /\ hfp'.st # "idle" <=> HasCall(phone)
               /\ query'.ph = "done" => (query'.entry.st # "idle" <=> HasCall(phone))
    BY <1>1, <2>1 DEF Agreement
  <2> QED
    BY <2>1 DEF Agreement, Kept
<1> QED
  BY <1>2, <1>3, <1>4, <1>5, <1>6, <1>7

\* A step that takes or gives back the lock of the commands: no answer is on its way that
\* anybody waits for.
LEMMA AtCommand ==
  ASSUME IInv, Kept, UNCHANGED <<info, query>>, Sound(hfp'), truth' \in Num,
         hfp'.gen = hfp.gen, hfp'.conn = hfp.conn,
         ctl' \in CtlType', ctl'.ph \in {"free", "prepared"}, Observed', quarantine' \in BOOLEAN,
         (quarantine' = quarantine /\ ctl.ph # "sent") \/ (quarantine' /\ query.ph # "sent"),
         \/ hfp'.st # "idle" <=> hfp.st # "idle"
         \/ link \in {"cmer", "live"} => Reported(queue)
  PROVE  IInv'
<1> USE DEF IInv
<1>1. Types'
  BY DEF Types, Kept, Sound
<1>2. Pending'
  BY DEF Pending, Sound
<1>3. Terse'
  BY DEF Terse, Kept
<1>4. Unanswered'
  <2>1. CASE (quarantine' = quarantine) /\ ctl.ph # "sent"
    BY <2>1 DEF Unanswered, Kept
  <2>2. CASE quarantine' /\ query.ph # "sent"
    BY <2>2 DEF Unanswered, Kept
  <2> QED
    BY <2>1, <2>2
<1>5. DialTold'
  BY DEF DialTold, Accepted
<1>6. Agreement'
  <2>1. ASSUME link \in {"cmer", "live"}, ~stale, ~Reported(queue)
        PROVE  hfp'.st # "idle" <=> HasCall(phone)
    BY <2>1 DEF Agreement
  <2> QED
    BY <2>1 DEF Agreement, Kept
<1> QED
  BY <1>1, <1>2, <1>3, <1>4, <1>5, <1>6

LEMMA ListingAppliedStep ==
  ASSUME IInv, ApplyListing
  PROVE  IInv'
<1> DEFINE r == DispatchClcc(Reduced, query.entry)
<1>1. /\ query.ph = "done" /\ hfp' = r.s /\ info' = r.i /\ truth' = query.entry.num
      /\ query' = NoQuery /\ UNCHANGED <<ctl, quarantine>>
      /\ UNCHANGED <<ind, link, queue, waiters, dial, intent, bound, phone, inbox, stale>>
  BY DEF ApplyListing, Apply
<1>2. /\ Types /\ Sound(hfp) /\ query.entry \in Entries /\ info \in InfoType
  BY CallStays DEF IInv, Types, QueryType
<1>3. Reduced.s = hfp /\ Reducible(Reduced)
  BY <1>2 DEF Reduced, Reducible
<1>4. Moves(hfp, r.s) /\ r.i \in InfoType /\ (r.s.st # "idle" <=> query.entry.st # "idle")
  BY <1>2, <1>3, DispatchClccMoves
<1> HIDE DEF r
<1>5. query.entry.num \in Num
  BY <1>2 DEF Entries, NoEntry, Num
<1>6. Kept
  BY <1>1, <1>2 DEF Kept, Types
<1> QED
  BY <1>1, <1>4, <1>5, <1>6, BesideCommand

\* The connection and the call that a command is asked for are those it finds.
LEMMA Acquired ==
  ASSUME IInv, NEW op \in {"dial", "answer", "hangup"}, NEW who, NEW want \in Nat,
         Acquire(op, who, want), op = "dial" => who \in Dials /\ hfp.st = "idle" /\ link = "live",
         op = "hangup" => hfp.st # "idle", link' = link,
         hfp'.gen = hfp.gen, hfp'.cgen = hfp.cgen, hfp'.conn = hfp.conn, hfp'.st = hfp.st
  PROVE  ctl' \in CtlType' /\ ctl'.ph = "prepared" /\ Observed'
<1>1. /\ hfp.gen \in Nat /\ hfp.id \in Nat /\ hfp.cgen \in Nat /\ hfp.st \in CallStates
  BY DEF IInv, Types, HfpType
<1>2. ctl' = [op |-> op, ph |-> "prepared", who |-> who, want |-> want,
              gen |-> hfp.gen, id |-> hfp.id, cgen |-> hfp.cgen, st |-> hfp.st]
  BY DEF Acquire
<1>3. ctl' \in CtlType'
  BY <1>1, <1>2 DEF CtlType
<1>4. Observed'
  BY <1>1, <1>2 DEF IInv, Observed
<1> QED
  BY <1>2, <1>3, <1>4

LEMMA GivenBack ==
  ASSUME IInv, ctl' = IdleCtl, link' = link, Sound(hfp'), hfp'.gen = hfp.gen, hfp'.conn = hfp.conn
  PROVE  ctl' \in CtlType' /\ ctl'.ph = "free" /\ Observed'
<1>1. hfp'.gen \in Nat /\ hfp'.cgen \in Nat
  BY DEF Sound, HfpType
<1>2. ctl' \in CtlType'
  BY DEF IdleCtl, CtlType, CallStates
<1>3. Observed'
  BY <1>1, Empty DEF IInv, Observed
<1> QED
  BY <1>2, <1>3, Empty

LEMMA DialStartStep ==
  ASSUME IInv, NEW d \in Dials, DialStart(d)
  PROVE  IInv'
<1>1. /\ ctl.ph = "free" /\ hfp.conn = "connected" /\ hfp.st = "idle" /\ hfp.id = 0
      /\ dial' = [dial EXCEPT ![d] = "dialing"]
      /\ intent' = [intent EXCEPT ![d] = [gen |-> hfp.gen, cgen |-> hfp.cgen]]
      /\ hfp' = [hfp EXCEPT !.num = Target[d], !.src = "dialed_pending", !.dir = "outgoing"]
      /\ Acquire("dial", d, 0)
      /\ UNCHANGED <<ind, info, link, queue, quarantine, waiters, query, bound, phone, inbox,
                     truth, stale>>
  BY DEF DialStart, Busy
<1>2. /\ hfp \in HfpType /\ hfp.gen \in Nat /\ hfp.cgen \in Nat /\ truth' \in Num
      /\ quarantine' \in BOOLEAN /\ Types
  BY <1>1 DEF IInv, Types, HfpType
<1>3. Sound(hfp') /\ hfp'.gen = hfp.gen /\ hfp'.cgen = hfp.cgen /\ hfp'.conn = hfp.conn
      /\ hfp'.st = hfp.st
  <2>1. Target[d] \in Num /\ "dialed_pending" \in Sources
    BY TargetAssumption DEF Num, Sources
  <2> QED
    BY <1>1, <1>2, <2>1 DEF Sound, HfpType
<1>4. Kept
  BY <1>1, <1>2 DEF Types, Kept
<1>5. link = "live"
  BY <1>1 DEF IInv, Observed
<1>6. ctl' \in CtlType' /\ ctl'.ph = "prepared" /\ Observed'
  BY <1>1, <1>3, <1>5, Acquired
<1> QED
  BY <1>1, <1>2, <1>3, <1>4, <1>6, AtCommand

LEMMA DialFinishStep ==
  ASSUME IInv, NEW d \in Dials, DialFinish(d)
  PROVE  IInv'
<1> DEFINE moved == ctl.ph = "ok" /\ TransitionAllowed(hfp, ctl, {"idle"})
           s == IF moved THEN SetCallState(hfp, "dialing", "outgoing") ELSE hfp
           taken == Progressed(s, intent[d]) \/ moved
<1>1. /\ ctl.op = "dial" /\ ctl.ph \in {"ok", "failed", "timeout"} /\ ctl' = IdleCtl
      /\ hfp' = IF taken THEN SetIdentity(s, Target[d], "dialed", "outgoing")
                ELSE IF ctl.ph = "timeout" THEN s
                ELSE ClearPending(s, Target[d], intent[d])
      /\ truth' = IF moved THEN Target[d] ELSE truth
      /\ \E next \in {"watch", "expire"} :
            dial' = [dial EXCEPT ![d] = IF taken \/ ctl.ph = "timeout" THEN next ELSE "done"]
      /\ UNCHANGED <<ind, info, link, queue, quarantine, waiters, intent, query, bound, phone,
                     inbox, stale>>
  BY DEF DialFinish
<1>2. /\ Types /\ Pending /\ truth \in Num /\ quarantine' \in BOOLEAN /\ Sound(hfp)
      /\ Moves(hfp, hfp) /\ Target[d] \in Num
  BY <1>1, TargetAssumption, CallStays DEF IInv, Types, Num
<1>3. Moves(hfp, s) /\ (moved => hfp.st = "idle" /\ s.st = "dialing") /\ (~moved => s = hfp)
  <2>1. CASE moved
    <3>1. "dialing" \in CallStates
      BY DEF CallStates
    <3> QED
      BY <1>2, <2>1, <3>1, SetCallStateMoves DEF TransitionAllowed
  <2>2. CASE ~moved
    BY <1>2, <2>2
  <2> QED
    BY <2>1, <2>2
<1> HIDE DEF s
<1>4. Sound(s)
  BY <1>3 DEF Moves
<1>5. Moves(s, hfp') /\ hfp'.st = s.st
  <2>1. CASE taken
    <3>1. "dialed" \in Sources
      BY DEF Sources
    <3> QED
      BY <1>1, <1>2, <1>4, <2>1, <3>1, SetIdentityMoves
  <2>2. CASE ~taken /\ ctl.ph = "timeout"
    BY <1>1, <1>4, <2>2 DEF Moves
  <2>3. CASE ~taken /\ ctl.ph # "timeout"
    BY <1>1, <1>4, <2>3, ClearPendingMoves
  <2> QED
    BY <2>1, <2>2, <2>3
<1>6. Sound(hfp') /\ hfp'.gen = hfp.gen /\ hfp'.conn = hfp.conn
  BY <1>3, <1>5 DEF Moves
<1>7. \/ hfp'.st # "idle" <=> hfp.st # "idle"
      \/ link \in {"cmer", "live"} => Reported(queue)
  <2>1. CASE ~moved
    BY <1>3, <1>5, <2>1
  <2>2. CASE moved
    <3>1. ctl.gen = hfp.gen
      BY <2>2 DEF TransitionAllowed
    <3>2. link \in {"live", "none"}
      BY <1>1, <3>1 DEF IInv, Observed
    <3>3. link = "live" => SetupTold
      BY <1>1, <2>2 DEF IInv, DialTold, Accepted
    <3>4. SetupTold => Reported(queue)
      BY DEF SetupTold, Reported, IsReport
    <3> QED
      BY <3>2, <3>3, <3>4
  <2> QED
    BY <2>1, <2>2
<1>8. truth' \in Num
  BY <1>1, <1>2
<1> HIDE DEF moved, taken
<1>9. Kept
  BY <1>1, <1>2 DEF Types, Kept
<1>10. ctl' \in CtlType' /\ ctl'.ph = "free" /\ Observed'
  BY <1>1, <1>6, GivenBack
<1> QED
  BY <1>1, <1>2, <1>6, <1>7, <1>8, <1>9, <1>10, AtCommand

LEMMA DialCancelledStep ==
  ASSUME IInv, NEW d \in Dials, DialCancelled(d)
  PROVE  IInv'
<1>1. /\ ctl.ph \in {"prepared", "sent"} /\ ctl' = IdleCtl
      /\ dial' = [dial EXCEPT ![d] = "done"] /\ quarantine' = (quarantine \/ ctl.ph = "sent")
      /\ UNCHANGED <<hfp, ind, info, link, queue, waiters, intent, query, bound, phone, inbox,
                     truth, stale>>
  BY DEF DialCancelled
<1>2. /\ Types /\ Pending /\ truth' \in Num /\ quarantine \in BOOLEAN /\ Sound(hfp)
  BY <1>1, CallStays DEF IInv, Types
<1>3. Kept
  BY <1>1, <1>2 DEF Types, Kept
<1>4. ctl' \in CtlType' /\ ctl'.ph = "free" /\ Observed'
  BY <1>1, <1>2, GivenBack
<1>5. quarantine' \in BOOLEAN
      /\ \/ quarantine' = quarantine /\ ctl.ph # "sent"
         \/ quarantine' /\ query.ph # "sent"
  BY <1>1, <1>2 DEF IInv, Unanswered
<1> QED
  BY <1>1, <1>2, <1>3, <1>4, <1>5, AtCommand

LEMMA IntentStep ==
  ASSUME IInv, NEW d \in Dials, IntentExpires(d) \/ WatchEnds(d)
  PROVE  IInv'
<1>1. /\ dial' = [dial EXCEPT ![d] = "done"] /\ hfp' = ClearPending(hfp, Target[d], intent[d])
      /\ UNCHANGED <<ind, info, link, queue, quarantine, ctl, waiters, intent, query, bound,
                     phone, inbox, truth, stale>>
  BY DEF IntentExpires, WatchEnds
<1>2. /\ Types /\ Pending /\ truth' \in Num /\ info' \in InfoType /\ Sound(hfp)
  BY <1>1, CallStays DEF IInv, Types
<1>3. Moves(hfp, hfp') /\ hfp'.st = hfp.st
  BY <1>1, <1>2, ClearPendingMoves
<1>4. Kept
  BY <1>1, <1>2 DEF Types, Kept
<1> QED
  BY <1>1, <1>2, <1>3, <1>4, BesideCommand

\* A call is to be hung up: by the watcher of a dial, or by end_call.
LEMMA WaiterStep ==
  ASSUME IInv, (\E d \in Dials : WatchHangsUp(d)) \/ EndCall
  PROVE  IInv'
<1>1. PICK by \in Dials \cup {"user"} :
      /\ waiters' = waiters \cup {[want |-> hfp.id, by |-> by]}
      /\ \/ bound' = bound /\ by \in Dials /\ dial' = [dial EXCEPT ![by] = "hanging"]
         \/ bound.ends > 0 /\ bound' = [bound EXCEPT !.ends = @ - 1] /\ dial' = dial
      /\ UNCHANGED <<hfp, ind, info, link, queue, quarantine, ctl, intent, query, phone, inbox,
                     truth, stale>>
  BY DEF WatchHangsUp, EndCall
<1>2. /\ Types /\ Pending /\ truth' \in Num /\ info' \in InfoType /\ Sound(hfp)
      /\ Moves(hfp, hfp) /\ hfp.id \in Nat
  BY <1>1, CallStays DEF IInv, Types, HfpType
<1>3. bound' \in BoundType /\ bound'.calls = bound.calls
  <2>1. bound \in BoundType
    BY <1>2 DEF Types
  <2>2. CASE bound' = bound
    BY <2>1, <2>2
  <2>3. CASE bound.ends > 0 /\ bound' = [bound EXCEPT !.ends = @ - 1]
    <3>1. bound.ends \in Nat /\ bound.ends - 1 \in Nat
      BY <2>1, <2>3 DEF BoundType
    <3> QED
      BY <2>1, <2>3, <3>1 DEF BoundType
  <2> QED
    BY <1>1, <2>2, <2>3
<1>4. Kept
  BY <1>1, <1>2, <1>3 DEF Types, Kept
<1>5. Moves(hfp, hfp')
  BY <1>1, <1>2
<1> QED
  BY <1>1, <1>2, <1>4, <1>5, BesideCommand

LEMMA AnswerStartStep ==
  ASSUME IInv, AnswerStart
  PROVE  IInv'
<1>1. /\ ctl.ph = "free" /\ Acquire("answer", 0, hfp.id)
      /\ UNCHANGED <<hfp, ind, info, link, queue, quarantine, waiters, dial, intent, query,
                     bound, phone, inbox, truth, stale>>
  BY DEF AnswerStart, Busy
<1>2. /\ Types /\ Pending /\ truth' \in Num /\ quarantine' \in BOOLEAN /\ Sound(hfp)
      /\ hfp.id \in Nat
  BY <1>1, CallStays DEF IInv, Types, HfpType
<1>3. Kept
  BY <1>1, <1>2 DEF Types, Kept
<1>4. ctl' \in CtlType' /\ ctl'.ph = "prepared" /\ Observed'
  BY <1>1, <1>2, Acquired
<1> QED
  BY <1>1, <1>2, <1>3, <1>4, AtCommand

LEMMA AnswerFinishStep ==
  ASSUME IInv, AnswerFinish
  PROVE  IInv'
<1>1. /\ ctl.ph # "sent" /\ ctl' = IdleCtl
      /\ UNCHANGED <<hfp, ind, info, link, queue, quarantine, waiters, dial, intent, query,
                     bound, phone, inbox, truth, stale>>
  BY DEF AnswerFinish
<1>2. /\ Types /\ Pending /\ truth' \in Num /\ quarantine' \in BOOLEAN /\ Sound(hfp)
  BY <1>1, CallStays DEF IInv, Types
<1>3. Kept
  BY <1>1, <1>2 DEF Types, Kept
<1>4. ctl' \in CtlType' /\ ctl'.ph = "free" /\ Observed'
  BY <1>1, <1>2, GivenBack
<1> QED
  BY <1>1, <1>2, <1>3, <1>4, AtCommand

LEMMA ReturnTyped ==
  ASSUME Types, NEW by, NEW ok, HangupReturns(by, ok)
  PROVE  dial' \in [Dials -> {"new", "dialing", "watch", "hanging", "expire", "done"}]
BY DEF Types, HangupReturns

LEMMA HangupStartStep ==
  ASSUME IInv, NEW w \in waiters, HangupStart(w)
  PROVE  IInv'
<1>1. /\ ctl.ph = "free" /\ waiters' = waiters \ {w}
      /\ UNCHANGED <<hfp, ind, info, link, queue, quarantine, intent, query, bound, phone, inbox,
                     truth, stale>>
      /\ \/ HangupReturns(w.by, hfp.st = "ending") /\ UNCHANGED ctl
         \/ hfp.st # "idle" /\ Acquire("hangup", w.by, w.want) /\ UNCHANGED dial
  BY DEF HangupStart, Busy
<1>2. /\ Types /\ Pending /\ truth' \in Num /\ info' \in InfoType /\ quarantine' \in BOOLEAN
      /\ Sound(hfp) /\ Moves(hfp, hfp')  /\ w.want \in Nat
  BY <1>1, CallStays DEF IInv, Types
<1>3. dial' \in [Dials -> {"new", "dialing", "watch", "hanging", "expire", "done"}]
  BY <1>1, <1>2, ReturnTyped DEF Types
<1>4. Kept
  BY <1>1, <1>2, <1>3 DEF Types, Kept
<1>5. CASE UNCHANGED ctl
  BY <1>1, <1>2, <1>4, <1>5, BesideCommand
<1>6. CASE hfp.st # "idle" /\ Acquire("hangup", w.by, w.want)
  <2>1. ctl' \in CtlType' /\ ctl'.ph = "prepared" /\ Observed'
    BY <1>1, <1>2, <1>6, Acquired
  <2> QED
    BY <1>1, <1>2, <1>4, <2>1, AtCommand
<1> QED
  BY <1>1, <1>5, <1>6

LEMMA HangupFinishStep ==
  ASSUME IInv, HangupFinish
  PROVE  IInv'
<1> DEFINE moved == ctl.ph = "ok" /\ TransitionAllowed(hfp, ctl, {ctl.st})
<1>1. /\ ctl.op = "hangup" /\ ctl.ph # "sent" /\ ctl' = IdleCtl
      /\ hfp' = IF moved THEN SetCallState(hfp, "ending", "none") ELSE hfp
      /\ HangupReturns(ctl.who, ctl.ph = "ok")
      /\ UNCHANGED <<ind, info, link, queue, quarantine, waiters, intent, query, bound, phone,
                     inbox, truth, stale>>
  BY DEF HangupFinish
<1>2. /\ Types /\ Pending /\ truth' \in Num /\ quarantine' \in BOOLEAN /\ Sound(hfp)
      /\ Moves(hfp, hfp) /\ ctl.st # "idle"
  BY <1>1, CallStays DEF IInv, Types, Observed
<1>3. Moves(hfp, hfp') /\ (hfp'.st # "idle" <=> hfp.st # "idle")
  <2>1. CASE moved
    <3>1. hfp.st # "idle"
      BY <1>2, <2>1 DEF TransitionAllowed
    <3>2. "ending" \in CallStates
      BY DEF CallStates
    <3>3. Moves(hfp, SetCallState(hfp, "ending", "none"))
          /\ SetCallState(hfp, "ending", "none").st = "ending"
      BY <1>2, <3>2, SetCallStateMoves
    <3> QED
      BY <1>1, <2>1, <3>1, <3>3
  <2>2. CASE ~moved
    BY <1>1, <1>2, <2>2
  <2> QED
    BY <2>1, <2>2
<1> HIDE DEF moved
<1>4. Sound(hfp') /\ hfp'.gen = hfp.gen /\ hfp'.conn = hfp.conn
  BY <1>3 DEF Moves
<1>5. dial' \in [Dials -> {"new", "dialing", "watch", "hanging", "expire", "done"}]
  BY <1>1, <1>2, ReturnTyped
<1>6. Kept
  BY <1>1, <1>2, <1>5 DEF Types, Kept
<1>7. ctl' \in CtlType' /\ ctl'.ph = "free" /\ Observed'
  BY <1>1, <1>4, GivenBack
<1> QED
  BY <1>1, <1>2, <1>3, <1>4, <1>6, <1>7, AtCommand

-----------------------------------------------------------------------------
(* The theorems *)

LEMMA InitInv ==
  ASSUME Init
  PROVE  IInv
<1>1. /\ hfp = [gen |-> 0, conn |-> "disconnected", cgen |-> 0, st |-> "idle",
                dir |-> "unknown", id |-> 0, num |-> Nobody, src |-> "none"]
      /\ ind = [call |-> 0, callsetup |-> 0] /\ info = NoInfo /\ link = "none" /\ queue = <<>>
      /\ quarantine = FALSE /\ ctl = IdleCtl /\ waiters = {} /\ dial = [d \in Dials |-> "new"]
      /\ intent = [d \in Dials |-> [gen |-> 0, cgen |-> 0]] /\ query = NoQuery
      /\ bound \in Scenarios /\ inbox = NoCommand /\ truth = Nobody /\ stale = FALSE
      /\ phone = [p \in 1..bound.calls |->
                     [st |-> "none", dir |-> "none", num |-> Nobody, rung |-> FALSE]]
  BY DEF Init, NoCommand
<1>2. bound \in BoundType
  BY <1>1, ScenariosAssumption DEF BoundType, Num
<1>3. [st |-> "none", dir |-> "none", num |-> Nobody, rung |-> FALSE] \in CallType
  BY DEF CallType, CallOf, Num
<1>4. hfp \in HfpType /\ ind \in IndType /\ truth \in Num
  BY <1>1 DEF HfpType, IndType, CallStates, Sources, Num
<1>5. ctl \in CtlType
  BY <1>1 DEF IdleCtl, CtlType, CallStates
<1>6. Types
  BY <1>1, <1>2, <1>3, <1>4, <1>5, Empty, Nothing DEF Types
<1>7. Pending /\ Observed
  BY <1>1, Empty DEF Pending, Observed
<1>8. Terse /\ Unanswered /\ DialTold /\ Agreement
  BY <1>1, Empty, Nothing DEF Terse, Unanswered, DialTold, Agreement
<1> QED
  BY <1>6, <1>7, <1>8 DEF IInv

LEMMA SameInv ==
  ASSUME IInv, UNCHANGED vars
  PROVE  IInv'
<1> USE DEF IInv
<1>1. Types' /\ Pending' /\ Observed' /\ Terse'
  BY DEF vars, Types, CtlType, Pending, Observed, Terse
<1>2. Unanswered' /\ DialTold'
  BY DEF vars, Unanswered, DialTold, SetupTold, Accepted
<1>3. Agreement'
  BY DEF vars, Agreement
<1> QED
  BY <1>1, <1>2, <1>3

LEMMA StepInv ==
  ASSUME IInv, [Next]_vars
  PROVE  IInv'
<1>1. CASE Phone
  BY <1>1, PhoneStep
<1>2. CASE Connection
  BY <1>2, ConnectStep, ReadStep, EnableStep, DisconnectStep DEF Connection
<1>3. CASE Commands
  BY <1>3, SendStep, SendQueryStep, TimeoutStep, QuarantineStep, LostStep DEF Commands
<1>4. CASE Dispatch
  BY <1>4, DispatchStep
<1>5. CASE ApplyListing
  BY <1>5, ListingAppliedStep
<1>6. CASE Tools
  <2>1. CASE \E d \in Dials : DialStep(d)
    BY <2>1, DialStartStep, DialFinishStep, DialCancelledStep, IntentStep, WaiterStep
       DEF DialStep
  <2>2. CASE AnswerStart \/ AnswerFinish
    BY <2>2, AnswerStartStep, AnswerFinishStep
  <2>3. CASE EndCall \/ (\E w \in waiters : HangupStart(w)) \/ HangupFinish
    BY <2>3, WaiterStep, HangupStartStep, HangupFinishStep
  <2> QED
    BY <1>6, <2>1, <2>2, <2>3 DEF Tools
<1>7. CASE UNCHANGED vars
  BY <1>7, SameInv
<1> QED
  BY <1>1, <1>2, <1>3, <1>4, <1>5, <1>6, <1>7 DEF Next

\* The connection, the commands on it, the queue and the daemon's call are in order in
\* every state, whatever overtakes what.
THEOREM ControlInvariant == Spec => []IInv
BY InitInv, StepInv, PTL DEF Spec

\* Every variable of the call control stays in its range.
THEOREM ControlTyped == Spec => []TypeOK
<1>1. IInv => TypeOK
  BY DEF IInv, Types, TypeOK, HfpType, IndType, InfoType, CtlType, QueryType, Num
<1> QED
  BY <1>1, ControlInvariant, PTL

\* A dialed number that waits for its call is attached to none: set_call_state promotes it
\* or drops it when a call starts, and every end of a call clears it.
THEOREM PendingOnNoCall == Spec => []PendingOnlyIdle
<1>1. IInv => PendingOnlyIdle
  BY DEF IInv, Pending, PendingOnlyIdle
<1> QED
  BY <1>1, ControlInvariant, PTL

\* When all the phone said has been handled and no tool is at work, the daemon has a call
\* exactly if the phone has one: for any number of calls, dials, connections and events,
\* across reconnections, time-outs, cancelled tools and listings.
THEOREM CallsAgree == Spec => []AgreesWhenQuiet
<1>1. ASSUME IInv PROVE AgreesWhenQuiet
  <2>1. SUFFICES ASSUME ~stale, link = "live", queue = <<>>
                 PROVE  hfp.st # "idle" <=> Live(phone) # {}
    BY DEF AgreesWhenQuiet
  <2>2. ~Reported(queue)
    BY <2>1, Nothing
  <2> QED
    BY <1>1, <2>1, <2>2 DEF IInv, Agreement, HasCall
<1> QED
  BY <1>1, ControlInvariant, PTL

=============================================================================
