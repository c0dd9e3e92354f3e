------------------------ MODULE PhoneControllerProofs ------------------------
(***************************************************************************)
(* PhoneController for any callers, any lease time and margin and any       *)
(* scenario: the controller never reckons with a lease for longer than the  *)
(* gateway does, and a staged brief is read to its own call only.           *)
(*                                                                          *)
(* The argument: a lease is reckoned from when it was asked for, so the age *)
(* of a request, of a renewal or of an answer that nobody has read yet      *)
(* makes up for what the gateway's lease has lost meanwhile.  That counts   *)
(* on the age running as long as the answer is awaited: a lease that a call *)
(* was given belongs to the request which is still waited for.              *)
(***************************************************************************)
EXTENDS PhoneController, TLAPS

-----------------------------------------------------------------------------
(* The invariant *)

BoundType == [from : SUBSET (Numbers \cup {Unknown}), calls : Nat, requests : Nat, ends : Nat,
              refusals : Nat, losses : Nat, delays : Nat, changes : Nat, dials : Nat]
WatchType == [pc : {"poll", "end", "finish", "stop", "close"},
              then : {"poll", "take", "exclude", "finish"}, call : 0..MaxCalls, seen : Phone,
              revoke : Seq(BindingIds)]
WireType == [call : Calls, child : BOOLEAN, stray : BOOLEAN]

\* The types, with those of the watcher and of the bounds; a phone that shows a call
\* has numbered it, and so has a service.
Types ==
  /\ TypeOK /\ watch \in WatchType
  /\ bound \in BoundType /\ phone.id + bound.calls <= MaxCalls
Numbered ==
  /\ phone.phase # "idle" => phone.id # 0
  /\ watch.seen.phase # "idle" => watch.seen.id # 0
  /\ serve.pc # "off" => serve.call # 0

\* The call's task runs only under a watcher that serves the call or cleans up after it.
WatchServes ==
  /\ watch.pc \in {"finish", "stop", "close"} => ctl.call = None
  /\ watch.pc \in {"stop", "close"} => serve.pc = "off"
  /\ watch.pc \in {"poll", "end"} /\ ctl.call = None => serve.pc = "off"

\* A request for a call's lease, or its answer, is waited for: there is one of the two.
WireOK ==
  /\ serve.got # None => serve.pc = "bind"
  /\ \A w \in wire : ~w.stray /\ ~w.child
       => serve.pc = "bind" /\ serve.got = None /\ w.call = serve.call

\* The gateway honours lease b for at least "left", or has it revoked.
Covered(b, left) == b \in DOMAIN bindings /\ (bindings[b].revoked \/ left <= bindings[b].left)
Leases ==
  /\ LeaseConservative
  /\ serve.got # None => Covered(serve.got, LeaseFrom(serve.age))
  /\ request.pc = "bind" /\ request.child # None => Covered(request.child, LeaseFrom(request.age))
  /\ \A b \in BindingIds : renewal[b].state = "granted" => Covered(b, LeaseFrom(renewal[b].age))

\* A brief is of this call or an earlier one; what the phone dials, the daemon has dialed.
Briefs == /\ ctl.brief <= phone.id
          /\ phone.out => phone.by
          /\ BriefForRecipient

IInv == Types /\ Numbered /\ WatchServes /\ WireOK /\ Leases /\ Briefs

-----------------------------------------------------------------------------
(* The constants and the tables *)

\* The bounds of calls and leases are numbers.
LEMMA MaxIsNat ==
  /\ MaxCalls \in Nat /\ MaxBindings \in Nat
  /\ \A s \in Scenarios : s \in BoundType /\ s.calls <= MaxCalls
<1> DEFINE counts == {s.calls : s \in Scenarios}
<1>1. PICK s \in Scenarios : \A t \in Scenarios : t.calls <= s.calls
  BY ScenarioAssumption
<1>2. s.calls \in counts /\ \A t \in Scenarios : t.calls <= s.calls
  BY <1>1
<1>3. MaxCalls \in counts /\ \A t \in Scenarios : t.calls <= MaxCalls
  BY <1>2 DEF MaxCalls
<1>4. \A t \in Scenarios : t \in BoundType
  BY ScenarioAssumption DEF BoundType
<1>5. MaxCalls \in Nat
  BY <1>3, <1>4 DEF BoundType
<1> QED
  BY <1>3, <1>4, <1>5 DEF MaxBindings

LEMMA TimesAreNat ==
  TTL \in Nat /\ Margin \in Nat /\ 0 < Margin /\ Margin < TTL
BY LeaseAssumption

\* A table of leases is a sequence of them; a table where each is aged or changed, too.
LEMMA TableIsSeq ==
  ASSUME NEW q \in Seq(Binding), NEW r, DOMAIN r = DOMAIN q, r = [b \in DOMAIN r |-> r[b]],
         \A b \in DOMAIN q : r[b] \in Binding
  PROVE  r \in Seq(Binding) /\ Len(r) = Len(q)
<1>1. Len(q) \in Nat /\ DOMAIN q = 1..Len(q)
  OBVIOUS
<1>2. r \in [1..Len(q) -> Binding]
  BY <1>1
<1> QED
  BY <1>1, <1>2

LEMMA ChangedLease ==
  ASSUME TTL \in Nat, NEW e \in Binding, NEW gone \in BOOLEAN, NEW left \in 0..TTL
  PROVE  /\ [e EXCEPT !.revoked = gone, !.left = left] \in Binding
         /\ [e EXCEPT !.revoked = gone, !.left = left].call = e.call
         /\ [e EXCEPT !.revoked = gone, !.left = left].revoked = gone
BY DEF Binding

LEMMA RevokedLease ==
  ASSUME TTL \in Nat, NEW e \in Binding
  PROVE  /\ [e EXCEPT !.revoked = TRUE, !.left = 0] \in Binding
         /\ [e EXCEPT !.revoked = TRUE, !.left = 0].call = e.call
         /\ [e EXCEPT !.revoked = TRUE, !.left = 0].revoked
<1>1. 0 \in 0..TTL
  OBVIOUS
<1> QED
  BY <1>1, ChangedLease

LEMMA RevokedTable ==
  ASSUME bindings \in Seq(Binding), TTL \in Nat, NEW b
  PROVE  /\ Revoked(b) \in Seq(Binding) /\ Len(Revoked(b)) = Len(bindings)
         /\ DOMAIN Revoked(b) = DOMAIN bindings
         /\ \A i \in DOMAIN bindings : /\ Revoked(b)[i] = bindings[i] \/ Revoked(b)[i].revoked
                                       /\ Revoked(b)[i].call = bindings[i].call
<1> DEFINE r == Revoked(b)
<1>1. DOMAIN r = DOMAIN bindings /\ r = [i \in DOMAIN r |-> r[i]]
  BY DEF Revoked
<1>2. ASSUME NEW i \in DOMAIN bindings
      PROVE  /\ r[i] \in Binding /\ r[i].call = bindings[i].call
             /\ r[i] = bindings[i] \/ r[i].revoked
  <2>1. bindings[i] \in Binding
    OBVIOUS
  <2>2. CASE i = b
    <3>1. r[i] = [bindings[i] EXCEPT !.revoked = TRUE, !.left = 0]
      BY <2>2 DEF Revoked
    <3> QED
      BY <2>1, <3>1, RevokedLease
  <2>3. CASE i # b
    <3>1. r[i] = bindings[i]
      BY <2>3 DEF Revoked
    <3> QED
      BY <2>1, <3>1
  <2> QED
    BY <2>2, <2>3
<1> HIDE DEF r
<1>3. r \in Seq(Binding) /\ Len(r) = Len(bindings)
  BY <1>1, <1>2, TableIsSeq
<1> QED
  BY <1>1, <1>2, <1>3 DEF r

LEMMA RenewedTable ==
  ASSUME bindings \in Seq(Binding), TTL \in Nat, NEW b,
         NEW r, r = [bindings EXCEPT ![b].left = TTL]
  PROVE  /\ r \in Seq(Binding) /\ Len(r) = Len(bindings) /\ DOMAIN r = DOMAIN bindings
         /\ \A i \in DOMAIN bindings : /\ r[i].revoked = bindings[i].revoked
                                       /\ r[i].left = IF i = b THEN TTL ELSE bindings[i].left
<1>1. DOMAIN r = DOMAIN bindings /\ r = [i \in DOMAIN r |-> r[i]]
  OBVIOUS
<1>2. ASSUME NEW i \in DOMAIN bindings
      PROVE  /\ r[i] \in Binding
             /\ r[i].revoked = bindings[i].revoked
             /\ r[i].left = IF i = b THEN TTL ELSE bindings[i].left
  <2>1. bindings[i] \in Binding
    OBVIOUS
  <2>2. r[i] = IF i = b THEN [bindings[i] EXCEPT !.left = TTL] ELSE bindings[i]
    OBVIOUS
  <2> QED
    BY <2>1, <2>2 DEF Binding
<1>3. \A i \in DOMAIN bindings : r[i] \in Binding
  BY <1>2
<1>4. DOMAIN r = DOMAIN bindings /\ r = [i \in DOMAIN r |-> r[i]] /\ bindings \in Seq(Binding)
  BY <1>1
<1>5. r \in Seq(Binding) /\ Len(r) = Len(bindings)
  BY ONLY <1>3, <1>4, TableIsSeq
<1> QED
  BY <1>1, <1>2, <1>5

LEMMA AgedTable ==
  ASSUME bindings \in Seq(Binding), TTL \in Nat,
         NEW r, r = [b \in DOMAIN bindings |-> [bindings[b] EXCEPT !.left = Younger(@)]]
  PROVE  /\ r \in Seq(Binding) /\ Len(r) = Len(bindings) /\ DOMAIN r = DOMAIN bindings
         /\ \A i \in DOMAIN bindings : /\ r[i].revoked = bindings[i].revoked
                                       /\ r[i].left = Younger(bindings[i].left)
<1>1. DOMAIN r = DOMAIN bindings /\ r = [i \in DOMAIN r |-> r[i]]
  OBVIOUS
<1>2. ASSUME NEW i \in DOMAIN bindings
      PROVE  /\ r[i] \in Binding
             /\ r[i].revoked = bindings[i].revoked
             /\ r[i].left = Younger(bindings[i].left)
  <2>1. bindings[i] \in Binding
    OBVIOUS
  <2>2. r[i] = [bindings[i] EXCEPT !.left = Younger(@)]
    OBVIOUS
  <2>3. \A n \in 0..TTL : Younger(n) \in 0..TTL
    BY DEF Younger
  <2> QED
    BY <2>1, <2>2, <2>3 DEF Binding
<1>3. r \in Seq(Binding) /\ Len(r) = Len(bindings)
  BY <1>1, <1>2, TableIsSeq
<1> QED
  BY <1>1, <1>2, <1>3

-----------------------------------------------------------------------------
(* The types *)

\* The types in three parts.
PhoneTyped ==
  /\ phone \in Phone /\ hangups \in [Calls -> {"none", "ok", "refused"}]
  /\ staged \in [generation : 0..MaxCalls, link : Nat, on : BOOLEAN] /\ dial \in {"idle", "atd", "waits"}
  /\ bound \in BoundType /\ phone.id + bound.calls <= MaxCalls
TablesTyped ==
  /\ bindings \in Seq(Binding) /\ Len(bindings) <= MaxBindings
  /\ wire \subseteq WireType
  /\ deadline \in [BindingIds -> 0..TTL]
  /\ renewal \in [BindingIds -> [state : {"none", "sent", "granted", "denied", "lost"},
                                 age : 0..TTL]]
\* With n leases:
CtlType(n) == [call : 0..MaxCalls, number : Callers, binding : 0..n, child : 0..n,
               excluded : 0..MaxCalls, ending : 0..MaxCalls, api : BOOLEAN, voice : BOOLEAN,
               brief : 0..MaxCalls]
ServeType(n) == [pc : {"off", "start", "check", "bind", "answer", "wait", "voice", "ready",
                       "unwell", "fail", "expire", "done"},
                 call : 0..MaxCalls, got : 0..n, age : 0..TTL]
RequestType(n) == [pc : {"idle", "bind", "run", "ending", "revoke"}, call : 0..MaxCalls,
                   child : 0..n, age : 0..TTL, closed : BOOLEAN, tries : 0..1]
TasksTyped ==
  /\ ctl \in CtlType(Len(bindings)) /\ watch \in WatchType
  /\ serve \in ServeType(Len(bindings)) /\ request \in RequestType(Len(bindings))
  /\ beat \in {"off", "sleep", "due", "renew", "stop", "end"}
  /\ authority \in {"free", "beat", "request"}
  /\ failed \subseteq Calls \X Callers

LEMMA TypesParts ==
  Types <=> PhoneTyped /\ TablesTyped /\ TasksTyped
<1>1. watch \in WatchType
        => /\ watch.pc \in {"poll", "end", "finish", "stop", "close"}
           /\ watch.then \in {"poll", "take", "exclude", "finish"} /\ watch.seen \in Phone
           /\ watch.call \in 0..MaxCalls
           /\ watch.revoke \in Seq(BindingIds)
  BY DEF WatchType
<1> QED
  BY <1>1 DEF Types, TypeOK, PhoneTyped, TablesTyped, TasksTyped, WireType, CtlType, ServeType,
              RequestType

-----------------------------------------------------------------------------
(* The phone and the bounds *)

\* A step leaves the phone with its call, or with none.
SameCall ==
  /\ phone' \in Phone /\ phone'.id = phone.id /\ phone'.out = phone.out /\ phone'.by = phone.by
  /\ phone'.phase # "idle" => phone.phase # "idle"
NextCall ==
  /\ phone' \in Phone /\ phone'.id = phone.id + 1 /\ phone'.out = phone'.by
  /\ bound'.calls = bound.calls - 1
BoundKept == bound' \in BoundType /\ bound'.calls = bound.calls

LEMMA Unspent ==
  ASSUME bound \in BoundType, bound' = bound
  PROVE  BoundKept
BY DEF BoundKept

LEMMA SamePhone ==
  ASSUME phone \in Phone, phone' = phone
  PROVE  SameCall
BY DEF SameCall

\* What is spent of a bound leaves the others.
LEMMA SpendsOne ==
  ASSUME bound \in BoundType
  PROVE  /\ Spend("losses") \/ Spend("delays") \/ Spend("requests") \/ Spend("ends")
              \/ Spend("changes") \/ Spend("dials") \/ Spend("refusals") => BoundKept
         /\ Spend("calls") => /\ bound' \in BoundType /\ bound.calls > 0
                              /\ bound'.calls = bound.calls - 1
<1>1. ASSUME Spend("losses") PROVE BoundKept
  BY <1>1 DEF Spend, BoundKept, BoundType
<1>2. ASSUME Spend("delays") PROVE BoundKept
  BY <1>2 DEF Spend, BoundKept, BoundType
<1>3. ASSUME Spend("requests") PROVE BoundKept
  BY <1>3 DEF Spend, BoundKept, BoundType
<1>4. ASSUME Spend("ends") PROVE BoundKept
  BY <1>4 DEF Spend, BoundKept, BoundType
<1>5. ASSUME Spend("changes") PROVE BoundKept
  BY <1>5 DEF Spend, BoundKept, BoundType
<1>6. ASSUME Spend("dials") PROVE BoundKept
  BY <1>6 DEF Spend, BoundKept, BoundType
<1>8. ASSUME Spend("refusals") PROVE BoundKept
  BY <1>8 DEF Spend, BoundKept, BoundType
<1>7. ASSUME Spend("calls")
      PROVE  bound' \in BoundType /\ bound.calls > 0 /\ bound'.calls = bound.calls - 1
  BY <1>7 DEF Spend, BoundType
<1> QED
  BY <1>1, <1>2, <1>3, <1>4, <1>5, <1>6, <1>7, <1>8

\* A request to end a call is answered; at most the phone's call is ending then.
LEMMA EndsCall ==
  ASSUME PhoneTyped, NEW c, NEW answer \in {"ok", "refused"}, End(c, answer)
  PROVE  /\ SameCall /\ BoundKept
         /\ hangups' \in [Calls -> {"none", "ok", "refused"}]
<1> DEFINE asked == hangups[c] = "none" /\ Up /\ phone.id = c /\ phone.phase # "ending"
<1>1. /\ phone' = IF asked /\ answer = "ok" THEN [phone EXCEPT !.phase = "ending"] ELSE phone
      /\ bound' = IF asked /\ answer = "refused"
                    THEN [bound EXCEPT !.refusals = @ - 1] ELSE bound
      /\ hangups' = [hangups EXCEPT ![c] = answer]
      /\ answer \in Answer(c)
  BY DEF End
<1>2. phone \in Phone /\ bound \in BoundType
      /\ hangups \in [Calls -> {"none", "ok", "refused"}]
  BY DEF PhoneTyped
<1>3. hangups' \in [Calls -> {"none", "ok", "refused"}]
  BY <1>1, <1>2
<1>4. SameCall
  <2>1. asked => phone.phase # "idle"
    BY DEF Up
  <2>2. CASE asked /\ answer = "ok"
    <3>1. phone' = [phone EXCEPT !.phase = "ending"]
      BY <1>1, <2>2
    <3> QED
      BY <3>1, <2>1, <2>2, <1>2 DEF SameCall, Phone
  <2>3. CASE ~(asked /\ answer = "ok")
    <3>1. phone' = phone
      BY <1>1, <2>3
    <3> QED
      BY <3>1, <1>2, SamePhone
  <2> QED
    BY <2>2, <2>3
<1>5. BoundKept
  <2>1. CASE asked /\ answer = "refused"
    <3>1. bound.refusals > 0
      BY <1>1, <2>1 DEF Answer
    <3>2. bound' = [bound EXCEPT !.refusals = @ - 1]
      BY <1>1, <2>1
    <3> QED
      BY <3>1, <3>2, <1>2 DEF BoundKept, BoundType
  <2>2. CASE ~(asked /\ answer = "refused")
    <3>1. bound' = bound
      BY <1>1, <2>2
    <3> QED
      BY <3>1, <1>2, Unspent
  <2> QED
    BY <2>1, <2>2
<1> QED
  BY <1>3, <1>4, <1>5

\* What else is typed with the phone.
StagedTyped ==
  /\ hangups \in [Calls -> {"none", "ok", "refused"}]
  /\ staged \in [generation : 0..MaxCalls, link : Nat, on : BOOLEAN] /\ dial \in {"idle", "atd", "waits"}
PhoneStep == SameCall /\ BoundKept /\ StagedTyped'

\* Most of what the tasks and the gateway do leaves the phone alone.
LEMMA PhoneAlone ==
  ASSUME PhoneTyped
  PROVE  /\ WatchDone \/ WatchGone \/ WatchSwapped \/ WatchTakes \/ FinishRevokes
              \/ FinishCancels \/ FinishStops \/ FinishCloses => PhoneStep
         /\ Gateway \/ (\E b \in BindingIds : RenewalLost(b)) => PhoneStep
         /\ BeatRenews \/ BeatFails \/ BeatStops => PhoneStep
         /\ \A b \in BindingIds : BeatConfirmed(b) \/ BeatRetries(b) => PhoneStep
         /\ ServeChecks \/ ServeBound \/ ServeWaits \/ ServeVoice \/ ServeLoops
              \/ ServeFails => PhoneStep
         /\ Requests \/ RequestBegins \/ RequestUnbound \/ RequestUnrevoked \/ Tick
              => PhoneStep
<1> USE SamePhone, Unspent, SpendsOne DEF PhoneStep
<1>0. bound \in BoundType /\ phone \in Phone /\ StagedTyped
  BY DEF PhoneTyped, StagedTyped
<1>1. ASSUME WatchDone \/ WatchGone \/ WatchSwapped \/ WatchTakes PROVE PhoneStep
  BY <1>0, <1>1 DEF WatchDone, WatchGone, WatchSwapped, WatchTakes, StagedTyped, table
<1>2. ASSUME FinishRevokes \/ FinishCancels \/ FinishStops \/ FinishCloses PROVE PhoneStep
  BY <1>0, <1>2 DEF FinishRevokes, FinishCancels, FinishStops, FinishCloses, StagedTyped
<1>3. ASSUME NEW w \in wire, Binds(w) PROVE PhoneStep
  BY <1>0, <1>3 DEF Binds, StagedTyped
<1>4. ASSUME NEW b \in BindingIds, Renews(b) \/ RenewalLost(b) PROVE PhoneStep
  BY <1>0, <1>4 DEF Renews, RenewalLost, StagedTyped
<1>5. ASSUME BeatRenews \/ BeatFails \/ BeatStops PROVE PhoneStep
  BY <1>0, <1>5 DEF BeatRenews, BeatFails, BeatStops, StagedTyped
<1>6. ASSUME NEW b \in BindingIds, BeatConfirmed(b) \/ BeatRetries(b) PROVE PhoneStep
  BY <1>0, <1>6 DEF BeatConfirmed, BeatRetries, StagedTyped
<1>7. ASSUME ServeChecks \/ ServeBound \/ ServeWaits \/ ServeFails PROVE PhoneStep
  BY <1>0, <1>7 DEF ServeChecks, ServeBound, ServeWaits, ServeFails, StagedTyped, table
<1>8. ASSUME ServeVoice \/ ServeLoops PROVE PhoneStep
  BY <1>0, <1>8 DEF ServeVoice, ServeLoops, ServeAlone, StagedTyped
<1>9. ASSUME RequestBound \/ RequestEnds \/ RequestLocks \/ RequestRevokes PROVE PhoneStep
  BY <1>0, <1>9 DEF RequestBound, RequestEnds, RequestLocks, RequestRevokes, StagedTyped
<1>10. ASSUME RequestBegins \/ RequestUnbound \/ RequestUnrevoked \/ Tick PROVE PhoneStep
  BY <1>0, <1>10 DEF RequestBegins, RequestUnbound, RequestUnrevoked, Tick, StagedTyped
<1> QED
  BY <1>1, <1>2, <1>3, <1>4, <1>5, <1>6, <1>7, <1>8, <1>9, <1>10 DEF Gateway, Requests

\* The steps that change the phone, or what is staged for it.
LEMMA PhoneMoves ==
  ASSUME PhoneTyped, TasksTyped, MaxCalls \in Nat
  PROVE  /\ WatchEnds \/ BeatEnds \/ ServeEnds \/ EndCall => PhoneStep
         /\ ServeStarts \/ ServeAnswers => PhoneStep
         /\ Stages \/ Discards \/ PickedUp \/ CallOver \/ LinkDrops => PhoneStep
         /\ \A n \in Numbers : Named(n) => PhoneStep
<1> USE DEF PhoneStep
<1>0. bound \in BoundType /\ phone \in Phone /\ StagedTyped
  BY DEF PhoneTyped, StagedTyped
<1>1. ASSUME WatchEnds PROVE PhoneStep
  BY <1>0, <1>1, EndsCall DEF WatchEnds, StagedTyped
<1>2. ASSUME BeatEnds PROVE PhoneStep
  BY <1>0, <1>2, EndsCall DEF BeatEnds, StagedTyped
<1>3. ASSUME ServeEnds PROVE PhoneStep
  BY <1>0, <1>3, EndsCall DEF ServeEnds, StagedTyped
<1>4. ASSUME EndCall PROVE PhoneStep
  BY <1>0, <1>4, EndsCall DEF EndCall, StagedTyped
<1>5. ASSUME ServeStarts PROVE PhoneStep
  BY <1>0, <1>5, SamePhone, Unspent DEF ServeStarts, StagedTyped, NoStage
<1>6. ASSUME ServeAnswers PROVE PhoneStep
  <2>1. StagedTyped'
    BY <1>0, <1>6 DEF ServeAnswers, ServeAlone, StagedTyped
  <2>2. CASE UNCHANGED phone
    BY <1>0, <1>6, <2>1, <2>2, SamePhone, Unspent, SpendsOne DEF ServeAnswers
  <2>3. CASE ~UNCHANGED phone
    <3>1. phone' = [phone EXCEPT !.phase = "active"] /\ phone.phase # "idle" /\ bound' = bound
      BY <1>6, <2>3 DEF ServeAnswers
    <3>2. SameCall
      BY <1>0, <3>1 DEF SameCall, Phone
    <3> QED
      BY <1>0, <2>1, <3>1, <3>2, Unspent
  <2> QED
    BY <2>2, <2>3
<1>7. ASSUME Stages PROVE PhoneStep
  BY <1>0, <1>7, SamePhone, SpendsOne DEF Stages, controller, StagedTyped, Phone
<1>8. ASSUME Discards PROVE PhoneStep
  BY <1>0, <1>8, SamePhone, Unspent DEF Discards, controller, StagedTyped, NoStage
<1>9. ASSUME NEW n \in Numbers, Named(n) PROVE PhoneStep
  <2>1. SameCall
    BY <1>0, <1>9 DEF Named, SameCall, Phone, Callers
  <2> QED
    BY <1>0, <1>9, <2>1, SpendsOne, Unspent DEF Named, controller, StagedTyped
<1>10. ASSUME PickedUp PROVE PhoneStep
  <2>1. SameCall
    BY <1>0, <1>10 DEF PickedUp, SameCall, Phone
  <2> QED
    BY <1>0, <1>10, <2>1, Unspent DEF PickedUp, controller, StagedTyped
<1>11. ASSUME CallOver PROVE PhoneStep
  <2>1. SameCall
    BY <1>0, <1>11 DEF CallOver, SameCall, Phone, Callers
  <2> QED
    BY <1>0, <1>11, <2>1, Unspent DEF CallOver, controller, StagedTyped
<1>12. ASSUME LinkDrops PROVE PhoneStep
  <2>1. SameCall
    <3>1. phone.link + 1 \in Nat /\ Unknown \in Callers
      BY <1>0 DEF Phone, Callers
    <3>2. phone' = [phone EXCEPT !.phase = "idle", !.number = Unknown, !.link = phone.link + 1]
      BY <1>12 DEF LinkDrops
    <3> HIDE DEF PhoneStep
    <3> QED
      BY <1>0, <3>1, <3>2 DEF SameCall, Phone
  <2> QED
    BY <1>0, <1>12, <2>1, SpendsOne DEF LinkDrops, controller, StagedTyped
<1> QED
  BY <1>1, <1>2, <1>3, <1>4, <1>5, <1>6, <1>7, <1>8, <1>9, <1>10, <1>11, <1>12

\* A new call has the next number, and the daemon has dialed it if the phone has.
LEMMA PhoneCalls ==
  ASSUME PhoneTyped, MaxCalls \in Nat, NEW n \in Callers, Incoming(n) \/ Dials
  PROVE  /\ NextCall /\ bound' \in BoundType /\ StagedTyped'
         /\ phone'.id + bound'.calls <= MaxCalls
<1>1. /\ phone \in Phone /\ bound \in BoundType /\ StagedTyped
      /\ phone.id + bound.calls <= MaxCalls
  BY DEF PhoneTyped, StagedTyped
<1>2. /\ bound' \in BoundType /\ bound.calls > 0 /\ bound'.calls = bound.calls - 1
  BY <1>1, SpendsOne DEF Incoming, Dials, NewCall
<1>3. StagedTyped'
  BY <1>1 DEF Incoming, Dials, NewCall, controller, StagedTyped
<1>4. phone.id + 1 \in 0..MaxCalls /\ bound.calls \in Nat /\ phone.id \in Nat
  BY <1>1, <1>2 DEF Phone, BoundType
<1>5. PICK phase \in {"incoming", "dialing"}, number \in Callers, out \in BOOLEAN :
        phone' = [phone EXCEPT !.id = @ + 1, !.phase = phase, !.number = number, !.out = out,
                               !.by = out]
  BY NumberAssumption DEF Incoming, Dials, NewCall, Callers
<1>6. NextCall
  BY <1>1, <1>2, <1>4, <1>5 DEF NextCall, Phone
<1> QED
  BY <1>1, <1>2, <1>3, <1>4, <1>6 DEF NextCall

\* The phone is in its types after every step, with the same call or the next one.
LEMMA PhoneKept ==
  ASSUME PhoneTyped, TasksTyped, Next
  PROVE  PhoneTyped' /\ (SameCall \/ NextCall)
<1>1. MaxCalls \in Nat /\ bound.calls \in Nat /\ phone.id \in Nat
  BY MaxIsNat DEF PhoneTyped, Phone, BoundType
<1>2. CASE PhoneStep
  BY <1>1, <1>2 DEF PhoneStep, SameCall, BoundKept, StagedTyped, PhoneTyped
<1>3. ASSUME NEW n \in Callers, Incoming(n) \/ Dials PROVE PhoneTyped' /\ NextCall
  BY <1>1, <1>3, PhoneCalls DEF NextCall, StagedTyped, PhoneTyped
<1>4. ASSUME Watches PROVE PhoneStep
  BY <1>1, <1>4, PhoneAlone, PhoneMoves DEF Watches
<1>5. ASSUME Beats PROVE PhoneStep
  BY <1>1, <1>5, PhoneAlone, PhoneMoves DEF Beats
<1>6. ASSUME Serves \/ ServeFails \/ EndCall PROVE PhoneStep
  BY <1>1, <1>6, PhoneAlone, PhoneMoves DEF Serves
<1>7. ASSUME Stages \/ Discards \/ PickedUp \/ CallOver \/ LinkDrops \/ \E n \in Numbers : Named(n)
      PROVE  PhoneStep
  BY <1>1, <1>7, PhoneMoves
<1>8. ASSUME \/ Gateway \/ Requests \/ Tick \/ (\E b \in BindingIds : RenewalLost(b))
             \/ RequestBegins \/ RequestUnbound \/ RequestUnrevoked
      PROVE  PhoneStep
  BY <1>8, PhoneAlone
<1>9. Unknown \in Callers
  BY DEF Callers
<1> QED
  BY <1>2, <1>3, <1>4, <1>5, <1>6, <1>7, <1>8, <1>9 DEF Next

-----------------------------------------------------------------------------
(* The tables *)

LEMMA AgesAreTimes ==
  /\ \A n \in 0..TTL : LeaseFrom(n) \in 0..TTL /\ Younger(n) \in 0..TTL /\ Older(n) \in 0..TTL
  /\ 0 \in 0..TTL
BY TimesAreNat DEF LeaseFrom, Younger, Older

\* Requests that nobody waits for any more are the same requests.
LEMMA StraysAre ==
  /\ \A child \in BOOLEAN : wire \subseteq WireType =>
       /\ Strays(child) \subseteq WireType
       /\ \A w \in Strays(child) : ~w.stray => w \in wire /\ w.child # child
  /\ wire \subseteq WireType /\ (CancelRequest \/ CancelServe) => wire' \subseteq WireType
<1>1. ASSUME NEW child \in BOOLEAN, wire \subseteq WireType, NEW w \in Strays(child)
      PROVE  w \in WireType /\ (~w.stray => w \in wire /\ w.child # child)
  <2>1. PICK v \in wire : w = IF v.child = child THEN [v EXCEPT !.stray = TRUE] ELSE v
    BY DEF Strays
  <2>2. v \in WireType
    BY <1>1
  <2>3. CASE v.child = child
    <3>1. w = [v EXCEPT !.stray = TRUE]
      BY <2>1, <2>3
    <3>2. w \in WireType /\ w.stray
      BY <3>1, <2>2 DEF WireType
    <3> QED
      BY <3>2
  <2>4. CASE v.child # child
    BY <2>1, <2>2, <2>4
  <2> QED
    BY <2>3, <2>4
<1>2. ASSUME wire \subseteq WireType, CancelRequest \/ CancelServe PROVE wire' \subseteq WireType
  <2>1. wire' = wire \/ wire' = Strays(TRUE) \/ wire' = Strays(FALSE)
    BY <1>2 DEF CancelRequest, CancelServe
  <2> QED
    BY <1>1, <1>2, <2>1
<1> QED
  BY <1>1, <1>2

\* The four tables, and how they may change.
WireTyped == wire \subseteq WireType
DeadlinesTyped == deadline \in [BindingIds -> 0..TTL]
RenewalsTyped == renewal \in [BindingIds -> [state : {"none", "sent", "granted", "denied", "lost"},
                                             age : 0..TTL]]
TableKept == bindings' \in Seq(Binding) /\ Len(bindings') = Len(bindings)

\* Who writes what: a step leaves a variable as it is or is one of these.
WritesWire == \/ FinishCancels \/ FinishStops \/ BeatFails \/ BeatStops \/ ServeChecks \/ ServeFails
              \/ RequestBegins \/ RequestUnbound \/ RequestUnrevoked \/ \E w \in wire : Binds(w)
WritesDeadline == \/ FinishCloses \/ ServeBound \/ RequestBound \/ RequestRevokes \/ Tick
                  \/ \E b \in BindingIds : BeatConfirmed(b)
WritesRenewal == \/ WatchGone \/ WatchEnds \/ BeatRenews \/ BeatFails \/ Tick
                 \/ \E b \in BindingIds : \/ BeatConfirmed(b) \/ BeatRetries(b)
                                          \/ Renews(b) \/ RenewalLost(b)
WritesBindings == \/ FinishRevokes \/ RequestRevokes \/ RequestUnrevoked \/ Tick
                  \/ (\E b \in BindingIds : Renews(b) \/ RenewalLost(b))
                  \/ \E w \in wire : Binds(w)
WritesCtl == \/ WatchDone \/ WatchGone \/ WatchSwapped \/ WatchTakes \/ WatchEnds \/ FinishCloses
             \/ ServeStarts \/ ServeBound \/ ServeWaits \/ RequestBound \/ RequestRevokes \/ EndCall
WritesServe == \/ WatchTakes \/ FinishCancels \/ FinishCloses \/ BeatFails \/ Serves \/ ServeFails
               \/ RequestUnrevoked \/ Tick \/ \E w \in wire : Binds(w)
WritesRequest == \/ FinishStops \/ FinishCloses \/ BeatStops \/ ServeFails \/ RequestBegins
                 \/ RequestUnbound \/ RequestUnrevoked \/ Requests \/ Tick
                 \/ \E w \in wire : Binds(w)
Framed == /\ UNCHANGED wire \/ WritesWire
          /\ UNCHANGED deadline \/ WritesDeadline
          /\ UNCHANGED renewal \/ WritesRenewal
          /\ UNCHANGED bindings \/ WritesBindings
          /\ UNCHANGED ctl \/ WritesCtl
          /\ UNCHANGED watch \/ Watches
          /\ UNCHANGED serve \/ WritesServe
          /\ UNCHANGED request \/ WritesRequest

LEMMA Frames ==
  ASSUME Next
  PROVE  Framed
<1> USE DEF Framed
<1>1. ASSUME Watches PROVE Framed
  BY <1>1 DEF Watches, WatchDone, WatchGone, WatchSwapped, WatchTakes, WatchEnds,
         FinishRevokes, FinishCancels, FinishStops, FinishCloses, table, tasks,
         WritesWire, WritesDeadline, WritesRenewal, WritesBindings, WritesCtl,
         WritesServe, WritesRequest
<1>2. ASSUME Gateway PROVE Framed
  BY <1>2 DEF Gateway, Binds, Renews, tasks,
         WritesWire, WritesDeadline, WritesRenewal, WritesBindings, WritesCtl,
         WritesServe, WritesRequest
<1>3. ASSUME Beats PROVE Framed
  BY <1>3 DEF Beats, BeatRenews, BeatFails, BeatStops, BeatEnds, BeatConfirmed,
         BeatRetries, table, tasks,
         WritesWire, WritesDeadline, WritesRenewal, WritesBindings, WritesCtl,
         WritesServe, WritesRequest
<1>4. ASSUME Serves PROVE Framed
  BY <1>4 DEF Serves, ServeStarts, ServeChecks, ServeBound, ServeAnswers, ServeWaits,
         ServeVoice, ServeLoops, ServeEnds, ServeAlone, table,
         WritesWire, WritesDeadline, WritesRenewal, WritesBindings, WritesCtl,
         WritesServe, WritesRequest
<1>5. ASSUME Requests PROVE Framed
  BY <1>5 DEF Requests, RequestBound, RequestEnds, RequestLocks, RequestRevokes, table,
         WritesWire, WritesDeadline, WritesRenewal, WritesBindings, WritesCtl,
         WritesServe, WritesRequest
<1>6. ASSUME Tick PROVE Framed
  BY <1>6 DEF Tick,
         WritesWire, WritesDeadline, WritesRenewal, WritesBindings, WritesCtl,
         WritesServe, WritesRequest
<1>7. ASSUME (\E b \in BindingIds : RenewalLost(b)) PROVE Framed
  BY <1>7 DEF RenewalLost, tasks,
         WritesWire, WritesDeadline, WritesRenewal, WritesBindings, WritesCtl,
         WritesServe, WritesRequest
<1>8. ASSUME ServeFails \/ RequestBegins \/ RequestUnbound \/ RequestUnrevoked \/ EndCall PROVE Framed
  BY <1>8 DEF ServeFails, RequestBegins, RequestUnbound, RequestUnrevoked,
         EndCall, table, tasks,
         WritesWire, WritesDeadline, WritesRenewal, WritesBindings, WritesCtl,
         WritesServe, WritesRequest
<1>9. ASSUME \/ Stages \/ Dials \/ Discards \/ PickedUp \/ CallOver \/ LinkDrops
             \/ (\E n \in Callers : Incoming(n)) \/ (\E n \in Numbers : Named(n))
      PROVE Framed
  BY <1>9 DEF Stages, Dials, Discards, PickedUp, CallOver, LinkDrops, Incoming,
         Named, controller, table, tasks,
         WritesWire, WritesDeadline, WritesRenewal, WritesBindings, WritesCtl,
         WritesServe, WritesRequest
<1> HIDE DEF Framed
<1> QED
  BY <1>1, <1>2, <1>3, <1>4, <1>5, <1>6, <1>7, <1>8, <1>9 DEF Next

\* The tables are in their types after every step; only a new lease makes the gateway's longer.
LEMMA WireKept ==
  ASSUME PhoneTyped, TablesTyped, TasksTyped, Numbered, Next
  PROVE  wire' \subseteq WireType
<1>1. wire \subseteq WireType /\ Framed
  BY Frames DEF TablesTyped
<1>2. CASE FinishStops \/ BeatFails \/ BeatStops
  BY <1>1, <1>2, StraysAre DEF FinishStops, BeatFails, BeatStops
<1>3. CASE FinishCancels \/ ServeFails
  BY <1>1, <1>3, StraysAre DEF FinishCancels, ServeFails
<1>4. CASE RequestUnbound \/ RequestUnrevoked
  BY <1>1, <1>4, StraysAre DEF RequestUnbound, RequestUnrevoked
<1>5. CASE ServeChecks
  <2>1. serve.call \in Calls
    BY <1>5, MaxIsNat DEF ServeChecks, Numbered, TasksTyped, ServeType, Calls
  <2>2. [call |-> serve.call, child |-> FALSE, stray |-> FALSE] \in WireType
    BY <2>1 DEF WireType
  <2> QED
    BY <1>1, <1>5, <2>2 DEF ServeChecks
<1>6. CASE RequestBegins
  <2>1. ctl.call \in Calls
    BY <1>6, MaxIsNat DEF RequestBegins, Numbered, PhoneTyped, Phone, Calls
  <2>2. [call |-> ctl.call, child |-> TRUE, stray |-> FALSE] \in WireType
    BY <2>1 DEF WireType
  <2> QED
    BY <1>1, <1>6, <2>2 DEF RequestBegins
<1>7. CASE \E w \in wire : Binds(w)
  BY <1>1, <1>7 DEF Binds
<1> QED
  BY <1>1, <1>2, <1>3, <1>4, <1>5, <1>6, <1>7 DEF Framed, WritesWire

LEMMA DeadlinesKept ==
  ASSUME TablesTyped, TasksTyped, Next
  PROVE  deadline' \in [BindingIds -> 0..TTL]
<1>1. deadline \in [BindingIds -> 0..TTL] /\ Framed
  BY Frames DEF TablesTyped
<1>2. CASE FinishCloses \/ RequestRevokes \/ Tick
  BY <1>1, <1>2, AgesAreTimes DEF FinishCloses, RequestRevokes, Tick
<1>3. ASSUME NEW b \in BindingIds, BeatConfirmed(b)
      PROVE  deadline' \in [BindingIds -> 0..TTL]
  <2>1. renewal[b].age \in 0..TTL
    BY DEF TablesTyped
  <2> QED
    BY <1>1, <1>3, <2>1, AgesAreTimes DEF BeatConfirmed
<1>4. CASE ServeBound
  <2>1. serve.age \in 0..TTL
    BY DEF TasksTyped, ServeType
  <2> QED
    BY <1>1, <1>4, <2>1, AgesAreTimes DEF ServeBound
<1>5. CASE RequestBound
  <2>1. request.age \in 0..TTL
    BY DEF TasksTyped, RequestType
  <2> QED
    BY <1>1, <1>5, <2>1, AgesAreTimes DEF RequestBound
<1> QED
  BY <1>1, <1>2, <1>3, <1>4, <1>5 DEF Framed, WritesDeadline

LEMMA RenewalsKept ==
  ASSUME TablesTyped, Next
  PROVE  RenewalsTyped'
<1>1. RenewalsTyped /\ Framed
  BY Frames DEF TablesTyped, RenewalsTyped
<1>2. Abandoned \in [BindingIds -> [state : {"none", "sent", "granted", "denied", "lost"},
                                    age : 0..TTL]]
  BY <1>1, AgesAreTimes DEF Abandoned, NoRenewal, RenewalsTyped
<1>3. CASE WatchGone \/ WatchEnds \/ BeatFails
  BY <1>1, <1>2, <1>3 DEF WatchGone, WatchEnds, BeatFails, BeginFinish, RenewalsTyped
<1>4. CASE BeatRenews \/ Tick
  BY <1>1, <1>4, AgesAreTimes DEF BeatRenews, Tick, RenewalsTyped
<1>5. ASSUME NEW b \in BindingIds, BeatConfirmed(b) \/ BeatRetries(b) \/ RenewalLost(b)
      PROVE  RenewalsTyped'
  BY <1>1, <1>5, AgesAreTimes DEF BeatConfirmed, BeatRetries, RenewalLost, NoRenewal, RenewalsTyped
<1>6. ASSUME NEW b \in BindingIds, Renews(b)
      PROVE  RenewalsTyped'
  <2>1. PICK answer \in {"none", "denied", "granted"} :
          renewal' = [renewal EXCEPT ![b].state = answer, ![b].age = IF answer = "none" THEN 0 ELSE @]
    BY <1>6 DEF Renews
  <2> DEFINE R == [state : {"none", "sent", "granted", "denied", "lost"}, age : 0..TTL]
  <2>2. ASSUME NEW c \in BindingIds PROVE renewal'[c] \in R
    <3>1. renewal[c] \in R
      BY <1>1 DEF RenewalsTyped
    <3>2. CASE c = b
      <4>1. PICK age \in 0..TTL :
              renewal'[c] = [renewal[c] EXCEPT !.state = answer, !.age = age]
        BY <1>1, <2>1, <3>1, <3>2, AgesAreTimes DEF RenewalsTyped
      <4> QED
        BY <3>1, <4>1
    <3>3. CASE c # b
      BY <1>1, <2>1, <3>1, <3>3 DEF RenewalsTyped
    <3> QED
      BY <3>2, <3>3
  <2>3. DOMAIN renewal' = BindingIds /\ renewal' = [c \in DOMAIN renewal' |-> renewal'[c]]
    BY <1>1, <2>1 DEF RenewalsTyped
  <2> HIDE DEF R
  <2>4. renewal' \in [BindingIds -> R]
    BY <2>2, <2>3
  <2> QED
    BY <2>4 DEF RenewalsTyped, R
<1> QED
  BY <1>1, <1>3, <1>4, <1>5, <1>6 DEF Framed, WritesRenewal, RenewalsTyped

\* A lease is revoked or lasts at least as long as before.
LastsOn ==
  /\ bindings' \in Seq(Binding) /\ Len(bindings') \in Len(bindings)..MaxBindings
  /\ \A b \in DOMAIN bindings :
       bindings'[b].revoked \/ (~bindings[b].revoked /\ bindings[b].left <= bindings'[b].left)
Aged ==
  /\ bindings' \in Seq(Binding) /\ Len(bindings') = Len(bindings)
  /\ \A b \in DOMAIN bindings : /\ bindings'[b].revoked = bindings[b].revoked
                                /\ bindings'[b].left = Younger(bindings[b].left)

LEMMA BindingsKept ==
  ASSUME TablesTyped, Next
  PROVE  /\ ~Tick => LastsOn
         /\ Tick => Aged
         /\ \A w \in wire : Binds(w) => /\ Len(bindings') = Len(bindings) + 1
                                        /\ bindings'[Len(bindings) + 1].left = TTL
         /\ (\A w \in wire : ~Binds(w)) => Len(bindings') = Len(bindings)
         /\ bindings' \in Seq(Binding) /\ Len(bindings') \in Len(bindings)..MaxBindings
<1>1. /\ bindings \in Seq(Binding) /\ Len(bindings) \in 0..MaxBindings
      /\ DOMAIN bindings = 1..Len(bindings) /\ TTL \in Nat /\ Framed
      /\ \A b \in DOMAIN bindings : bindings[b].left \in 0..TTL
  <2>1. Len(bindings) \in 0..MaxBindings /\ bindings \in Seq(Binding)
    BY MaxIsNat DEF TablesTyped
  <2>2. \A b \in DOMAIN bindings : bindings[b] \in Binding
    BY <2>1
  <2> QED
    BY <2>1, <2>2, Frames, TimesAreNat DEF Binding
<1>2. ASSUME NEW b, bindings' = Revoked(b)
      PROVE  LastsOn /\ Len(bindings') = Len(bindings)
  BY <1>1, <1>2, RevokedTable DEF LastsOn
<1>3. ASSUME NEW b, bindings' = [bindings EXCEPT ![b].left = TTL]
      PROVE  LastsOn /\ Len(bindings') = Len(bindings)
  <2>1. /\ bindings' \in Seq(Binding) /\ Len(bindings') = Len(bindings)
        /\ \A i \in DOMAIN bindings : /\ bindings'[i].revoked = bindings[i].revoked
                                      /\ bindings'[i].left = IF i = b THEN TTL ELSE bindings[i].left
    BY <1>1, <1>3, RenewedTable
  <2>2. ASSUME NEW i \in DOMAIN bindings
        PROVE  \/ bindings'[i].revoked
               \/ ~bindings[i].revoked /\ bindings[i].left <= bindings'[i].left
    <3>1. bindings'[i].revoked \/ ~bindings[i].revoked
      BY <2>1
    <3>2. bindings[i].left <= bindings'[i].left
      BY <1>1, <2>1
    <3> QED
      BY <3>1, <3>2
  <2> QED
    BY <1>1, <2>1, <2>2 DEF LastsOn
<1>4. ASSUME bindings' = bindings
      PROVE  LastsOn /\ Len(bindings') = Len(bindings)
  BY <1>1, <1>4 DEF LastsOn
<1>5. ASSUME Tick
      PROVE  Aged
  BY <1>1, <1>5, AgedTable DEF Tick, Aged
<1>6. ASSUME NEW w \in wire, Binds(w)
      PROVE  /\ LastsOn /\ Len(bindings') = Len(bindings) + 1
             /\ bindings'[Len(bindings) + 1].left = TTL
  <2>1. w.call \in Calls
    BY DEF TablesTyped, WireType
  <2>2. [call |-> w.call, revoked |-> FALSE, left |-> TTL] \in Binding
    BY <1>1, <2>1 DEF Binding
  <2>3. bindings' = Append(bindings, [call |-> w.call, revoked |-> FALSE, left |-> TTL])
        /\ Len(bindings) < MaxBindings
    BY <1>6 DEF Binds
  <2> QED
    BY <1>1, <2>2, <2>3, MaxIsNat DEF LastsOn
<1>7. ASSUME \/ FinishRevokes \/ RequestRevokes \/ RequestUnrevoked
             \/ \E b \in BindingIds : Renews(b) \/ RenewalLost(b)
      PROVE  LastsOn /\ Len(bindings') = Len(bindings)
  <2>1. \/ \E b : bindings' = Revoked(b)
        \/ \E b : bindings' = [bindings EXCEPT ![b].left = TTL]
        \/ bindings' = bindings
    BY <1>7 DEF FinishRevokes, RequestRevokes, RequestUnrevoked, Renews, RenewalLost
  <2> QED
    BY <2>1, <1>2, <1>3, <1>4
<1>8. Aged => bindings' \in Seq(Binding) /\ Len(bindings') = Len(bindings)
  BY DEF Aged
<1>9. LastsOn => bindings' \in Seq(Binding) /\ Len(bindings') \in Len(bindings)..MaxBindings
  BY DEF LastsOn
<1>10. UNCHANGED bindings \/ WritesBindings
  BY <1>1 DEF Framed
<1>11. (\E w \in wire : Binds(w)) \/ (Aged /\ Tick) \/ (LastsOn /\ Len(bindings') = Len(bindings))
  BY <1>4, <1>5, <1>6, <1>7, <1>10 DEF WritesBindings
<1> QED
  BY <1>1, <1>5, <1>6, <1>8, <1>9, <1>11

LEMMA TablesKept ==
  ASSUME PhoneTyped, TablesTyped, TasksTyped, Numbered, Next
  PROVE  TablesTyped'
<1>1. bindings' \in Seq(Binding) /\ Len(bindings') \in Len(bindings)..MaxBindings
  BY BindingsKept
<1>2. Len(bindings') <= MaxBindings
  BY <1>1
<1> QED
  BY <1>1, <1>2, WireKept, DeadlinesKept, RenewalsKept DEF TablesTyped, RenewalsTyped

-----------------------------------------------------------------------------
(* The watcher *)

\* What the watcher makes of a phone: nothing, a refusal or a service.
Taken(seen, base) ==
  \/ ctl' = base /\ serve' = serve
  \/ /\ Takeable(seen) /\ watch'.pc = "poll"
     /\ ctl' = [base EXCEPT !.call = seen.id, !.number = seen.number]
     /\ serve' = [NoServe EXCEPT !.pc = "start", !.call = seen.id]

LEMMA PollsAgain ==
  ASSUME watch \in WatchType, Polls
  PROVE  watch' \in WatchType /\ watch'.pc = "poll" /\ watch'.seen = NoPhone
<1>1. 0 \in 0..MaxCalls
  BY MaxIsNat
<1>2. NoPhone \in Phone
  BY <1>1 DEF NoPhone, Phone, Callers
<1>3. <<>> \in Seq(BindingIds)
  OBVIOUS
<1> QED
  BY <1>1, <1>2, <1>3 DEF Polls, WatchType, None

LEMMA TakesPhone ==
  ASSUME NEW seen \in Phone, NEW base, Take(seen, base), watch \in WatchType
  PROVE  /\ watch' \in WatchType /\ watch'.pc \in {"poll", "end"}
         /\ watch'.seen \in {watch.seen, NoPhone}
         /\ Taken(seen, base)
<1>1. seen.id \in 0..MaxCalls
  BY DEF Phone
<1>2. ASSUME Ends("poll", seen.id)
      PROVE  watch' \in WatchType /\ watch'.pc = "end" /\ watch'.seen = watch.seen
  BY <1>1, <1>2 DEF Ends, WatchType
<1> QED
  BY <1>2, PollsAgain DEF Take, Taken

\* finish() begins with no call, and revokes leases there are.
LEMMA FinishBegins ==
  ASSUME TasksTyped, TablesTyped, NEW then \in {"poll", "take", "exclude", "finish"},
         NEW call \in 0..MaxCalls, NEW seen \in Phone, BeginFinish(then, call, seen)
  PROVE  /\ watch' \in WatchType /\ watch'.pc = "finish" /\ watch'.seen = seen
         /\ ctl' = [ctl EXCEPT !.call = None, !.excluded = None]
<1>1. \A b \in 0..Len(bindings) : Known(b) \in Seq(BindingIds)
  <2>1. Len(bindings) \in Nat /\ Len(bindings) <= MaxBindings /\ MaxBindings \in Nat
    BY MaxIsNat DEF TablesTyped
  <2>2. \A b \in 0..Len(bindings) : b # 0 => b \in BindingIds
    BY <2>1 DEF BindingIds
  <2> QED
    BY <2>2 DEF Known, None
<1>2. ctl.binding \in 0..Len(bindings) /\ ctl.child \in 0..Len(bindings)
  BY DEF TasksTyped, CtlType
<1>3. (IF ctl.api THEN Known(ctl.binding) \o Known(ctl.child) ELSE <<>>) \in Seq(BindingIds)
  BY <1>1, <1>2
<1> QED
  BY <1>3 DEF BeginFinish, WatchType

\* The watcher's state, and whom it was shown.
LEMMA WatchKept ==
  ASSUME PhoneTyped, TablesTyped, TasksTyped, Next
  PROVE  watch' \in WatchType
<1>1. /\ watch \in WatchType /\ phone \in Phone /\ watch.seen \in Phone /\ ctl.call \in 0..MaxCalls
      /\ watch.then \in {"poll", "take", "exclude", "finish"} /\ watch.call \in 0..MaxCalls
      /\ MaxCalls \in Nat /\ Framed /\ 0 \in 0..MaxCalls
  BY MaxIsNat, Frames DEF TasksTyped, CtlType, WatchType, PhoneTyped
<1>2. ASSUME Polls
      PROVE  watch' \in WatchType
  BY <1>1, <1>2, PollsAgain
<1>3. CASE WatchDone \/ WatchSwapped
  BY <1>1, <1>3 DEF WatchDone, WatchSwapped, Ends, WatchType
<1>4. CASE WatchGone
  BY <1>1, <1>4, FinishBegins DEF WatchGone, None
<1>5. CASE WatchTakes
  BY <1>1, <1>5, TakesPhone DEF WatchTakes
<1>6. CASE WatchEnds
  BY <1>1, <1>2, <1>6, FinishBegins DEF WatchEnds
<1>7. CASE FinishRevokes
  <2>1. watch.revoke \in Seq(BindingIds) /\ watch.revoke # <<>>
    BY <1>1, <1>7 DEF FinishRevokes, WatchType
  <2>2. Tail(watch.revoke) \in Seq(BindingIds)
    BY <2>1
  <2> QED
    BY <1>1, <1>7, <2>2 DEF FinishRevokes, WatchType
<1>8. CASE FinishCancels \/ FinishStops
  BY <1>1, <1>8 DEF FinishCancels, FinishStops, WatchType
<1>9. CASE FinishCloses
  BY <1>1, <1>2, <1>9, TakesPhone DEF FinishCloses
<1> QED
  BY <1>1, <1>3, <1>4, <1>5, <1>6, <1>7, <1>8, <1>9 DEF Framed, Watches

-----------------------------------------------------------------------------
(* The controller's attributes, the service and the request *)

LEMMA Constants ==
  /\ 0 \in 0..MaxCalls /\ 0 \in 0..TTL /\ Unknown \in Callers
  /\ \A n \in Nat : 0 \in 0..n /\ NoServe \in ServeType(n) /\ NoRequest \in RequestType(n)
BY MaxIsNat, TimesAreNat DEF Callers, NoServe, NoRequest, ServeType, RequestType, None

LEMMA TakenTyped ==
  ASSUME NEW n \in Nat, NEW seen \in Phone, NEW base \in CtlType(n), serve \in ServeType(n),
         Taken(seen, base)
  PROVE  ctl' \in CtlType(n) /\ serve' \in ServeType(n)
<1>1. seen.id \in 0..MaxCalls /\ seen.number \in Callers
  BY DEF Phone
<1>2. [base EXCEPT !.call = seen.id, !.number = seen.number] \in CtlType(n)
  BY <1>1 DEF CtlType
<1>3. [NoServe EXCEPT !.pc = "start", !.call = seen.id] \in ServeType(n)
  BY <1>1, Constants DEF NoServe, ServeType, None
<1> QED
  BY <1>2, <1>3 DEF Taken

\* The client is closed: what finish() leaves of the attributes.
LEMMA ClosedCtl ==
  ASSUME NEW n \in Nat, ctl \in CtlType(n)
  PROVE  LET closed == [ctl EXCEPT !.api = FALSE, !.binding = None, !.voice = FALSE, !.brief = None]
         IN /\ closed \in CtlType(n)
            /\ closed.call = ctl.call /\ closed.brief = None
<1>1. 0 \in 0..n /\ 0 \in 0..MaxCalls
  BY Constants
<1>2. ASSUME NEW off \in BOOLEAN
      PROVE  [ctl EXCEPT !.api = off, !.binding = None, !.voice = off, !.brief = None] \in CtlType(n)
  BY <1>1 DEF CtlType, None
<1> QED
  BY <1>2 DEF CtlType

LEMMA CtlKept ==
  ASSUME PhoneTyped, TablesTyped, TasksTyped, Next
  PROVE  ctl' \in CtlType(Len(bindings))
<1> DEFINE n == Len(bindings)
<1> SUFFICES ctl' \in CtlType(n)
  OBVIOUS
<1>1. /\ n \in Nat /\ ctl \in CtlType(n) /\ serve \in ServeType(n) /\ request \in RequestType(n)
      /\ phone \in Phone /\ watch.seen \in Phone /\ watch \in WatchType /\ Framed
      /\ watch.then \in {"poll", "take", "exclude", "finish"} /\ watch.call \in 0..MaxCalls
      /\ ctl.call \in 0..MaxCalls /\ 0 \in 0..n /\ 0 \in 0..MaxCalls
  BY Constants, Frames DEF TasksTyped, TablesTyped, PhoneTyped, WatchType, CtlType
<1>2. [ctl EXCEPT !.excluded = None] \in CtlType(n)
  BY <1>1 DEF CtlType, None
<1>3. [ctl EXCEPT !.call = None, !.excluded = None] \in CtlType(n)
  BY <1>1 DEF CtlType, None
<1> HIDE DEF n
<1>4. CASE WatchDone \/ WatchSwapped
  BY <1>2, <1>4 DEF WatchDone, WatchSwapped
<1>5. CASE WatchGone
  BY <1>3, <1>5 DEF WatchGone, BeginFinish
<1>6. CASE WatchTakes
  BY <1>1, <1>2, <1>6, TakesPhone, TakenTyped DEF WatchTakes
<1>7. CASE WatchEnds
  BY <1>1, <1>3, <1>7 DEF WatchEnds, BeginFinish
<1>8. CASE FinishCloses
  <2> DEFINE closed == [ctl EXCEPT !.api = FALSE, !.binding = None, !.voice = FALSE, !.brief = None]
  <2>1. closed \in CtlType(n)
    BY <1>1, ClosedCtl
  <2>2. [closed EXCEPT !.excluded = watch.call] \in CtlType(n)
    BY <1>1, <2>1 DEF CtlType
  <2>3. Take(watch.seen, closed) \/ ctl' = Excludes(closed)
    BY <1>8 DEF FinishCloses
  <2> HIDE DEF closed
  <2>4. Excludes(closed) \in CtlType(n)
    BY <2>1, <2>2 DEF Excludes
  <2> QED
    BY <1>1, <2>1, <2>3, <2>4, TakesPhone, TakenTyped
<1>9. CASE ServeStarts
  <2>1. PICK brief \in {serve.call, None} : ctl' = [ctl EXCEPT !.api = TRUE, !.ending = None, !.brief = brief]
    BY <1>9 DEF ServeStarts
  <2>2. brief \in 0..MaxCalls
    BY <1>1, <2>1 DEF ServeType, None
  <2> QED
    BY <1>1, <2>1, <2>2 DEF CtlType, None
<1>10. CASE ServeBound \/ ServeWaits
  <2>1. serve.got \in 0..n
    BY <1>1 DEF ServeType
  <2> QED
    BY <1>1, <1>10, <2>1 DEF ServeBound, ServeWaits, CtlType
<1>11. CASE RequestBound \/ RequestRevokes
  <2>1. request.child \in 0..n
    BY <1>1 DEF RequestType
  <2> QED
    BY <1>1, <1>11, <2>1 DEF RequestBound, RequestRevokes, CtlType, None
<1>12. CASE EndCall
  BY <1>1, <1>12 DEF EndCall, CtlType
<1> QED
  BY <1>1, <1>4, <1>5, <1>6, <1>7, <1>8, <1>9, <1>10, <1>11, <1>12 DEF Framed, WritesCtl, n

\* A task that is cancelled has no answer to wait for.
LEMMA ServeCancelled ==
  ASSUME NEW n \in Nat, serve \in ServeType(n), CancelServe
  PROVE  /\ serve' \in ServeType(n)
         /\ serve' = serve \/ (serve' = [serve EXCEPT !.pc = "done", !.got = None, !.age = 0]
                               /\ serve.pc # "off")
BY Constants DEF CancelServe, ServeType, None

LEMMA ServeTaken ==
  ASSUME NEW n \in Nat, NEW seen \in Phone, NEW base, serve \in ServeType(n), Taken(seen, base)
  PROVE  serve' \in ServeType(n)
<1>1. seen.id \in 0..MaxCalls
  BY DEF Phone
<1>2. [NoServe EXCEPT !.pc = "start", !.call = seen.id] \in ServeType(n)
  BY <1>1, Constants DEF NoServe, ServeType, None
<1> QED
  BY <1>2 DEF Taken

LEMMA ServeKept ==
  ASSUME PhoneTyped, TablesTyped, TasksTyped, Next
  PROVE  serve' \in ServeType(Len(bindings'))
<1> DEFINE n == Len(bindings)
<1>1. /\ n \in Nat /\ ctl \in CtlType(n) /\ serve \in ServeType(n)
      /\ phone \in Phone /\ watch.seen \in Phone /\ watch \in WatchType /\ Framed
      /\ 0 \in 0..n /\ 0 \in 0..TTL /\ NoServe \in ServeType(n) /\ serve.age \in 0..TTL
  BY Constants, Frames DEF TasksTyped, TablesTyped, PhoneTyped, WatchType, ServeType
<1>2. ASSUME NEW w \in wire, Binds(w)
      PROVE  serve' \in ServeType(Len(bindings'))
  <2>1. Len(bindings') = n + 1
    BY <1>2, BindingsKept
  <2>2. serve' = serve \/ serve' = [serve EXCEPT !.got = n + 1]
    BY <1>2 DEF Binds
  <2> QED
    BY <1>1, <2>1, <2>2 DEF ServeType
<1>3. SUFFICES ASSUME \A w \in wire : ~Binds(w)
               PROVE  serve' \in ServeType(n)
  BY <1>2, BindingsKept
<1> HIDE DEF n
<1>4. CASE WatchTakes
  BY <1>1, <1>4, TakesPhone, ServeTaken DEF WatchTakes
<1>5. CASE FinishCloses
  BY <1>1, <1>5, TakesPhone, ServeTaken DEF FinishCloses
<1>6. CASE FinishCancels
  BY <1>1, <1>6 DEF FinishCancels
<1>7. CASE BeatFails \/ RequestUnrevoked
  BY <1>1, <1>7, ServeCancelled DEF BeatFails, RequestUnrevoked
<1>8. CASE ServeStarts \/ ServeChecks \/ ServeAnswers \/ ServeWaits
  BY <1>1, <1>8 DEF ServeStarts, ServeChecks, ServeAnswers, ServeWaits, Goes, ServeType
<1>9. CASE ServeVoice \/ ServeLoops \/ ServeEnds
  BY <1>1, <1>9 DEF ServeVoice, ServeLoops, ServeEnds, Goes, ServeType
<1>10. CASE ServeBound \/ ServeFails
  BY <1>1, <1>10 DEF ServeBound, ServeFails, ServeType, None
<1>11. CASE Tick
  BY <1>1, <1>11, AgesAreTimes DEF Tick, ServeType
<1> QED
  BY <1>1, <1>3, <1>4, <1>5, <1>6, <1>7, <1>8, <1>9, <1>10, <1>11 DEF Framed, WritesServe, Serves

LEMMA RequestKept ==
  ASSUME PhoneTyped, TablesTyped, TasksTyped, Next
  PROVE  request' \in RequestType(Len(bindings'))
<1> DEFINE n == Len(bindings)
<1>1. /\ n \in Nat /\ request \in RequestType(n) /\ ctl.call \in 0..MaxCalls /\ Framed
      /\ 0 \in 0..n /\ 0 \in 0..TTL /\ NoRequest \in RequestType(n) /\ request.age \in 0..TTL
  BY Constants, Frames DEF TasksTyped, TablesTyped, CtlType, RequestType
<1>2. ASSUME NEW w \in wire, Binds(w)
      PROVE  request' \in RequestType(Len(bindings'))
  <2>1. Len(bindings') = n + 1
    BY <1>2, BindingsKept
  <2>2. request' = request \/ request' = [request EXCEPT !.child = n + 1]
    BY <1>2 DEF Binds
  <2> QED
    BY <1>1, <2>1, <2>2 DEF RequestType
<1>3. SUFFICES ASSUME \A w \in wire : ~Binds(w)
               PROVE  request' \in RequestType(n)
  BY <1>2, BindingsKept
<1> HIDE DEF n
<1>4. ASSUME CancelRequest
      PROVE  request' \in RequestType(n)
  BY <1>1, <1>4 DEF CancelRequest, RequestType
<1>5. CASE FinishStops \/ BeatStops \/ ServeFails
  BY <1>1, <1>4, <1>5 DEF FinishStops, BeatStops, ServeFails
<1>6. CASE FinishCloses
  BY <1>1, <1>6 DEF FinishCloses, RequestType
<1>7. CASE RequestBegins
  BY <1>1, <1>7 DEF RequestBegins, NoRequest, RequestType, None
<1>8. CASE RequestUnbound \/ RequestRevokes
  BY <1>1, <1>8 DEF RequestUnbound, RequestRevokes
<1>9. CASE RequestUnrevoked
  <2>1. ASSUME NEW t \in 0..1
        PROVE  [request EXCEPT !.pc = "ending", !.tries = t] \in RequestType(n)
    BY <1>1 DEF RequestType
  <2> QED
    BY <1>1, <1>9, <2>1, 1 \in 0..1 DEF RequestUnrevoked
<1>10. CASE RequestBound \/ RequestEnds \/ RequestLocks
  BY <1>1, <1>10 DEF RequestBound, RequestEnds, RequestLocks, RequestType
<1>11. CASE Tick
  BY <1>1, <1>11, AgesAreTimes DEF Tick, RequestType
<1> QED
  BY <1>1, <1>3, <1>4, <1>5, <1>6, <1>7, <1>8, <1>9, <1>10, <1>11
     DEF Framed, WritesRequest, Requests

\* The heartbeat, the lock and what has failed.
OthersTyped ==
  /\ beat \in {"off", "sleep", "due", "renew", "stop", "end"}
  /\ authority \in {"free", "beat", "request"}
  /\ failed \subseteq Calls \X Callers

LEMMA OthersKept ==
  ASSUME PhoneTyped, TablesTyped, TasksTyped, Numbered, Next
  PROVE  OthersTyped'
<1>1. OthersTyped
  BY DEF TasksTyped, OthersTyped
<1>2. serve.pc # "off" => <<serve.call, ctl.number>> \in Calls \X Callers
  BY MaxIsNat DEF Numbered, TasksTyped, ServeType, CtlType, Calls
<1>3. CASE Watches
  BY <1>1, <1>3 DEF Watches, WatchDone, WatchGone, WatchSwapped, WatchTakes, WatchEnds,
     FinishRevokes, FinishCancels, FinishStops, FinishCloses, BeginFinish, OthersTyped
<1>4. CASE Gateway \/ (\E b \in BindingIds : RenewalLost(b))
  BY <1>1, <1>4 DEF Gateway, Binds, Renews, RenewalLost, OthersTyped, tasks
<1>5. ASSUME CancelServe
      PROVE  failed' \subseteq Calls \X Callers
  BY <1>1, <1>2, <1>5 DEF CancelServe, OthersTyped
<1>6. CASE Beats
  BY <1>1, <1>5, <1>6 DEF Beats, BeatRenews, BeatFails, BeatStops, BeatEnds, BeatConfirmed,
     BeatRetries, OthersTyped, tasks
<1>7. CASE ServeStarts \/ ServeChecks \/ ServeBound \/ ServeWaits \/ ServeFails \/ EndCall
  BY <1>1, <1>7 DEF ServeStarts, ServeChecks, ServeBound, ServeWaits, ServeFails, EndCall,
     OthersTyped, tasks
<1>8. CASE ServeAnswers \/ ServeVoice \/ ServeLoops
  BY <1>1, <1>8 DEF ServeAnswers, ServeVoice, ServeLoops, ServeAlone, OthersTyped
<1>9. CASE ServeEnds
  BY <1>1, <1>2, <1>9 DEF ServeEnds, OthersTyped
<1>10. CASE Requests \/ RequestBegins \/ RequestUnbound
  BY <1>1, <1>10 DEF Requests, RequestBound, RequestEnds, RequestLocks, RequestRevokes,
     RequestBegins, RequestUnbound, OthersTyped
<1>11. CASE RequestUnrevoked
  BY <1>1, <1>5, <1>11 DEF RequestUnrevoked, OthersTyped
<1>12. CASE Tick
  BY <1>1, <1>12 DEF Tick, OthersTyped
<1>13. CASE \/ Stages \/ Dials \/ Discards \/ PickedUp \/ CallOver \/ LinkDrops
            \/ (\E n \in Callers : Incoming(n)) \/ (\E n \in Numbers : Named(n))
  BY <1>1, <1>13 DEF Stages, Dials, Discards, PickedUp, CallOver, LinkDrops, Incoming, Named,
     controller, OthersTyped, tasks
<1> QED
  BY <1>3, <1>4, <1>6, <1>7, <1>8, <1>9, <1>10, <1>11, <1>12, <1>13 DEF Next, Serves

LEMMA TypesKept ==
  ASSUME Types, Numbered, Next
  PROVE  Types'
<1>1. PhoneTyped /\ TablesTyped /\ TasksTyped
  BY TypesParts
<1>2. PhoneTyped' /\ TablesTyped'
  BY <1>1, PhoneKept, TablesKept
<1>3. ctl' \in CtlType(Len(bindings'))
  <2>1. /\ ctl' \in CtlType(Len(bindings)) /\ Len(bindings) \in Nat
        /\ Len(bindings') \in Len(bindings)..MaxBindings
    BY <1>1, CtlKept, BindingsKept DEF TablesTyped
  <2> QED
    BY <2>1, MaxIsNat DEF CtlType
<1>4. TasksTyped'
  BY <1>1, <1>3, WatchKept, ServeKept, RequestKept, OthersKept DEF TasksTyped, OthersTyped
<1>5. (PhoneTyped /\ TablesTyped /\ TasksTyped)' => Types'
  BY TypesParts, PTL
<1> QED
  BY <1>2, <1>4, <1>5

-----------------------------------------------------------------------------
(* The other parts of the invariant *)

LEMMA NumberedKept ==
  ASSUME Types, Numbered, Next
  PROVE  Numbered'
<1>1. PhoneTyped /\ TablesTyped /\ TasksTyped /\ Framed
  BY TypesParts, Frames
<1>2. phone \in Phone /\ watch.seen \in Phone /\ phone.id \in Nat /\ watch \in WatchType
  BY <1>1, MaxIsNat DEF PhoneTyped, TasksTyped, WatchType, Phone
<1>3. phone'.phase # "idle" => phone'.id # 0
  BY <1>1, <1>2, PhoneKept DEF SameCall, NextCall, Numbered
<1>4. watch'.seen \in {watch.seen, phone, NoPhone}
  <2>1. ASSUME Polls PROVE watch'.seen = NoPhone
    BY <1>2, <2>1, PollsAgain
  <2>2. CASE WatchDone \/ WatchSwapped
    BY <1>2, <2>2 DEF WatchDone, WatchSwapped, Ends, WatchType
  <2>3. CASE WatchGone
    BY <2>3 DEF WatchGone, BeginFinish
  <2>4. CASE WatchTakes
    BY <1>2, <2>4, TakesPhone DEF WatchTakes
  <2>5. CASE WatchEnds
    BY <2>1, <2>5 DEF WatchEnds, BeginFinish
  <2>6. CASE FinishRevokes \/ FinishCancels \/ FinishStops
    BY <1>2, <2>6 DEF FinishRevokes, FinishCancels, FinishStops, WatchType
  <2>7. CASE FinishCloses
    BY <1>2, <2>1, <2>7, TakesPhone DEF FinishCloses
  <2> QED
    BY <1>1, <2>2, <2>3, <2>4, <2>5, <2>6, <2>7 DEF Framed, Watches
<1>5. watch'.seen.phase # "idle" => watch'.seen.id # 0
  BY <1>4 DEF Numbered, NoPhone
<1>6. serve'.pc # "off" => serve'.call # 0
  <2>1. serve \in ServeType(Len(bindings)) /\ Len(bindings) \in Nat
    BY <1>1 DEF TasksTyped, TablesTyped
  <2>2. ASSUME NEW seen \in Phone, NEW base, seen.phase # "idle" => seen.id # 0, Taken(seen, base)
        PROVE  serve'.pc # "off" => serve'.call # 0
    <3>1. CASE serve' = serve
      BY <3>1 DEF Numbered
    <3>2. CASE Takeable(seen) /\ serve' = [NoServe EXCEPT !.pc = "start", !.call = seen.id]
      BY <2>2, <3>2 DEF Takeable, NoServe
    <3> QED
      BY <2>2, <3>1, <3>2 DEF Taken
  <2>3. CASE WatchTakes
    BY <1>2, <2>2, <2>3, TakesPhone DEF WatchTakes, Numbered
  <2>4. CASE FinishCloses
    <3>1. CASE watch.then = "take"
      BY <1>2, <2>2, <2>4, <3>1, TakesPhone DEF FinishCloses, Numbered
    <3>2. CASE watch.then # "take"
      BY <2>4, <3>2 DEF FinishCloses, Numbered
    <3> QED
      BY <3>1, <3>2
  <2>5. CASE FinishCancels
    BY <2>5 DEF FinishCancels, NoServe
  <2>6. serve' = serve \/ (serve.pc # "off" /\ serve'.call = serve.call)
        => (serve'.pc # "off" => serve'.call # 0)
    BY DEF Numbered
  <2>7. CASE BeatFails \/ RequestUnrevoked
    BY <2>1, <2>6, <2>7, ServeCancelled DEF BeatFails, RequestUnrevoked, ServeType
  <2>8. CASE ServeStarts \/ ServeChecks \/ ServeAnswers \/ ServeWaits
    BY <2>1, <2>6, <2>8 DEF ServeStarts, ServeChecks, ServeAnswers, ServeWaits, Goes, ServeType
  <2>9. CASE ServeVoice \/ ServeLoops \/ ServeEnds
    BY <2>1, <2>6, <2>9 DEF ServeVoice, ServeLoops, ServeEnds, Goes, ServeType
  <2>10. CASE ServeBound \/ ServeFails \/ Tick
    BY <2>1, <2>6, <2>10 DEF ServeBound, ServeFails, Tick, ServeType
  <2>11. CASE \E w \in wire : Binds(w)
    <3>1. serve'.pc = serve.pc /\ serve'.call = serve.call
      BY <2>1, <2>11 DEF Binds, ServeType
    <3> QED
      BY <3>1 DEF Numbered
  <2> QED
    BY <1>1, <2>3, <2>4, <2>5, <2>6, <2>7, <2>8, <2>9, <2>10, <2>11
       DEF Framed, WritesServe, Serves
<1> QED
  BY <1>3, <1>5, <1>6 DEF Numbered

\* A service goes on as it is, begins anew, is bound, cancelled or aged, or has a step of
\* its own behind it; only the watcher begins one.
ServeMoves ==
  \/ serve' = serve
  \/ Watches
  \/ /\ serve.pc # "off" /\ serve'.pc # "off" /\ serve'.call = serve.call
     /\ serve'.got = serve.got \/ serve'.got = None
     /\ serve'.age = serve.age \/ serve'.got = None \/ Tick
  \/ \E w \in wire : Binds(w)

LEMMA ServesMove ==
  ASSUME TablesTyped, TasksTyped, Next
  PROVE  ServeMoves
<1>1. /\ serve \in ServeType(Len(bindings)) /\ Len(bindings) \in Nat /\ Framed
  BY Frames DEF TasksTyped, TablesTyped
<1>2. CASE WatchTakes \/ FinishCancels \/ FinishCloses
  BY <1>2 DEF Watches, ServeMoves
<1>3. CASE BeatFails \/ RequestUnrevoked
  BY <1>1, <1>3, ServeCancelled DEF BeatFails, RequestUnrevoked, ServeMoves, ServeType
<1>4. CASE ServeStarts \/ ServeChecks \/ ServeAnswers \/ ServeWaits
  BY <1>1, <1>4 DEF ServeStarts, ServeChecks, ServeAnswers, ServeWaits, Goes, ServeType, ServeMoves
<1>5. CASE ServeVoice \/ ServeLoops \/ ServeEnds
  BY <1>1, <1>5 DEF ServeVoice, ServeLoops, ServeEnds, Goes, ServeType, ServeMoves
<1>6. CASE ServeBound \/ ServeFails
  BY <1>1, <1>6 DEF ServeBound, ServeFails, ServeType, ServeMoves
<1>7. CASE Tick
  <2>1. serve' = serve \/ (serve.pc = "bind" /\ serve' = [serve EXCEPT !.age = Older(@)])
    BY <1>7 DEF Tick
  <2> QED
    BY <1>1, <1>7, <2>1 DEF ServeType, ServeMoves
<1> QED
  BY <1>1, <1>2, <1>3, <1>4, <1>5, <1>6, <1>7 DEF Framed, WritesServe, Serves, ServeMoves

LEMMA WatchServesKept ==
  ASSUME Types, Numbered, WatchServes, Next
  PROVE  WatchServes'
<1>1. /\ PhoneTyped /\ TablesTyped /\ TasksTyped /\ Framed /\ ServeMoves /\ watch \in WatchType
      /\ ctl \in CtlType(Len(bindings)) /\ serve \in ServeType(Len(bindings))
      /\ Len(bindings) \in Nat /\ watch.seen \in Phone /\ phone \in Phone
      /\ watch.then \in {"poll", "take", "exclude", "finish"} /\ watch.call \in 0..MaxCalls
      /\ ctl.call \in 0..MaxCalls /\ 0 \in 0..MaxCalls
  BY TypesParts, Frames, ServesMove, Constants
     DEF TablesTyped, TasksTyped, PhoneTyped, WatchType, CtlType
<1>2. CASE ~Watches
  <2>1. watch' = watch
    BY <1>1, <1>2 DEF Framed
  <2>2. ctl'.call = ctl.call
    <3>1. CASE ServeStarts \/ ServeBound \/ ServeWaits
      BY <1>1, <3>1 DEF ServeStarts, ServeBound, ServeWaits, CtlType
    <3>2. CASE RequestBound \/ RequestRevokes \/ EndCall
      BY <1>1, <3>2 DEF RequestBound, RequestRevokes, EndCall, CtlType
    <3> QED
      BY <1>1, <1>2, <3>1, <3>2 DEF Framed, WritesCtl, Watches
  <2>3. serve.pc = "off" => serve'.pc = "off"
    <3>1. ASSUME NEW w \in wire, Binds(w) PROVE serve'.pc = serve.pc
      BY <1>1, <3>1 DEF Binds, ServeType
    <3> QED
      BY <1>1, <1>2, <3>1 DEF ServeMoves
  <2> QED
    BY <2>1, <2>2, <2>3 DEF WatchServes
<1>3. ASSUME Polls PROVE watch'.pc = "poll"
  BY <1>1, <1>3, PollsAgain
<1>4. ASSUME NEW seen \in Phone, NEW base \in CtlType(Len(bindings)), Take(seen, base),
             seen.phase # "idle" => seen.id # 0, serve.pc = "off", base.call = None
      PROVE  WatchServes'
  <2>1. watch'.pc \in {"poll", "end"} /\ Taken(seen, base)
    BY <1>1, <1>4, TakesPhone
  <2>2. CASE ctl' = base /\ serve' = serve
    BY <1>4, <2>1, <2>2 DEF WatchServes
  <2>3. CASE /\ Takeable(seen) /\ watch'.pc = "poll"
             /\ ctl' = [base EXCEPT !.call = seen.id, !.number = seen.number]
             /\ serve' = [NoServe EXCEPT !.pc = "start", !.call = seen.id]
    <3>1. seen.id # None /\ ctl'.call = seen.id
      BY <1>4, <2>3 DEF Takeable, None, CtlType
    <3> QED
      BY <2>3, <3>1 DEF WatchServes
  <2> QED
    BY <2>1, <2>2, <2>3 DEF Taken
<1>5. CASE WatchDone \/ WatchSwapped
  <2>1. ctl.call # None /\ ctl'.call = ctl.call /\ watch'.pc = "end"
    BY <1>1, <1>5 DEF WatchDone, WatchSwapped, Done, Serving, Ends, CtlType, WatchType
  <2> QED
    BY <2>1 DEF WatchServes
<1>6. CASE WatchGone
  <2>1. ctl'.call = None /\ watch'.pc = "finish"
    BY <1>1, <1>6, FinishBegins DEF WatchGone, None, CtlType
  <2> QED
    BY <2>1 DEF WatchServes
<1>7. CASE WatchTakes
  <2> DEFINE base == [ctl EXCEPT !.excluded = None]
  <2>1. base \in CtlType(Len(bindings)) /\ base.call = ctl.call
    BY <1>1 DEF CtlType, None
  <2>2. Take(phone, base) /\ ctl.call = None /\ watch.pc = "poll"
    BY <1>7 DEF WatchTakes, Looks, Serving
  <2> HIDE DEF base
  <2> QED
    BY <1>1, <1>4, <2>1, <2>2 DEF WatchServes, Numbered
<1>8. CASE WatchEnds
  <2>1. CASE Polls /\ UNCHANGED ctl
    BY <1>3, <1>8, <2>1 DEF WatchEnds, WatchServes
  <2>2. CASE BeginFinish(watch.then, watch.call, watch.seen)
    <3>1. ctl'.call = None /\ watch'.pc = "finish"
      BY <1>1, <2>2, FinishBegins DEF CtlType
    <3> QED
      BY <3>1 DEF WatchServes
  <2> QED
    BY <1>8, <2>1, <2>2 DEF WatchEnds
<1>9. CASE FinishRevokes \/ FinishCancels \/ FinishStops
  <2>1. ctl' = ctl /\ ctl.call = None
    BY <1>9 DEF FinishRevokes, FinishCancels, FinishStops, WatchServes
  <2>2. CASE FinishRevokes
    BY <1>1, <2>1, <2>2 DEF FinishRevokes, WatchServes, WatchType
  <2>3. CASE FinishCancels
    BY <1>1, <2>1, <2>3 DEF FinishCancels, WatchServes, WatchType, NoServe
  <2>4. CASE FinishStops
    BY <1>1, <2>1, <2>4 DEF FinishStops, WatchServes, WatchType
  <2> QED
    BY <1>9, <2>2, <2>3, <2>4
<1>10. CASE FinishCloses
  <2> DEFINE closed == [ctl EXCEPT !.api = FALSE, !.binding = None, !.voice = FALSE, !.brief = None]
  <2>1. closed \in CtlType(Len(bindings)) /\ closed.call = ctl.call
    BY <1>1, ClosedCtl
  <2>2. ctl.call = None /\ serve.pc = "off"
    BY <1>10 DEF FinishCloses, WatchServes
  <2>3. Take(watch.seen, closed) \/ (Polls /\ ctl' = Excludes(closed) /\ serve' = serve)
    BY <1>10 DEF FinishCloses
  <2> HIDE DEF closed
  <2>4. CASE Take(watch.seen, closed)
    BY <1>1, <1>4, <2>1, <2>2, <2>4 DEF Numbered
  <2>5. CASE Polls /\ ctl' = Excludes(closed) /\ serve' = serve
    BY <1>3, <2>2, <2>5 DEF WatchServes
  <2> QED
    BY <2>3, <2>4, <2>5
<1> QED
  BY <1>2, <1>5, <1>6, <1>7, <1>8, <1>9, <1>10 DEF Watches

-----------------------------------------------------------------------------
(* Requests for leases *)

LEMMA WireOKKept ==
  ASSUME Types, WatchServes, WireOK, Next
  PROVE  WireOK'
<1>1. /\ PhoneTyped /\ TablesTyped /\ TasksTyped /\ Framed /\ watch \in WatchType
      /\ serve \in ServeType(Len(bindings)) /\ Len(bindings) \in Nat /\ wire \subseteq WireType
      /\ watch.seen \in Phone /\ phone \in Phone /\ Len(bindings) + 1 # None
  BY TypesParts, Frames DEF TablesTyped, TasksTyped, PhoneTyped, WatchType, None
\* No request for a call's lease is waited for unless the service waits for it.
<1>2. serve.pc # "bind" => serve.got = None /\ \A w \in wire : w.stray \/ w.child
  BY DEF WireOK
<1>3. \A w \in Strays(FALSE) : w.stray \/ w.child
  BY <1>1, StraysAre DEF WireType
<1>4. \A w \in Strays(TRUE) : ~w.stray /\ ~w.child => w \in wire
  BY <1>1, StraysAre
<1>5. ASSUME CancelRequest
      PROVE  wire' \in {wire, Strays(TRUE)}
  BY <1>5 DEF CancelRequest
<1>6. ASSUME serve' = serve, wire' \in {wire, Strays(TRUE)}
      PROVE  WireOK'
  BY <1>4, <1>6 DEF WireOK
<1>7. ASSUME serve'.got = None, \A w \in wire' : w.stray \/ w.child
      PROVE  WireOK'
  BY <1>7 DEF WireOK
<1>8. CASE \/ WatchDone \/ WatchGone \/ WatchSwapped \/ WatchEnds \/ FinishRevokes
           \/ FinishStops \/ BeatStops
  BY <1>5, <1>6, <1>8 DEF WatchDone, WatchGone, WatchSwapped, WatchEnds, FinishRevokes, FinishStops,
                          BeatStops, table
<1>9. CASE WatchTakes \/ FinishCloses
  <2>1. serve.pc = "off" /\ wire' = wire
    BY <1>9 DEF WatchTakes, FinishCloses, Looks, Serving, WatchServes, table
  <2>2. serve' = serve \/ serve'.got = None
    <3>1. \A seen, base : Taken(seen, base) => serve' = serve \/ serve'.got = None
      BY DEF Taken, NoServe
    <3> QED
      BY <1>1, <1>9, <3>1, TakesPhone DEF WatchTakes, FinishCloses
  <2> QED
    BY <1>2, <1>7, <2>1, <2>2
<1>10. CASE FinishCancels
  BY <1>2, <1>3, <1>7, <1>10 DEF FinishCancels, NoServe
<1>11. ASSUME CancelServe
       PROVE  WireOK'
  <2>1. CASE serve.pc \in {"off", "done"}
    BY <1>6, <1>11, <2>1 DEF CancelServe
  <2>2. CASE serve.pc \notin {"off", "done"}
    <3>1. wire' = Strays(FALSE) /\ serve'.got = None
      BY <1>1, <1>11, <2>2 DEF CancelServe, ServeType
    <3> QED
      BY <1>3, <1>7, <3>1
  <2> QED
    BY <2>1, <2>2
<1>12. CASE BeatFails \/ RequestUnrevoked
  BY <1>11, <1>12 DEF BeatFails, RequestUnrevoked
<1>13. CASE ServeStarts \/ ServeAnswers \/ ServeWaits \/ ServeVoice \/ ServeLoops \/ ServeEnds
  <2>1. wire' = wire /\ serve.pc # "bind" /\ serve'.got = serve.got
    BY <1>1, <1>13 DEF ServeStarts, ServeAnswers, ServeWaits, ServeVoice, ServeLoops, ServeEnds,
                       Goes, ServeAlone, table, ServeType
  <2> QED
    BY <1>2, <1>7, <2>1
<1>14. CASE ServeChecks
  <2>1. /\ serve.pc = "check" /\ serve' = [serve EXCEPT !.pc = "bind"]
        /\ wire' = wire \cup {[call |-> serve.call, child |-> FALSE, stray |-> FALSE]}
    BY <1>14 DEF ServeChecks, Goes
  <2>2. serve'.pc = "bind" /\ serve'.got = None /\ serve'.call = serve.call
    BY <1>1, <1>2, <2>1 DEF ServeType
  <2> QED
    BY <1>2, <2>1, <2>2 DEF WireOK
<1>15. CASE ServeBound
  <2>1. serve'.got = None /\ wire' = wire /\ serve.got # None
    BY <1>1, <1>15 DEF ServeBound, ServeType
  <2> QED
    BY <1>7, <2>1 DEF WireOK
<1>16. CASE ServeFails
  <2>1. serve'.got = None
    BY <1>1, <1>16 DEF ServeFails, ServeType
  <2>2. \A w \in wire' : w.stray \/ w.child
    BY <1>1, <1>2, <1>3, <1>4, <1>5, <1>16 DEF ServeFails
  <2> QED
    BY <1>7, <2>1, <2>2
<1>17. ASSUME NEW w \in wire, Binds(w)
       PROVE  WireOK'
  <2>1. wire' = wire \ {w}
    BY <1>17 DEF Binds
  <2>2. CASE w.stray \/ w.child
    BY <1>17, <2>1, <2>2 DEF Binds, WireOK
  <2>3. CASE ~w.stray /\ ~w.child
    <3>1. serve'.pc = "bind" /\ serve.call = w.call
      BY <1>1, <1>17, <2>3 DEF Binds, WireOK, ServeType
    <3>2. \A v \in wire : ~v.stray /\ ~v.child => v = w
      BY <1>1, <2>3 DEF WireOK, WireType
    <3> QED
      BY <2>1, <3>1, <3>2 DEF WireOK
  <2> QED
    BY <2>2, <2>3
<1>18. CASE RequestBegins
  BY <1>18 DEF RequestBegins, WireOK
<1>19. CASE RequestUnbound
  BY <1>6, <1>19 DEF RequestUnbound
<1>20. CASE Tick
  <2>1. wire' = wire /\ serve'.pc = serve.pc /\ serve'.got = serve.got /\ serve'.call = serve.call
    BY <1>1, <1>20 DEF Tick, ServeType
  <2> QED
    BY <2>1 DEF WireOK
<1>21. CASE wire' = wire /\ serve' = serve
  BY <1>6, <1>21
<1> QED
  BY <1>1, <1>8, <1>9, <1>10, <1>12, <1>13, <1>14, <1>15, <1>16, <1>17, <1>18, <1>19, <1>20, <1>21
     DEF Framed, WritesWire, WritesServe, Serves

-----------------------------------------------------------------------------
(* Leases *)

\* After a step, the gateway honours lease b for at least "left", or has it revoked.
CoveredNext(b, left) ==
  b \in DOMAIN bindings' /\ (bindings'[b].revoked \/ left <= bindings'[b].left)

LEMMA StaysCovered ==
  ASSUME TablesTyped, NEW b \in BindingIds, NEW left \in 0..TTL, Covered(b, left)
  PROVE  /\ LastsOn => CoveredNext(b, left)
         /\ Aged => CoveredNext(b, Younger(left))
<1>1. /\ bindings \in Seq(Binding) /\ Len(bindings) \in Nat /\ b \in DOMAIN bindings
      /\ DOMAIN bindings = 1..Len(bindings) /\ TTL \in Nat
  BY TimesAreNat DEF TablesTyped, Covered
<1>2. bindings[b] \in Binding
  BY <1>1
<1>3. bindings[b].left \in 0..TTL
  BY <1>2 DEF Binding
<1>4. ASSUME LastsOn
      PROVE  CoveredNext(b, left)
  <2>1. bindings' \in Seq(Binding) /\ Len(bindings') \in Nat /\ Len(bindings) <= Len(bindings')
    BY <1>1, <1>4 DEF LastsOn
  <2>2. DOMAIN bindings' = 1..Len(bindings') /\ b \in DOMAIN bindings'
    BY <1>1, <2>1
  <2>3. bindings'[b] \in Binding
    BY <2>1, <2>2
  <2>4. bindings'[b].left \in 0..TTL
    BY <2>3 DEF Binding
  <2>5. bindings'[b].revoked \/ (~bindings[b].revoked /\ bindings[b].left <= bindings'[b].left)
    BY <1>1, <1>4 DEF LastsOn
  <2>6. bindings[b].revoked \/ left <= bindings[b].left
    BY DEF Covered
  <2>7. bindings'[b].revoked \/ left <= bindings'[b].left
    BY <1>1, <1>3, <2>4, <2>5, <2>6
  <2> QED
    BY <2>2, <2>7 DEF CoveredNext
<1>5. ASSUME Aged
      PROVE  CoveredNext(b, Younger(left))
  <2>1. b \in DOMAIN bindings'
    BY <1>1, <1>5 DEF Aged
  <2>2. bindings'[b].revoked = bindings[b].revoked /\ bindings'[b].left = Younger(bindings[b].left)
    BY <1>1, <1>5 DEF Aged
  <2>3. left <= bindings[b].left => Younger(left) <= Younger(bindings[b].left)
    BY <1>1, <1>3 DEF Younger
  <2> QED
    BY <2>1, <2>2, <2>3 DEF Covered, CoveredNext
<1> QED
  BY <1>4, <1>5

\* An answer that waits for a period is worth a period less.
LEMMA AgesBalance ==
  ASSUME NEW age \in 0..TTL
  PROVE  Younger(LeaseFrom(age)) = LeaseFrom(Older(age)) /\ LeaseFrom(age) \in 0..TTL
BY TimesAreNat DEF Younger, Older, LeaseFrom

\* What is waited for remains covered when a period passes for both sides, and when
\* it passes for neither.
LEMMA AnswerStaysCovered ==
  ASSUME Types, Next, NEW b \in BindingIds, NEW age \in 0..TTL, Covered(b, LeaseFrom(age))
  PROVE  /\ ~Tick => CoveredNext(b, LeaseFrom(age))
         /\ Tick => CoveredNext(b, LeaseFrom(Older(age)))
<1>1. TablesTyped
  BY TypesParts
<1> QED
  BY <1>1, AgesBalance, StaysCovered, BindingsKept

LEMMA LeasesKept ==
  ASSUME Types, WireOK, Leases, Next
  PROVE  Leases'
<1>1. /\ PhoneTyped /\ TablesTyped /\ TasksTyped /\ Framed /\ TTL \in Nat
      /\ serve \in ServeType(Len(bindings)) /\ request \in RequestType(Len(bindings))
      /\ Len(bindings) \in Nat /\ bindings \in Seq(Binding) /\ Len(bindings) <= MaxBindings
      /\ MaxBindings \in Nat /\ deadline \in [BindingIds -> 0..TTL]
      /\ renewal \in [BindingIds -> [state : {"none", "sent", "granted", "denied", "lost"},
                                     age : 0..TTL]]
  BY TypesParts, Frames, TimesAreNat, MaxIsNat DEF TablesTyped, TasksTyped
<1>2. DOMAIN bindings = 1..Len(bindings) /\ DOMAIN bindings \subseteq BindingIds
  BY <1>1 DEF BindingIds
<1>3. /\ bindings' \in Seq(Binding) /\ Len(bindings') \in Len(bindings)..MaxBindings
      /\ DOMAIN bindings' = 1..Len(bindings') /\ DOMAIN bindings' \subseteq BindingIds
  BY <1>1, BindingsKept DEF BindingIds
<1>4. deadline' \in [BindingIds -> 0..TTL]
  BY <1>1, DeadlinesKept
\* A lease that the gateway has just granted covers whatever is reckoned with.
<1>5. ASSUME NEW b \in DOMAIN bindings', b \notin DOMAIN bindings
      PROVE  bindings'[b].left = TTL
  <2>1. Len(bindings') # Len(bindings)
    BY <1>2, <1>3, <1>5
  <2>2. PICK w \in wire : Binds(w)
    BY <1>1, <2>1, BindingsKept
  <2>3. Len(bindings') = Len(bindings) + 1
    BY <1>1, <2>2, BindingsKept
  <2>4. b \in 1..(Len(bindings) + 1) /\ b \notin 1..Len(bindings)
    BY <1>2, <1>3, <1>5, <2>3
  <2>5. b = Len(bindings) + 1
    BY <1>1, <2>4
  <2> QED
    BY <1>1, <2>2, <2>5, BindingsKept
<1>6. \A b \in DOMAIN bindings : Covered(b, deadline[b])
  BY DEF Leases, LeaseConservative, Covered
<1>7. LeaseConservative'
  <2> SUFFICES ASSUME NEW b \in DOMAIN bindings'
               PROVE  bindings'[b].revoked \/ deadline'[b] <= bindings'[b].left
    BY DEF LeaseConservative
  <2>1. b \in BindingIds /\ deadline'[b] \in 0..TTL
    BY <1>3, <1>4
  <2>2. CASE b \notin DOMAIN bindings
    BY <1>1, <1>5, <2>1, <2>2
  <2>3. CASE b \in DOMAIN bindings /\ deadline'[b] = deadline[b] /\ ~Tick
    BY <1>1, <1>6, <2>1, <2>3, StaysCovered, BindingsKept DEF CoveredNext
  <2>4. CASE b \in DOMAIN bindings /\ deadline'[b] = 0
    <3>1. bindings'[b] \in Binding
      BY <1>3
    <3> QED
      BY <1>1, <2>4, <3>1 DEF Binding
  <2>5. CASE b \in DOMAIN bindings /\ Tick
    <3>1. deadline'[b] = Younger(deadline[b]) /\ deadline[b] \in 0..TTL
      BY <1>1, <2>1, <2>5 DEF Tick
    <3> QED
      BY <1>1, <1>6, <2>1, <2>5, <3>1, StaysCovered, BindingsKept DEF CoveredNext
  \* An answer is taken over with the age of its request.
  <2>6. ASSUME NEW age \in 0..TTL, Covered(b, LeaseFrom(age)), deadline'[b] = LeaseFrom(age), ~Tick
        PROVE  bindings'[b].revoked \/ deadline'[b] <= bindings'[b].left
    BY <2>1, <2>6, AnswerStaysCovered DEF CoveredNext
  <2>7. CASE b \in DOMAIN bindings /\ ServeBound /\ ~Tick
    <3>1. deadline'[b] = deadline[b] \/ (b = serve.got /\ deadline'[b] = LeaseFrom(serve.age)
                                         /\ serve.got # None)
      BY <1>1, <2>1, <2>7 DEF ServeBound
    <3>2. serve.age \in 0..TTL
      BY <1>1 DEF ServeType
    <3> QED
      BY <2>3, <2>6, <2>7, <3>1, <3>2 DEF Leases
  <2>8. CASE b \in DOMAIN bindings /\ RequestBound /\ ~Tick
    <3>1. deadline'[b] = deadline[b] \/ (b = request.child /\ deadline'[b] = LeaseFrom(request.age)
                                         /\ request.pc = "bind" /\ request.child # None)
      BY <1>1, <2>1, <2>8 DEF RequestBound
    <3>2. request.age \in 0..TTL
      BY <1>1 DEF RequestType
    <3> QED
      BY <2>3, <2>6, <2>8, <3>1, <3>2 DEF Leases
  <2>9. ASSUME b \in DOMAIN bindings, NEW c \in BindingIds, BeatConfirmed(c), ~Tick
        PROVE  bindings'[b].revoked \/ deadline'[b] <= bindings'[b].left
    <3>1. deadline'[b] = deadline[b] \/ (b = c /\ deadline'[b] = LeaseFrom(renewal[b].age)
                                         /\ renewal[b].state = "granted")
      BY <1>1, <2>1, <2>9 DEF BeatConfirmed
    <3>2. renewal[b].age \in 0..TTL
      BY <1>1, <2>1
    <3> QED
      BY <2>1, <2>3, <2>6, <2>9, <3>1, <3>2 DEF Leases
  <2>10. CASE FinishCloses \/ RequestRevokes
    <3>1. deadline'[b] = deadline[b] \/ deadline'[b] = 0
      BY <1>1, <2>1, <2>10 DEF FinishCloses, RequestRevokes
    <3> QED
      BY <2>2, <2>3, <2>4, <2>5, <3>1
  <2> QED
    BY <1>1, <2>2, <2>3, <2>5, <2>7, <2>8, <2>9, <2>10 DEF Framed, WritesDeadline
<1>8. ASSUME NEW age \in 0..TTL, NEW b \in DOMAIN bindings', b \notin DOMAIN bindings
      PROVE  CoveredNext(b, LeaseFrom(age))
  <2>1. LeaseFrom(age) <= TTL
    BY <1>1, AgesBalance
  <2> QED
    BY <1>5, <1>8, <2>1 DEF CoveredNext
<1>9. ASSUME NEW w \in wire, Binds(w)
      PROVE  Len(bindings) + 1 \in DOMAIN bindings' /\ Len(bindings) + 1 \notin DOMAIN bindings
  <2>1. Len(bindings') = Len(bindings) + 1
    BY <1>1, <1>9, BindingsKept
  <2> QED
    BY <1>1, <1>2, <1>3, <2>1
<1>10. serve'.got # None => CoveredNext(serve'.got, LeaseFrom(serve'.age))
  <2>1. serve.age \in 0..TTL /\ serve.got \in 0..Len(bindings)
    BY <1>1 DEF ServeType
  <2>2. \/ serve'.got = None
        \/ serve'.got = serve.got /\ serve'.age = serve.age /\ ~Tick
        \/ serve'.got = serve.got /\ serve'.age = Older(serve.age) /\ Tick
        \/ \E w \in wire : Binds(w)
    <3>1. CASE Tick
      <4>1. serve'.got = serve.got /\ (serve.pc = "bind" => serve'.age = Older(serve.age))
        BY <1>1, <3>1 DEF Tick, ServeType
      <4> QED
        BY <3>1, <4>1 DEF WireOK
    <3>2. CASE WatchTakes \/ FinishCloses
      <4>1. \A seen, base : Taken(seen, base) => serve' = serve \/ serve'.got = None
        BY DEF Taken, NoServe
      <4>2. phone \in Phone /\ watch.seen \in Phone /\ watch \in WatchType
        BY <1>1 DEF PhoneTyped, TasksTyped, WatchType
      <4>3. serve' = serve \/ serve'.got = None
        BY <3>2, <4>1, <4>2, TakesPhone DEF WatchTakes, FinishCloses
      <4> QED
        BY <3>1, <4>3
    <3>3. CASE FinishCancels
      BY <3>3 DEF FinishCancels, NoServe
    <3>4. CASE Watches /\ serve' = serve
      BY <3>1, <3>4
    <3>5. Watches => serve' = serve \/ WatchTakes \/ FinishCloses \/ FinishCancels
      BY DEF Watches, WatchDone, WatchGone, WatchSwapped, WatchEnds, FinishRevokes, FinishStops
    <3> QED
      BY <1>1, <3>1, <3>2, <3>3, <3>4, <3>5, ServesMove DEF ServeMoves
  <2>3. ASSUME NEW w \in wire, Binds(w), serve'.got # None
        PROVE  CoveredNext(serve'.got, LeaseFrom(serve'.age))
    <3>1. CASE serve' = serve /\ ~Tick
      BY <1>2, <2>1, <2>3, <3>1, AnswerStaysCovered DEF Leases, Covered
    <3>2. CASE serve' = [serve EXCEPT !.got = Len(bindings) + 1]
      <4>1. serve'.got = Len(bindings) + 1 /\ serve'.age = serve.age
        BY <1>1, <3>2 DEF ServeType
      <4> QED
        BY <1>8, <1>9, <2>1, <2>3, <4>1
    <3>3. ~Tick
      BY <1>1, <2>3, BindingsKept DEF Aged
    <3> QED
      BY <2>3, <3>1, <3>2, <3>3 DEF Binds
  <2>4. serve.got # None => serve.got \in BindingIds /\ Covered(serve.got, LeaseFrom(serve.age))
    BY <1>2 DEF Leases, Covered
  <2> QED
    BY <2>1, <2>2, <2>3, <2>4, AnswerStaysCovered
<1>11. request'.pc = "bind" /\ request'.child # None
         => CoveredNext(request'.child, LeaseFrom(request'.age))
  <2>1. request.age \in 0..TTL /\ request.child \in 0..Len(bindings)
    BY <1>1 DEF RequestType
  <2>2. \/ request'.pc # "bind" \/ request'.child = None
        \/ /\ request.pc = "bind" /\ request'.child = request.child
           /\ \/ request'.age = request.age /\ ~Tick
              \/ request'.age = Older(request.age) /\ Tick
        \/ \E w \in wire : Binds(w)
    <3> DEFINE Same == /\ request'.pc = request.pc /\ request'.child = request.child
                       /\ request'.age = request.age
    <3>1. CASE Tick
      BY <1>1, <3>1 DEF Tick, RequestType
    <3>2. CASE CancelRequest
      <4>1. Same \/ request'.pc # "bind"
        <5>1. CASE request.pc = "bind"
          BY <3>2, <5>1 DEF CancelRequest, NoRequest
        <5>2. CASE request.pc = "run"
          BY <1>1, <3>2, <5>2 DEF CancelRequest, RequestType
        <5>3. CASE request.pc \notin {"bind", "run"}
          BY <3>2, <5>3 DEF CancelRequest
        <5> QED
          BY <5>1, <5>2, <5>3
      <4> QED
        BY <3>1, <4>1
    <3>3. CASE FinishStops \/ BeatStops \/ ServeFails
      BY <3>1, <3>2, <3>3 DEF FinishStops, BeatStops, ServeFails
    <3>4. CASE FinishCloses
      <4>1. Same
        BY <1>1, <3>4 DEF FinishCloses, RequestType
      <4> QED
        BY <3>1, <4>1
    <3>5. CASE RequestBegins \/ RequestUnbound \/ RequestRevokes
      <4>1. request'.child = None
        <5>1. NoRequest.child = None
          BY DEF NoRequest
        <5>2. NoRequest \in RequestType(Len(bindings))
          BY <1>1, Constants
        <5>3. CASE RequestBegins
          BY <5>1, <5>2, <5>3 DEF RequestBegins, RequestType
        <5>4. CASE RequestUnbound \/ RequestRevokes
          BY <5>1, <5>4 DEF RequestUnbound, RequestRevokes
        <5> QED
          BY <3>5, <5>3, <5>4
      <4> QED
        BY <4>1
    <3>6. CASE RequestUnrevoked \/ RequestBound \/ RequestEnds \/ RequestLocks
      <4>1. request'.pc # "bind"
        <5>1. NoRequest.pc # "bind"
          BY DEF NoRequest
        <5>2. CASE RequestUnrevoked
          BY <1>1, <5>1, <5>2 DEF RequestUnrevoked, RequestType
        <5>3. CASE RequestBound \/ RequestEnds \/ RequestLocks
          BY <1>1, <5>3 DEF RequestBound, RequestEnds, RequestLocks, RequestType
        <5> QED
          BY <3>6, <5>2, <5>3
      <4> QED
        BY <4>1
    <3>7. CASE request' = request
      BY <3>1, <3>7
    <3> HIDE DEF Same
    <3> QED
      BY <1>1, <3>1, <3>3, <3>4, <3>5, <3>6, <3>7 DEF Framed, WritesRequest, Requests
  <2>3. ASSUME NEW w \in wire, Binds(w), request'.pc = "bind", request'.child # None
        PROVE  CoveredNext(request'.child, LeaseFrom(request'.age))
    <3>1. CASE request' = request /\ ~Tick
      BY <1>2, <2>1, <2>3, <3>1, AnswerStaysCovered DEF Leases, Covered
    <3>2. CASE request' = [request EXCEPT !.child = Len(bindings) + 1]
      <4>1. request'.child = Len(bindings) + 1 /\ request'.age = request.age
        BY <1>1, <3>2 DEF RequestType
      <4> QED
        BY <1>8, <1>9, <2>1, <2>3, <4>1
    <3>3. ~Tick
      BY <1>1, <2>3, BindingsKept DEF Aged
    <3> QED
      BY <2>3, <3>1, <3>2, <3>3 DEF Binds
  <2>4. request.pc = "bind" /\ request.child # None
          => request.child \in BindingIds /\ Covered(request.child, LeaseFrom(request.age))
    BY <1>2 DEF Leases, Covered
  <2> QED
    BY <2>1, <2>2, <2>3, <2>4, AnswerStaysCovered
<1>12. ASSUME NEW b \in BindingIds, renewal'[b].state = "granted"
       PROVE  CoveredNext(b, LeaseFrom(renewal'[b].age))
  <2>1. renewal[b] \in [state : {"none", "sent", "granted", "denied", "lost"}, age : 0..TTL]
    BY <1>1
  <2>2. renewal[b].state = "granted" => Covered(b, LeaseFrom(renewal[b].age))
    BY DEF Leases
  <2>3. CASE renewal'[b] = renewal[b] /\ ~Tick
    BY <1>12, <2>1, <2>2, <2>3, AnswerStaysCovered
  <2>4. CASE Tick
    <3>1. renewal'[b] = IF renewal[b].state \in {"none", "lost"} THEN renewal[b]
                        ELSE [renewal[b] EXCEPT !.age = Older(@)]
      BY <2>4 DEF Tick
    <3>2. renewal[b].state = "granted" /\ renewal'[b].age = Older(renewal[b].age)
      BY <1>12, <2>1, <3>1
    <3> QED
      BY <2>1, <2>2, <2>4, <3>2, AnswerStaysCovered
  <2>5. CASE WatchGone \/ WatchEnds \/ BeatFails
    <3>1. renewal'[b] = renewal[b]
      <4>1. renewal' = Abandoned => renewal'[b].state # "granted"
        BY DEF Abandoned, NoRenewal
      <4> QED
        BY <1>12, <2>5, <4>1 DEF WatchGone, WatchEnds, BeatFails, BeginFinish
    <3> QED
      BY <2>3, <2>4, <3>1
  <2>6. CASE BeatRenews
    <3>1. renewal'[b] = renewal[b]
      BY <1>12, <2>6 DEF BeatRenews
    <3> QED
      BY <2>3, <2>4, <3>1
  <2>7. ASSUME NEW c \in BindingIds, BeatConfirmed(c) \/ BeatRetries(c) \/ RenewalLost(c)
        PROVE  CoveredNext(b, LeaseFrom(renewal'[b].age))
    <3>1. renewal'[b] = renewal[b]
      BY <1>1, <1>12, <2>1, <2>7 DEF BeatConfirmed, BeatRetries, RenewalLost, NoRenewal
    <3> QED
      BY <2>3, <2>4, <3>1
  <2>8. ASSUME NEW c \in BindingIds, Renews(c)
        PROVE  CoveredNext(b, LeaseFrom(renewal'[b].age))
    <3>1. CASE b # c
      <4>1. renewal'[b] = renewal[b]
        BY <1>1, <2>8, <3>1 DEF Renews
      <4> QED
        BY <2>3, <2>4, <4>1
    \* The gateway grants the lease anew.
    <3>2. CASE b = c
      <4>1. Live(b) /\ bindings' = [bindings EXCEPT ![b].left = TTL]
        BY <1>1, <1>12, <2>1, <2>8, <3>2 DEF Renews
      <4>2. b \in DOMAIN bindings /\ bindings'[b].left = TTL /\ DOMAIN bindings' = DOMAIN bindings
        <5>1. b \in DOMAIN bindings
          BY <4>1 DEF Live
        <5>2. /\ DOMAIN bindings' = DOMAIN bindings
              /\ \A i \in DOMAIN bindings : bindings'[i].left = IF i = b THEN TTL ELSE bindings[i].left
          BY <1>1, <4>1, RenewedTable
        <5> QED
          BY <5>1, <5>2
      <4>3. renewal'[b].age \in 0..TTL
        BY <1>1, RenewalsKept DEF RenewalsTyped
      <4>4. LeaseFrom(renewal'[b].age) <= TTL
        <5>1. \A n \in 0..TTL : LeaseFrom(n) <= TTL
          BY <1>1 DEF LeaseFrom
        <5> QED
          BY <4>3, <5>1
      <4> QED
        BY <4>2, <4>4 DEF CoveredNext
    <3> QED
      BY <3>1, <3>2
  <2>9. CASE renewal' = renewal
    BY <2>3, <2>4, <2>9
  <2> QED
    BY <1>1, <2>4, <2>5, <2>6, <2>7, <2>8, <2>9 DEF Framed, WritesRenewal
<1> QED
  BY <1>7, <1>10, <1>11, <1>12 DEF Leases, Covered, CoveredNext, LeaseFrom

-----------------------------------------------------------------------------
(* Briefs *)

LEMMA BriefsKept ==
  ASSUME Types, Briefs, Next
  PROVE  Briefs'
<1>1. /\ PhoneTyped /\ TablesTyped /\ TasksTyped /\ Framed /\ MaxCalls \in Nat
      /\ ctl \in CtlType(Len(bindings)) /\ phone \in Phone /\ phone.id \in Nat /\ ctl.brief \in Nat
  BY TypesParts, Frames, MaxIsNat DEF PhoneTyped, TasksTyped, CtlType, Phone
<1>2. SameCall \/ NextCall
  BY <1>1, PhoneKept
<1>3. phone'.out => phone'.by
  BY <1>2 DEF SameCall, NextCall, Briefs
\* A brief is forgotten, or claimed for the phone's call, which the daemon has dialed.
<1>4. \/ ctl'.brief = ctl.brief
      \/ ctl'.brief = 0
      \/ ctl'.brief = phone.id /\ phone.by /\ phone' = phone
  <2>1. \A seen, base : Taken(seen, base) /\ base \in CtlType(Len(bindings)) => ctl'.brief = base.brief
    BY DEF Taken, CtlType
  <2>2. CASE ServeStarts
    <3> DEFINE claims == /\ Outbound([phone EXCEPT !.number = ctl.number])
                         /\ phone.id = serve.call
    <3>1. ctl' = [ctl EXCEPT !.api = TRUE, !.ending = None,
                             !.brief = IF claims THEN serve.call ELSE None] /\ phone' = phone
      BY <2>2 DEF ServeStarts
    <3>2. claims => phone.out /\ phone.id = serve.call
      BY <1>1 DEF Outbound, Phone
    <3> HIDE DEF claims
    <3>3. ctl'.brief = IF claims THEN serve.call ELSE None
      BY <1>1, <3>1 DEF CtlType
    <3> QED
      BY <3>1, <3>2, <3>3 DEF Briefs, None
  <2>3. CASE WatchDone \/ WatchSwapped \/ WatchGone \/ WatchEnds
    BY <1>1, <2>3 DEF WatchDone, WatchSwapped, WatchGone, WatchEnds, BeginFinish, CtlType
  <2>4. CASE WatchTakes
    <3> DEFINE base == [ctl EXCEPT !.excluded = None]
    <3>1. base \in CtlType(Len(bindings)) /\ base.brief = ctl.brief
      BY <1>1 DEF CtlType, None
    <3>2. Taken(phone, base)
      BY <1>1, <2>4, TakesPhone DEF WatchTakes, TasksTyped
    <3> HIDE DEF base
    <3> QED
      BY <2>1, <3>1, <3>2
  <2>5. CASE FinishCloses
    <3> DEFINE closed == [ctl EXCEPT !.api = FALSE, !.binding = None, !.voice = FALSE, !.brief = None]
    <3>1. closed \in CtlType(Len(bindings))
      BY <1>1, ClosedCtl DEF TablesTyped
    <3>2. closed.brief = 0
      BY <1>1, ClosedCtl DEF TablesTyped, None
    <3>3. Take(watch.seen, closed) \/ ctl' = Excludes(closed)
      BY <2>5 DEF FinishCloses
    <3> HIDE DEF closed
    <3>4. Excludes(closed).brief = 0
      BY <3>1, <3>2 DEF Excludes, CtlType
    <3>5. watch.seen \in Phone /\ watch \in WatchType
      BY <1>1 DEF TasksTyped, WatchType
    <3> QED
      BY <2>1, <3>1, <3>2, <3>3, <3>4, <3>5, TakesPhone
  <2>6. CASE ServeBound \/ ServeWaits \/ RequestBound \/ RequestRevokes \/ EndCall
    BY <1>1, <2>6 DEF ServeBound, ServeWaits, RequestBound, RequestRevokes, EndCall, CtlType
  <2>7. CASE ctl' = ctl
    BY <2>7
  <2> QED
    BY <1>1, <2>2, <2>3, <2>4, <2>5, <2>6, <2>7 DEF Framed, WritesCtl
<1>5. ctl'.brief <= phone'.id
  BY <1>1, <1>2, <1>4 DEF SameCall, NextCall, Briefs
<1>6. phone'.phase # "idle" /\ ctl'.brief = phone'.id => phone'.by
  <2>1. CASE SameCall
    <3>1. phone'.phase # "idle" => phone.phase # "idle"
      BY <2>1 DEF SameCall
    <3> QED
      BY <1>1, <1>4, <2>1, <3>1 DEF SameCall, Briefs, BriefForRecipient, Up
  <2>2. CASE NextCall
    BY <1>1, <1>4, <2>2 DEF NextCall, Briefs
  <2> QED
    BY <1>2, <2>1, <2>2
<1> QED
  BY <1>3, <1>5, <1>6 DEF Briefs, BriefForRecipient, Up

-----------------------------------------------------------------------------
(* The theorems *)

\* The state in which the daemon starts.
LEMMA InitInv ==
  ASSUME Init
  PROVE  IInv
<1>1. /\ bound \in BoundType /\ bound.calls <= MaxCalls /\ MaxCalls \in Nat /\ MaxBindings \in Nat
      /\ bound.calls \in Nat
  BY MaxIsNat DEF Init, BoundType
<1>2. 0 \in 0..MaxCalls /\ 0 \in 0..TTL /\ Unknown \in Callers /\ 0 \in 0..0
      /\ NoServe \in ServeType(0) /\ NoRequest \in RequestType(0)
  BY Constants
<1>3. Len(bindings) = 0 /\ bindings = <<>>
  BY DEF Init
<1>4. NoPhone \in Phone /\ NoPhone.id = 0 /\ NoPhone.phase = "idle" /\ ~NoPhone.out
  BY <1>2 DEF NoPhone, Phone
<1>5. PhoneTyped
  BY <1>1, <1>2, <1>4 DEF Init, PhoneTyped, NoStage
<1>6. TablesTyped
  BY <1>1, <1>2, <1>3 DEF Init, TablesTyped, NoRenewal
<1>7. watch \in WatchType
  <2>1. <<>> \in Seq(BindingIds)
    OBVIOUS
  <2> QED
    BY <1>2, <1>4, <2>1 DEF Init, WatchType, None
<1>8. ctl \in CtlType(0)
  BY <1>2 DEF Init, CtlType, None
<1>9. TasksTyped
  BY <1>2, <1>3, <1>7, <1>8 DEF Init, TasksTyped
<1>10. Types
  BY <1>5, <1>6, <1>9, TypesParts
<1>11. /\ serve = NoServe /\ request = NoRequest /\ phone = NoPhone /\ watch.seen = NoPhone
       /\ watch.pc = "poll" /\ wire = {} /\ ctl.brief = 0
       /\ \A b \in BindingIds : renewal[b] = NoRenewal
  BY DEF Init, None
<1>12. NoServe.pc = "off" /\ NoServe.got = None /\ NoRequest.pc = "idle" /\ NoRenewal.state = "none"
  BY DEF NoServe, NoRequest, NoRenewal
<1>13. Numbered
  BY <1>4, <1>11, <1>12 DEF Numbered
<1>14. WatchServes
  BY <1>11, <1>12 DEF WatchServes
<1>15. WireOK
  BY <1>11, <1>12 DEF WireOK
<1>16. Leases
  BY <1>3, <1>11, <1>12 DEF Leases, LeaseConservative
<1>17. Briefs
  BY <1>4, <1>11 DEF Briefs, BriefForRecipient, Up
<1> QED
  BY <1>10, <1>13, <1>14, <1>15, <1>16, <1>17 DEF IInv

LEMMA StepInv ==
  ASSUME IInv, [Next]_vars
  PROVE  IInv'
<1>1. CASE Next
  BY <1>1, TypesKept, NumberedKept, WatchServesKept, WireOKKept, LeasesKept, BriefsKept DEF IInv
<1>2. CASE UNCHANGED vars
  <2>1. UNCHANGED <<phone, hangups, bindings, wire, deadline, renewal, ctl, watch, serve, beat,
                    request, authority, staged, dial, failed, bound>>
    BY <1>2 DEF vars, tasks
  <2>2. Types' /\ Numbered'
    <3>1. PhoneTyped /\ TablesTyped /\ TasksTyped
      BY TypesParts DEF IInv
    <3>2. PhoneTyped'
      BY <2>1, <3>1 DEF PhoneTyped
    <3>3. TablesTyped' /\ TasksTyped'
      BY <2>1, <3>1 DEF TablesTyped, TasksTyped
    <3>4. (PhoneTyped /\ TablesTyped /\ TasksTyped)' => Types'
      BY TypesParts, PTL
    <3>5. Numbered'
      BY <2>1 DEF IInv, Numbered
    <3> QED
      BY <3>2, <3>3, <3>4, <3>5
  <2>3. WatchServes' /\ WireOK'
    BY <2>1 DEF IInv, WatchServes, WireOK
  <2>4. Leases' /\ Briefs'
    BY <2>1 DEF IInv, Leases, LeaseConservative, Covered, LeaseFrom, Briefs, BriefForRecipient, Up
  <2> QED
    BY <2>2, <2>3, <2>4 DEF IInv
<1> QED
  BY <1>1, <1>2

\* The invariant holds: the controller's reckoning and the gateway's agree on every lease
\* that is held, asked for or under way (_renew_binding, serve, events).
THEOREM ControllerInvariant == Spec => []IInv
<1>1. Init => IInv
  BY InitInv
<1>2. IInv /\ [Next]_vars => IInv'
  BY StepInv
<1> QED
  BY <1>1, <1>2, PTL DEF Spec

\* The controller never takes a lease for longer than the gateway does, whatever is delayed,
\* lost or retried (phone_controller.py, _renew_binding); and the purpose of a staged dial is
\* read to no call but the one dialed for it (find_outbound, claim_outbound).
THEOREM LeasesAreConservative == Spec => []Inv
<1>1. IInv => Inv
  BY DEF IInv, Types, Leases, Briefs, Inv
<1> QED
  BY <1>1, ControllerInvariant, PTL
=============================================================================
