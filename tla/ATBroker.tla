------------------------------ MODULE ATBroker ------------------------------
(***************************************************************************)
(* ATCommandBroker of hfp/session.py on one RFCOMM connection: commands    *)
(* are serialised by a lock, and the terminal response (OK or ERROR), which*)
(* carries no transaction identifier, is given to the pending command.     *)
(* The module follows one connection from the service-level handshake      *)
(* (mode "slc": execute pumps the event queue itself) to the active session*)
(* (mode "session": the dispatcher owns the queue) and to its end.         *)
(*                                                                         *)
(* Time is abstracted: a timer that is running may fire at any step.  Each *)
(* element of Commands is one call of execute.                             *)
(***************************************************************************)
EXTENDS Naturals, Sequences

CONSTANTS
    Commands,     \* the calls of execute made on this connection
    NoCommand,    \* no call
    Wants,        \* calls that pass expected_prefixes
    Needs,        \* calls whose OK without a result is an error (require_result)
    MaxUrcs       \* bound: unsolicited results the phone sends

ASSUME NoCommandAssumption == NoCommand \notin Commands
ASSUME WantsAssumption == Wants \subseteq Commands /\ Needs \subseteq Wants
ASSUME MaxUrcsAssumption == MaxUrcs \in Nat

VARIABLES
    mode,         \* who consumes the event queue; "closed" once nobody does
    lockQ,        \* FIFO of calls waiting for _command_lock
    outcome,      \* what became of each call
    pending,      \* the call holding the lock (_pending), or NoCommand
    future,       \* its future
    results,      \* calls whose result lines were appended to the pending call
    quarantine,   \* _terminal_quarantine_until: unset, in the future, passed
    deferred,     \* events a direct-mode execute did not consume
    cmdQueue,     \* asyncio queue read by the RFCOMM writer thread
    sent,         \* commands the phone has received and not yet answered
    answering,    \* the phone has sent the result line of Head(sent)
    eventQueue,   \* asyncio queue filled by the RFCOMM reader thread
    link,         \* the socket
    urcs,         \* number of unsolicited results sent so far
    dispatched,   \* those handled by the dispatcher, in order
    issued,       \* history: calls whose bytes were queued
    answered,     \* history: calls whose terminal response was consumed
    credit,       \* history: whose response completed each call
    orphaned      \* history: a quarantine ran out with a response outstanding

broker  == <<lockQ, outcome, pending, future, results, quarantine, deferred>>
wire    == <<cmdQueue, sent, answering, link, urcs>>
history == <<issued, answered, credit, orphaned>>
vars    == <<mode, broker, wire, eventQueue, dispatched, history>>

Terminal(c, ok) == [kind |-> "terminal", for |-> c, ok |-> ok, n |-> 0]
Result(c)       == [kind |-> "result", for |-> c, ok |-> TRUE, n |-> 0]
Urc(i)          == [kind |-> "urc", for |-> NoCommand, ok |-> TRUE, n |-> i]
Eof             == [kind |-> "eof", for |-> NoCommand, ok |-> TRUE, n |-> 0]

Event == [kind : {"terminal", "result", "urc", "eof"},
          for : Commands \cup {NoCommand}, ok : BOOLEAN, n : Nat]

Unresolved == issued \ answered

Init ==
    /\ mode = "slc"
    /\ lockQ = <<>>
    /\ outcome = [c \in Commands |-> "new"]
    /\ pending = NoCommand
    /\ future = "open"
    /\ results = {}
    /\ quarantine = "off"
    /\ deferred = <<>>
    /\ cmdQueue = <<>>
    /\ sent = <<>>
    /\ answering = FALSE
    /\ eventQueue = <<>>
    /\ link = "up"
    /\ urcs = 0
    /\ dispatched = <<>>
    /\ issued = {}
    /\ answered = {}
    /\ credit = [c \in Commands |-> NoCommand]
    /\ orphaned = FALSE

-----------------------------------------------------------------------------
(* execute *)

\* A task calls execute and queues for the lock.  Before the service-level
\* connection is up only the handshake does, one command after the other.
Call(c) ==
    /\ outcome[c] = "new"
    /\ mode = "slc" => lockQ = <<>> /\ pending = NoCommand
    /\ outcome' = [outcome EXCEPT ![c] = "waiting"]
    /\ lockQ' = Append(lockQ, c)
    /\ UNCHANGED <<mode, pending, future, results, quarantine, deferred, wire,
                   eventQueue, dispatched, history>>

\* The lock is granted while a timed-out command still owns the next terminal.
Refuse(c) ==
    /\ outcome[c] = "waiting" /\ pending = NoCommand
    /\ lockQ # <<>> /\ c = Head(lockQ)
    /\ quarantine = "on"
    /\ lockQ' = Tail(lockQ)
    /\ outcome' = [outcome EXCEPT ![c] = "refused"]
    /\ UNCHANGED <<mode, pending, future, results, quarantine, deferred, wire,
                   eventQueue, dispatched, history>>

\* Mutant: the quarantine is not looked at.
BeginUnchecked(c) ==
    /\ outcome[c] = "waiting" /\ pending = NoCommand
    /\ lockQ # <<>> /\ c = Head(lockQ)
    /\ lockQ' = Tail(lockQ)
    /\ outcome' = [outcome EXCEPT ![c] = "running"]
    /\ pending' = c
    /\ future' = "open"
    /\ results' = {}
    /\ quarantine' = "off"
    /\ cmdQueue' = Append(cmdQueue, c)
    /\ issued' = issued \cup {c}
    /\ UNCHANGED <<mode, deferred, sent, answering, link, urcs, eventQueue,
                   dispatched, answered, credit, orphaned>>

\* The lock is granted on a clear channel: reading terminal_quarantined resets
\* an expired quarantine, and the command is put on the writer's queue.
Begin(c) ==
    /\ outcome[c] = "waiting" /\ pending = NoCommand
    /\ lockQ # <<>> /\ c = Head(lockQ)
    /\ quarantine # "on"
    /\ lockQ' = Tail(lockQ)
    /\ outcome' = [outcome EXCEPT ![c] = "running"]
    /\ pending' = c
    /\ future' = "open"
    /\ results' = {}
    /\ quarantine' = "off"
    /\ cmdQueue' = Append(cmdQueue, c)
    /\ issued' = issued \cup {c}
    /\ UNCHANGED <<mode, deferred, sent, answering, link, urcs, eventQueue,
                   dispatched, answered, credit, orphaned>>

\* Mutant: the deferred events are not put back.
ReleaseDropsDeferred(c, how) ==
    /\ pending' = NoCommand
    /\ outcome' = [outcome EXCEPT ![c] = how]
    /\ deferred' = <<>>
    /\ UNCHANGED <<eventQueue, lockQ, results, future, wire, dispatched, history>>

\* Mutant: the transaction stays pending.
ReleaseKeepsPending(c, how) ==
    /\ outcome' = [outcome EXCEPT ![c] = how]
    /\ eventQueue' = eventQueue \o deferred
    /\ deferred' = <<>>
    /\ UNCHANGED <<pending, lockQ, results, future, wire, dispatched, history>>

\* The finally block, common to every way out of execute.
Release(c, how) ==
    /\ pending' = NoCommand
    /\ outcome' = [outcome EXCEPT ![c] = how]
    /\ eventQueue' = eventQueue \o deferred
    /\ deferred' = <<>>
    /\ UNCHANGED <<lockQ, results, future, wire, dispatched, history>>

\* Mutant: the caller does not wait for the future.
ReturnEarly(c) ==
    /\ pending = c
    /\ Release(c, future)
    /\ mode' = IF mode = "slc" /\ future # "ok" THEN "closed" ELSE mode
    /\ UNCHANGED quarantine

\* The awaited future is done.  A handshake command that fails ends the
\* connection (HandshakeError, then the session task retires it).
Return(c) ==
    /\ pending = c /\ future # "open"
    /\ Release(c, future)
    /\ mode' = IF mode = "slc" /\ future # "ok" THEN "closed" ELSE mode
    /\ UNCHANGED quarantine

\* Mutant: a timeout does not quarantine the channel.
TimeoutUnquarantined(c) ==
    /\ pending = c
    /\ future = "open" \/ mode = "session"
    /\ Release(c, "timeout")
    /\ mode' = IF mode = "slc" THEN "closed" ELSE mode
    /\ UNCHANGED quarantine

\* asyncio.TimeoutError.  In a session wait_for can time out in the very step
\* in which the future has just been resolved; the except clause does not look.
Timeout(c) ==
    /\ pending = c
    /\ future = "open" \/ mode = "session"
    /\ Release(c, "timeout")
    /\ quarantine' = "on"
    /\ mode' = IF mode = "slc" THEN "closed" ELSE mode

\* Mutant: cancelling the caller is taken for cancelling the command.
CancelUnquarantined(c) ==
    /\ pending = c
    /\ Release(c, "cancelled")
    /\ mode' = IF mode = "slc" THEN "closed" ELSE mode
    /\ UNCHANGED quarantine

\* asyncio.CancelledError while the command is on its way.
Cancel(c) ==
    /\ pending = c
    /\ Release(c, "cancelled")
    /\ quarantine' = IF future = "open" THEN "on" ELSE quarantine
    /\ mode' = IF mode = "slc" THEN "closed" ELSE mode

\* asyncio.CancelledError while waiting for the lock: nothing was queued.
CancelWait(c) ==
    \E i \in 1..Len(lockQ) :
        /\ lockQ[i] = c
        /\ lockQ' = SubSeq(lockQ, 1, i - 1) \o SubSeq(lockQ, i + 1, Len(lockQ))
        /\ outcome' = [outcome EXCEPT ![c] = "cancelled"]
        /\ mode' = IF mode = "slc" THEN "closed" ELSE mode
        /\ UNCHANGED <<pending, future, results, quarantine, deferred, wire,
                       eventQueue, dispatched, history>>

\* time.monotonic() passes the quarantine's deadline.
QuarantineExpires ==
    /\ quarantine = "on"
    /\ quarantine' = "expired"
    /\ orphaned' = (orphaned \/ Unresolved # {})
    /\ UNCHANGED <<mode, lockQ, outcome, pending, future, results, deferred,
                   wire, eventQueue, dispatched, issued, answered, credit>>

-----------------------------------------------------------------------------
(* handle_event *)

\* A terminal while a quarantine is set, expired or not, is the orphan's.
Swallow(e) ==
    /\ e.kind = "terminal" /\ quarantine # "off"
    /\ quarantine' = "off"
    /\ answered' = answered \cup {e.for}
    /\ UNCHANGED <<future, results, credit>>

\* A terminal completes the pending transaction.
Resolve(e) ==
    /\ e.kind = "terminal" /\ quarantine = "off"
    /\ pending # NoCommand /\ future = "open"
    /\ future' = IF ~e.ok \/ (pending \in Needs /\ results = {})
                 THEN "error" ELSE "ok"
    /\ credit' = [credit EXCEPT ![pending] = e.for]
    /\ answered' = answered \cup {e.for}
    /\ UNCHANGED <<quarantine, results>>

\* A terminal for a transaction whose future is already done is consumed.
Absorb(e) ==
    /\ e.kind = "terminal" /\ quarantine = "off"
    /\ pending # NoCommand /\ future # "open"
    /\ answered' = answered \cup {e.for}
    /\ UNCHANGED <<quarantine, future, results, credit>>

\* A result line with an expected prefix joins the pending transaction.
Collect(e) ==
    /\ e.kind = "result" /\ pending \in Wants
    /\ results' = results \cup {e.for}
    /\ UNCHANGED <<quarantine, future, answered, credit>>

HandleEvent(e) == Swallow(e) \/ Resolve(e) \/ Absorb(e) \/ Collect(e)

NotConsumed(e) ==
    \/ e.kind = "urc"
    \/ e.kind = "result" /\ pending \notin Wants
    \/ e.kind = "terminal" /\ quarantine = "off" /\ pending = NoCommand

\* Direct mode: the executing task takes one event while its future is open.
Pump ==
    /\ mode = "slc" /\ pending # NoCommand /\ future = "open"
    /\ eventQueue # <<>>
    /\ eventQueue' = Tail(eventQueue)
    /\ LET e == Head(eventQueue) IN
        \/ /\ HandleEvent(e)
           /\ UNCHANGED <<mode, deferred>>
        \/ /\ NotConsumed(e)
           /\ deferred' = Append(deferred, e)
           /\ UNCHANGED <<mode, quarantine, future, results, answered, credit>>
        \/ /\ e.kind = "eof"       \* abort("RFCOMM connection closed")
           /\ future' = "closed"
           /\ mode' = "closed"
           /\ UNCHANGED <<deferred, quarantine, results, answered, credit>>
    /\ UNCHANGED <<lockQ, outcome, pending, wire, dispatched, issued, orphaned>>

\* set_handshake_complete; the dispatcher takes over the event queue.
SlcDone ==
    /\ mode = "slc" /\ pending = NoCommand /\ lockQ = <<>>
    /\ mode' = "session"
    /\ UNCHANGED <<broker, wire, eventQueue, dispatched, history>>

\* One round of ATEventDispatcher.run.
Dispatch ==
    /\ mode = "session" /\ eventQueue # <<>>
    /\ eventQueue' = Tail(eventQueue)
    /\ LET e == Head(eventQueue) IN
        \/ /\ HandleEvent(e)
           /\ UNCHANGED <<mode, dispatched>>
        \/ /\ NotConsumed(e)
           /\ dispatched' = IF e.kind = "urc" THEN Append(dispatched, e.n)
                                              ELSE dispatched
           /\ answered' = IF e.kind = "terminal" THEN answered \cup {e.for}
                                                 ELSE answered
           /\ UNCHANGED <<mode, quarantine, future, results, credit>>
        \/ /\ e.kind = "eof"
           /\ future' = IF pending # NoCommand /\ future = "open"
                        THEN "closed" ELSE future
           /\ mode' = "closed"
           /\ UNCHANGED <<dispatched, quarantine, results, answered, credit>>
    /\ UNCHANGED <<lockQ, outcome, pending, deferred, wire, issued, orphaned>>

\* The server retires the connection: abort, stop the thread, cancel the
\* dispatcher.  (reset_at_command_broker aborts in the same way.)
Retire ==
    /\ mode # "closed"
    /\ mode' = "closed"
    /\ link' = "down"
    /\ future' = IF pending # NoCommand /\ future = "open" THEN "closed" ELSE future
    /\ UNCHANGED <<lockQ, outcome, pending, results, quarantine, deferred,
                   cmdQueue, sent, answering, urcs, eventQueue, dispatched, history>>

-----------------------------------------------------------------------------
(* RFCOMM threads and the phone *)

WriterSends ==
    /\ link = "up" /\ cmdQueue # <<>>
    /\ cmdQueue' = Tail(cmdQueue)
    /\ sent' = Append(sent, Head(cmdQueue))
    /\ UNCHANGED <<mode, broker, answering, link, urcs, eventQueue, dispatched, history>>

\* The writer's 0.5 s poll gives up on the get() that has just taken the bytes.
WriterDrops ==
    /\ link = "up" /\ cmdQueue # <<>>
    /\ cmdQueue' = Tail(cmdQueue)
    /\ UNCHANGED <<mode, broker, sent, answering, link, urcs, eventQueue, dispatched, history>>

PhoneResult ==
    /\ link = "up" /\ sent # <<>> /\ ~answering
    /\ Head(sent) \in Wants
    /\ answering' = TRUE
    /\ eventQueue' = Append(eventQueue, Result(Head(sent)))
    /\ UNCHANGED <<mode, broker, cmdQueue, sent, link, urcs, dispatched, history>>

PhoneTerminal ==
    /\ link = "up" /\ sent # <<>>
    /\ answering' = FALSE
    /\ sent' = Tail(sent)
    /\ \E ok \in BOOLEAN :
          eventQueue' = Append(eventQueue, Terminal(Head(sent), ok))
    /\ UNCHANGED <<mode, broker, cmdQueue, link, urcs, dispatched, history>>

PhoneUrc ==
    /\ link = "up" /\ urcs < MaxUrcs
    /\ urcs' = urcs + 1
    /\ eventQueue' = Append(eventQueue, Urc(urcs + 1))
    /\ UNCHANGED <<mode, broker, cmdQueue, sent, answering, link, dispatched, history>>

\* The socket ends; the reader posts its sentinel once, after every event.
Disconnect ==
    /\ link = "up"
    /\ link' = "down"
    /\ eventQueue' = Append(eventQueue, Eof)
    /\ UNCHANGED <<mode, broker, cmdQueue, sent, answering, urcs, dispatched, history>>

-----------------------------------------------------------------------------

Execute(c) ==
    \/ Call(c) \/ Refuse(c) \/ Begin(c)
    \/ Return(c) \/ Timeout(c) \/ Cancel(c) \/ CancelWait(c)

Environment ==
    \/ WriterSends \/ WriterDrops
    \/ PhoneResult \/ PhoneTerminal \/ PhoneUrc \/ Disconnect

Next ==
    \/ \E c \in Commands : Execute(c)
    \/ QuarantineExpires \/ Pump \/ SlcDone \/ Dispatch \/ Retire
    \/ Environment

Spec == Init /\ [][Next]_vars

\* The event loop runs ready tasks and its timers fire; nothing is assumed of
\* the phone, of the writer thread, or of the tasks that issue commands.
Fairness ==
    /\ \A c \in Commands :
          /\ WF_vars(Refuse(c) \/ Begin(c))
          /\ WF_vars(Return(c))
          /\ WF_vars(Timeout(c))
    /\ WF_vars(Pump) /\ WF_vars(SlcDone) /\ WF_vars(Dispatch)
    /\ WF_vars(QuarantineExpires)

FairSpec == Spec /\ Fairness

-----------------------------------------------------------------------------
(* Properties *)

\* Every variable stays in its range.
TypeOK ==
    /\ mode \in {"slc", "session", "closed"}
    /\ lockQ \in Seq(Commands)
    /\ outcome \in [Commands -> {"new", "waiting", "running", "ok", "error", "closed",
                                 "timeout", "cancelled", "refused"}]
    /\ pending \in Commands \cup {NoCommand}
    /\ future \in {"open", "ok", "error", "closed"}
    /\ results \subseteq Commands \cup {NoCommand}
    /\ quarantine \in {"off", "on", "expired"}
    /\ deferred \in Seq(Event)
    /\ cmdQueue \in Seq(Commands)
    /\ sent \in Seq(Commands)
    /\ answering \in BOOLEAN
    /\ eventQueue \in Seq(Event)
    /\ link \in {"up", "down"}
    /\ urcs \in Nat
    /\ dispatched \in Seq(Nat)
    /\ issued \subseteq Commands
    /\ answered \subseteq Commands \cup {NoCommand}
    /\ credit \in [Commands -> Commands \cup {NoCommand}]
    /\ orphaned \in BOOLEAN

\* The OK or ERROR that completes a command is the phone's answer to that very
\* command, as long as no quarantine has run out with an answer outstanding:
\* timeouts, cancellations, lost commands and late answers do not break it.
TerminalAttribution ==
    ~orphaned => \A c \in Commands : credit[c] \in {NoCommand, c}

\* The result lines given to a command (+CIND, +CLCC) are its own, too.
ResultAttribution ==
    ~orphaned /\ pending # NoCommand => results \subseteq {pending}

\* At most one command on the connection awaits its answer, until a quarantine
\* runs out early: the phone is never given two commands at a time.
OneUnresolved ==
    ~orphaned /\ mode # "closed" => \A c, d \in Unresolved : c = d

(* The inductive invariant behind TerminalAttribution and OneUnresolved *)

Distinct(s) == \A i, j \in 1..Len(s) : s[i] = s[j] => i = j

\* A call is issued when it gets the lock, not before.
FreshInv ==
    \A c \in Commands : outcome[c] \in {"new", "waiting"} => c \notin issued

\* A command on its way to the phone is unresolved and is on its way once;
\* an answered one was issued.
WireInv ==
    /\ answered \subseteq issued
    /\ \A i \in 1..Len(cmdQueue) : cmdQueue[i] \in Unresolved
    /\ \A i \in 1..Len(sent) : sent[i] \in Unresolved
    /\ \A i \in 1..Len(cmdQueue), j \in 1..Len(sent) : cmdQueue[i] # sent[j]
    /\ Distinct(cmdQueue)
    /\ Distinct(sent)

\* A terminal in the queue answers an unresolved command that is no longer on
\* its way, and is the only one to answer it.
QueueInv ==
    /\ \A i \in 1..Len(eventQueue) : eventQueue[i].kind = "terminal" =>
          /\ eventQueue[i].for \in Unresolved
          /\ \A j \in 1..Len(cmdQueue) : cmdQueue[j] # eventQueue[i].for
          /\ \A j \in 1..Len(sent) : sent[j] # eventQueue[i].for
          /\ \A j \in 1..Len(eventQueue) :
                eventQueue[j].kind = "terminal" /\ eventQueue[j].for = eventQueue[i].for
                    => i = j
    /\ \A i \in 1..Len(deferred) : deferred[i].kind # "terminal"

\* On a live connection an unresolved command is the pending one, or the one
\* the channel is quarantined for.
OwnerInv ==
    /\ quarantine # "off" => pending = NoCommand
    /\ ~orphaned /\ mode # "closed" =>
          \A c \in Unresolved :
             /\ \A d \in Unresolved : c = d
             /\ \/ pending = c /\ future = "open"
                \/ pending = NoCommand /\ quarantine = "on"

AttributionInv == FreshInv /\ WireInv /\ QueueInv /\ OwnerInv /\ TerminalAttribution

Urcs(q) == {i \in 1..Len(q) : q[i].kind = "urc"}
UrcNumbers(q) == {q[i].n : i \in Urcs(q)}
Handled == {dispatched[i] : i \in 1..Len(dispatched)}
UrcsOnce(q) == \A i, j \in Urcs(q) : q[i].n = q[j].n => i = j

\* Unsolicited results are never swallowed and never handled twice: each one is
\* in the queue, put aside by a direct-mode transaction, or dispatched, and is so
\* at one place.
NoUrcSwallowed ==
    mode # "closed" =>
      /\ Handled \cup UrcNumbers(eventQueue) \cup UrcNumbers(deferred) = 1..urcs
      /\ Handled \cap UrcNumbers(eventQueue) = {}
      /\ Handled \cap UrcNumbers(deferred) = {}
      /\ UrcNumbers(eventQueue) \cap UrcNumbers(deferred) = {}
      /\ Distinct(dispatched) /\ UrcsOnce(eventQueue) /\ UrcsOnce(deferred)

\* No line of the phone goes astray: a result is given to the command it answers,
\* and an unsolicited one is kept until it is dispatched.
LinesKept == ResultAttribution /\ NoUrcSwallowed

\* Every call of execute comes back to its caller.
CallsReturn ==
    \A c \in Commands : outcome[c] \in {"waiting", "running"} ~>
                        outcome[c] \notin {"new", "waiting", "running"}

\* An unsolicited result reaches the dispatcher unless the connection ends.
UrcsDelivered ==
    \A i \in 1..MaxUrcs :
        urcs >= i ~> (mode = "closed" \/ \E j \in 1..Len(dispatched) : dispatched[j] = i)

\* Refuted by TLC.  The comment on the timeout path: the channel is quarantined "until the orphan
\* is consumed or this connection-local broker is replaced", so that a late OK is
\* never misattributed.  The quarantine also ends by time.
NeverMisattributed == \A c \in Commands : credit[c] \in {NoCommand, c}

\* The class docstring: direct-mode transactions put unrelated URCs back "for the
\* active dispatcher in arrival order".
UrcsInArrivalOrder ==
    \A i, j \in 1..Len(dispatched) : i < j => dispatched[i] < dispatched[j]
=============================================================================
