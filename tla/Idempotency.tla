---------------------------- MODULE Idempotency ----------------------------
(***************************************************************************)
(* The public tools take a request_id.  _run_idempotent_async and          *)
(* _run_ephemeral_idempotent_async (server.py) run the handler of a        *)
(* request, record its response in the SQLite RequestLedger (contracts.py) *)
(* and replay that response to whoever asks again with the same            *)
(* request_id.  Concurrent invocations of one request_id queue on an       *)
(* asyncio.Lock, which _request_locks creates on demand and forgets again. *)
(*                                                                         *)
(* The module follows ONE request_id: locks and ledger rows of different   *)
(* request_ids share nothing.  An invocation i that finds no lock makes    *)
(* one, which the model names i.  The handlers are external: what is known *)
(* of them is that they await, that they reply or raise, and that their    *)
(* task may be cancelled.  A restart keeps the ledger and nothing else.    *)
(***************************************************************************)
EXTENDS Naturals, FiniteSets, Sequences, SequencesExt

CONSTANTS Invocation,  \* the tool calls that carry this request_id
          Operation,   \* the operation strings they may name
          Ephemeral,   \* those that acquire a resource (acquire_audio_stream)
          Body,        \* what a response may say
          Marker,      \* "resource: duplex_audio_stream", the stored stand-in
          None,
          MaxCrashes   \* bound: restarts of the process

ASSUME OperationAssumption == Ephemeral \subseteq Operation
ASSUME NoneAssumption == /\ None \notin Invocation \cup Operation
                         /\ Marker \notin Body
ASSUME CrashAssumption == MaxCrashes \in Nat

VARIABLES ledger,   \* the row of the request_id, {} or {row}
          table,    \* _request_locks[request_id], or None
          locks,    \* each asyncio.Lock: whether it is held and who waits
          inv,      \* each invocation: where it is and what it returned
          crashes

vars == <<ledger, table, locks, inv, crashes>>

Reply == [ok : BOOLEAN, body : Body]
Row == [op : Operation \ Ephemeral, reply : Reply]
         \cup [op : Ephemeral, reply : [ok : {FALSE}, body : Body]
                                         \cup [ok : {TRUE}, body : {Marker}]]

\* handling: the handler of a new request runs under the lock;
\* repeating: it runs again for a request the ledger has.
State == {"idle", "waiting", "handling", "repeating",
          "answered", "conflict", "aborted", "lost"}
Final == {"answered", "conflict", "aborted", "lost"}

Idle == [st |-> "idle", op |-> None, lock |-> None, ran |-> FALSE, answer |-> {}]
Free == [held |-> FALSE, queue |-> <<>>]

Init == /\ ledger = {}
        /\ table = None
        /\ locks = [l \in Invocation |-> Free]
        /\ inv = [i \in Invocation |-> Idle]
        /\ crashes = 0

----------------------------------------------------------------------------
\* An invocation leaves "async with lock": the lock is free (its first waiter
\* is woken and runs later) and the finally clause, which sees it unlocked,
\* forgets whatever lock the table has by now.
Leave(l) == IF l = None
              THEN UNCHANGED <<table, locks>>
              ELSE /\ locks' = [locks EXCEPT ![l].held = FALSE]
                   /\ table' = None

Return(i, st, answer) ==
  inv' = [inv EXCEPT ![i] = [@ EXCEPT !.st = st, !.answer = answer]]

\* What the ledger says to an invocation: RequestLedger.get.
Unknown == ledger = {}
Disputed(op) == \E row \in ledger : row.op # op
Replayed(op, reply) == \E row \in ledger : row.op = op /\ row.reply = reply
                                             /\ (op \in Ephemeral => ~reply.ok)
Repeats(op) == \E row \in ledger : row.op = op /\ op \in Ephemeral /\ row.reply.ok

\* The answer the ledger alone determines, for the two checks of the wrapper.
FromLedger(i, op) ==
  \/ Disputed(op) /\ Return(i, "conflict", {})
  \/ \E row \in ledger : Replayed(op, row.reply) /\ Return(i, "answered", {row.reply})

\* A tool call enters the wrapper: the ledger answers it, or it takes the
\* lock of the table (or a new one), which it gets at once if nobody holds
\* it or waits for it.  Then the second look at the ledger finds what the
\* first one found.
Arrive(i, op) ==
  /\ inv[i].st = "idle"
  /\ LET l == IF table = None THEN i ELSE table
         enter(st, lock, ran) ==
           inv' = [inv EXCEPT ![i] = [st |-> st, op |-> op, lock |-> lock,
                                      ran |-> ran, answer |-> {}]]
     IN \/ /\ Disputed(op)
           /\ inv' = [inv EXCEPT ![i].st = "conflict", ![i].op = op]
           /\ UNCHANGED <<table, locks>>
        \/ \E row \in ledger :
             /\ Replayed(op, row.reply)
             /\ inv' = [inv EXCEPT ![i].st = "answered", ![i].op = op,
                                   ![i].answer = {row.reply}]
             /\ UNCHANGED <<table, locks>>
        \/ /\ Repeats(op)
           /\ enter("repeating", None, FALSE)
           /\ UNCHANGED <<table, locks>>
        \/ /\ Unknown
           /\ table' = l
           /\ IF locks[l] = Free
                THEN /\ locks' = [locks EXCEPT ![l].held = TRUE]
                     /\ enter("handling", l, TRUE)
                ELSE /\ locks' = [locks EXCEPT ![l].queue = Append(@, i)]
                     /\ enter("waiting", l, FALSE)
  /\ UNCHANGED <<ledger, crashes>>

\* Mutant: no second look at the ledger once the lock is held.
WakeBlind(i) ==
  LET l == inv[i].lock
  IN /\ inv[i].st = "waiting"
     /\ ~locks[l].held
     /\ Head(locks[l].queue) = i
     /\ inv' = [inv EXCEPT ![i].st = "handling", ![i].ran = TRUE]
     /\ locks' = [locks EXCEPT ![l] = [held |-> TRUE, queue |-> Tail(@.queue)]]
     /\ UNCHANGED <<ledger, table, crashes>>

\* The first waiter of a free lock takes it and looks at the ledger again.
Wake(i) ==
  LET l == inv[i].lock
      op == inv[i].op
      taken == [locks EXCEPT ![l] = [held |-> TRUE, queue |-> Tail(@.queue)]]
  IN /\ inv[i].st = "waiting"
     /\ ~locks[l].held
     /\ Head(locks[l].queue) = i
     /\ \/ /\ FromLedger(i, op)
           /\ locks' = [taken EXCEPT ![l].held = FALSE]
           /\ table' = None
        \/ /\ Repeats(op)
           /\ inv' = [inv EXCEPT ![i].st = "repeating"]
           /\ locks' = taken
           /\ UNCHANGED table
        \/ /\ Unknown
           /\ inv' = [inv EXCEPT ![i].st = "handling", ![i].ran = TRUE]
           /\ locks' = taken
           /\ UNCHANGED table
     /\ UNCHANGED <<ledger, crashes>>

\* Mutant: the grant itself is persisted.
PersistedWhole(op, reply) == reply

\* A successful grant is single-use: the ledger keeps a marker for it.
Persisted(op, reply) == IF op \in Ephemeral /\ reply.ok
                          THEN [ok |-> TRUE, body |-> Marker]
                          ELSE reply

\* Mutant: INSERT OR REPLACE.
StoresOver(op, kept) == ledger' = {[op |-> op, reply |-> kept]}

\* RequestLedger.store inserts the row; if there is one, only the same
\* operation and response is accepted.
Stores(op, kept) == /\ \A row \in ledger : row = [op |-> op, reply |-> kept]
                    /\ ledger' = {[op |-> op, reply |-> kept]}

Refuses(op, kept) == /\ \E row \in ledger : row # [op |-> op, reply |-> kept]
                     /\ UNCHANGED ledger

\* The handler of a new request replies; its reply is recorded and returned,
\* or the tool answers request_id_conflict because another one is recorded.
HandlerReplies(i, reply) ==
  LET kept == Persisted(inv[i].op, reply)
  IN /\ inv[i].st = "handling"
     /\ \/ Stores(inv[i].op, kept) /\ Return(i, "answered", {reply})
        \/ Refuses(inv[i].op, kept) /\ Return(i, "conflict", {})
     /\ Leave(inv[i].lock)
     /\ UNCHANGED crashes

\* A repeated acquisition replies: nothing is recorded.
RepeatReplies(i, reply) ==
  /\ inv[i].st = "repeating"
  /\ Return(i, "answered", {reply})
  /\ Leave(inv[i].lock)
  /\ UNCHANGED <<ledger, crashes>>

\* Mutant: the lock is released by hand, and only after a reply.
HandlerAbortsHolding(i) ==
  /\ inv[i].st \in {"handling", "repeating"}
  /\ Return(i, "aborted", {})
  /\ UNCHANGED <<ledger, table, locks, crashes>>

\* The handler raises, or the task that awaits it is cancelled.
HandlerAborts(i) ==
  /\ inv[i].st \in {"handling", "repeating"}
  /\ Return(i, "aborted", {})
  /\ Leave(inv[i].lock)
  /\ UNCHANGED <<ledger, crashes>>

\* A waiting task is cancelled.  If the lock is free at that moment (a waiter,
\* maybe this one, was woken and did not run yet), its finally clause forgets
\* the lock of the table; the next waiter is woken in its place.
WaiterCancelled(i) ==
  LET l == inv[i].lock
      queue == locks[l].queue
  IN /\ inv[i].st = "waiting"
     /\ Return(i, "aborted", {})
     /\ \E k \in DOMAIN queue :
           queue[k] = i /\ locks' = [locks EXCEPT ![l].queue = RemoveAt(queue, k)]
     /\ table' = IF locks[l].held THEN table ELSE None
     /\ UNCHANGED <<ledger, crashes>>

\* The process dies and starts again.
Crash ==
  /\ crashes < MaxCrashes
  /\ crashes' = crashes + 1
  /\ \E i \in Invocation : inv[i].st \in {"waiting", "handling", "repeating"}
  /\ inv' = [i \in Invocation |-> IF inv[i].st \in Final \cup {"idle"}
                                    THEN inv[i]
                                    ELSE [inv[i] EXCEPT !.st = "lost"]]
  /\ table' = None
  /\ locks' = [l \in Invocation |-> Free]
  /\ UNCHANGED ledger

Next == \/ \E i \in Invocation : \/ \E op \in Operation : Arrive(i, op)
                                 \/ Wake(i)
                                 \/ \E reply \in Reply : \/ HandlerReplies(i, reply)
                                                         \/ RepeatReplies(i, reply)
                                 \/ HandlerAborts(i)
                                 \/ WaiterCancelled(i)
        \/ Crash

Spec == Init /\ [][Next]_vars

\* The event loop runs woken tasks, and every handler has a timeout.
Fairness == \A i \in Invocation :
              /\ WF_vars(Wake(i))
              /\ WF_vars(\E reply \in Reply : HandlerReplies(i, reply)
                                                \/ RepeatReplies(i, reply))

FairSpec == Spec /\ Fairness

----------------------------------------------------------------------------
\* The types; in particular a successful grant never reaches the ledger.
TypeOK ==
  /\ ledger \subseteq Row /\ Cardinality(ledger) <= 1
  /\ table \in Invocation \cup {None}
  /\ locks \in [Invocation -> [held : BOOLEAN, queue : Seq(Invocation)]]
  /\ inv \in [Invocation -> [st : State, op : Operation \cup {None},
                             lock : Invocation \cup {None}, ran : BOOLEAN,
                             answer : SUBSET Reply]]
  /\ crashes \in 0..MaxCrashes

\* What a caller was once told is what every retry will be told: the answer of
\* a durable operation is in the ledger and stays there, whatever runs beside
\* it under a forgotten lock and whenever the process dies; and a request_id
\* that was answered for one operation is never answered for another.
AnswersDurable ==
  \A i \in Invocation :
    inv[i].st = "answered" =>
      \E row \in ledger : /\ row.op = inv[i].op
                          /\ row.op \notin Ephemeral => inv[i].answer = {row.reply}

\* Completed: the handler of a new request ran to its end.
Completed == {i \in Invocation : inv[i].ran /\ inv[i].st \in {"answered", "conflict"}}
Disturbed == {i \in Invocation : inv[i].st \in {"aborted", "lost"}}
Running == {i \in Invocation : inv[i].st = "handling"}

\* A request takes effect once, but for its interruptions: two handlers of one
\* request_id run at a time, or complete, only if an invocation was cancelled,
\* raised or died before, and each such invocation costs at most one more.
\* The lock forgotten by a cancelled invocation is why it costs any.
OncePerInterruption ==
  Cardinality(Completed \cup Running) <= 1 + Cardinality(Disturbed)

\* What every state satisfies: the types, and one effect of a request.
Inv == TypeOK /\ OncePerInterruption

\* A forgotten lock strands nobody: whoever waits for it returns.
InvocationsReturn ==
  \A i \in Invocation : inv[i].st \in {"waiting", "handling", "repeating"}
                          ~> inv[i].st \in Final
=============================================================================
