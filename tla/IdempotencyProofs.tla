------------------------- MODULE IdempotencyProofs -------------------------
(***************************************************************************)
(* Idempotency for any number of invocations, operations and restarts.     *)
(*                                                                         *)
(* AnswersDurable: the ledger only grows (a row, once there, is only ever  *)
(* stored again as it is), it holds one row at most, and an invocation     *)
(* that repeats an acquisition saw the row it will be judged by.           *)
(*                                                                         *)
(* OncePerInterruption: a lock is named after the invocation that made    *)
(* it, and handlers of one lock run one at a time.  Until a reply is       *)
(* stored nobody has completed, and each lock but the one in the table was *)
(* forgotten by an invocation that was interrupted, so the handlers that   *)
(* run are one more than the interruptions at most; once a reply is        *)
(* stored, no further handler starts.                                      *)
(***************************************************************************)
EXTENDS Idempotency, FiniteSetTheorems, TLAPS

\* Replies as the ledger may hold them, and the records of the invocations.
Kept == [ok : BOOLEAN, body : Body \cup {Marker}]
Call == [st : State, op : Operation \cup {None}, lock : Invocation \cup {None},
         ran : BOOLEAN, answer : SUBSET Kept]

Typed == /\ ledger \subseteq [op : Operation, reply : Kept]
         /\ table \in Invocation \cup {None}
         /\ inv \in [Invocation -> Call]

\* What the ledger says of an invocation that repeats or was answered; and
\* whoever has arrived named an operation.
Recorded(call, rows) ==
  /\ call.st # "idle" => call.op \in Operation
  /\ call.st = "repeating" =>
       \E row \in rows : row.op = call.op /\ row.op \in Ephemeral
  /\ call.st = "answered" =>
       \E row \in rows : /\ row.op = call.op
                         /\ row.op \notin Ephemeral => call.answer = {row.reply}

\* The strengthening of AnswersDurable that every step preserves.
DurabilityInv == Typed /\ \A i \in Invocation : Recorded(inv[i], ledger)

\* An invocation's step: the ledger only grows, and what becomes of the
\* invocation is what the ledger says of it.
LEMMA StepPreserves ==
  ASSUME DurabilityInv, NEW i \in Invocation, NEW call \in Call,
         ledger \subseteq ledger',
         ledger' \subseteq [op : Operation, reply : Kept],
         table' \in Invocation \cup {None},
         inv' = [inv EXCEPT ![i] = call],
         Recorded(call, ledger')
  PROVE  DurabilityInv'
<1>1. Typed'
  BY DEF DurabilityInv, Typed
<1>2. ASSUME NEW j \in Invocation PROVE Recorded(inv[j], ledger)'
  <2>1. CASE j = i
    BY <2>1 DEF DurabilityInv, Typed
  <2>2. CASE j # i
    <3>1. Recorded(inv[j], ledger)
      BY DEF DurabilityInv
    <3>2. Recorded(inv[j], ledger')
      BY <3>1 DEF Recorded
    <3> QED
      BY <2>2, <3>2 DEF DurabilityInv, Typed
  <2> QED
    BY <2>1, <2>2
<1> QED
  BY <1>1, <1>2 DEF DurabilityInv

\* An invocation that returns what the ledger says of it preserves the invariant.
LEMMA ReturnPreserves ==
  ASSUME DurabilityInv, NEW i \in Invocation,
         NEW st \in {"answered", "conflict", "aborted"}, NEW answer \in SUBSET Kept,
         inv[i].st # "idle",
         Return(i, st, answer),
         ledger \subseteq ledger',
         ledger' \subseteq [op : Operation, reply : Kept],
         table' \in Invocation \cup {None},
         st = "answered" =>
           \E row \in ledger' : /\ row.op = inv[i].op
                                /\ row.op \notin Ephemeral => answer = {row.reply}
  PROVE  DurabilityInv'
<1> DEFINE call == [inv[i] EXCEPT !.st = st, !.answer = answer]
<1>1. inv' = [inv EXCEPT ![i] = call] /\ call \in Call
  <2>1. inv[i] \in Call
    BY DEF DurabilityInv, Typed
  <2>2. call \in Call
    BY <2>1 DEF Call, State
  <2> QED
    BY <2>2 DEF Return
<1>2. call.st = st /\ call.answer = answer /\ call.op = inv[i].op
  BY DEF DurabilityInv, Typed, Call
<1>3. Recorded(call, ledger')
  BY <1>2 DEF DurabilityInv, Recorded
<1> HIDE DEF call
<1> QED
  BY <1>1, <1>3, StepPreserves

\* An answer taken from the ledger is the one the ledger holds.
LEMMA FromLedgerPreserves ==
  ASSUME DurabilityInv, NEW i \in Invocation, UNCHANGED ledger, table' = None,
         inv[i].st = "waiting", FromLedger(i, inv[i].op)
  PROVE  DurabilityInv'
<1> ledger' \subseteq [op : Operation, reply : Kept]
  BY DEF DurabilityInv, Typed
<1>1. CASE Return(i, "conflict", {})
  BY <1>1, ReturnPreserves
<1>2. CASE \E row \in ledger : Replayed(inv[i].op, row.reply)
                                 /\ Return(i, "answered", {row.reply})
  <2> PICK row \in ledger : Replayed(inv[i].op, row.reply)
                              /\ Return(i, "answered", {row.reply})
    BY <1>2
  <2>1. {row.reply} \in SUBSET Kept
    BY DEF DurabilityInv, Typed
  <2>2. \E own \in ledger' : own.op = inv[i].op /\ own.reply = row.reply
    BY DEF Replayed
  <2> QED
    BY <2>1, <2>2, ReturnPreserves
<1> QED
  BY <1>1, <1>2 DEF FromLedger

\* An arriving invocation becomes what the ledger says, or waits, or runs.
LEMMA ArrivePreserves ==
  ASSUME DurabilityInv, NEW i \in Invocation, NEW op \in Operation, Arrive(i, op)
  PROVE  DurabilityInv'
<1> DEFINE l == IF table = None THEN i ELSE table
           enter(st, lock, ran) ==
             [st |-> st, op |-> op, lock |-> lock, ran |-> ran, answer |-> {}]
<1>1. /\ inv[i] \in Call
      /\ ledger' = ledger
      /\ table' \in Invocation \cup {None}
      /\ ledger' \subseteq [op : Operation, reply : Kept]
  BY DEF DurabilityInv, Typed, Arrive
<1>2. CASE inv' = [inv EXCEPT ![i].st = "conflict", ![i].op = op]
  <2> DEFINE call == [inv[i] EXCEPT !.st = "conflict", !.op = op]
  <2>1. call \in Call
    BY <1>1 DEF Call, State
  <2>2. Recorded(call, ledger')
    BY <1>1 DEF Recorded, Call
  <2>3. inv' = [inv EXCEPT ![i] = call]
    BY <1>1, <1>2 DEF DurabilityInv, Typed, Call
  <2> HIDE DEF call
  <2> QED
    BY <1>1, <2>1, <2>2, <2>3, StepPreserves
<1>3. ASSUME NEW row \in ledger, Replayed(op, row.reply),
             inv' = [inv EXCEPT ![i].st = "answered", ![i].op = op,
                                ![i].answer = {row.reply}]
      PROVE  DurabilityInv'
  <2> DEFINE call == [inv[i] EXCEPT !.st = "answered", !.op = op,
                                    !.answer = {row.reply}]
  <2>1. call \in Call
    BY <1>1 DEF DurabilityInv, Typed, Call, State
  <2>2. Recorded(call, ledger')
    BY <1>1, <1>3 DEF Recorded, Call, Replayed
  <2>3. inv' = [inv EXCEPT ![i] = call]
    BY <1>1, <1>3 DEF DurabilityInv, Typed, Call
  <2> HIDE DEF call
  <2> QED
    BY <1>1, <2>1, <2>2, <2>3, StepPreserves
<1>4. ASSUME NEW st \in State, st # "answered", NEW lock \in Invocation \cup {None},
             NEW ran \in BOOLEAN,
             st = "repeating" => Repeats(op),
             inv' = [inv EXCEPT ![i] = enter(st, lock, ran)]
      PROVE  DurabilityInv'
  <2>1. enter(st, lock, ran) \in Call
    BY DEF Call
  <2>2. Recorded(enter(st, lock, ran), ledger')
    BY <1>1, <1>4 DEF Recorded, Repeats
  <2> HIDE DEF enter
  <2> QED
    BY <1>1, <1>4, <2>1, <2>2, StepPreserves
<1>5. l \in Invocation \cup {None}
  BY DEF DurabilityInv, Typed
<1> QED
  BY <1>2, <1>3, <1>4, <1>5 DEF Arrive, State

\* A woken waiter returns what the ledger says, or runs.
LEMMA WakePreserves ==
  ASSUME DurabilityInv, NEW i \in Invocation, Wake(i)
  PROVE  DurabilityInv'
<1>1. /\ inv[i] \in Call
      /\ ledger' = ledger
      /\ table' \in Invocation \cup {None}
      /\ ledger' \subseteq [op : Operation, reply : Kept]
  BY DEF DurabilityInv, Typed, Wake
<1>2. CASE FromLedger(i, inv[i].op) /\ table' = None
  BY <1>1, <1>2, FromLedgerPreserves DEF Wake
<1>3. CASE /\ Repeats(inv[i].op)
           /\ inv' = [inv EXCEPT ![i].st = "repeating"]
  <2> DEFINE call == [inv[i] EXCEPT !.st = "repeating"]
  <2>1. call \in Call
    BY <1>1 DEF Call, State
  <2>2. Recorded(call, ledger')
    BY <1>1, <1>3 DEF DurabilityInv, Recorded, Call, Repeats, Wake
  <2>3. inv' = [inv EXCEPT ![i] = call]
    BY <1>3
  <2> HIDE DEF call
  <2> QED
    BY <1>1, <2>1, <2>2, <2>3, StepPreserves
<1>4. CASE inv' = [inv EXCEPT ![i].st = "handling", ![i].ran = TRUE]
  <2> DEFINE call == [inv[i] EXCEPT !.st = "handling", !.ran = TRUE]
  <2>1. call \in Call
    BY <1>1 DEF Call, State
  <2>2. Recorded(call, ledger')
    BY <1>1 DEF DurabilityInv, Recorded, Call, Wake
  <2>3. inv' = [inv EXCEPT ![i] = call]
    BY <1>1, <1>4 DEF DurabilityInv, Typed, Call
  <2> HIDE DEF call
  <2> QED
    BY <1>1, <2>1, <2>2, <2>3, StepPreserves
<1> QED
  BY <1>2, <1>3, <1>4 DEF Wake

\* A handler's reply is recorded with the row it answers for, or refused.
LEMMA ReplyPreserves ==
  ASSUME DurabilityInv, NEW i \in Invocation, NEW reply \in Reply,
         HandlerReplies(i, reply)
  PROVE  DurabilityInv'
<1> DEFINE kept == Persisted(inv[i].op, reply)
<1>1. /\ {reply} \in SUBSET Kept /\ kept \in Kept
      /\ inv[i].op \notin Ephemeral => kept = reply
  BY DEF Persisted, Reply, Kept
<1>2. table' \in Invocation \cup {None}
  BY DEF DurabilityInv, Typed, HandlerReplies, Leave
<1> HIDE DEF kept
<1>3. CASE Stores(inv[i].op, kept) /\ Return(i, "answered", {reply})
  <2>1. ledger' = {[op |-> inv[i].op, reply |-> kept]} /\ ledger \subseteq ledger'
    BY <1>3 DEF Stores
  <2>2. inv[i].op \in Operation
    BY DEF DurabilityInv, Recorded, HandlerReplies
  <2>3. ledger' \subseteq [op : Operation, reply : Kept]
    BY <1>1, <2>1, <2>2
  <2> QED
    BY <1>1, <1>2, <1>3, <2>1, <2>3, ReturnPreserves DEF HandlerReplies
<1>4. CASE Refuses(inv[i].op, kept) /\ Return(i, "conflict", {})
  <2>1. ledger' = ledger /\ ledger \subseteq [op : Operation, reply : Kept]
    BY <1>4 DEF Refuses, DurabilityInv, Typed
  <2> QED
    BY <1>2, <1>4, <2>1, ReturnPreserves DEF HandlerReplies
<1> QED
  BY <1>3, <1>4 DEF HandlerReplies, kept

\* The other returns leave the ledger alone.
LEMMA OtherReturnsPreserve ==
  ASSUME DurabilityInv, NEW i \in Invocation, UNCHANGED ledger,
         table' \in {None, table},
         \/ inv[i].st # "idle" /\ Return(i, "aborted", {})
         \/ \E reply \in Reply : inv[i].st = "repeating" /\ Return(i, "answered", {reply})
  PROVE  DurabilityInv'
<1>1. /\ ledger' \subseteq [op : Operation, reply : Kept]
      /\ table' \in Invocation \cup {None}
  BY DEF DurabilityInv, Typed
<1>2. CASE inv[i].st # "idle" /\ Return(i, "aborted", {})
  BY <1>1, <1>2, ReturnPreserves
<1>3. ASSUME NEW reply \in Reply, inv[i].st = "repeating", Return(i, "answered", {reply})
      PROVE  DurabilityInv'
  <2>1. {reply} \in SUBSET Kept
    BY DEF Reply, Kept
  <2>2. \E row \in ledger' : row.op = inv[i].op /\ row.op \in Ephemeral
    BY <1>3 DEF DurabilityInv, Recorded
  <2> QED
    BY <1>1, <1>3, <2>1, <2>2, ReturnPreserves
<1> QED
  BY <1>2, <1>3

\* A restart keeps the ledger and loses only what had not returned.
LEMMA CrashPreserves ==
  ASSUME DurabilityInv, Crash
  PROVE  DurabilityInv'
<1>1. \A i \in Invocation :
        \/ inv'[i] = inv[i]
        \/ /\ inv[i].st # "idle"
           /\ inv'[i] = [inv[i] EXCEPT !.st = "lost"]
  BY DEF Crash, Final
<1>2. ASSUME NEW i \in Invocation PROVE inv'[i] \in Call
  <2>1. inv[i] \in Call
    BY DEF DurabilityInv, Typed
  <2>2. [inv[i] EXCEPT !.st = "lost"] \in Call
    BY <2>1 DEF Call, State
  <2> QED
    BY <1>1, <2>1, <2>2
<1>3. Typed'
  BY <1>2 DEF DurabilityInv, Typed, Crash
<1>4. ASSUME NEW i \in Invocation PROVE Recorded(inv[i], ledger)'
  BY <1>1 DEF DurabilityInv, Typed, Recorded, Crash, Call
<1> QED
  BY <1>3, <1>4 DEF DurabilityInv

\* The answer of a durable operation stays in the ledger that every retry reads
\* (RequestLedger.get and store, _run_idempotent_async): AnswersDurable holds in
\* every behaviour, for any number of invocations, operations and restarts.
THEOREM AnswersAreDurable == Spec => []AnswersDurable
<1>1. Init => DurabilityInv
  BY OperationAssumption, NoneAssumption
     DEF Init, DurabilityInv, Typed, Recorded, Call, Idle, State
<1>2. DurabilityInv /\ [Next]_vars => DurabilityInv'
  <2> SUFFICES ASSUME DurabilityInv, [Next]_vars PROVE DurabilityInv'
    OBVIOUS
  <2>1. ASSUME NEW i \in Invocation, NEW op \in Operation, Arrive(i, op)
        PROVE  DurabilityInv'
    BY <2>1, ArrivePreserves
  <2>2. ASSUME NEW i \in Invocation, Wake(i) PROVE DurabilityInv'
    BY <2>2, WakePreserves
  <2>3. ASSUME NEW i \in Invocation, NEW reply \in Reply, HandlerReplies(i, reply)
        PROVE  DurabilityInv'
    BY <2>3, ReplyPreserves
  <2>4. ASSUME NEW i \in Invocation, NEW reply \in Reply, RepeatReplies(i, reply)
        PROVE  DurabilityInv'
    BY <2>4, OtherReturnsPreserve DEF RepeatReplies, Leave
  <2>5. ASSUME NEW i \in Invocation, HandlerAborts(i) PROVE DurabilityInv'
    BY <2>5, OtherReturnsPreserve DEF HandlerAborts, Leave
  <2>6. ASSUME NEW i \in Invocation, WaiterCancelled(i) PROVE DurabilityInv'
    BY <2>6, OtherReturnsPreserve DEF WaiterCancelled
  <2>7. CASE Crash
    BY <2>7, CrashPreserves
  <2>8. CASE UNCHANGED vars
    BY <2>8 DEF vars, DurabilityInv, Typed, Recorded
  <2> QED
    BY <2>1, <2>2, <2>3, <2>4, <2>5, <2>6, <2>7, <2>8 DEF Next
<1>3. DurabilityInv => AnswersDurable
  BY DEF DurabilityInv, Recorded, AnswersDurable
<1> QED
  BY <1>1, <1>2, <1>3, PTL DEF Spec

-----------------------------------------------------------------------------
(* Inv.  As long as the ledger has no row, two handlers run at a time only   *)
(* under two locks, and a lock is made only when the table has forgotten the *)
(* one before, which costs an invocation; every lock is named after the      *)
(* invocation that made it.  Once there is a row no handler starts anew.     *)

\* The invocation holds the lock it has.
Active(request) ==
  request.st = "handling" \/ (request.st = "repeating" /\ request.lock # None)

Among(i, queue) == \E k \in DOMAIN queue : queue[k] = i

Invoked == [st : State, op : Operation \cup {None}, lock : Invocation \cup {None},
            ran : BOOLEAN, answer : SUBSET Reply]
Lock == [held : BOOLEAN, queue : Seq(Invocation)]

\* One invocation holds a lock, and whoever waits for it is in its queue.
LocksOK ==
  /\ \A i \in Invocation :
       /\ inv[i].st \in {"waiting", "handling"} => inv[i].lock \in Invocation
       /\ Active(inv[i]) => locks[inv[i].lock].held
       /\ inv[i].st = "waiting" => Among(i, locks[inv[i].lock].queue)
  /\ \A i, j \in Invocation :
       Active(inv[i]) /\ Active(inv[j]) /\ inv[i].lock = inv[j].lock => i = j

\* A lock is named after an invocation that has it.
MakersOK ==
  /\ \A i \in Invocation :
       /\ inv[i].st = "idle" => inv[i].lock = None
       /\ inv[i].lock # None => inv[inv[i].lock].lock = inv[i].lock
  /\ table # None => inv[table].lock = table

\* Whoever has arrived named an operation.
OpOK(request) == request.st # "idle" => request.op \in Operation

\* Who handled a new request is known by its mark.
RanOK(request) ==
  /\ request.st = "handling" => request.ran
  /\ request.st \in {"idle", "waiting", "repeating"} => ~request.ran

Arrived == {i \in Invocation : inv[i].st # "idle"}
Makers  == {i \in Invocation : inv[i].lock = i}

\* Without a row: nobody has an answer, and every lock but one costs an invocation.
LocksCost ==
  ledger = {} =>
    /\ \A i \in Invocation : inv[i].st \notin {"answered", "conflict", "repeating"}
    /\ Cardinality(Makers) <= Cardinality(Disturbed) + (IF table = None THEN 0 ELSE 1)

OnceInv == /\ TypeOK
           /\ IsFiniteSet(Arrived)
           /\ LocksOK /\ MakersOK
           /\ \A i \in Invocation : OpOK(inv[i]) /\ RanOK(inv[i])
           /\ LocksCost
           /\ ledger # {} => OncePerInterruption

-----------------------------------------------------------------------------
(* What follows in a state *)

LEMMA OnceFacts ==
  ASSUME OnceInv
  PROVE  /\ ledger \subseteq Row /\ table \in Invocation \cup {None} /\ None \notin Invocation
         /\ locks \in [Invocation -> Lock] /\ inv \in [Invocation -> Invoked]
         /\ crashes \in 0 .. MaxCrashes
         /\ IsFiniteSet(Arrived) /\ IsFiniteSet(Makers) /\ IsFiniteSet(Disturbed)
         /\ IsFiniteSet(Running) /\ IsFiniteSet(Completed \cup Running)
<1>1. /\ ledger \subseteq Row /\ table \in Invocation \cup {None} /\ None \notin Invocation
      /\ locks \in [Invocation -> Lock] /\ inv \in [Invocation -> Invoked]
      /\ crashes \in 0 .. MaxCrashes /\ IsFiniteSet(Arrived)
  BY NoneAssumption DEF OnceInv, TypeOK, Lock, Invoked
<1>2. /\ Makers \subseteq Arrived /\ Disturbed \subseteq Arrived /\ Running \subseteq Arrived
      /\ Completed \cup Running \subseteq Arrived
  BY <1>1 DEF OnceInv, MakersOK, Makers, Arrived, Disturbed, Running, Completed
<1> QED
  BY <1>1, <1>2, FS_Subset

\* The handlers that run hold different locks.
LEMMA RunningBound ==
  ASSUME OnceInv
  PROVE  Cardinality(Running) <= Cardinality(Makers)
<1> DEFINE f == [i \in Running |-> inv[i].lock]
<1>1. \A i \in Running : i \in Invocation /\ inv[i].st = "handling" /\ Active(inv[i])
  BY DEF Running, Active
<1>2. \A i \in Running : f[i] \in Makers
  BY <1>1, OnceFacts DEF OnceInv, LocksOK, MakersOK, Makers
<1>3. \A i, j \in Running : f[i] = f[j] => i = j
  BY <1>1 DEF OnceInv, LocksOK
<1>4. f \in Injection(Running, Makers)
  BY <1>2, <1>3 DEF Injection, IsInjective
<1> HIDE DEF f
<1> QED
  BY <1>4, OnceFacts, FS_Injection

LEMMA OnceFollows ==
  ASSUME OnceInv
  PROVE  OncePerInterruption
<1>1. CASE ledger # {}
  BY <1>1 DEF OnceInv
<1>2. CASE ledger = {}
  <2>1. Completed = {} /\ Cardinality(Makers) <= Cardinality(Disturbed) + 1
    <3>1. /\ Cardinality(Makers) \in Nat /\ Cardinality(Disturbed) \in Nat
          /\ Cardinality(Makers) <= Cardinality(Disturbed) + (IF table = None THEN 0 ELSE 1)
      BY <1>2, OnceFacts, FS_CardinalityType DEF OnceInv, LocksCost
    <3>2. Completed = {}
      BY <1>2 DEF OnceInv, LocksCost, Completed
    <3> QED
      BY <3>1, <3>2
  <2>2. Cardinality(Running) <= Cardinality(Makers)
    BY RunningBound
  <2>3. /\ Cardinality(Running) \in Nat /\ Cardinality(Makers) \in Nat
        /\ Cardinality(Disturbed) \in Nat /\ Completed \cup Running = Running
    BY <2>1, OnceFacts, FS_CardinalityType
  <2> QED
    BY <2>1, <2>2, <2>3 DEF OncePerInterruption
<1> QED
  BY <1>1, <1>2

-----------------------------------------------------------------------------
(* A step of invocation i, which becomes call *)

\* It takes no lock that another one has, and takes nobody from a queue.
LocksFollow(i, call) ==
  /\ \A j \in Invocation : j # i =>
       /\ Active(inv[j]) => locks'[inv[j].lock].held
       /\ inv[j].st = "waiting" => Among(j, locks'[inv[j].lock].queue)
       /\ Active(call) /\ Active(inv[j]) => inv[j].lock # call.lock
  /\ call.st \in {"waiting", "handling"} => call.lock \in Invocation
  /\ call.st = "waiting" => Among(i, locks'[call.lock].queue)
  /\ Active(call) => locks'[call.lock].held

\* It keeps the lock it has, or takes that of the table or one of its own.
MakerFollows(i, call) ==
  /\ inv[i].st \in {"idle", "waiting", "handling", "repeating"} /\ call.st # "idle"
  /\ \/ call.lock = inv[i].lock
     \/ inv[i].lock = None /\ table = None /\ call.lock = i
     \/ inv[i].lock = None /\ table # None /\ call.lock = table
  /\ table' \in {None, table} \/ (table' = call.lock /\ table = None)

\* A handler starts only without a row; an aborted one may cost the lock.
CostFollows(i, call) ==
  /\ RanOK(call)
  /\ ledger' # {} /\ call.ran => inv[i].st = "handling"
  /\ ledger' = {} =>
       /\ ledger = {} /\ call.st \in {"waiting", "handling", "aborted"}
       /\ \/ call.lock = inv[i].lock /\ (table' = table \/ call.st = "aborted")
          \/ call.lock # inv[i].lock /\ table' # None

LEMMA CountStep ==
  ASSUME OnceInv, NEW i \in Invocation, NEW call \in Invoked,
         inv' = [inv EXCEPT ![i] = call], table' \in Invocation \cup {None},
         MakerFollows(i, call), CostFollows(i, call)
  PROVE  IsFiniteSet(Arrived') /\ LocksCost' /\ (ledger' # {} => OncePerInterruption')
<1>1. /\ inv \in [Invocation -> Invoked] /\ table \in Invocation \cup {None} /\ None \notin Invocation
      /\ IsFiniteSet(Arrived) /\ IsFiniteSet(Makers) /\ IsFiniteSet(Disturbed)
      /\ IsFiniteSet(Completed \cup Running)
  BY OnceFacts
<1>2. inv'[i] = call /\ \A j \in Invocation : j # i => inv'[j] = inv[j]
  BY <1>1
<1>3. IsFiniteSet(Arrived')
  <2>1. Arrived' \subseteq Arrived \cup {i}
    BY <1>2 DEF Arrived
  <2> QED
    BY <1>1, <2>1, FS_AddElement, FS_Subset
<1>4. Disturbed \subseteq Disturbed' /\ Disturbed' \subseteq Disturbed \cup {i}
      /\ i \notin Disturbed /\ (call.st = "aborted" => i \in Disturbed')
  BY <1>2 DEF Disturbed, MakerFollows
<1>5. /\ IsFiniteSet(Disturbed') /\ Cardinality(Disturbed) \in Nat /\ Cardinality(Disturbed') \in Nat
      /\ Cardinality(Disturbed) <= Cardinality(Disturbed')
      /\ call.st = "aborted" => Cardinality(Disturbed') = Cardinality(Disturbed) + 1
  <2>1. IsFiniteSet(Disturbed \cup {i}) /\ Cardinality(Disturbed \cup {i}) = Cardinality(Disturbed) + 1
    BY <1>1, <1>4, FS_AddElement
  <2>2. IsFiniteSet(Disturbed')
    BY <1>4, <2>1, FS_Subset
  <2>3. Cardinality(Disturbed) <= Cardinality(Disturbed')
    BY <1>4, <2>2, FS_Subset
  <2>4. call.st = "aborted" => Disturbed' = Disturbed \cup {i}
    BY <1>4
  <2> QED
    BY <1>1, <2>1, <2>2, <2>3, <2>4, FS_CardinalityType
<1>6. LocksCost'
  <2> SUFFICES ASSUME ledger' = {} PROVE LocksCost'
    BY DEF LocksCost
  <2>1. /\ ledger = {} /\ call.st \in {"waiting", "handling", "aborted"}
        /\ \/ call.lock = inv[i].lock /\ (table' = table \/ call.st = "aborted")
           \/ call.lock # inv[i].lock /\ table' # None
    BY DEF CostFollows
  <2>2. \A j \in Invocation : inv'[j].st \notin {"answered", "conflict", "repeating"}
    BY <1>2, <2>1 DEF OnceInv, LocksCost
  <2>3. Cardinality(Makers) <= Cardinality(Disturbed) + (IF table = None THEN 0 ELSE 1)
    BY <2>1 DEF OnceInv, LocksCost
  <2>4. Cardinality(Makers) \in Nat
    BY <1>1, FS_CardinalityType
  <2>5. Cardinality(Makers') <= Cardinality(Disturbed') + (IF table' = None THEN 0 ELSE 1)
    <3>1. CASE call.lock = inv[i].lock /\ (table' = table \/ call.st = "aborted")
      <4>1. Makers' = Makers
        BY <1>2, <3>1 DEF Makers
      <4>2. CASE call.st = "aborted"
        BY <1>5, <2>3, <2>4, <4>1, <4>2
      <4>3. CASE table' = table
        BY <1>5, <2>3, <2>4, <4>1, <4>3
      <4> QED
        BY <3>1, <4>2, <4>3
    <3>2. CASE call.lock # inv[i].lock /\ table' # None /\ table = None
      <4>1. Makers' \subseteq Makers \cup {i}
        BY <1>2, <3>2 DEF Makers
      <4>2. IsFiniteSet(Makers \cup {i}) /\ Cardinality(Makers \cup {i}) <= Cardinality(Makers) + 1
            /\ Cardinality(Makers \cup {i}) \in Nat
        <5>1. /\ IsFiniteSet(Makers \cup {i})
              /\ Cardinality(Makers \cup {i}) =
                   IF i \in Makers THEN Cardinality(Makers) ELSE Cardinality(Makers) + 1
          BY <1>1, FS_AddElement
        <5> QED
          BY <2>4, <5>1
      <4>3. Cardinality(Makers') <= Cardinality(Makers \cup {i}) /\ Cardinality(Makers') \in Nat
        BY <4>1, <4>2, FS_Subset, FS_CardinalityType
      <4> QED
        BY <1>5, <2>3, <2>4, <3>2, <4>2, <4>3
    <3>3. CASE call.lock # inv[i].lock /\ table' # None /\ table # None
      <4>1. inv[i].lock = None /\ call.lock = table /\ inv[table].lock = table
        BY <3>3 DEF MakerFollows, OnceInv, MakersOK
      <4>2. table # i
        BY <3>3, <4>1
      <4>3. Makers' = Makers
        BY <1>1, <1>2, <4>1, <4>2 DEF Makers
      <4> QED
        BY <1>5, <2>3, <2>4, <3>3, <4>3
    <3> QED
      BY <2>1, <3>1, <3>2, <3>3
  <2> QED
    BY <2>2, <2>5 DEF LocksCost
<1>7. ASSUME ledger' # {} PROVE OncePerInterruption'
  <2>1. Completed' \cup Running' \subseteq Completed \cup Running
    <3>1. i \in Completed' \cup Running' => i \in Running
      BY <1>2, <1>7 DEF CostFollows, RanOK, Completed, Running
    <3> QED
      BY <1>2, <3>1 DEF Completed, Running
  <2>2. Cardinality(Completed \cup Running) <= 1 + Cardinality(Disturbed)
    BY OnceFollows DEF OncePerInterruption
  <2>3. /\ Cardinality(Completed' \cup Running') <= Cardinality(Completed \cup Running)
        /\ Cardinality(Completed' \cup Running') \in Nat /\ Cardinality(Completed \cup Running) \in Nat
    BY <1>1, <2>1, FS_Subset, FS_CardinalityType
  <2>4. Cardinality(Completed' \cup Running') <= 1 + Cardinality(Disturbed')
    BY <1>5, <2>2, <2>3
  <2> QED
    BY <2>4 DEF OncePerInterruption
<1> QED
  BY <1>3, <1>6, <1>7

LEMMA OnceStep ==
  ASSUME OnceInv, NEW i \in Invocation, NEW call \in Invoked,
         inv' = [inv EXCEPT ![i] = call], table' \in Invocation \cup {None},
         ledger' \subseteq Row, Cardinality(ledger') <= 1,
         locks' \in [Invocation -> Lock], UNCHANGED crashes,
         OpOK(call), LocksFollow(i, call), MakerFollows(i, call), CostFollows(i, call)
  PROVE  OnceInv'
<1>1. /\ inv \in [Invocation -> Invoked] /\ table \in Invocation \cup {None} /\ None \notin Invocation
  BY OnceFacts
<1>2. inv'[i] = call /\ \A j \in Invocation : j # i => inv'[j] = inv[j]
  BY <1>1
<1>3. TypeOK'
  <2>1. inv' \in [Invocation -> Invoked]
    BY <1>1
  <2> QED
    BY <2>1, OnceFacts DEF TypeOK, Invoked, Lock
<1>4. LocksOK'
  <2>1. \A j \in Invocation :
       /\ inv'[j].st \in {"waiting", "handling"} => inv'[j].lock \in Invocation
       /\ Active(inv'[j]) => locks'[inv'[j].lock].held
       /\ inv'[j].st = "waiting" => Among(j, locks'[inv'[j].lock].queue)
    BY <1>2 DEF LocksFollow, OnceInv, LocksOK
  <2>2. \A j, k \in Invocation :
           Active(inv'[j]) /\ Active(inv'[k]) /\ inv'[j].lock = inv'[k].lock => j = k
    BY <1>2 DEF LocksFollow, OnceInv, LocksOK
  <2> QED
    BY <2>1, <2>2 DEF LocksOK
<1>5. MakersOK'
  <2>1. call.lock # None => inv'[call.lock].lock = call.lock
    BY <1>1, <1>2 DEF MakerFollows, OnceInv, MakersOK
  <2>2. \A j \in Invocation : j # i /\ inv[j].lock # None => inv'[inv[j].lock].lock = inv[j].lock
    BY <1>1, <1>2 DEF MakerFollows, OnceInv, MakersOK
  <2>3. table # None => inv'[table].lock = table
    BY <1>1, <1>2 DEF MakerFollows, OnceInv, MakersOK
  <2>4. \A j \in Invocation : inv'[j].st = "idle" => inv'[j].lock = None
    BY <1>2 DEF MakerFollows, OnceInv, MakersOK
  <2> QED
    BY <1>2, <2>1, <2>2, <2>3, <2>4 DEF MakerFollows, MakersOK
<1>6. \A j \in Invocation : OpOK(inv'[j]) /\ RanOK(inv'[j])
  BY <1>2 DEF OnceInv, CostFollows
<1> QED
  BY <1>3, <1>4, <1>5, <1>6, CountStep DEF OnceInv

-----------------------------------------------------------------------------
(* The steps *)

\* The ledger and its rows, which a step that records nothing leaves alone.
LEMMA LedgerFacts ==
  ASSUME OnceInv
  PROVE  /\ ledger \subseteq Row /\ Cardinality(ledger) <= 1
         /\ \A row \in ledger, op \in Operation : Replayed(op, row.reply) => row.reply \in Reply
<1>1. ledger \subseteq Row /\ Cardinality(ledger) <= 1
  BY DEF OnceInv, TypeOK
<1>2. ASSUME NEW row \in ledger, NEW op \in Operation, Replayed(op, row.reply)
      PROVE  row.reply \in Reply
  <2>1. PICK own \in ledger : own.op = op /\ own.reply = row.reply /\ (op \in Ephemeral => ~own.reply.ok)
    BY <1>2 DEF Replayed
  <2>2. CASE op \in Ephemeral
    BY <1>1, <2>1, <2>2 DEF Row, Reply
  <2>3. CASE op \notin Ephemeral
    BY <1>1, <2>1, <2>3 DEF Row, Reply
  <2> QED
    BY <2>1, <2>2, <2>3
<1> QED
  BY <1>1, <1>2

\* What an invocation is when its handler runs or waits.
LEMMA CallFacts ==
  ASSUME OnceInv, NEW i \in Invocation
  PROVE  /\ inv[i] \in Invoked /\ RanOK(inv[i]) /\ OpOK(inv[i])
         /\ inv[i].st = "idle" => inv[i].lock = None /\ ~Active(inv[i])
         /\ inv[i].st \in {"waiting", "handling"} => inv[i].lock \in Invocation
         /\ inv[i].lock \in Invocation \cup {None} /\ inv[i].op \in Operation \cup {None}
         /\ inv[i].st = "waiting" => /\ Among(i, locks[inv[i].lock].queue)
                                     /\ locks[inv[i].lock] \in Lock
         /\ Active(inv[i]) => locks[inv[i].lock].held
         /\ \A j \in Invocation : Active(inv[i]) /\ Active(inv[j]) /\ i # j
               => inv[i].lock # inv[j].lock
<1>1. inv[i] \in Invoked /\ locks \in [Invocation -> Lock]
  BY OnceFacts
<1>2. inv[i].lock \in Invocation \cup {None} /\ inv[i].op \in Operation \cup {None}
  BY <1>1 DEF Invoked
<1> QED
  BY <1>1, <1>2 DEF OnceInv, LocksOK, MakersOK, Active

\* An invocation that was not there takes no lock.
LEMMA AnsweredAtOnce ==
  ASSUME OnceInv, NEW i \in Invocation, NEW call \in Invoked, inv[i].st = "idle",
         inv' = [inv EXCEPT ![i] = call], UNCHANGED <<ledger, table, locks, crashes>>,
         ledger # {}, call.st \in {"answered", "conflict", "repeating"}, call.lock = None, ~call.ran,
         call.op \in Operation
  PROVE  OnceInv'
<1>1. LocksFollow(i, call)
  BY CallFacts DEF LocksFollow, Active
<1>2. MakerFollows(i, call)
  BY CallFacts DEF MakerFollows
<1>3. CostFollows(i, call)
  BY DEF CostFollows, RanOK
<1>4. table' \in Invocation \cup {None} /\ locks' \in [Invocation -> Lock]
  BY OnceFacts
<1>5. ledger' \subseteq Row /\ Cardinality(ledger') <= 1
  BY LedgerFacts
<1>6. OpOK(call)
  BY DEF OpOK
<1> QED
  BY <1>1, <1>2, <1>3, <1>4, <1>5, <1>6, OnceStep

LEMMA ArriveOnce ==
  ASSUME OnceInv, NEW i \in Invocation, NEW op \in Operation, Arrive(i, op)
  PROVE  OnceInv'
<1> DEFINE l == IF table = None THEN i ELSE table
           enter(st, lock, ran) ==
             [st |-> st, op |-> op, lock |-> lock, ran |-> ran, answer |-> {}]
<1>1. /\ inv[i].st = "idle" /\ UNCHANGED <<ledger, crashes>>
      /\ inv \in [Invocation -> Invoked] /\ inv[i] \in Invoked /\ locks \in [Invocation -> Lock]
      /\ table \in Invocation \cup {None} /\ None \notin Invocation
      /\ inv[i].lock = None /\ ~inv[i].ran
  BY OnceFacts, CallFacts DEF Arrive, RanOK
<1>2. CASE Disputed(op) /\ inv' = [inv EXCEPT ![i].st = "conflict", ![i].op = op]
           /\ UNCHANGED <<table, locks>>
  <2> DEFINE call == [inv[i] EXCEPT !.st = "conflict", !.op = op]
  <2>1. /\ call \in Invoked /\ call.st = "conflict" /\ call.lock = None /\ ~call.ran
        /\ call.op = op
    BY <1>1 DEF Invoked, State
  <2>2. inv' = [inv EXCEPT ![i] = call]
    BY <1>1, <1>2 DEF Invoked
  <2>3. ledger # {}
    BY <1>2 DEF Disputed
  <2> HIDE DEF call
  <2> QED
    BY <1>1, <1>2, <2>1, <2>2, <2>3, AnsweredAtOnce
<1>3. ASSUME NEW row \in ledger, Replayed(op, row.reply), UNCHANGED <<table, locks>>,
             inv' = [inv EXCEPT ![i].st = "answered", ![i].op = op, ![i].answer = {row.reply}]
      PROVE  OnceInv'
  <2> DEFINE call == [inv[i] EXCEPT !.st = "answered", !.op = op, !.answer = {row.reply}]
  <2>1. row.reply \in Reply
    BY <1>3, LedgerFacts
  <2>2. /\ call \in Invoked /\ call.st = "answered" /\ call.lock = None /\ ~call.ran
        /\ call.op = op
    BY <1>1, <2>1 DEF Invoked, State
  <2>3. inv' = [inv EXCEPT ![i] = call]
    BY <1>1, <1>3 DEF Invoked
  <2> HIDE DEF call
  <2> QED
    BY <1>1, <1>3, <2>2, <2>3, AnsweredAtOnce
<1>4. CASE Repeats(op) /\ inv' = [inv EXCEPT ![i] = enter("repeating", None, FALSE)]
           /\ UNCHANGED <<table, locks>>
  <2> DEFINE call == enter("repeating", None, FALSE)
  <2>1. /\ call \in Invoked /\ call.st = "repeating" /\ call.lock = None /\ ~call.ran
        /\ call.op = op
    BY DEF Invoked, State
  <2>2. ledger # {}
    BY <1>4 DEF Repeats
  <2>3. inv' = [inv EXCEPT ![i] = call]
    BY <1>4
  <2> HIDE DEF call
  <2> QED
    BY <1>1, <1>4, <2>1, <2>2, <2>3, AnsweredAtOnce
<1>5. ASSUME ledger = {}, table' = l, NEW st \in {"waiting", "handling"},
             inv' = [inv EXCEPT ![i] = enter(st, l, st = "handling")],
             IF st = "handling"
               THEN locks[l] = Free /\ locks' = [locks EXCEPT ![l].held = TRUE]
               ELSE locks' = [locks EXCEPT ![l].queue = Append(locks[l].queue, i)]
      PROVE  OnceInv'
  <2> DEFINE call == enter(st, l, st = "handling")
  <2>1. l \in Invocation /\ (table = None => l = i) /\ (table # None => l = table)
    BY <1>1
  <2> HIDE DEF l
  <2>2. /\ call \in Invoked /\ call.st = st /\ call.lock = l /\ call.ran = (st = "handling") /\ OpOK(call)
    BY <2>1 DEF Invoked, State, OpOK
  <2> HIDE DEF enter
  <2>3. /\ locks[l] \in Lock /\ locks[l].queue \in Seq(Invocation)
        /\ Append(locks[l].queue, i) \in Seq(Invocation)
        /\ Among(i, Append(locks[l].queue, i))
        /\ \A j \in Invocation : Among(j, locks[l].queue) => Among(j, Append(locks[l].queue, i))
    <3>1. locks[l].queue \in Seq(Invocation) /\ locks[l] \in Lock
      BY <1>1, <2>1 DEF Lock
    <3> DEFINE q == locks[l].queue
               p == Append(q, i)
    <3> HIDE DEF q
    <3>2. /\ p \in Seq(Invocation) /\ Len(q) \in Nat /\ DOMAIN q = 1..Len(q)
          /\ DOMAIN p = 1..(Len(q) + 1) /\ p[Len(q) + 1] = i
          /\ \A k \in 1..Len(q) : p[k] = q[k]
      BY <3>1 DEF q
    <3> HIDE DEF p
    <3>3. Len(q) + 1 \in DOMAIN p /\ \A k \in DOMAIN q : k \in DOMAIN p /\ p[k] = q[k]
      BY <3>2
    <3> QED
      BY <3>1, <3>2, <3>3 DEF Among, p, q
  <2> DEFINE q == Append(locks[l].queue, i)
  <2> HIDE DEF q, call
  <2>4. locks' \in [Invocation -> Lock] /\ LocksFollow(i, call)
    <3>1. CASE st = "handling"
      <4>1. locks[l] = Free /\ locks' = [locks EXCEPT ![l].held = TRUE]
        BY <1>5, <3>1
      <4>2. /\ locks' \in [Invocation -> Lock] /\ locks'[l].held
            /\ \A j \in Invocation : locks'[j].queue = locks[j].queue /\ (j # l => locks'[j] = locks[j])
        BY <1>1, <2>1, <4>1 DEF Lock
      <4>3. ~locks[l].held
        BY <4>1 DEF Free
      <4>4. \A j \in Invocation : Active(inv[j]) => inv[j].lock # l /\ locks[inv[j].lock].held
        BY <4>3, CallFacts
      <4>5. \A j \in Invocation : j # i =>
              /\ Active(inv[j]) => locks'[inv[j].lock].held
              /\ inv[j].st = "waiting" => Among(j, locks'[inv[j].lock].queue)
        <5> TAKE j \in Invocation
        <5>1. inv[j].st = "waiting" => inv[j].lock \in Invocation /\ Among(j, locks[inv[j].lock].queue)
          BY CallFacts
        <5>2. Active(inv[j]) => inv[j].lock \in Invocation
          BY CallFacts DEF Active
        <5> QED
          BY <4>2, <4>4, <5>1, <5>2
      <4> QED
        BY <2>1, <2>2, <3>1, <4>2, <4>4, <4>5 DEF LocksFollow
    <3>2. CASE st = "waiting"
      <4>1. locks' = [locks EXCEPT ![l].queue = q]
        BY <1>5, <3>2 DEF q
      <4>2. /\ locks' \in [Invocation -> Lock] /\ locks'[l].queue = q
            /\ \A j \in Invocation : locks'[j].held = locks[j].held /\ (j # l => locks'[j] = locks[j])
        BY <1>1, <2>1, <2>3, <4>1 DEF Lock, q
      <4>3. \A j \in Invocation : j # i =>
              /\ Active(inv[j]) => locks'[inv[j].lock].held
              /\ inv[j].st = "waiting" => Among(j, locks'[inv[j].lock].queue)
        <5> TAKE j \in Invocation
        <5>1. inv[j].st = "waiting" => inv[j].lock \in Invocation /\ Among(j, locks[inv[j].lock].queue)
          BY CallFacts
        <5>2. Active(inv[j]) => inv[j].lock \in Invocation /\ locks[inv[j].lock].held
          BY CallFacts DEF Active
        <5> QED
          BY <2>3, <4>2, <5>1, <5>2 DEF q
      <4>4. ~Active(call)
        BY <2>2, <3>2 DEF Active
      <4> QED
        BY <2>1, <2>2, <2>3, <3>2, <4>2, <4>3, <4>4 DEF LocksFollow, q
    <3> QED
      BY <3>1, <3>2
  <2>5. MakerFollows(i, call)
    BY <1>1, <1>5, <2>1, <2>2 DEF MakerFollows
  <2>6. CostFollows(i, call)
    BY <1>1, <1>5, <2>1, <2>2 DEF CostFollows, RanOK
  <2>7. inv' = [inv EXCEPT ![i] = call]
    BY <1>5 DEF call
  <2>8. ledger' \subseteq Row /\ Cardinality(ledger') <= 1
    BY <1>1, LedgerFacts
  <2> QED
    BY <1>1, <1>5, <2>1, <2>2, <2>4, <2>5, <2>6, <2>7, <2>8, OnceStep
<1>6. CASE /\ Unknown /\ table' = l
           /\ IF locks[l] = Free
                THEN /\ locks' = [locks EXCEPT ![l].held = TRUE]
                     /\ inv' = [inv EXCEPT ![i] = enter("handling", l, TRUE)]
                ELSE /\ locks' = [locks EXCEPT ![l].queue = Append(locks[l].queue, i)]
                     /\ inv' = [inv EXCEPT ![i] = enter("waiting", l, FALSE)]
  <2>1. ledger = {} /\ table' = l
    BY <1>6 DEF Unknown
  <2>2. TRUE = ("handling" = "handling") /\ FALSE = ("waiting" = "handling")
    OBVIOUS
  <2> HIDE DEF l
  <2>3. CASE locks[l] = Free
    BY <1>5, <1>6, <2>1, <2>2, <2>3
  <2>4. CASE locks[l] # Free
    BY <1>5, <1>6, <2>1, <2>2, <2>4
  <2> QED
    BY <2>3, <2>4
<1> QED
  BY <1>2, <1>3, <1>4, <1>6 DEF Arrive

\* What an invocation is when it has returned.
LEMMA Returned ==
  ASSUME OnceInv, NEW i \in Invocation, NEW st \in {"answered", "conflict", "aborted"},
         NEW answer \in SUBSET Reply, Return(i, st, answer)
  PROVE  \E call \in Invoked : /\ inv' = [inv EXCEPT ![i] = call]
                               /\ call.st = st /\ call.lock = inv[i].lock /\ call.ran = inv[i].ran
                               /\ call.op = inv[i].op
<1> DEFINE call == [inv[i] EXCEPT !.st = st, !.answer = answer]
<1>1. inv[i] \in Invoked
  BY CallFacts
<1>2. /\ call \in Invoked /\ call.st = st /\ call.lock = inv[i].lock /\ call.ran = inv[i].ran
      /\ call.op = inv[i].op
  BY <1>1 DEF Invoked, State
<1>3. inv' = [inv EXCEPT ![i] = call]
  BY DEF Return
<1> HIDE DEF call
<1> QED
  BY <1>2, <1>3

\* A handler that ends leaves the lock to the first who waits.
LEMMA LeaveOnce ==
  ASSUME OnceInv, NEW i \in Invocation, inv[i].st \in {"handling", "repeating"},
         Leave(inv[i].lock), NEW call \in Invoked, call.st \in {"answered", "conflict", "aborted"}
  PROVE  /\ LocksFollow(i, call) /\ locks' \in [Invocation -> Lock] /\ table' \in {None, table}
         /\ inv[i].lock # None => table' = None
<1>1. /\ locks \in [Invocation -> Lock] /\ None \notin Invocation /\ ~Active(call)
      /\ inv[i].lock \in Invocation \cup {None}
  BY OnceFacts, CallFacts DEF Active
<1>2. CASE inv[i].lock = None
  <2>1. UNCHANGED <<table, locks>>
    BY <1>2 DEF Leave
  <2> QED
    BY <1>1, <1>2, <2>1, CallFacts DEF LocksFollow
<1>3. CASE inv[i].lock # None
  <2> DEFINE l == inv[i].lock
  <2>1. Active(inv[i]) /\ l \in Invocation
    BY <1>1, <1>3 DEF Active
  <2>2. locks' = [locks EXCEPT ![l].held = FALSE] /\ table' = None
    BY <1>3 DEF Leave
  <2>3. \A j \in Invocation : j # i /\ Active(inv[j]) => inv[j].lock # l
    BY <2>1, CallFacts
  <2> HIDE DEF l
  <2>4. /\ locks' \in [Invocation -> Lock]
        /\ \A j \in Invocation : locks'[j].queue = locks[j].queue /\ (j # l => locks'[j] = locks[j])
    BY <1>1, <2>1, <2>2 DEF Lock
  <2>5. ASSUME NEW j \in Invocation, j # i
        PROVE  /\ Active(inv[j]) => locks'[inv[j].lock].held
               /\ inv[j].st = "waiting" => Among(j, locks'[inv[j].lock].queue)
    <3>1. inv[j].st = "waiting" => inv[j].lock \in Invocation /\ Among(j, locks[inv[j].lock].queue)
      BY CallFacts
    <3>2. Active(inv[j]) => inv[j].lock \in Invocation /\ locks[inv[j].lock].held
      BY CallFacts DEF Active
    <3> QED
      BY <2>3, <2>4, <2>5, <3>1, <3>2
  <2> QED
    BY <1>1, <2>2, <2>4, <2>5 DEF LocksFollow
<1> QED
  BY <1>2, <1>3

\* A handler ends, whatever it comes to.
LEMMA EndOnce ==
  ASSUME OnceInv, NEW i \in Invocation, inv[i].st \in {"handling", "repeating"},
         Leave(inv[i].lock), NEW st \in {"answered", "conflict", "aborted"},
         NEW answer \in SUBSET Reply, Return(i, st, answer), UNCHANGED crashes,
         ledger' \subseteq Row, Cardinality(ledger') <= 1,
         st # "aborted" => ledger' # {}, ledger' = {} => ledger = {}
  PROVE  OnceInv'
<1>1. PICK call \in Invoked :
        /\ inv' = [inv EXCEPT ![i] = call]
        /\ call.st = st /\ call.lock = inv[i].lock /\ call.ran = inv[i].ran
        /\ call.op = inv[i].op
  BY Returned
<1>2. /\ LocksFollow(i, call) /\ locks' \in [Invocation -> Lock] /\ table' \in {None, table}
  BY <1>1, LeaveOnce
<1>3. MakerFollows(i, call)
  BY <1>1, <1>2 DEF MakerFollows
<1>4. CostFollows(i, call)
  <2>1. RanOK(inv[i])
    BY CallFacts
  <2> QED
    BY <1>1, <2>1 DEF CostFollows, RanOK
<1>5. table' \in Invocation \cup {None}
  BY <1>2, OnceFacts
<1>6. OpOK(call)
  BY <1>1, CallFacts DEF OpOK
<1> QED
  BY <1>1, <1>2, <1>3, <1>4, <1>5, <1>6, OnceStep

LEMMA ReplyOnce ==
  ASSUME OnceInv, NEW i \in Invocation, NEW reply \in Reply, HandlerReplies(i, reply)
  PROVE  OnceInv'
<1> DEFINE kept == Persisted(inv[i].op, reply)
           row == [op |-> inv[i].op, reply |-> kept]
<1>1. /\ inv[i].st = "handling" /\ Leave(inv[i].lock) /\ UNCHANGED crashes
      /\ \/ Stores(inv[i].op, kept) /\ Return(i, "answered", {reply})
         \/ Refuses(inv[i].op, kept) /\ Return(i, "conflict", {})
  BY DEF HandlerReplies
<1>2. CASE Stores(inv[i].op, kept) /\ Return(i, "answered", {reply})
  <2>1. ledger' = {row}
    BY <1>2 DEF Stores
  <2>2. row \in Row
    <3>1. CASE ledger = {}
      \* Its operation: whoever handles a request has named one.
      <4>1. inv[i].op \in Operation
        BY <1>1, CallFacts DEF OpOK
      <4>2. CASE inv[i].op \in Ephemeral /\ reply.ok
        BY <4>1, <4>2 DEF Row, Persisted, Reply
      <4>3. CASE inv[i].op \in Ephemeral /\ ~reply.ok
        BY <4>1, <4>3 DEF Row, Persisted, Reply
      <4>4. CASE inv[i].op \notin Ephemeral
        BY <4>1, <4>4 DEF Row, Persisted, Reply
      <4> QED
        BY <4>2, <4>3, <4>4
    <3>2. CASE ledger # {}
      BY <1>2, <3>2, LedgerFacts DEF Stores
    <3> QED
      BY <3>1, <3>2
  <2>3. ledger' \subseteq Row /\ Cardinality(ledger') <= 1 /\ ledger' # {}
    <3> HIDE DEF row
    <3> QED
      BY <2>1, <2>2, FS_Singleton
  <2> QED
    BY <1>1, <1>2, <2>3, EndOnce
<1>3. CASE Refuses(inv[i].op, kept) /\ Return(i, "conflict", {})
  <2>1. UNCHANGED ledger /\ ledger # {}
    BY <1>3 DEF Refuses
  <2>2. ledger' \subseteq Row /\ Cardinality(ledger') <= 1
    BY <2>1, LedgerFacts
  <2> QED
    BY <1>1, <1>3, <2>1, <2>2, EndOnce
<1> QED
  BY <1>1, <1>2, <1>3

LEMMA OtherEndsOnce ==
  ASSUME OnceInv, NEW i \in Invocation, UNCHANGED <<ledger, crashes>>, Leave(inv[i].lock),
         \/ inv[i].st \in {"handling", "repeating"} /\ Return(i, "aborted", {})
         \/ \E reply \in Reply : inv[i].st = "repeating" /\ Return(i, "answered", {reply})
  PROVE  OnceInv'
<1>1. ledger' \subseteq Row /\ Cardinality(ledger') <= 1
  BY LedgerFacts
<1>2. inv[i].st = "repeating" => ledger # {}
  BY DEF OnceInv, LocksCost
<1>3. CASE inv[i].st \in {"handling", "repeating"} /\ Return(i, "aborted", {})
  BY <1>1, <1>3, EndOnce
<1>4. ASSUME NEW reply \in Reply, inv[i].st = "repeating", Return(i, "answered", {reply})
      PROVE  OnceInv'
  BY <1>1, <1>2, <1>4, EndOnce
<1> QED
  BY <1>3, <1>4

\* Who leaves a queue, at its head or cancelled, leaves the others in it.
LEMMA QueueLeft ==
  ASSUME NEW q \in Seq(Invocation), NEW i \in Invocation, NEW k \in DOMAIN q, q[k] = i
  PROVE  /\ RemoveAt(q, k) \in Seq(Invocation)
         /\ \A j \in Invocation : j # i /\ Among(j, q) => Among(j, RemoveAt(q, k))
<1> DEFINE a == SubSeq(q, 1, k - 1)
           b == SubSeq(q, k + 1, Len(q))
           p == a \o b
<1>1. /\ Len(q) \in Nat /\ DOMAIN q = 1..Len(q) /\ q # <<>> /\ Len(q) # 0 /\ Head(q) = q[1]
      /\ k \in 1..Len(q) /\ \A m \in 1..Len(q) : q[m] \in Invocation
  OBVIOUS
<1>2. /\ a \in Seq(Invocation) /\ Len(a) = k - 1
      /\ \A m \in 1..(k - 1) : a[m] = q[m]
  BY <1>1
<1>3. /\ b \in Seq(Invocation) /\ Len(b) = Len(q) - k
      /\ \A m \in 1..(Len(q) - k) : b[m] = q[k + m]
  BY <1>1
<1> HIDE DEF a, b
<1>4. /\ p \in Seq(Invocation) /\ DOMAIN p = 1..(Len(q) - 1)
      /\ \A m \in 1..(Len(q) - 1) : p[m] = IF m <= k - 1 THEN a[m] ELSE b[m - (k - 1)]
  <2>0. a \in Seq(Invocation) /\ b \in Seq(Invocation)
    BY <1>2, <1>3
  <2>1. p \in Seq(Invocation) /\ Len(p) = Len(a) + Len(b)
    BY <2>0
  <2>2. /\ DOMAIN p = 1..Len(p)
        /\ \A m \in 1..(Len(a) + Len(b)) : p[m] = IF m <= Len(a) THEN a[m] ELSE b[m - Len(a)]
    BY <1>2, <1>3
  <2>3. Len(a) + Len(b) = Len(q) - 1
    BY <1>1, <1>2, <1>3
  <2> HIDE DEF p
  <2> QED
    BY <1>2, <2>1, <2>2, <2>3
<1> HIDE DEF p
<1>5. \A m \in 1..Len(q) : m # k => \E n \in DOMAIN p : p[n] = q[m]
  <2> TAKE m \in 1..Len(q)
  <2>1. m < k => m \in DOMAIN p /\ p[m] = q[m]
    BY <1>1, <1>2, <1>4
  <2>2. ASSUME m > k PROVE m - 1 \in DOMAIN p /\ p[m - 1] = q[m]
    <3>1. /\ m - 1 \in 1..(Len(q) - 1) /\ ~(m - 1 <= k - 1)
          /\ (m - 1) - (k - 1) \in 1..(Len(q) - k) /\ k + ((m - 1) - (k - 1)) = m
      BY <1>1, <2>2
    <3> QED
      BY <1>3, <1>4, <3>1
  <2> QED
    BY <1>1, <2>1, <2>2
<1>6. \A j \in Invocation : j # i /\ Among(j, q) => Among(j, p)
  BY <1>1, <1>5 DEF Among
<1> QED
  BY <1>4, <1>6 DEF p, a, b, RemoveAt

LEMMA HeadLeft ==
  ASSUME NEW q \in Seq(Invocation), q # <<>>
  PROVE  /\ Tail(q) \in Seq(Invocation)
         /\ \A j \in Invocation : j # Head(q) /\ Among(j, q) => Among(j, Tail(q))
<1> DEFINE t == Tail(q)
<1>1. Len(q) \in Nat /\ DOMAIN q = 1..Len(q) /\ Len(q) # 0 /\ Head(q) = q[1]
  OBVIOUS
<1>2. /\ t \in Seq(Invocation) /\ DOMAIN t = 1..(Len(q) - 1)
      /\ \A k \in 1..(Len(q) - 1) : t[k] = q[k + 1]
  BY <1>1
<1> HIDE DEF t
<1>3. \A k \in DOMAIN q : k = 1 \/ (k - 1 \in DOMAIN t /\ t[k - 1] = q[k])
  <2> TAKE k \in DOMAIN q
  <2>1. k = 1 \/ (k - 1 \in 1..(Len(q) - 1) /\ (k - 1) + 1 = k)
    BY <1>1
  <2> QED
    BY <1>2, <2>1
<1>4. \A j \in Invocation : j # Head(q) /\ Among(j, q) => Among(j, t)
  BY <1>1, <1>3 DEF Among
<1> QED
  BY <1>2, <1>4 DEF t

\* The queue of one lock changes, and what i waited for is over.
LEMMA QueueFollows ==
  ASSUME OnceInv, NEW i \in Invocation, inv[i].st = "waiting", NEW held \in BOOLEAN,
         NEW queue \in Seq(Invocation),
         \A j \in Invocation : j # i /\ Among(j, locks[inv[i].lock].queue) => Among(j, queue),
         locks' = [locks EXCEPT ![inv[i].lock] = [held |-> held, queue |-> queue]],
         locks[inv[i].lock].held => held,
         NEW call \in Invoked, call.st # "waiting", call.lock = inv[i].lock,
         call.st = "handling" \/ call.st = "repeating" => ~locks[inv[i].lock].held /\ held
  PROVE  LocksFollow(i, call) /\ locks' \in [Invocation -> Lock]
<1> DEFINE l == inv[i].lock
           lock == [held |-> held, queue |-> queue]
<1>1. locks \in [Invocation -> Lock] /\ l \in Invocation
  BY OnceFacts, CallFacts
<1>2. lock \in Lock /\ lock.held = held /\ lock.queue = queue
  BY DEF Lock
<1> HIDE DEF l, lock
<1>3. /\ locks' \in [Invocation -> Lock] /\ locks'[l].held = held /\ locks'[l].queue = queue
      /\ \A j \in Invocation : j # l => locks'[j] = locks[j]
  BY <1>1, <1>2 DEF l, lock
<1>4. ASSUME NEW j \in Invocation, j # i
      PROVE  /\ Active(inv[j]) => locks'[inv[j].lock].held
             /\ inv[j].st = "waiting" => Among(j, locks'[inv[j].lock].queue)
             /\ Active(call) /\ Active(inv[j]) => inv[j].lock # call.lock
  <2>1. inv[j].st = "waiting" => inv[j].lock \in Invocation /\ Among(j, locks[inv[j].lock].queue)
    BY CallFacts
  <2>2. Active(inv[j]) => inv[j].lock \in Invocation /\ locks[inv[j].lock].held
    BY CallFacts DEF Active
  <2> QED
    BY <1>3, <1>4, <2>1, <2>2 DEF Active, l
<1> QED
  BY <1>1, <1>3, <1>4 DEF LocksFollow, Active, l

LEMMA WakeOnce ==
  ASSUME OnceInv, NEW i \in Invocation, Wake(i)
  PROVE  OnceInv'
<1> DEFINE l == inv[i].lock
           op == inv[i].op
           tail == Tail(locks[l].queue)
           taken == [locks EXCEPT ![l] = [held |-> TRUE, queue |-> tail]]
<1>1. /\ inv[i].st = "waiting" /\ ~locks[l].held /\ Head(locks[l].queue) = i
      /\ UNCHANGED <<ledger, crashes>>
  BY DEF Wake
<1>2. /\ inv[i] \in Invoked /\ l \in Invocation /\ locks \in [Invocation -> Lock] /\ locks[l] \in Lock
      /\ table \in Invocation \cup {None} /\ op \in Operation /\ RanOK(inv[i])
      /\ Among(i, locks[l].queue)
  BY <1>1, OnceFacts, CallFacts DEF OpOK
<1>3. /\ tail \in Seq(Invocation)
      /\ \A j \in Invocation : j # i /\ Among(j, locks[l].queue) => Among(j, tail)
  <2>1. locks[l].queue \in Seq(Invocation)
    BY <1>2 DEF Lock
  <2>2. locks[l].queue # <<>>
    BY <1>2, <2>1 DEF Among
  <2> QED
    BY <1>1, <1>2, <2>1, <2>2, HeadLeft
<1>4. ledger' \subseteq Row /\ Cardinality(ledger') <= 1
  BY <1>1, LedgerFacts
<1> HIDE DEF tail
\* The waiter takes the lock and goes on, or gives it up and returns.
<1>5. ASSUME NEW held \in BOOLEAN, NEW call \in Invoked, inv' = [inv EXCEPT ![i] = call],
             locks' = [locks EXCEPT ![l] = [held |-> held, queue |-> tail]],
             call.lock = l, call.op = op, RanOK(call),
             table' \in {None, table},
             \/ call.st = "handling" /\ held /\ ledger = {} /\ table' = table
             \/ call.st = "repeating" /\ held /\ ledger # {}
             \/ call.st \in {"answered", "conflict"} /\ ledger # {} /\ ~call.ran
      PROVE  OnceInv'
  <2>1. LocksFollow(i, call) /\ locks' \in [Invocation -> Lock]
    BY <1>1, <1>3, <1>5, QueueFollows
  <2>2. MakerFollows(i, call)
    BY <1>1, <1>5 DEF MakerFollows
  <2>3. CostFollows(i, call)
    BY <1>1, <1>5 DEF CostFollows, RanOK
  <2>4. OpOK(call) /\ table' \in Invocation \cup {None}
    BY <1>2, <1>5 DEF OpOK
  <2> QED
    BY <1>1, <1>4, <1>5, <2>1, <2>2, <2>3, <2>4, OnceStep
<1>6. ASSUME NEW st \in {"answered", "conflict"}, NEW answer \in SUBSET Reply,
             Return(i, st, answer), ledger # {}, table' = None,
             locks' = [taken EXCEPT ![l].held = FALSE]
      PROVE  OnceInv'
  <2>1. locks' = [locks EXCEPT ![l] = [held |-> FALSE, queue |-> tail]]
    BY <1>2, <1>6
  <2>2. PICK call \in Invoked :
          /\ inv' = [inv EXCEPT ![i] = call]
          /\ call.st = st /\ call.lock = l /\ call.ran = inv[i].ran /\ call.op = op
    BY <1>6, Returned
  <2>3. RanOK(call) /\ ~call.ran
    BY <1>1, <1>2, <1>6, <2>2 DEF RanOK
  <2> QED
    BY <1>5, <1>6, <2>1, <2>2, <2>3
<1>7. CASE FromLedger(i, op) /\ table' = None /\ locks' = [taken EXCEPT ![l].held = FALSE]
  <2>1. CASE Disputed(op) /\ Return(i, "conflict", {})
    BY <1>6, <1>7, <2>1 DEF Disputed
  <2>2. ASSUME NEW row \in ledger, Replayed(op, row.reply), Return(i, "answered", {row.reply})
        PROVE  OnceInv'
    <3>1. {row.reply} \in SUBSET Reply
      BY <1>2, <2>2, LedgerFacts
    <3> QED
      BY <1>6, <1>7, <2>2, <3>1
  <2> QED
    BY <1>7, <2>1, <2>2 DEF FromLedger
<1>8. CASE Repeats(op) /\ inv' = [inv EXCEPT ![i].st = "repeating"]
           /\ locks' = taken /\ UNCHANGED table
  <2> DEFINE call == [inv[i] EXCEPT !.st = "repeating"]
  <2>1. /\ call \in Invoked /\ call.st = "repeating" /\ call.lock = l /\ call.op = op
        /\ call.ran = inv[i].ran
    BY <1>2 DEF Invoked, State
  <2>2. inv' = [inv EXCEPT ![i] = call] /\ ledger # {}
    BY <1>8 DEF Repeats
  <2> HIDE DEF call
  <2>3. RanOK(call)
    BY <1>1, <1>2, <2>1 DEF RanOK
  <2> QED
    BY <1>5, <1>8, <2>1, <2>2, <2>3
<1>9. CASE Unknown /\ inv' = [inv EXCEPT ![i].st = "handling", ![i].ran = TRUE]
           /\ locks' = taken /\ UNCHANGED table
  <2> DEFINE call == [inv[i] EXCEPT !.st = "handling", !.ran = TRUE]
  <2>1. /\ call \in Invoked /\ call.st = "handling" /\ call.lock = l /\ call.op = op
        /\ call.ran
    BY <1>2 DEF Invoked, State
  <2>2. inv' = [inv EXCEPT ![i] = call] /\ ledger = {}
    BY <1>2, <1>9 DEF Unknown, Invoked
  <2> HIDE DEF call
  <2>3. RanOK(call)
    BY <2>1 DEF RanOK
  <2> QED
    BY <1>5, <1>9, <2>1, <2>2, <2>3
<1>10. taken = [locks EXCEPT ![l] = [held |-> TRUE, queue |-> Tail(locks[l].queue)]]
  BY DEF tail
<1> QED
  BY <1>7, <1>8, <1>9, <1>10 DEF Wake

LEMMA CancelOnce ==
  ASSUME OnceInv, NEW i \in Invocation, WaiterCancelled(i)
  PROVE  OnceInv'
<1> DEFINE l == inv[i].lock
<1>a. PICK k \in DOMAIN locks[l].queue :
         /\ locks[l].queue[k] = i
         /\ locks' = [locks EXCEPT ![l].queue = RemoveAt(locks[l].queue, k)]
  BY DEF WaiterCancelled
<1> DEFINE queue == RemoveAt(locks[l].queue, k)
<1>1. /\ inv[i].st = "waiting" /\ Return(i, "aborted", {}) /\ UNCHANGED <<ledger, crashes>>
      /\ locks' = [locks EXCEPT ![l].queue = queue] /\ table' \in {None, table}
  BY <1>a DEF WaiterCancelled
<1>2. /\ l \in Invocation /\ locks \in [Invocation -> Lock] /\ locks[l] \in Lock
      /\ table \in Invocation \cup {None} /\ OpOK(inv[i]) /\ RanOK(inv[i])
      /\ Among(i, locks[l].queue)
  BY <1>1, OnceFacts, CallFacts
<1>3. /\ locks[l].queue \in Seq(Invocation) /\ locks[l].held \in BOOLEAN
  BY <1>2 DEF Lock
<1>4. /\ queue \in Seq(Invocation)
      /\ \A j \in Invocation : j # i /\ Among(j, locks[l].queue) => Among(j, queue)
  BY <1>a, <1>2, <1>3, QueueLeft
<1> HIDE DEF queue
<1>5. locks' = [locks EXCEPT ![l] = [held |-> locks[l].held, queue |-> queue]]
  <2> DEFINE lock == [locks[l] EXCEPT !.queue = queue]
  <2>1. locks' = [locks EXCEPT ![l] = lock]
    BY <1>1
  <2>2. lock = [held |-> locks[l].held, queue |-> queue]
    <3>1. PICK h \in BOOLEAN, q \in Seq(Invocation) : locks[l] = [held |-> h, queue |-> q]
      BY <1>2 DEF Lock
    <3> QED
      BY <3>1
  <2> HIDE DEF lock
  <2> QED
    BY <2>1, <2>2
<1>6. PICK call \in Invoked :
        /\ inv' = [inv EXCEPT ![i] = call]
        /\ call.st = "aborted" /\ call.lock = l /\ call.ran = inv[i].ran /\ call.op = inv[i].op
  BY <1>1, Returned
<1>7. LocksFollow(i, call) /\ locks' \in [Invocation -> Lock]
  <2>1. call.st # "waiting" /\ call.st # "handling" /\ call.st # "repeating"
    BY <1>6
  <2> QED
    BY <1>1, <1>3, <1>4, <1>5, <1>6, <2>1, QueueFollows
<1>8. MakerFollows(i, call) /\ CostFollows(i, call) /\ OpOK(call)
  BY <1>1, <1>2, <1>6 DEF MakerFollows, CostFollows, OpOK, RanOK
<1>9. ledger' \subseteq Row /\ Cardinality(ledger') <= 1 /\ table' \in Invocation \cup {None}
  BY <1>1, <1>2, LedgerFacts
<1> QED
  BY <1>1, <1>6, <1>7, <1>8, <1>9, OnceStep

\* A restart loses the locks and whoever holds one, or waits: an invocation at least.
LEMMA CrashOnce ==
  ASSUME OnceInv, Crash
  PROVE  OnceInv'
<1>1. /\ ledger' = ledger /\ table' = None /\ locks' = [l \in Invocation |-> Free]
      /\ crashes' \in 0 .. MaxCrashes
  BY OnceFacts, CrashAssumption DEF Crash
<1>2. /\ ledger \subseteq Row /\ Cardinality(ledger) <= 1 /\ inv \in [Invocation -> Invoked]
      /\ IsFiniteSet(Arrived) /\ IsFiniteSet(Makers) /\ IsFiniteSet(Disturbed)
      /\ IsFiniteSet(Completed \cup Running) /\ None \notin Invocation
  BY OnceFacts, LedgerFacts
<1>3. /\ inv' = [i \in Invocation |-> IF inv[i].st \in Final \cup {"idle"}
                                       THEN inv[i] ELSE [inv[i] EXCEPT !.st = "lost"]]
  BY DEF Crash
<1>4. ASSUME NEW i \in Invocation
      PROVE  /\ inv'[i] \in Invoked /\ inv'[i].lock = inv[i].lock /\ inv'[i].op = inv[i].op
             /\ inv'[i].ran = inv[i].ran
             /\ \/ inv[i].st \in Final \cup {"idle"} /\ inv'[i].st = inv[i].st
                \/ inv[i].st \notin Final \cup {"idle"} /\ inv'[i].st = "lost"
  <2>1. inv[i] \in Invoked
    BY <1>2
  <2>2. /\ [inv[i] EXCEPT !.st = "lost"] \in Invoked
        /\ [inv[i] EXCEPT !.st = "lost"].lock = inv[i].lock
        /\ [inv[i] EXCEPT !.st = "lost"].op = inv[i].op
        /\ [inv[i] EXCEPT !.st = "lost"].ran = inv[i].ran
        /\ [inv[i] EXCEPT !.st = "lost"].st = "lost"
    BY <2>1 DEF Invoked, State
  <2>3. inv'[i] = IF inv[i].st \in Final \cup {"idle"}
                  THEN inv[i] ELSE [inv[i] EXCEPT !.st = "lost"]
    BY <1>3
  <2> QED
    BY <2>1, <2>2, <2>3
<1>5. PICK one \in Invocation : inv[one].st \in {"waiting", "handling", "repeating"}
  BY DEF Crash
<1>6. TypeOK'
  <2>1. inv' \in [Invocation -> Invoked]
    BY <1>3, <1>4
  <2>2. locks' \in [Invocation -> Lock]
    <3>1. Free \in Lock
      BY DEF Free, Lock
    <3> QED
      BY <1>1, <3>1
  <2> QED
    BY <1>1, <1>2, <2>1, <2>2 DEF TypeOK, Invoked, Lock
<1>7. \A i \in Invocation : inv'[i].st \notin {"waiting", "handling", "repeating"}
  BY <1>4 DEF Final
<1>8. LocksOK'
  BY <1>7 DEF LocksOK, Active
<1>9. MakersOK'
  <2>1. \A i \in Invocation : inv[i].lock \in Invocation \cup {None}
    BY CallFacts
  <2>2. \A i \in Invocation : inv'[i].st = "idle" => inv[i].st = "idle"
    BY <1>4
  <2> QED
    BY <1>1, <1>4, <2>1, <2>2 DEF OnceInv, MakersOK
<1>10. \A i \in Invocation : OpOK(inv'[i]) /\ RanOK(inv'[i])
  BY <1>4 DEF OnceInv, OpOK, RanOK, Final
<1>11. Arrived' = Arrived /\ Makers' = Makers
  BY <1>4 DEF Arrived, Makers
<1>12. Completed' \cup Running' \subseteq Completed \cup Running
  BY <1>4 DEF Completed, Running, Final
<1>13. Disturbed \cup {one} \subseteq Disturbed' /\ one \notin Disturbed /\ Disturbed' \subseteq Arrived
  BY <1>4, <1>5 DEF Disturbed, Arrived, Final
<1>14. /\ Cardinality(Disturbed) \in Nat /\ Cardinality(Disturbed') \in Nat
       /\ Cardinality(Disturbed') >= Cardinality(Disturbed) + 1
  <2>1. IsFiniteSet(Disturbed')
    BY <1>2, <1>13, FS_Subset
  <2>2. /\ IsFiniteSet(Disturbed \cup {one})
        /\ Cardinality(Disturbed \cup {one}) = Cardinality(Disturbed) + 1
    BY <1>2, <1>13, FS_AddElement
  <2>3. Cardinality(Disturbed \cup {one}) <= Cardinality(Disturbed')
    BY <1>13, <2>1, FS_Subset
  <2>4. Cardinality(Disturbed) \in Nat /\ Cardinality(Disturbed') \in Nat
    BY <1>2, <2>1, FS_CardinalityType
  <2> QED
    BY <2>2, <2>3, <2>4
<1>15. LocksCost'
  <2> SUFFICES ASSUME ledger' = {} PROVE LocksCost'
    BY DEF LocksCost
  <2>1. \A i \in Invocation : inv'[i].st \notin {"answered", "conflict", "repeating"}
    BY <1>1, <1>4 DEF OnceInv, LocksCost
  <2>2. Cardinality(Makers) <= Cardinality(Disturbed) + (IF table = None THEN 0 ELSE 1)
    BY <1>1 DEF OnceInv, LocksCost
  <2>3. Cardinality(Makers) \in Nat
    BY <1>2, FS_CardinalityType
  <2>4. Cardinality(Makers') <= Cardinality(Disturbed')
    BY <1>11, <1>14, <2>2, <2>3
  <2> QED
    BY <1>1, <1>14, <2>1, <2>4 DEF LocksCost
<1>16. OncePerInterruption'
  <2>1. Cardinality(Completed \cup Running) <= 1 + Cardinality(Disturbed)
    BY OnceFollows DEF OncePerInterruption
  <2>2. /\ Cardinality(Completed' \cup Running') <= Cardinality(Completed \cup Running)
        /\ Cardinality(Completed' \cup Running') \in Nat /\ Cardinality(Completed \cup Running) \in Nat
    BY <1>2, <1>12, FS_Subset, FS_CardinalityType
  <2>3. Cardinality(Completed' \cup Running') <= 1 + Cardinality(Disturbed')
    BY <1>14, <2>1, <2>2
  <2> QED
    BY <2>3 DEF OncePerInterruption
<1> QED
  BY <1>2, <1>6, <1>8, <1>9, <1>10, <1>11, <1>15, <1>16 DEF OnceInv

\* The inductive invariant holds in every state.
LEMMA OnceInvariant == Spec => []OnceInv
<1>1. Init => OnceInv
  <2> SUFFICES ASSUME Init PROVE OnceInv
    OBVIOUS
  <2>1. /\ inv = [i \in Invocation |-> Idle] /\ locks = [l \in Invocation |-> Free]
        /\ ledger = {} /\ table = None /\ crashes = 0
    BY DEF Init
  <2>2. Idle \in Invoked /\ Free \in Lock
    BY DEF Idle, Invoked, State, Free, Lock
  <2>3. TypeOK
    <3>1. Cardinality(ledger) <= 1
      BY <2>1, FS_EmptySet
    <3>2. inv \in [Invocation -> Invoked] /\ locks \in [Invocation -> Lock]
      BY <2>1, <2>2
    <3> QED
      BY <2>1, <3>1, <3>2, CrashAssumption DEF TypeOK, Invoked, Lock
  <2>4. Arrived = {} /\ Makers = {} /\ Disturbed = {}
    BY <2>1, NoneAssumption DEF Arrived, Makers, Disturbed, Idle
  <2>5. LocksOK /\ MakersOK /\ \A i \in Invocation : OpOK(inv[i]) /\ RanOK(inv[i])
    BY <2>1 DEF LocksOK, MakersOK, OpOK, RanOK, Active, Idle
  <2>6. LocksCost
    BY <2>1, <2>4, FS_EmptySet DEF LocksCost, Idle
  <2> QED
    BY <2>1, <2>3, <2>4, <2>5, <2>6, FS_EmptySet DEF OnceInv
<1>2. OnceInv /\ [Next]_vars => OnceInv'
  <2> SUFFICES ASSUME OnceInv, [Next]_vars PROVE OnceInv'
    OBVIOUS
  <2>1. ASSUME NEW i \in Invocation, NEW op \in Operation, Arrive(i, op)
        PROVE  OnceInv'
    BY <2>1, ArriveOnce
  <2>2. ASSUME NEW i \in Invocation, Wake(i) PROVE OnceInv'
    BY <2>2, WakeOnce
  <2>3. ASSUME NEW i \in Invocation, NEW reply \in Reply, HandlerReplies(i, reply)
        PROVE  OnceInv'
    BY <2>3, ReplyOnce
  <2>4. ASSUME NEW i \in Invocation, NEW reply \in Reply, RepeatReplies(i, reply)
        PROVE  OnceInv'
    BY <2>4, OtherEndsOnce DEF RepeatReplies
  <2>5. ASSUME NEW i \in Invocation, HandlerAborts(i) PROVE OnceInv'
    BY <2>5, OtherEndsOnce DEF HandlerAborts
  <2>6. ASSUME NEW i \in Invocation, WaiterCancelled(i) PROVE OnceInv'
    BY <2>6, CancelOnce
  <2>7. CASE Crash
    BY <2>7, CrashOnce
  <2>8. CASE UNCHANGED vars
    BY <2>8 DEF vars, OnceInv, TypeOK, LocksOK, MakersOK, LocksCost, OncePerInterruption,
                Arrived, Makers, Disturbed, Completed, Running
  <2> QED
    BY <2>1, <2>2, <2>3, <2>4, <2>5, <2>6, <2>7, <2>8 DEF Next
<1> QED
  BY <1>1, <1>2, PTL DEF Spec

\* A request takes effect once, but for its interruptions (_run_idempotent_async
\* and its forgotten locks): the handlers of one request_id that run or have
\* completed are one more than the invocations that were cancelled, raised or died,
\* at most, for any number of invocations, operations and restarts.
THEOREM OneEffect == Spec => []Inv
<1>1. OnceInv => Inv
  BY OnceFollows DEF OnceInv, Inv
<1> QED
  BY <1>1, OnceInvariant, PTL
=============================================================================
