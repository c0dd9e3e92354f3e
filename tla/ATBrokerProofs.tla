--------------------------- MODULE ATBrokerProofs ---------------------------
(***************************************************************************)
(* Proofs about ATBroker: its type invariant, and that terminal responses  *)
(* are attributed to the command they answer (TerminalAttribution) with at *)
(* most one command unresolved (OneUnresolved), and that no other line of  *)
(* the phone goes astray (LinesKept), for any number of calls, queue       *)
(* lengths and unsolicited results.                                        *)
(***************************************************************************)
EXTENDS ATBroker, SequenceTheorems, TLAPS

(* Sequences *)

LEMMA TailFacts ==
    ASSUME NEW S, NEW s \in Seq(S), s # <<>>
    PROVE  /\ Head(s) \in S
           /\ Head(s) = s[1]
           /\ Tail(s) \in Seq(S)
           /\ Len(s) \in Nat \ {0}
           /\ Len(Tail(s)) = Len(s) - 1
           /\ \A i \in 1..Len(Tail(s)) : i + 1 \in 2..Len(s) /\ Tail(s)[i] = s[i + 1]
  BY HeadTailProperties, EmptySeq, LenProperties

LEMMA AppendFacts ==
    ASSUME NEW S, NEW s \in Seq(S), NEW e \in S
    PROVE  /\ Append(s, e) \in Seq(S)
           /\ Len(s) \in Nat
           /\ Len(Append(s, e)) = Len(s) + 1
           /\ \A i \in 1..Len(s) : Append(s, e)[i] = s[i]
           /\ Append(s, e)[Len(s) + 1] = e
  BY AppendProperties, LenProperties

LEMMA RemoveType ==
    ASSUME NEW S, NEW s \in Seq(S), NEW i \in 1..Len(s)
    PROVE  SubSeq(s, 1, i - 1) \o SubSeq(s, i + 1, Len(s)) \in Seq(S)
  <1>1. SubSeq(s, 1, i - 1) \in Seq(S)
    BY LenProperties, SubSeqProperties
  <1>2. SubSeq(s, i + 1, Len(s)) \in Seq(S)
    BY LenProperties, SubSeqProperties
  <1> QED
    BY <1>1, <1>2, ConcatProperties

(* Type invariant *)

LEMMA EventTypes ==
    /\ \A c \in Commands, ok \in BOOLEAN : Terminal(c, ok) \in Event
    /\ \A c \in Commands : Result(c) \in Event
    /\ \A i \in Nat : Urc(i) \in Event
    /\ Eof \in Event
  BY DEF Event, Terminal, Result, Urc, Eof

\* Every variable stays in its range, whatever the calls and the phone do.
THEOREM TypeCorrect == Spec => []TypeOK
  <1>1. Init => TypeOK
    <2> SUFFICES ASSUME Init PROVE TypeOK
      OBVIOUS
    <2>1. /\ lockQ \in Seq(Commands) /\ cmdQueue \in Seq(Commands) /\ sent \in Seq(Commands)
          /\ deferred \in Seq(Event) /\ eventQueue \in Seq(Event) /\ dispatched \in Seq(Nat)
      BY EmptySeq DEF Init
    <2>2. outcome \in [Commands -> {"new", "waiting", "running", "ok", "error", "closed",
                                    "timeout", "cancelled", "refused"}]
      BY DEF Init
    <2>3. credit \in [Commands -> Commands \cup {NoCommand}]
      BY DEF Init
    <2> QED
      BY <2>1, <2>2, <2>3 DEF Init, TypeOK
  <1>2. TypeOK /\ [Next]_vars => TypeOK'
    <2> SUFFICES ASSUME TypeOK, [Next]_vars PROVE TypeOK'
      OBVIOUS
    <2> USE NoCommandAssumption, WantsAssumption
    <2>1. ASSUME NEW c \in Commands, Call(c) PROVE TypeOK'
      BY <2>1, AppendFacts DEF Call, TypeOK, wire, history
    <2>2. ASSUME NEW c \in Commands, Refuse(c) PROVE TypeOK'
      BY <2>2, TailFacts DEF Refuse, TypeOK, wire, history
    <2>3. ASSUME NEW c \in Commands, Begin(c) PROVE TypeOK'
      BY <2>3, TailFacts, AppendFacts DEF Begin, TypeOK
    <2>4. ASSUME NEW c \in Commands, NEW how \in {"ok", "error", "closed", "timeout", "cancelled"},
                 Release(c, how), mode' \in {"slc", "session", "closed"},
                 quarantine' \in {"off", "on", "expired"}
          PROVE  TypeOK'
      <3>1. eventQueue' \in Seq(Event) /\ deferred' \in Seq(Event)
        BY <2>4, ConcatProperties, EmptySeq DEF Release, TypeOK
      <3> QED
        BY <2>4, <3>1 DEF Release, TypeOK, wire, history
    <2>5. ASSUME NEW c \in Commands, Return(c) PROVE TypeOK'
      <3>1. future \in {"ok", "error", "closed"}
        BY <2>5 DEF Return, TypeOK
      <3> QED
        BY <2>4, <2>5, <3>1 DEF Return, TypeOK
    <2>6. ASSUME NEW c \in Commands, Timeout(c) PROVE TypeOK'
      BY <2>4, <2>6 DEF Timeout, TypeOK
    <2>7. ASSUME NEW c \in Commands, Cancel(c) PROVE TypeOK'
      BY <2>4, <2>7 DEF Cancel, TypeOK
    <2>8. ASSUME NEW c \in Commands, CancelWait(c) PROVE TypeOK'
      <3>1. PICK i \in 1..Len(lockQ) :
                lockQ' = SubSeq(lockQ, 1, i - 1) \o SubSeq(lockQ, i + 1, Len(lockQ))
        BY <2>8 DEF CancelWait
      <3>2. lockQ' \in Seq(Commands)
        BY <3>1, RemoveType DEF TypeOK
      <3> QED
        BY <2>8, <3>2 DEF CancelWait, TypeOK, wire, history
    <2>9. CASE QuarantineExpires
      BY <2>9 DEF QuarantineExpires, TypeOK, wire
    <2>10. ASSUME NEW e \in Event, HandleEvent(e)
           PROVE  /\ quarantine' \in {"off", "on", "expired"}
                  /\ future' \in {"open", "ok", "error", "closed"}
                  /\ results' \subseteq Commands \cup {NoCommand}
                  /\ answered' \subseteq Commands \cup {NoCommand}
                  /\ credit' \in [Commands -> Commands \cup {NoCommand}]
      BY <2>10 DEF HandleEvent, Swallow, Resolve, Absorb, Collect, Event, TypeOK
    <2>11. CASE Pump
      <3>1. Head(eventQueue) \in Event /\ eventQueue' \in Seq(Event)
        BY <2>11, TailFacts DEF Pump, TypeOK
      <3>2. deferred' \in Seq(Event)
        <4>1. \A e \in Event : Append(deferred, e) \in Seq(Event)
          BY AppendFacts DEF TypeOK
        <4> QED
          BY <2>11, <3>1, <4>1 DEF Pump, TypeOK
      <3> QED
        BY <2>11, <3>1, <3>2, <2>10 DEF Pump, TypeOK, wire
    <2>12. CASE SlcDone
      BY <2>12 DEF SlcDone, TypeOK, broker, wire, history
    <2>13. CASE Dispatch
      <3>1. Head(eventQueue) \in Event /\ eventQueue' \in Seq(Event)
        BY <2>13, TailFacts DEF Dispatch, TypeOK
      <3>2. dispatched' \in Seq(Nat)
        <4>1. \A e \in Event : Append(dispatched, e.n) \in Seq(Nat)
          BY AppendFacts DEF TypeOK, Event
        <4> QED
          BY <2>13, <3>1, <4>1 DEF Dispatch, TypeOK
      <3>3. answered' \subseteq Commands \cup {NoCommand}
        BY <2>13, <3>1, <2>10 DEF Dispatch, TypeOK, Event
      <3> QED
        BY <2>13, <3>1, <3>2, <3>3, <2>10 DEF Dispatch, TypeOK, wire
    <2>14. CASE Retire
      BY <2>14 DEF Retire, TypeOK, history
    <2>15. CASE WriterSends
      <3>1. Head(cmdQueue) \in Commands /\ cmdQueue' \in Seq(Commands)
        BY <2>15, TailFacts DEF WriterSends, TypeOK
      <3>2. sent' \in Seq(Commands)
        BY <2>15, <3>1, AppendFacts DEF WriterSends, TypeOK
      <3> QED
        BY <2>15, <3>1, <3>2 DEF WriterSends, TypeOK, broker, history
    <2>21. CASE WriterDrops
      <3>1. cmdQueue' \in Seq(Commands)
        BY <2>21, TailFacts DEF WriterDrops, TypeOK
      <3> QED
        BY <2>21, <3>1 DEF WriterDrops, TypeOK, broker, history
    <2>16. CASE PhoneResult
      BY <2>16, TailFacts, AppendFacts, EventTypes DEF PhoneResult, TypeOK, broker, history
    <2>17. CASE PhoneTerminal
      <3>1. Head(sent) \in Commands /\ sent' \in Seq(Commands)
        BY <2>17, TailFacts DEF PhoneTerminal, TypeOK
      <3>2. eventQueue' \in Seq(Event)
        BY <2>17, <3>1, AppendFacts, EventTypes DEF PhoneTerminal, TypeOK
      <3> QED
        BY <2>17, <3>1, <3>2 DEF PhoneTerminal, TypeOK, broker, history
    <2>18. CASE PhoneUrc
      BY <2>18, AppendFacts, EventTypes DEF PhoneUrc, TypeOK, broker, history
    <2>19. CASE Disconnect
      BY <2>19, AppendFacts, EventTypes DEF Disconnect, TypeOK, broker, history
    <2>20. CASE UNCHANGED vars
      BY <2>20 DEF vars, TypeOK, broker, wire, history
    <2> QED
      BY <2>1, <2>2, <2>3, <2>5, <2>6, <2>7, <2>8, <2>9, <2>11, <2>12, <2>13,
         <2>14, <2>15, <2>16, <2>17, <2>18, <2>19, <2>20, <2>21
         DEF Next, Execute, Environment
  <1> QED
    BY <1>1, <1>2, PTL DEF Spec

(* Attribution *)

\* Consuming the head of the event queue keeps the wire and queue invariants,
\* whether it is a terminal (its command is answered) or not.
LEMMA ConsumeHead ==
    ASSUME TypeOK, WireInv, QueueInv, eventQueue # <<>>,
           eventQueue' = Tail(eventQueue),
           answered' = IF Head(eventQueue).kind = "terminal"
                       THEN answered \cup {Head(eventQueue).for} ELSE answered,
           UNCHANGED <<issued, cmdQueue, sent>>,
           \A i \in 1..Len(deferred') : deferred'[i].kind # "terminal"
    PROVE  WireInv' /\ QueueInv'
  <1> DEFINE e == Head(eventQueue)
  <1>1. /\ e = eventQueue[1]
        /\ Len(eventQueue) \in Nat \ {0}
        /\ Len(eventQueue') = Len(eventQueue) - 1
        /\ \A i \in 1..Len(eventQueue') : /\ i + 1 \in 2..Len(eventQueue)
                                          /\ eventQueue'[i] = eventQueue[i + 1]
    BY TailFacts DEF TypeOK
  <1>2. 1 \in 1..Len(eventQueue) /\ \A i \in 1..Len(eventQueue') : i + 1 \in 1..Len(eventQueue) /\ i + 1 # 1
    BY <1>1
  <1>3. \A c \in Unresolved : (e.kind = "terminal" => c # e.for) => c \in Unresolved'
    BY DEF Unresolved
  <1>4. WireInv'
    <2>1. CASE e.kind = "terminal"
      <3>1. /\ \A j \in 1..Len(cmdQueue) : cmdQueue[j] # e.for
            /\ \A j \in 1..Len(sent) : sent[j] # e.for
            /\ e.for \in issued
        BY <2>1, <1>1, <1>2 DEF QueueInv, Unresolved
      <3> QED
        BY <2>1, <3>1, <1>3 DEF WireInv, Distinct
    <2>2. CASE e.kind # "terminal"
      BY <2>2, <1>3 DEF WireInv, Distinct
    <2> QED
      BY <2>1, <2>2
  <1>5. ASSUME NEW i \in 1..Len(eventQueue'), eventQueue'[i].kind = "terminal"
        PROVE  /\ eventQueue'[i].for \in Unresolved'
               /\ \A j \in 1..Len(cmdQueue') : cmdQueue'[j] # eventQueue'[i].for
               /\ \A j \in 1..Len(sent') : sent'[j] # eventQueue'[i].for
               /\ \A j \in 1..Len(eventQueue') :
                     eventQueue'[j].kind = "terminal" /\ eventQueue'[j].for = eventQueue'[i].for
                         => i = j
    <2>1. i + 1 \in 1..Len(eventQueue) /\ i + 1 # 1 /\ eventQueue'[i] = eventQueue[i + 1]
      BY <1>1, <1>2
    <2>2. /\ eventQueue[i + 1].for \in Unresolved
          /\ \A j \in 1..Len(cmdQueue) : cmdQueue[j] # eventQueue[i + 1].for
          /\ \A j \in 1..Len(sent) : sent[j] # eventQueue[i + 1].for
          /\ \A j \in 1..Len(eventQueue) :
                eventQueue[j].kind = "terminal" /\ eventQueue[j].for = eventQueue[i + 1].for
                    => i + 1 = j
      BY <1>5, <2>1 DEF QueueInv
    <2>3. e.kind = "terminal" => eventQueue[i + 1].for # e.for
      BY <2>1, <2>2, <1>1, <1>2
    <2>4. ASSUME NEW j \in 1..Len(eventQueue'), eventQueue'[j].kind = "terminal",
                 eventQueue'[j].for = eventQueue'[i].for
          PROVE  i = j
      <3>1. j + 1 \in 1..Len(eventQueue) /\ eventQueue'[j] = eventQueue[j + 1]
        BY <1>1, <1>2
      <3>2. i + 1 = j + 1
        BY <3>1, <2>1, <2>2, <2>4
      <3> QED
        BY <3>2, <1>1
    <2> QED
      BY <2>1, <2>2, <2>3, <2>4, <1>3
  <1> QED
    BY <1>4, <1>5 DEF QueueInv

\* A step that moves nothing keeps them.
LEMMA NothingMoves ==
    ASSUME WireInv, QueueInv, UNCHANGED <<eventQueue, cmdQueue, sent, deferred, issued, answered>>
    PROVE  WireInv' /\ QueueInv'
  BY DEF WireInv, QueueInv, Unresolved, Distinct

\* So does putting the deferred events back.
LEMMA PutBack ==
    ASSUME TypeOK, WireInv, QueueInv, UNCHANGED <<cmdQueue, sent, issued, answered>>,
           eventQueue' = eventQueue \o deferred, deferred' = <<>>
    PROVE  WireInv' /\ QueueInv'
  <1>1. /\ Len(eventQueue) \in Nat /\ Len(deferred) \in Nat
        /\ Len(eventQueue') = Len(eventQueue) + Len(deferred)
        /\ \A i \in 1..Len(eventQueue') :
              eventQueue'[i] = IF i <= Len(eventQueue) THEN eventQueue[i]
                                                      ELSE deferred[i - Len(eventQueue)]
    BY ConcatProperties, LenProperties DEF TypeOK
  <1>2. \A i \in 1..Len(eventQueue') : eventQueue'[i].kind = "terminal" =>
            i \in 1..Len(eventQueue) /\ eventQueue'[i] = eventQueue[i]
    BY <1>1 DEF QueueInv
  <1>3. Unresolved' = Unresolved /\ answered' = answered /\ issued' = issued
    BY DEF Unresolved
  <1>4. Len(deferred') = 0
    BY EmptySeq
  <1> QED
    BY <1>2, <1>3, <1>4 DEF WireInv, QueueInv, Distinct

\* So does a new event that is not a terminal.
LEMMA PostOther ==
    ASSUME TypeOK, WireInv, QueueInv, NEW e \in Event, e.kind # "terminal",
           eventQueue' = Append(eventQueue, e),
           UNCHANGED <<cmdQueue, sent, deferred, issued, answered>>
    PROVE  WireInv' /\ QueueInv'
  <1>1. /\ Len(eventQueue) \in Nat
        /\ Len(eventQueue') = Len(eventQueue) + 1
        /\ \A i \in 1..Len(eventQueue) : eventQueue'[i] = eventQueue[i]
        /\ eventQueue'[Len(eventQueue) + 1] = e
    BY AppendFacts DEF TypeOK
  <1>2. \A i \in 1..Len(eventQueue') : eventQueue'[i].kind = "terminal" =>
            i \in 1..Len(eventQueue) /\ eventQueue'[i] = eventQueue[i]
    BY <1>1
  <1>3. Unresolved' = Unresolved /\ answered' = answered /\ issued' = issued
    BY DEF Unresolved
  <1> QED
    BY <1>2, <1>3 DEF WireInv, QueueInv, Distinct

\* The phone's answer to the command it has received first.
LEMMA PostTerminal ==
    ASSUME TypeOK, WireInv, QueueInv, PhoneTerminal
    PROVE  WireInv' /\ QueueInv'
  <1> DEFINE c == Head(sent)
  <1>1. PICK ok \in BOOLEAN : eventQueue' = Append(eventQueue, Terminal(c, ok))
    BY DEF PhoneTerminal
  <1>2. /\ c \in Commands /\ c = sent[1]
        /\ Len(sent) \in Nat \ {0}
        /\ Len(sent') = Len(sent) - 1
        /\ \A i \in 1..Len(sent') : i + 1 \in 2..Len(sent) /\ sent'[i] = sent[i + 1]
    BY TailFacts DEF PhoneTerminal, TypeOK
  <1>3. /\ Len(eventQueue) \in Nat
        /\ Len(eventQueue') = Len(eventQueue) + 1
        /\ \A i \in 1..Len(eventQueue) : eventQueue'[i] = eventQueue[i]
        /\ eventQueue'[Len(eventQueue) + 1] = Terminal(c, ok)
    BY <1>1, <1>2, AppendFacts, EventTypes DEF TypeOK
  <1>4. Terminal(c, ok).for = c
    BY DEF Terminal
  <1>5. /\ answered' = answered /\ issued' = issued
        /\ Unresolved' = Unresolved /\ cmdQueue' = cmdQueue /\ deferred' = deferred
    BY DEF PhoneTerminal, Unresolved, history, broker
  <1>6. 1 \in 1..Len(sent) /\ \A i \in 1..Len(sent') : i + 1 \in 1..Len(sent) /\ i + 1 # 1
    BY <1>2
  <1>7. /\ c \in Unresolved
        /\ \A j \in 1..Len(cmdQueue) : cmdQueue[j] # c
        /\ \A j \in 1..Len(sent') : sent'[j] # c
    BY <1>2, <1>6 DEF WireInv, Distinct
  <1>8. WireInv'
    <2>1. Distinct(sent')
      <3> SUFFICES ASSUME NEW i \in 1..Len(sent'), NEW j \in 1..Len(sent'), sent'[i] = sent'[j]
                   PROVE  i = j
        BY DEF Distinct
      <3>1. i + 1 = j + 1
        BY <1>2, <1>6 DEF WireInv, Distinct
      <3> QED
        BY <3>1, <1>2
    <2> QED
      BY <2>1, <1>2, <1>5, <1>6 DEF WireInv, Distinct
  <1>9. ASSUME NEW i \in 1..Len(eventQueue), eventQueue[i].kind = "terminal"
        PROVE  /\ eventQueue[i].for # c
               /\ \A j \in 1..Len(sent') : sent'[j] # eventQueue[i].for
    BY <1>9, <1>2, <1>6 DEF QueueInv
  <1>10. ASSUME NEW i \in 1..Len(eventQueue'), eventQueue'[i].kind = "terminal"
         PROVE  /\ eventQueue'[i].for \in Unresolved'
                /\ \A j \in 1..Len(cmdQueue') : cmdQueue'[j] # eventQueue'[i].for
                /\ \A j \in 1..Len(sent') : sent'[j] # eventQueue'[i].for
                /\ \A j \in 1..Len(eventQueue') :
                      eventQueue'[j].kind = "terminal" /\ eventQueue'[j].for = eventQueue'[i].for
                          => i = j
    <2>1. CASE i = Len(eventQueue) + 1
      <3>1. eventQueue'[i].for = c
        BY <2>1, <1>3, <1>4
      <3>2. ASSUME NEW j \in 1..Len(eventQueue'), eventQueue'[j].kind = "terminal",
                   eventQueue'[j].for = c
            PROVE  i = j
        <4>1. CASE j \in 1..Len(eventQueue)
          BY <4>1, <3>2, <1>3, <1>9
        <4> QED
          BY <4>1, <2>1, <1>3
      <3> QED
        BY <3>1, <3>2, <1>5, <1>7
    <2>2. CASE i \in 1..Len(eventQueue)
      <3>1. eventQueue'[i] = eventQueue[i]
        BY <2>2, <1>3
      <3>2. ASSUME NEW j \in 1..Len(eventQueue'), eventQueue'[j].kind = "terminal",
                   eventQueue'[j].for = eventQueue'[i].for
            PROVE  i = j
        <4>1. CASE j \in 1..Len(eventQueue)
          BY <4>1, <3>1, <3>2, <2>2, <1>3, <1>10 DEF QueueInv
        <4>2. CASE j = Len(eventQueue) + 1
          BY <4>2, <3>1, <3>2, <2>2, <1>3, <1>4, <1>9, <1>10
        <4> QED
          BY <4>1, <4>2, <1>3
      <3> QED
        BY <3>1, <3>2, <2>2, <1>5, <1>9, <1>10 DEF QueueInv
    <2> QED
      BY <2>1, <2>2, <1>3
  <1> QED
    BY <1>8, <1>10, <1>5 DEF QueueInv

\* The writer thread takes a command and sends it, or loses it.
LEMMA WriterMoves ==
    ASSUME TypeOK, WireInv, QueueInv, WriterSends \/ WriterDrops
    PROVE  WireInv' /\ QueueInv'
  <1> DEFINE c == Head(cmdQueue)
  <1>1. /\ c \in Commands /\ c = cmdQueue[1]
        /\ Len(cmdQueue) \in Nat \ {0}
        /\ Len(cmdQueue') = Len(cmdQueue) - 1
        /\ \A i \in 1..Len(cmdQueue') : i + 1 \in 2..Len(cmdQueue) /\ cmdQueue'[i] = cmdQueue[i + 1]
    BY TailFacts DEF WriterSends, WriterDrops, TypeOK
  <1>2. 1 \in 1..Len(cmdQueue)
        /\ \A i \in 1..Len(cmdQueue') : i + 1 \in 1..Len(cmdQueue) /\ i + 1 # 1
    BY <1>1
  <1>3. /\ answered' = answered /\ issued' = issued
        /\ Unresolved' = Unresolved /\ eventQueue' = eventQueue /\ deferred' = deferred
    BY DEF WriterSends, WriterDrops, Unresolved, history, broker
  <1>4. Distinct(cmdQueue')
    <2> SUFFICES ASSUME NEW i \in 1..Len(cmdQueue'), NEW j \in 1..Len(cmdQueue'),
                        cmdQueue'[i] = cmdQueue'[j]
                 PROVE  i = j
      BY DEF Distinct
    <2>1. i + 1 = j + 1
      BY <1>1, <1>2 DEF WireInv, Distinct
    <2> QED
      BY <2>1, <1>1
  <1>5. /\ c \in Unresolved
        /\ \A i \in 1..Len(cmdQueue') : cmdQueue'[i] \in Unresolved /\ cmdQueue'[i] # c
    BY <1>1, <1>2 DEF WireInv, Distinct
  <1>6. \A i \in 1..Len(cmdQueue'), j \in 1..Len(sent) : cmdQueue'[i] # sent[j]
    BY <1>1, <1>2 DEF WireInv
  <1>7. CASE WriterDrops
    <2>1. sent' = sent
      BY <1>7 DEF WriterDrops
    <2> QED
      BY <2>1, <1>1, <1>2, <1>3, <1>4, <1>5, <1>6 DEF WireInv, QueueInv
  <1>8. CASE WriterSends
    <2>1. /\ Len(sent) \in Nat
          /\ Len(sent') = Len(sent) + 1
          /\ \A i \in 1..Len(sent) : sent'[i] = sent[i]
          /\ sent'[Len(sent) + 1] = c
      BY <1>8, <1>1, AppendFacts DEF WriterSends, TypeOK
    <2>2. \A i \in 1..Len(sent') :
            \/ i \in 1..Len(sent) /\ sent'[i] = sent[i]
            \/ i = Len(sent) + 1 /\ sent'[i] = c
      BY <2>1
    <2>3. \A j \in 1..Len(sent) : sent[j] # c
      BY <1>1, <1>2 DEF WireInv
    <2>4. WireInv'
      BY <2>2, <2>3, <1>3, <1>4, <1>5, <1>6 DEF WireInv, Distinct
    <2>5. QueueInv'
      BY <2>2, <1>1, <1>2, <1>3 DEF QueueInv
    <2> QED
      BY <2>4, <2>5
  <1> QED
    BY <1>7, <1>8

\* A call that gets the lock puts a fresh command on the writer's queue.
LEMMA BeginMoves ==
    ASSUME TypeOK, FreshInv, WireInv, QueueInv, NEW c \in Commands, Begin(c)
    PROVE  FreshInv' /\ WireInv' /\ QueueInv'
  <1>1. /\ Len(cmdQueue) \in Nat
        /\ Len(cmdQueue') = Len(cmdQueue) + 1
        /\ \A i \in 1..Len(cmdQueue) : cmdQueue'[i] = cmdQueue[i]
        /\ cmdQueue'[Len(cmdQueue) + 1] = c
    BY AppendFacts DEF Begin, TypeOK
  <1>2. \A i \in 1..Len(cmdQueue') :
          \/ i \in 1..Len(cmdQueue) /\ cmdQueue'[i] = cmdQueue[i]
          \/ i = Len(cmdQueue) + 1 /\ cmdQueue'[i] = c
    BY <1>1
  <1>3. c \notin issued /\ Unresolved \subseteq Unresolved' /\ c \notin Unresolved
    BY DEF Begin, FreshInv, Unresolved
  <1>4. FreshInv'
    BY DEF FreshInv, Begin, TypeOK
  <1>5. UNCHANGED <<sent, eventQueue, deferred>>
    BY DEF Begin
  <1>6. \A i \in 1..Len(cmdQueue) : cmdQueue[i] # c
    BY <1>3 DEF WireInv
  <1>7. \A i \in 1..Len(sent) : sent[i] # c
    BY <1>3 DEF WireInv
  <1>8. c \in Unresolved' /\ answered' \subseteq issued'
    BY <1>3 DEF Begin, Unresolved, WireInv
  <1> QED
    BY <1>2, <1>3, <1>4, <1>5, <1>6, <1>7, <1>8 DEF WireInv, QueueInv, Distinct

\* The terminal at the head of the queue answers an unresolved command.
LEMMA HeadTerminal ==
    ASSUME TypeOK, QueueInv, eventQueue # <<>>
    PROVE  /\ Head(eventQueue) \in Event
           /\ Head(eventQueue).kind = "terminal" => Head(eventQueue).for \in Unresolved
  <1>1. Head(eventQueue) \in Event /\ Head(eventQueue) = eventQueue[1] /\ 1 \in 1..Len(eventQueue)
    BY TailFacts DEF TypeOK
  <1> QED
    BY <1>1 DEF QueueInv

\* handle_event keeps the attribution, and takes an answered command's channel
\* out of quarantine.
LEMMA HandleEventAttributes ==
    ASSUME TypeOK, AttributionInv, eventQueue # <<>>, mode # "closed",
           HandleEvent(Head(eventQueue)),
           UNCHANGED <<mode, pending, issued, orphaned>>
    PROVE  /\ OwnerInv' /\ TerminalAttribution'
           /\ answered' = IF Head(eventQueue).kind = "terminal"
                          THEN answered \cup {Head(eventQueue).for} ELSE answered
  <1> DEFINE e == Head(eventQueue)
  <1>1. e \in Event /\ (e.kind = "terminal" => e.for \in Unresolved)
    BY HeadTerminal DEF AttributionInv
  <1>2. CASE Swallow(e)
    BY <1>1, <1>2 DEF Swallow, AttributionInv, OwnerInv, TerminalAttribution, Unresolved
  <1>3. CASE Resolve(e)
    <2>1. ~orphaned => e.for = pending /\ Unresolved' = {}
      BY <1>1, <1>3 DEF Resolve, AttributionInv, OwnerInv, Unresolved
    <2>2. quarantine' = "off" /\ answered' = answered \cup {e.for} /\ e.kind = "terminal"
      BY <1>3 DEF Resolve
    <2>3. TerminalAttribution'
      BY <1>3, <2>1 DEF Resolve, AttributionInv, TerminalAttribution, TypeOK
    <2> QED
      BY <2>1, <2>2, <2>3 DEF OwnerInv
  <1>4. CASE Absorb(e)
    BY <1>1, <1>4 DEF Absorb, AttributionInv, OwnerInv, TerminalAttribution, Unresolved
  <1>5. CASE Collect(e)
    BY <1>1, <1>5 DEF Collect, AttributionInv, OwnerInv, TerminalAttribution, Unresolved
  <1> QED
    BY <1>2, <1>3, <1>4, <1>5 DEF HandleEvent

\* The ways out of execute put the deferred events back; OwnerInv survives when
\* the quarantine is set for a command that is still unresolved.
LEMMA ReleaseKeeps ==
    ASSUME TypeOK, AttributionInv, NEW c \in Commands, pending = c, NEW how,
           how \notin {"new", "waiting"},
           Release(c, how),
           mode' \in {mode, "closed"},
           quarantine' = "on" \/ (future # "open" /\ quarantine' = quarantine)
    PROVE  AttributionInv'
  <1>1. WireInv' /\ QueueInv'
    BY PutBack DEF AttributionInv, Release, wire, history
  <1>2. FreshInv'
    BY DEF AttributionInv, FreshInv, Release, history, TypeOK
  <1>3. OwnerInv'
    BY NoCommandAssumption DEF AttributionInv, OwnerInv, Release, history, Unresolved
  <1>4. TerminalAttribution'
    BY DEF AttributionInv, TerminalAttribution, Release, history
  <1> QED
    BY <1>1, <1>2, <1>3, <1>4 DEF AttributionInv

LEMMA AttributionInit == Init => AttributionInv
  <1> SUFFICES ASSUME Init PROVE AttributionInv
    OBVIOUS
  <1>1. Len(cmdQueue) = 0 /\ Len(sent) = 0 /\ Len(eventQueue) = 0 /\ Len(deferred) = 0
    BY EmptySeq DEF Init
  <1>2. Unresolved = {} /\ answered \subseteq issued /\ FreshInv
    BY DEF Init, Unresolved, FreshInv
  <1>3. TerminalAttribution /\ OwnerInv
    BY <1>2 DEF Init, TerminalAttribution, OwnerInv
  <1> QED
    BY <1>1, <1>2, <1>3 DEF AttributionInv, WireInv, QueueInv, Distinct

LEMMA AttributionStep ==
    ASSUME TypeOK, AttributionInv, [Next]_vars
    PROVE  AttributionInv'
  <1> USE NoCommandAssumption
  <1>1. ASSUME NEW c \in Commands, Call(c) PROVE AttributionInv'
    <2>1. FreshInv'
      BY <1>1 DEF Call, AttributionInv, FreshInv, TypeOK, history
    <2>2. WireInv' /\ QueueInv'
      BY <1>1, NothingMoves DEF Call, AttributionInv, wire, history
    <2> QED
      BY <1>1, <2>1, <2>2
         DEF Call, AttributionInv, OwnerInv, TerminalAttribution, Unresolved, history
  <1>2. ASSUME NEW c \in Commands, Refuse(c) PROVE AttributionInv'
    <2>1. FreshInv'
      BY <1>2 DEF Refuse, AttributionInv, FreshInv, TypeOK, history
    <2>2. WireInv' /\ QueueInv'
      BY <1>2, NothingMoves DEF Refuse, AttributionInv, wire, history
    <2> QED
      BY <1>2, <2>1, <2>2
         DEF Refuse, AttributionInv, OwnerInv, TerminalAttribution, Unresolved, history
  <1>3. ASSUME NEW c \in Commands, Begin(c) PROVE AttributionInv'
    <2>1. FreshInv' /\ WireInv' /\ QueueInv'
      BY <1>3, BeginMoves DEF AttributionInv
    <2>2. ~orphaned /\ mode # "closed" => Unresolved = {}
      BY <1>3 DEF Begin, AttributionInv, OwnerInv, TypeOK, Unresolved
    <2>3. Unresolved' \subseteq Unresolved \cup {c}
      BY <1>3 DEF Begin, Unresolved
    <2>4. OwnerInv'
      BY <1>3, <2>2, <2>3 DEF Begin, OwnerInv
    <2>5. TerminalAttribution'
      BY <1>3 DEF Begin, AttributionInv, TerminalAttribution
    <2> QED
      BY <2>1, <2>4, <2>5 DEF AttributionInv
  <1>4. ASSUME NEW c \in Commands, Return(c) \/ Timeout(c) \/ Cancel(c)
        PROVE  AttributionInv'
    <2>1. CASE Return(c)
      BY <2>1, ReleaseKeeps DEF Return, TypeOK
    <2>2. CASE Timeout(c)
      BY <2>2, ReleaseKeeps DEF Timeout
    <2>3. CASE Cancel(c)
      BY <2>3, ReleaseKeeps DEF Cancel
    <2> QED
      BY <1>4, <2>1, <2>2, <2>3
  <1>5. ASSUME NEW c \in Commands, CancelWait(c) PROVE AttributionInv'
    <2>1. FreshInv'
      BY <1>5 DEF CancelWait, AttributionInv, FreshInv, TypeOK, history
    <2>2. WireInv' /\ QueueInv'
      BY <1>5, NothingMoves DEF CancelWait, AttributionInv, wire, history
    <2> QED
      BY <1>5, <2>1, <2>2
         DEF CancelWait, AttributionInv, OwnerInv, TerminalAttribution, Unresolved, history
  <1>6. CASE QuarantineExpires
    <2>1. WireInv' /\ QueueInv'
      BY <1>6, NothingMoves DEF QuarantineExpires, AttributionInv, wire
    <2> QED
      BY <1>6, <2>1
         DEF QuarantineExpires, AttributionInv, FreshInv, OwnerInv, TerminalAttribution, Unresolved
  <1>7. CASE Pump
    <2> DEFINE e == Head(eventQueue)
    <2>1. e \in Event /\ (e.kind = "terminal" => e.for \in Unresolved)
      BY <1>7, HeadTerminal DEF Pump, AttributionInv
    <2>2. /\ OwnerInv' /\ TerminalAttribution'
          /\ answered' = IF e.kind = "terminal" THEN answered \cup {e.for} ELSE answered
      <3>1. CASE HandleEvent(e) /\ UNCHANGED <<mode, deferred>>
        BY <1>7, <3>1, HandleEventAttributes DEF Pump
      <3>2. CASE NotConsumed(e) /\ UNCHANGED <<mode, quarantine, future, results, answered, credit>>
        BY <1>7, <3>2
           DEF Pump, NotConsumed, AttributionInv, OwnerInv, TerminalAttribution, Unresolved
      <3>3. CASE e.kind = "eof" /\ mode' = "closed" /\ UNCHANGED <<quarantine, answered, credit>>
        BY <1>7, <3>3 DEF Pump, AttributionInv, OwnerInv, TerminalAttribution
      <3> QED
        BY <1>7, <3>1, <3>2, <3>3 DEF Pump
    <2>3. \A i \in 1..Len(deferred') : deferred'[i].kind # "terminal"
      <3>1. CASE deferred' = deferred
        BY <3>1 DEF AttributionInv, QueueInv
      <3>2. CASE deferred' = Append(deferred, e) /\ NotConsumed(e)
        <4>1. e.kind # "terminal"
          BY <1>7, <3>2 DEF Pump, NotConsumed
        <4> QED
          BY <3>2, <4>1, <2>1, AppendFacts DEF AttributionInv, QueueInv, TypeOK
      <3> QED
        BY <1>7, <3>1, <3>2 DEF Pump
    <2>4. WireInv' /\ QueueInv'
      BY <1>7, <2>2, <2>3, ConsumeHead DEF Pump, AttributionInv, wire
    <2>5. FreshInv'
      BY <1>7 DEF Pump, AttributionInv, FreshInv
    <2> QED
      BY <2>2, <2>4, <2>5 DEF AttributionInv
  <1>8. CASE SlcDone
    <2>1. WireInv' /\ QueueInv'
      BY <1>8, NothingMoves DEF SlcDone, AttributionInv, broker, wire, history
    <2> QED
      BY <1>8, <2>1 DEF SlcDone, AttributionInv, FreshInv, OwnerInv, TerminalAttribution,
                        Unresolved, broker, history
  <1>9. CASE Dispatch
    <2> DEFINE e == Head(eventQueue)
    <2>1. e \in Event /\ (e.kind = "terminal" => e.for \in Unresolved)
      BY <1>9, HeadTerminal DEF Dispatch, AttributionInv
    <2>2. /\ OwnerInv' /\ TerminalAttribution'
          /\ answered' = IF e.kind = "terminal" THEN answered \cup {e.for} ELSE answered
      <3>1. CASE HandleEvent(e) /\ UNCHANGED <<mode, dispatched>>
        BY <1>9, <3>1, HandleEventAttributes DEF Dispatch
      <3>2. CASE /\ NotConsumed(e) /\ UNCHANGED <<mode, quarantine, future, results, credit>>
                 /\ answered' = IF e.kind = "terminal" THEN answered \cup {e.for} ELSE answered
        BY <1>9, <3>2
           DEF Dispatch, AttributionInv, OwnerInv, TerminalAttribution, Unresolved
      <3>3. CASE e.kind = "eof" /\ mode' = "closed" /\ UNCHANGED <<quarantine, answered, credit>>
        BY <1>9, <3>3 DEF Dispatch, AttributionInv, OwnerInv, TerminalAttribution
      <3> QED
        BY <1>9, <3>1, <3>2, <3>3 DEF Dispatch
    <2>3. \A i \in 1..Len(deferred') : deferred'[i].kind # "terminal"
      BY <1>9 DEF Dispatch, AttributionInv, QueueInv
    <2>4. WireInv' /\ QueueInv'
      BY <1>9, <2>2, <2>3, ConsumeHead DEF Dispatch, AttributionInv, wire
    <2>5. FreshInv'
      BY <1>9 DEF Dispatch, AttributionInv, FreshInv
    <2> QED
      BY <2>2, <2>4, <2>5 DEF AttributionInv
  <1>10. CASE Retire
    <2>1. WireInv' /\ QueueInv'
      BY <1>10, NothingMoves DEF Retire, AttributionInv, history
    <2> QED
      BY <1>10, <2>1 DEF Retire, AttributionInv, FreshInv, OwnerInv, TerminalAttribution,
                         Unresolved, history
  <1>11. ASSUME WireInv' /\ QueueInv', UNCHANGED <<mode, broker, history>>
         PROVE  AttributionInv'
    BY <1>11 DEF AttributionInv, FreshInv, OwnerInv, TerminalAttribution, Unresolved,
                 broker, history
  <1>12. CASE WriterSends \/ WriterDrops
    BY <1>11, <1>12, WriterMoves DEF AttributionInv, WriterSends, WriterDrops
  <1>13. CASE PhoneTerminal
    BY <1>11, <1>13, PostTerminal DEF AttributionInv, PhoneTerminal
  <1>14. CASE PhoneResult
    <2>1. Result(Head(sent)) \in Event /\ Result(Head(sent)).kind # "terminal"
      BY <1>14, TailFacts, EventTypes DEF PhoneResult, TypeOK, Result
    <2> QED
      BY <1>11, <1>14, <2>1, PostOther DEF AttributionInv, PhoneResult, broker, history
  <1>15. CASE PhoneUrc
    <2>1. Urc(urcs + 1) \in Event /\ Urc(urcs + 1).kind # "terminal"
      BY EventTypes DEF TypeOK, Urc
    <2> QED
      BY <1>11, <1>15, <2>1, PostOther DEF AttributionInv, PhoneUrc, broker, history
  <1>16. CASE Disconnect
    <2>1. Eof \in Event /\ Eof.kind # "terminal"
      BY EventTypes DEF Eof
    <2> QED
      BY <1>11, <1>16, <2>1, PostOther DEF AttributionInv, Disconnect, broker, history
  <1>17. CASE UNCHANGED vars
    BY <1>11, <1>17, NothingMoves DEF vars, AttributionInv, broker, wire, history
  <1> QED
    BY <1>1, <1>2, <1>3, <1>4, <1>5, <1>6, <1>7, <1>8, <1>9, <1>10, <1>12, <1>13,
       <1>14, <1>15, <1>16, <1>17 DEF Next, Execute, Environment

\* The invariant that ties every terminal to the one unresolved command.
THEOREM AttributionInvariant == Spec => []AttributionInv
  <1>1. Init => AttributionInv
    BY AttributionInit
  <1>2. TypeOK /\ AttributionInv /\ [Next]_vars => AttributionInv'
    BY AttributionStep
  <1> QED
    BY <1>1, <1>2, TypeCorrect, PTL DEF Spec

\* Late, lost and cancelled answers never complete another command before a
\* quarantine has run out with an answer outstanding.
THEOREM ResponsesAttributed == Spec => []TerminalAttribution
  <1>1. AttributionInv => TerminalAttribution
    BY DEF AttributionInv
  <1> QED
    BY <1>1, AttributionInvariant, PTL

\* The phone is never given two commands at a time on a live connection.
THEOREM OneCommandUnresolved == Spec => []OneUnresolved
  <1>1. AttributionInv => OneUnresolved
    BY DEF AttributionInv, OwnerInv, OneUnresolved
  <1> QED
    BY <1>1, AttributionInvariant, PTL

(* The phone's lines *)

LEMMA UrcsOfAppend ==
    ASSUME NEW q \in Seq(Event), NEW e \in Event
    PROVE  /\ UrcNumbers(Append(q, e)) =
                IF e.kind = "urc" THEN UrcNumbers(q) \cup {e.n} ELSE UrcNumbers(q)
           /\ UrcsOnce(q) /\ (e.kind = "urc" => e.n \notin UrcNumbers(q)) => UrcsOnce(Append(q, e))
  <1> DEFINE p == Append(q, e)
  <1>1. /\ Len(q) \in Nat /\ Len(p) = Len(q) + 1
        /\ \A i \in 1..Len(q) : p[i] = q[i]
        /\ p[Len(q) + 1] = e
    BY AppendFacts
  <1> HIDE DEF p
  <1>2. \A i : i \in 1..Len(p) <=> i \in 1..Len(q) \/ i = Len(q) + 1
    BY <1>1
  <1>3. \A i : i \in Urcs(p) <=> i \in Urcs(q) \/ (i = Len(q) + 1 /\ e.kind = "urc")
    BY <1>1, <1>2 DEF Urcs
  <1>4. \A i \in Urcs(q) : p[i] = q[i] /\ i # Len(q) + 1 /\ q[i].n \in UrcNumbers(q)
    BY <1>1 DEF Urcs, UrcNumbers
  <1>5. UrcNumbers(p) = IF e.kind = "urc" THEN UrcNumbers(q) \cup {e.n} ELSE UrcNumbers(q)
    BY <1>1, <1>3, <1>4 DEF UrcNumbers
  <1>6. UrcsOnce(q) /\ (e.kind = "urc" => e.n \notin UrcNumbers(q)) => UrcsOnce(p)
    BY <1>1, <1>3, <1>4 DEF UrcsOnce
  <1> QED
    BY <1>5, <1>6 DEF p

LEMMA UrcsOfTail ==
    ASSUME NEW q \in Seq(Event), q # <<>>, UrcsOnce(q)
    PROVE  /\ UrcNumbers(Tail(q)) =
                IF Head(q).kind = "urc" THEN UrcNumbers(q) \ {Head(q).n} ELSE UrcNumbers(q)
           /\ Head(q).kind = "urc" => Head(q).n \in UrcNumbers(q)
           /\ UrcsOnce(Tail(q))
  <1> DEFINE p == Tail(q)
             e == Head(q)
  <1>1. /\ e = q[1] /\ Len(q) \in Nat \ {0} /\ Len(p) = Len(q) - 1
        /\ \A i \in 1..Len(p) : p[i] = q[i + 1]
    BY TailFacts
  <1> HIDE DEF p, e
  <1>2. \A i \in 1..Len(q) : i = 1 \/ (i - 1 \in 1..Len(p) /\ p[i - 1] = q[i])
    BY <1>1
  <1>3. \A i \in 1..Len(p) : i + 1 \in 1..Len(q) /\ i + 1 # 1
    BY <1>1
  <1>4. \A i \in Urcs(p) : i + 1 \in Urcs(q) /\ p[i] = q[i + 1] /\ i + 1 # 1 /\ i \in Nat
    BY <1>1, <1>3 DEF Urcs
  <1>5. \A i \in Urcs(q) : i = 1 \/ (i - 1 \in Urcs(p) /\ p[i - 1] = q[i])
    BY <1>2 DEF Urcs
  <1>6. 1 \in Urcs(q) <=> e.kind = "urc"
    BY <1>1 DEF Urcs
  <1>7. e.kind = "urc" => e.n \in UrcNumbers(q)
    BY <1>1, <1>6 DEF UrcNumbers
  <1>8. UrcsOnce(p)
    BY <1>4 DEF UrcsOnce
  <1>9. ASSUME NEW n PROVE n \in UrcNumbers(p) <=> n \in UrcNumbers(q) /\ ~(e.kind = "urc" /\ n = e.n)
    <2>1. ASSUME n \in UrcNumbers(p)
          PROVE  n \in UrcNumbers(q) /\ ~(e.kind = "urc" /\ n = e.n)
      <3>1. PICK i \in Urcs(p) : n = p[i].n
        BY <2>1 DEF UrcNumbers
      <3>2. i + 1 \in Urcs(q) /\ n = q[i + 1].n /\ i + 1 # 1
        BY <1>4, <3>1
      <3> QED
        BY <1>1, <1>6, <3>2 DEF UrcNumbers, UrcsOnce
    <2>2. ASSUME n \in UrcNumbers(q), ~(e.kind = "urc" /\ n = e.n)
          PROVE  n \in UrcNumbers(p)
      <3>1. PICK i \in Urcs(q) : n = q[i].n
        BY <2>2 DEF UrcNumbers
      <3>2. i # 1
        BY <1>1, <1>6, <2>2, <3>1
      <3> QED
        BY <1>5, <3>1, <3>2 DEF UrcNumbers
    <2> QED
      BY <2>1, <2>2
  <1> QED
    BY <1>7, <1>8, <1>9 DEF p, e

LEMMA UrcsOfConcat ==
    ASSUME NEW q \in Seq(Event), NEW d \in Seq(Event)
    PROVE  /\ UrcNumbers(q \o d) = UrcNumbers(q) \cup UrcNumbers(d)
           /\ UrcsOnce(q) /\ UrcsOnce(d) /\ UrcNumbers(q) \cap UrcNumbers(d) = {} => UrcsOnce(q \o d)
  <1> DEFINE p == q \o d
  <1>1. /\ Len(q) \in Nat /\ Len(d) \in Nat /\ Len(p) = Len(q) + Len(d)
        /\ \A i \in 1..Len(p) : p[i] = IF i <= Len(q) THEN q[i] ELSE d[i - Len(q)]
    BY ConcatProperties, LenProperties
  <1> HIDE DEF p
  <1>2. \A i \in 1..Len(p) : i \in 1..Len(q) \/ (i - Len(q) \in 1..Len(d) /\ ~(i <= Len(q)))
    BY <1>1
  <1>3. \A i \in Urcs(p) : \/ i \in Urcs(q) /\ p[i] = q[i]
                           \/ i - Len(q) \in Urcs(d) /\ p[i] = d[i - Len(q)]
    BY <1>1, <1>2 DEF Urcs
  <1>4. /\ \A i \in Urcs(q) : i \in Urcs(p) /\ p[i] = q[i]
        /\ \A i \in Urcs(d) : i + Len(q) \in Urcs(p) /\ p[i + Len(q)] = d[i]
    <2>1. ASSUME NEW i \in 1..Len(q) PROVE i \in 1..Len(p) /\ p[i] = q[i]
      BY <1>1
    <2>2. ASSUME NEW i \in 1..Len(d) PROVE i + Len(q) \in 1..Len(p) /\ p[i + Len(q)] = d[i]
      BY <1>1
    <2> QED
      BY <2>1, <2>2 DEF Urcs
  <1>5. UrcNumbers(p) = UrcNumbers(q) \cup UrcNumbers(d)
    BY <1>3, <1>4 DEF UrcNumbers
  <1>6. ASSUME UrcsOnce(q), UrcsOnce(d), UrcNumbers(q) \cap UrcNumbers(d) = {} PROVE UrcsOnce(p)
    <2> SUFFICES ASSUME NEW i \in Urcs(p), NEW j \in Urcs(p), p[i].n = p[j].n PROVE i = j
      BY DEF UrcsOnce
    <2>1. i \in Nat /\ j \in Nat
      BY <1>1 DEF Urcs
    <2>2. /\ \A x \in Urcs(q) : q[x].n \in UrcNumbers(q)
          /\ \A x \in Urcs(d) : d[x].n \in UrcNumbers(d)
      BY DEF UrcNumbers
    <2>3. CASE i \in Urcs(q) /\ p[i] = q[i]
      BY <1>3, <1>6, <2>2, <2>3 DEF UrcsOnce
    <2>4. CASE i - Len(q) \in Urcs(d) /\ p[i] = d[i - Len(q)]
      <3>1. j - Len(q) \in Urcs(d) /\ p[j] = d[j - Len(q)]
        BY <1>3, <1>6, <2>2, <2>4
      <3>2. i - Len(q) = j - Len(q)
        BY <1>6, <2>4, <3>1 DEF UrcsOnce
      <3> QED
        BY <1>1, <2>1, <3>2
    <2> QED
      BY <1>3, <2>3, <2>4
  <1> QED
    BY <1>5, <1>6 DEF p

\* The head of the queue moves to the dispatcher, is put aside, or is no
\* unsolicited result.
LEMMA UrcMoves ==
    ASSUME TypeOK, NoUrcSwallowed, mode # "closed", eventQueue # <<>>,
           eventQueue' = Tail(eventQueue), urcs' = urcs,
           \/ Head(eventQueue).kind # "urc" /\ UNCHANGED <<deferred, dispatched>>
           \/ deferred' = Append(deferred, Head(eventQueue)) /\ UNCHANGED dispatched
           \/ /\ Head(eventQueue).kind = "urc" /\ UNCHANGED deferred
              /\ dispatched' = Append(dispatched, Head(eventQueue).n)
    PROVE  NoUrcSwallowed'
  <1> DEFINE e == Head(eventQueue)
  <1>1. /\ Handled \cup UrcNumbers(eventQueue) \cup UrcNumbers(deferred) = 1..urcs
        /\ Handled \cap UrcNumbers(eventQueue) = {}
        /\ Handled \cap UrcNumbers(deferred) = {}
        /\ UrcNumbers(eventQueue) \cap UrcNumbers(deferred) = {}
        /\ Distinct(dispatched) /\ UrcsOnce(eventQueue) /\ UrcsOnce(deferred)
    BY DEF NoUrcSwallowed
  <1>2. /\ eventQueue \in Seq(Event) /\ deferred \in Seq(Event) /\ dispatched \in Seq(Nat)
        /\ e \in Event /\ e.n \in Nat
    <2>1. /\ eventQueue \in Seq(Event) /\ deferred \in Seq(Event) /\ dispatched \in Seq(Nat)
      BY DEF TypeOK
    <2>2. e \in Event
      BY <2>1, TailFacts
    <2> QED
      BY <2>1, <2>2 DEF Event
  <1>3. /\ UrcNumbers(eventQueue') = IF e.kind = "urc" THEN UrcNumbers(eventQueue) \ {e.n}
                                                       ELSE UrcNumbers(eventQueue)
        /\ e.kind = "urc" => e.n \in UrcNumbers(eventQueue)
        /\ UrcsOnce(eventQueue')
    BY <1>1, <1>2, UrcsOfTail
  <1> HIDE DEF e
  <1>4. CASE e.kind # "urc" /\ UNCHANGED <<deferred, dispatched>>
    BY <1>1, <1>3, <1>4 DEF NoUrcSwallowed, Handled, Distinct
  <1>5. CASE deferred' = Append(deferred, e) /\ UNCHANGED dispatched
    <2>1. /\ UrcNumbers(deferred') = IF e.kind = "urc" THEN UrcNumbers(deferred) \cup {e.n}
                                                       ELSE UrcNumbers(deferred)
          /\ UrcsOnce(deferred')
      <3>1. e.kind = "urc" => e.n \notin UrcNumbers(deferred)
        BY <1>1, <1>3
      <3> QED
        BY <1>1, <1>2, <1>5, <3>1, UrcsOfAppend
    <2>2. Handled' = Handled /\ Distinct(dispatched')
      BY <1>1, <1>5 DEF Handled
    <2> QED
      BY <1>1, <1>3, <2>1, <2>2 DEF NoUrcSwallowed
  <1>6. CASE e.kind = "urc" /\ UNCHANGED deferred /\ dispatched' = Append(dispatched, e.n)
    <2>1. /\ Len(dispatched) \in Nat /\ Len(dispatched') = Len(dispatched) + 1
          /\ \A i \in 1..Len(dispatched) : dispatched'[i] = dispatched[i]
          /\ dispatched'[Len(dispatched) + 1] = e.n
      BY <1>2, <1>6, AppendFacts
    <2>2. \A i : i \in 1..Len(dispatched') <=> i \in 1..Len(dispatched) \/ i = Len(dispatched) + 1
      BY <2>1
    <2>3. Handled' = Handled \cup {e.n}
      BY <2>1, <2>2 DEF Handled
    <2>4. \A i \in 1..Len(dispatched) : dispatched'[i] # e.n
      BY <1>1, <1>3, <1>6, <2>1 DEF Handled
    <2>5. Distinct(dispatched')
      BY <1>1, <2>1, <2>2, <2>4 DEF Distinct
    <2>6. UrcNumbers(deferred') = UrcNumbers(deferred) /\ UrcsOnce(deferred')
      BY <1>1, <1>6
    <2> QED
      BY <1>1, <1>3, <1>6, <2>3, <2>5, <2>6 DEF NoUrcSwallowed
  <1> QED
    BY <1>4, <1>5, <1>6 DEF e

\* A new event joins the queue: the next unsolicited result, or another one.
LEMMA UrcArrives ==
    ASSUME TypeOK, NoUrcSwallowed, NEW e \in Event,
           eventQueue' = Append(eventQueue, e), UNCHANGED <<mode, deferred, dispatched>>,
           IF e.kind = "urc" THEN e.n = urcs + 1 /\ urcs' = urcs + 1 ELSE urcs' = urcs
    PROVE  NoUrcSwallowed'
  <1> SUFFICES ASSUME mode # "closed" PROVE NoUrcSwallowed'
    BY DEF NoUrcSwallowed
  <1>1. /\ Handled \cup UrcNumbers(eventQueue) \cup UrcNumbers(deferred) = 1..urcs
        /\ Handled \cap UrcNumbers(eventQueue) = {}
        /\ Handled \cap UrcNumbers(deferred) = {}
        /\ UrcNumbers(eventQueue) \cap UrcNumbers(deferred) = {}
        /\ Distinct(dispatched) /\ UrcsOnce(eventQueue) /\ UrcsOnce(deferred)
    BY DEF NoUrcSwallowed
  <1>2. urcs \in Nat /\ eventQueue \in Seq(Event)
    BY DEF TypeOK
  <1>3. e.kind = "urc" => /\ e.n \notin 1..urcs
                          /\ 1..urcs' = (1..urcs) \cup {e.n}
    BY <1>2
  <1>4. /\ UrcNumbers(eventQueue') = IF e.kind = "urc" THEN UrcNumbers(eventQueue) \cup {e.n}
                                                       ELSE UrcNumbers(eventQueue)
        /\ UrcsOnce(eventQueue')
    BY <1>1, <1>2, <1>3, UrcsOfAppend
  <1>5. /\ Handled' = Handled /\ Distinct(dispatched')
        /\ UrcNumbers(deferred') = UrcNumbers(deferred) /\ UrcsOnce(deferred')
    BY <1>1 DEF Handled
  <1>6. CASE e.kind = "urc"
    BY <1>1, <1>3, <1>4, <1>5, <1>6 DEF NoUrcSwallowed
  <1>7. CASE e.kind # "urc"
    BY <1>1, <1>4, <1>5, <1>7 DEF NoUrcSwallowed
  <1> QED
    BY <1>6, <1>7

\* The deferred events return to the queue.
LEMMA UrcsReturn ==
    ASSUME TypeOK, NoUrcSwallowed, mode' \in {mode, "closed"}, UNCHANGED <<dispatched, urcs>>,
           eventQueue' = eventQueue \o deferred, deferred' = <<>>
    PROVE  NoUrcSwallowed'
  <1> SUFFICES ASSUME mode # "closed" PROVE NoUrcSwallowed'
    BY DEF NoUrcSwallowed
  <1>1. /\ Handled \cup UrcNumbers(eventQueue) \cup UrcNumbers(deferred) = 1..urcs
        /\ Handled \cap UrcNumbers(eventQueue) = {}
        /\ Handled \cap UrcNumbers(deferred) = {}
        /\ UrcNumbers(eventQueue) \cap UrcNumbers(deferred) = {}
        /\ Distinct(dispatched) /\ UrcsOnce(eventQueue) /\ UrcsOnce(deferred)
    BY DEF NoUrcSwallowed
  <1>2. /\ UrcNumbers(eventQueue') = UrcNumbers(eventQueue) \cup UrcNumbers(deferred)
        /\ UrcsOnce(eventQueue')
    BY <1>1, UrcsOfConcat DEF TypeOK
  <1>3. Urcs(deferred') = {}
    BY EmptySeq DEF Urcs
  <1>4. UrcNumbers(deferred') = {} /\ UrcsOnce(deferred')
    BY <1>3 DEF UrcNumbers, UrcsOnce
  <1>5. Handled' = Handled /\ Distinct(dispatched')
    BY <1>1 DEF Handled
  <1> QED
    BY <1>1, <1>2, <1>4, <1>5 DEF NoUrcSwallowed

\* A step that moves no event, on a connection that was not closed before.
LEMMA UrcsStay ==
    ASSUME NoUrcSwallowed, mode' # "closed" => mode # "closed",
           UNCHANGED <<eventQueue, deferred, dispatched, urcs>>
    PROVE  NoUrcSwallowed'
  BY DEF NoUrcSwallowed, Handled

LEMMA UrcsStep ==
    ASSUME TypeOK, NoUrcSwallowed, [Next]_vars
    PROVE  NoUrcSwallowed'
  <1>1. ASSUME NEW c \in Commands, Call(c) \/ Refuse(c) \/ Begin(c) \/ CancelWait(c)
        PROVE  NoUrcSwallowed'
    BY <1>1, UrcsStay DEF Call, Refuse, Begin, CancelWait, wire
  <1>2. ASSUME NEW c \in Commands, NEW how, Release(c, how), mode' \in {mode, "closed"}
        PROVE  NoUrcSwallowed'
    BY <1>2, UrcsReturn DEF Release, wire
  <1>3. ASSUME NEW c \in Commands, Return(c) \/ Timeout(c) \/ Cancel(c)
        PROVE  NoUrcSwallowed'
    BY <1>2, <1>3 DEF Return, Timeout, Cancel
  <1>4. CASE QuarantineExpires \/ SlcDone \/ Retire \/ WriterSends \/ WriterDrops \/ UNCHANGED vars
    BY <1>4, UrcsStay DEF QuarantineExpires, SlcDone, Retire, WriterSends, WriterDrops, vars,
                          broker, wire
  <1>5. ASSUME eventQueue # <<>>, HandleEvent(Head(eventQueue)) PROVE Head(eventQueue).kind # "urc"
    BY <1>5 DEF HandleEvent, Swallow, Resolve, Absorb, Collect
  <1>6. CASE Pump
    <2> SUFFICES ASSUME mode' # "closed" PROVE NoUrcSwallowed'
      BY DEF NoUrcSwallowed
    <2>1. /\ mode # "closed" /\ eventQueue # <<>> /\ eventQueue' = Tail(eventQueue)
          /\ urcs' = urcs /\ dispatched' = dispatched
          /\ \/ HandleEvent(Head(eventQueue)) /\ deferred' = deferred
             \/ deferred' = Append(deferred, Head(eventQueue))
             \/ Head(eventQueue).kind = "eof" /\ deferred' = deferred
      BY <1>6 DEF Pump, wire
    <2> QED
      BY <1>5, <2>1, UrcMoves
  <1>7. CASE Dispatch
    <2> SUFFICES ASSUME mode' # "closed" PROVE NoUrcSwallowed'
      BY DEF NoUrcSwallowed
    <2>1. /\ mode # "closed" /\ eventQueue # <<>> /\ eventQueue' = Tail(eventQueue)
          /\ urcs' = urcs /\ deferred' = deferred
          /\ \/ HandleEvent(Head(eventQueue)) /\ dispatched' = dispatched
             \/ dispatched' = IF Head(eventQueue).kind = "urc"
                              THEN Append(dispatched, Head(eventQueue).n) ELSE dispatched
      BY <1>7 DEF Dispatch, wire
    <2> QED
      BY <1>5, <2>1, UrcMoves
  <1>8. ASSUME NEW e \in Event, e.kind # "urc", eventQueue' = Append(eventQueue, e),
               UNCHANGED <<mode, deferred, dispatched, urcs>>
        PROVE  NoUrcSwallowed'
    BY <1>8, UrcArrives
  <1>9. CASE PhoneResult
    <2>1. Result(Head(sent)) \in Event /\ Result(Head(sent)).kind # "urc"
      BY <1>9, TailFacts, EventTypes DEF PhoneResult, TypeOK, Result
    <2> QED
      BY <1>8, <1>9, <2>1 DEF PhoneResult, broker
  <1>10. CASE PhoneTerminal
    <2>1. PICK ok \in BOOLEAN : eventQueue' = Append(eventQueue, Terminal(Head(sent), ok))
      BY <1>10 DEF PhoneTerminal
    <2>2. Terminal(Head(sent), ok) \in Event /\ Terminal(Head(sent), ok).kind # "urc"
      BY <1>10, TailFacts, EventTypes DEF PhoneTerminal, TypeOK, Terminal
    <2> QED
      BY <1>8, <1>10, <2>1, <2>2 DEF PhoneTerminal, broker
  <1>11. CASE PhoneUrc
    <2>1. /\ Urc(urcs + 1) \in Event /\ Urc(urcs + 1).kind = "urc" /\ Urc(urcs + 1).n = urcs + 1
      BY EventTypes DEF TypeOK, Urc
    <2> QED
      BY <1>11, <2>1, UrcArrives DEF PhoneUrc, broker
  <1>12. CASE Disconnect
    <2>1. Eof \in Event /\ Eof.kind # "urc"
      BY EventTypes DEF Eof
    <2> QED
      BY <1>8, <1>12, <2>1 DEF Disconnect, broker
  <1> QED
    BY <1>1, <1>3, <1>4, <1>6, <1>7, <1>9, <1>10, <1>11, <1>12 DEF Next, Execute, Environment

\* A result in the queue is of an unresolved command and comes before that
\* command's terminal; none is put aside, for it is of the pending command.
ResultInv ==
    ~orphaned /\ mode # "closed" =>
      /\ \A i \in 1..Len(eventQueue) : eventQueue[i].kind = "result" =>
            /\ eventQueue[i].for \in Unresolved \cap Wants
            /\ \A j \in 1..Len(eventQueue) :
                  eventQueue[j].kind = "terminal" /\ eventQueue[j].for = eventQueue[i].for => i < j
      /\ \A i \in 1..Len(deferred) : deferred[i].kind # "result"

\* A step that moves no event keeps it, whatever commands it adds.
LEMMA ResultsStay ==
    ASSUME ResultInv, mode' # "closed" => mode # "closed", ~orphaned' => ~orphaned,
           UNCHANGED <<eventQueue, deferred, answered>>, issued \subseteq issued'
    PROVE  ResultInv'
  BY DEF ResultInv, Unresolved

\* The head of the queue is taken; what is put aside is no result.
LEMMA ResultTaken ==
    ASSUME TypeOK, ResultInv, ~orphaned, mode # "closed", eventQueue # <<>>,
           eventQueue' = Tail(eventQueue), issued' = issued,
           answered' = IF Head(eventQueue).kind = "terminal"
                       THEN answered \cup {Head(eventQueue).for} ELSE answered,
           \A i \in 1..Len(deferred') : deferred'[i].kind # "result"
    PROVE  ResultInv'
  <1> DEFINE e == Head(eventQueue)
  <1>1. /\ e = eventQueue[1] /\ Len(eventQueue) \in Nat \ {0}
        /\ \A i \in 1..Len(eventQueue') :
              /\ i \in Nat /\ i + 1 \in 1..Len(eventQueue) /\ i + 1 > 1
              /\ eventQueue'[i] = eventQueue[i + 1]
    BY TailFacts DEF TypeOK
  <1>2. 1 \in 1..Len(eventQueue)
    BY <1>1
  <1> HIDE DEF e
  <1>3. ASSUME NEW i \in 1..Len(eventQueue'), eventQueue'[i].kind = "result"
        PROVE  /\ eventQueue'[i].for \in Unresolved' \cap Wants
               /\ \A j \in 1..Len(eventQueue') :
                     eventQueue'[j].kind = "terminal" /\ eventQueue'[j].for = eventQueue'[i].for
                       => i < j
    <2>1. /\ i + 1 \in 1..Len(eventQueue) /\ eventQueue'[i] = eventQueue[i + 1] /\ i \in Nat
          /\ i + 1 > 1
      BY <1>1
    <2>2. /\ eventQueue[i + 1].for \in Unresolved \cap Wants
          /\ \A j \in 1..Len(eventQueue) :
                eventQueue[j].kind = "terminal" /\ eventQueue[j].for = eventQueue[i + 1].for
                  => i + 1 < j
      BY <1>3, <2>1 DEF ResultInv
    <2>3. e.kind = "terminal" => e.for # eventQueue[i + 1].for
      <3>1. ~(i + 1 < 1)
        BY <2>1
      <3> QED
        BY <1>1, <1>2, <2>2, <3>1
    <2>4. eventQueue[i + 1].for \in Unresolved'
      BY <2>2, <2>3 DEF Unresolved, e
    <2>5. ASSUME NEW j \in 1..Len(eventQueue'), eventQueue'[j].kind = "terminal",
                 eventQueue'[j].for = eventQueue'[i].for
          PROVE  i < j
      <3>1. j \in Nat /\ j + 1 \in 1..Len(eventQueue) /\ eventQueue'[j] = eventQueue[j + 1]
        BY <1>1
      <3>2. i + 1 < j + 1
        BY <2>1, <2>2, <2>5, <3>1
      <3> QED
        BY <2>1, <3>1, <3>2
    <2> QED
      BY <2>1, <2>2, <2>4, <2>5
  <1> QED
    BY <1>3 DEF ResultInv

\* A result that arrives is of the command the phone works on.
LEMMA ResultArrives ==
    ASSUME TypeOK, WireInv, QueueInv, ResultInv, PhoneResult
    PROVE  ResultInv'
  <1> SUFFICES ASSUME ~orphaned, mode # "closed" PROVE ResultInv'
    BY DEF ResultInv, PhoneResult, broker, history
  <1> DEFINE c == Head(sent)
  <1>1. c \in Commands /\ c \in Wants /\ c = sent[1] /\ 1 \in 1..Len(sent)
    BY TailFacts DEF PhoneResult, TypeOK
  <1>2. c \in Unresolved
    BY <1>1 DEF WireInv
  <1>3. \A j \in 1..Len(eventQueue) : eventQueue[j].kind = "terminal" => eventQueue[j].for # c
    BY <1>1 DEF QueueInv
  <1>4. /\ Len(eventQueue) \in Nat
        /\ Len(eventQueue') = Len(eventQueue) + 1
        /\ \A i \in 1..Len(eventQueue) : eventQueue'[i] = eventQueue[i]
        /\ eventQueue'[Len(eventQueue) + 1] = Result(c)
    BY <1>1, AppendFacts, EventTypes DEF PhoneResult, TypeOK
  <1>5. Result(c).kind = "result" /\ Result(c).for = c
    BY DEF Result
  <1> HIDE DEF c
  <1>6. \A i \in 1..Len(eventQueue') :
          \/ i \in 1..Len(eventQueue) /\ eventQueue'[i] = eventQueue[i]
          \/ i = Len(eventQueue) + 1 /\ eventQueue'[i].kind = "result" /\ eventQueue'[i].for = c
    BY <1>4, <1>5
  <1>7. Unresolved' = Unresolved /\ deferred' = deferred /\ "result" # "terminal"
    BY DEF PhoneResult, broker, history, Unresolved
  <1>8. \A j \in 1..Len(eventQueue') : eventQueue'[j].kind = "terminal" =>
          j \in 1..Len(eventQueue) /\ eventQueue'[j] = eventQueue[j]
    BY <1>6, <1>7
  <1> QED
    BY <1>2, <1>1, <1>3, <1>6, <1>7, <1>8 DEF ResultInv

\* Another event that arrives is no result; a terminal comes after its results.
LEMMA OtherArrives ==
    ASSUME TypeOK, ResultInv, NEW e \in Event, e.kind # "result",
           eventQueue' = Append(eventQueue, e),
           UNCHANGED <<mode, orphaned, deferred, issued, answered>>
    PROVE  ResultInv'
  <1>1. /\ Len(eventQueue) \in Nat
        /\ Len(eventQueue') = Len(eventQueue) + 1
        /\ \A i \in 1..Len(eventQueue) : eventQueue'[i] = eventQueue[i]
        /\ eventQueue'[Len(eventQueue) + 1] = e
    BY AppendFacts DEF TypeOK
  <1>2. \A i \in 1..Len(eventQueue') : eventQueue'[i].kind = "result" =>
          i \in 1..Len(eventQueue) /\ eventQueue'[i] = eventQueue[i]
    BY <1>1
  <1>3. \A i \in 1..Len(eventQueue), j \in 1..Len(eventQueue') :
          i < j \/ (j \in 1..Len(eventQueue) /\ eventQueue'[j] = eventQueue[j])
    BY <1>1
  <1>4. Unresolved' = Unresolved
    BY DEF Unresolved
  <1> QED
    BY <1>2, <1>3, <1>4 DEF ResultInv

\* What is put back holds no result and no terminal.
LEMMA ResultsPutBack ==
    ASSUME TypeOK, QueueInv, ResultInv, mode' \in {mode, "closed"},
           UNCHANGED <<orphaned, issued, answered>>,
           eventQueue' = eventQueue \o deferred, deferred' = <<>>
    PROVE  ResultInv'
  <1> SUFFICES ASSUME ~orphaned, mode # "closed" PROVE ResultInv'
    BY DEF ResultInv
  <1>1. /\ Len(eventQueue) \in Nat /\ Len(deferred) \in Nat
        /\ Len(eventQueue') = Len(eventQueue) + Len(deferred)
        /\ \A i \in 1..Len(eventQueue') :
              eventQueue'[i] = IF i <= Len(eventQueue) THEN eventQueue[i]
                                                      ELSE deferred[i - Len(eventQueue)]
    BY ConcatProperties, LenProperties DEF TypeOK
  <1>2. \A i \in 1..Len(eventQueue') :
          \/ i \in 1..Len(eventQueue) /\ eventQueue'[i] = eventQueue[i]
          \/ i - Len(eventQueue) \in 1..Len(deferred)
             /\ eventQueue'[i] = deferred[i - Len(eventQueue)]
    BY <1>1
  <1>3. \A i \in 1..Len(eventQueue') : eventQueue'[i].kind \in {"result", "terminal"} =>
          i \in 1..Len(eventQueue) /\ eventQueue'[i] = eventQueue[i]
    BY <1>2 DEF QueueInv, ResultInv
  <1>4. Unresolved' = Unresolved /\ Len(deferred') = 0
    BY EmptySeq DEF Unresolved
  <1> QED
    BY <1>3, <1>4 DEF ResultInv

\* On a live connection a result at the head is of the pending command, which
\* takes it.
LEMMA HeadResult ==
    ASSUME TypeOK, AttributionInv, ResultInv, ~orphaned, mode # "closed", eventQueue # <<>>,
           Head(eventQueue).kind = "result", pending # NoCommand
    PROVE  Head(eventQueue).for = pending /\ pending \in Wants
  <1>1. Head(eventQueue) = eventQueue[1] /\ 1 \in 1..Len(eventQueue)
    BY TailFacts DEF TypeOK
  <1>2. Head(eventQueue).for \in Unresolved \cap Wants
    BY <1>1 DEF ResultInv
  <1> QED
    BY <1>2 DEF AttributionInv, OwnerInv

LEMMA ResultStep ==
    ASSUME TypeOK, AttributionInv, ResultInv, ResultAttribution, [Next]_vars
    PROVE  ResultInv' /\ ResultAttribution'
  <1> USE NoCommandAssumption
  <1>1. ASSUME NEW c \in Commands, Call(c) \/ Refuse(c) \/ CancelWait(c)
        PROVE  ResultInv' /\ ResultAttribution'
    <2>1. /\ mode' # "closed" => mode # "closed"
          /\ UNCHANGED <<eventQueue, deferred, answered, issued, orphaned>>
      BY <1>1 DEF Call, Refuse, CancelWait, history
    <2>2. ResultInv'
      BY <2>1, ResultsStay
    <2> QED
      BY <1>1, <2>2 DEF Call, Refuse, CancelWait, ResultAttribution, history
  <1>2. ASSUME NEW c \in Commands, Begin(c) PROVE ResultInv' /\ ResultAttribution'
    <2>1. ResultInv'
      BY <1>2, ResultsStay DEF Begin
    <2> QED
      BY <1>2, <2>1 DEF Begin, ResultAttribution
  <1>3. ASSUME NEW c \in Commands, NEW how, Release(c, how), mode' \in {mode, "closed"}
        PROVE  ResultInv' /\ ResultAttribution'
    <2>1. ResultInv'
      BY <1>3, ResultsPutBack DEF Release, history, AttributionInv
    <2> QED
      BY <1>3, <2>1 DEF Release, ResultAttribution
  <1>4. ASSUME NEW c \in Commands, Return(c) \/ Timeout(c) \/ Cancel(c)
        PROVE  ResultInv' /\ ResultAttribution'
    BY <1>3, <1>4 DEF Return, Timeout, Cancel
  <1>5. CASE QuarantineExpires \/ SlcDone \/ Retire \/ WriterSends \/ WriterDrops \/ UNCHANGED vars
    <2>1. /\ mode' # "closed" => mode # "closed"
          /\ ~orphaned' => ~orphaned
          /\ UNCHANGED <<eventQueue, deferred, answered, issued>>
      <3>1. CASE QuarantineExpires
        <4>1. ~orphaned' => ~orphaned
          BY <3>1, Zenon DEF QuarantineExpires
        <4> QED
          BY <3>1, <4>1 DEF QuarantineExpires
      <3> QED
        BY <1>5, <3>1 DEF SlcDone, Retire, WriterSends, WriterDrops, vars, broker, wire, history
    <2>2. ResultInv'
      BY <2>1, ResultsStay
    <2> QED
      BY <1>5, <2>2 DEF QuarantineExpires, SlcDone, Retire, WriterSends, WriterDrops, vars,
                        broker, history, ResultAttribution
  <1>6. ASSUME eventQueue # <<>>, HandleEvent(Head(eventQueue)), mode # "closed",
               UNCHANGED <<pending, orphaned>>
        PROVE  /\ ResultAttribution'
               /\ answered' = IF Head(eventQueue).kind = "terminal"
                              THEN answered \cup {Head(eventQueue).for} ELSE answered
    <2>1. ResultAttribution'
      <3>1. CASE Collect(Head(eventQueue))
        BY <1>6, <3>1, HeadResult DEF Collect, ResultAttribution
      <3> QED
        BY <1>6, <3>1 DEF HandleEvent, Swallow, Resolve, Absorb, ResultAttribution
    <2> QED
      BY <1>6, <2>1 DEF HandleEvent, Swallow, Resolve, Absorb, Collect
  <1>7. CASE Pump
    <2> DEFINE e == Head(eventQueue)
    <2>1. /\ mode # "closed" /\ eventQueue # <<>> /\ eventQueue' = Tail(eventQueue)
          /\ UNCHANGED <<pending, orphaned, issued>> /\ pending # NoCommand
      BY <1>7 DEF Pump
    <2>2. CASE HandleEvent(e) /\ UNCHANGED <<mode, deferred>>
      <3>1. /\ ResultAttribution'
            /\ answered' = IF e.kind = "terminal" THEN answered \cup {e.for} ELSE answered
        BY <1>6, <2>1, <2>2
      <3>2. CASE orphaned
        BY <2>1, <3>1, <3>2 DEF ResultInv
      <3>3. CASE ~orphaned
        <4>1. \A i \in 1..Len(deferred') : deferred'[i].kind # "result"
          BY <2>1, <2>2, <3>3 DEF ResultInv
        <4> QED
          BY <2>1, <3>1, <3>3, <4>1, ResultTaken
      <3> QED
        BY <3>2, <3>3
    <2>3. CASE /\ NotConsumed(e) /\ deferred' = Append(deferred, e)
               /\ UNCHANGED <<mode, results, answered>>
      <3>1. ResultAttribution'
        BY <2>1, <2>3 DEF ResultAttribution
      <3>2. CASE orphaned
        BY <2>1, <3>1, <3>2 DEF ResultInv
      <3>3. CASE ~orphaned
        <4>1. e.kind # "result" /\ e.kind # "terminal"
          BY <2>1, <2>3, <3>3, HeadResult DEF NotConsumed
        <4>2. e \in Event
          BY <2>1, TailFacts DEF TypeOK
        <4>3. \A i \in 1..Len(deferred') : deferred'[i].kind # "result"
          BY <2>1, <2>3, <3>3, <4>1, <4>2, AppendFacts DEF ResultInv, TypeOK
        <4> QED
          BY <2>1, <2>3, <3>1, <3>3, <4>1, <4>3, ResultTaken
      <3> QED
        BY <3>2, <3>3
    <2>4. CASE e.kind = "eof" /\ mode' = "closed" /\ UNCHANGED results
      BY <2>1, <2>4 DEF ResultInv, ResultAttribution
    <2> QED
      BY <1>7, <2>2, <2>3, <2>4 DEF Pump
  <1>8. CASE Dispatch
    <2> DEFINE e == Head(eventQueue)
    <2>1. /\ mode # "closed" /\ eventQueue # <<>> /\ eventQueue' = Tail(eventQueue)
          /\ UNCHANGED <<pending, orphaned, issued, deferred>>
      BY <1>8 DEF Dispatch
    <2>2. CASE e.kind = "eof" /\ mode' = "closed" /\ UNCHANGED results
      BY <2>1, <2>2 DEF ResultInv, ResultAttribution
    <2>3. CASE \/ HandleEvent(e)
               \/ /\ UNCHANGED results
                  /\ answered' = IF e.kind = "terminal" THEN answered \cup {e.for} ELSE answered
      <3>1. /\ ResultAttribution'
            /\ answered' = IF e.kind = "terminal" THEN answered \cup {e.for} ELSE answered
        BY <1>6, <2>1, <2>3 DEF ResultAttribution
      <3>2. CASE orphaned
        BY <2>1, <3>1, <3>2 DEF ResultInv
      <3>3. CASE ~orphaned
        <4>1. \A i \in 1..Len(deferred') : deferred'[i].kind # "result"
          BY <2>1, <3>3 DEF ResultInv
        <4> QED
          BY <2>1, <3>1, <3>3, <4>1, ResultTaken
      <3> QED
        BY <3>2, <3>3
    <2> QED
      BY <1>8, <2>2, <2>3 DEF Dispatch
  <1>9. ASSUME ResultInv', UNCHANGED <<broker, history>> PROVE ResultInv' /\ ResultAttribution'
    BY <1>9 DEF broker, history, ResultAttribution
  <1>10. CASE PhoneResult
    BY <1>9, <1>10, ResultArrives DEF PhoneResult, AttributionInv
  <1>11. ASSUME NEW e \in Event, e.kind # "result", eventQueue' = Append(eventQueue, e),
                UNCHANGED <<mode, broker, history>>
         PROVE  ResultInv' /\ ResultAttribution'
    BY <1>9, <1>11, OtherArrives DEF broker, history
  <1>12. CASE PhoneTerminal
    <2>1. PICK ok \in BOOLEAN : eventQueue' = Append(eventQueue, Terminal(Head(sent), ok))
      BY <1>12 DEF PhoneTerminal
    <2>2. Terminal(Head(sent), ok) \in Event /\ Terminal(Head(sent), ok).kind # "result"
      BY <1>12, TailFacts, EventTypes DEF PhoneTerminal, TypeOK, Terminal
    <2> QED
      BY <1>11, <1>12, <2>1, <2>2 DEF PhoneTerminal
  <1>13. CASE PhoneUrc
    <2>1. Urc(urcs + 1) \in Event /\ Urc(urcs + 1).kind # "result"
      BY EventTypes DEF TypeOK, Urc
    <2> QED
      BY <1>11, <1>13, <2>1 DEF PhoneUrc
  <1>14. CASE Disconnect
    <2>1. Eof \in Event /\ Eof.kind # "result"
      BY EventTypes DEF Eof
    <2> QED
      BY <1>11, <1>14, <2>1 DEF Disconnect
  <1> QED
    BY <1>1, <1>2, <1>4, <1>5, <1>7, <1>8, <1>10, <1>12, <1>13, <1>14
       DEF Next, Execute, Environment

\* No line of the phone goes astray (ATCommandBroker.handle_event and the dispatcher
\* behind it): a result line is given to the command it answers, and an unsolicited
\* one is in the queue, put aside or dispatched, at one place, however commands time
\* out, are cancelled or put events back.
THEOREM LinesAreKept == Spec => []LinesKept
  <1>1. Init => ResultInv /\ LinesKept
    <2> SUFFICES ASSUME Init PROVE ResultInv /\ LinesKept
      OBVIOUS
    <2>1. Len(eventQueue) = 0 /\ Len(deferred) = 0 /\ Len(dispatched) = 0 /\ 1..0 = {}
      BY EmptySeq DEF Init
    <2>2. Urcs(eventQueue) = {} /\ Urcs(deferred) = {} /\ Handled = {} /\ Distinct(dispatched)
      BY <2>1 DEF Urcs, Handled, Distinct
    <2>3. UrcNumbers(eventQueue) = {} /\ UrcNumbers(deferred) = {} /\ 1..urcs = {}
      BY <2>1, <2>2 DEF UrcNumbers, Init
    <2>4. ResultInv
      BY <2>1 DEF ResultInv
    <2> QED
      BY <2>2, <2>3, <2>4 DEF Init, LinesKept, ResultAttribution, NoUrcSwallowed, UrcsOnce
  <1>2. TypeOK /\ AttributionInv /\ ResultInv /\ LinesKept /\ [Next]_vars
          => ResultInv' /\ LinesKept'
    BY ResultStep, UrcsStep DEF LinesKept
  <1> QED
    BY <1>1, <1>2, TypeCorrect, AttributionInvariant, PTL DEF Spec
=============================================================================
