---------------------------- MODULE SCOTransport ----------------------------
(* The physical SCO link of the daemon and the logical sessions on it         *)
(* (audio/sco.py): the registry (AudioManager), the transports (_SCOTransport) *)
(* it has created, and the sessions (SCOAudioSession), of which Listener is    *)
(* the one whose playback is followed.                                        *)
(*                                                                           *)
(* Threads: every session is started and stopped by threads of their own      *)
(* (start() and stop() exclude each other by the session's lock); a starter    *)
(* races a listening socket against a thread that connects; every generation   *)
(* of the link has a bridge thread.  A step is what one thread does under one   *)
(* lock; health events are delivered after the lock that made them.           *)
EXTENDS PlaybackBuffer, FiniteSets

CONSTANTS Sessions, Listener,
          MaxTransports, MaxGen,
          MaxSessions,          \* MAX_LOGICAL_SESSIONS
          Packet,               \* frames of a packet of the link
          Scenarios             \* bounds: [sessions, drops, sweeps, removes, races, talk, turns,
                                \* interrupts, breaks]

VARIABLES
  mgr,      \* AudioManager: current transport, sessions, _retiring; transports created
  tr,       \* the transports
  ses,      \* the sessions, each with its starter
  race,     \* the outbound thread of a starter and its queue
  halt,     \* the threads that stop sessions
  sweep,    \* sessions stop_all has still to stop
  open,     \* sockets open in the daemon
  down,     \* sockets whose peer is gone
  bridges,  \* the bridge thread of each socket
  buf,      \* the playback of Listener
  bound

sco == <<mgr, tr, ses, race, halt, sweep, open, down, bridges, buf>>

None == 0
TransportIds == 1..MaxTransports
Gens == 0..MaxGen
Sockets == TransportIds \X (1..MaxGen) \X {"in", "out"}
NoSocket == <<0, 0, "none">>
GenOf(k) == k[2]

Idle == [pc |-> "none", t |-> None, gen |-> 0, running |-> FALSE, accept |-> FALSE,
         won |-> NoSocket, told |-> {}]
NoRace == [thread |-> "none", result |-> "empty"]
NoBridge == [pc |-> "none", failed |-> FALSE, told |-> {}]
NoHalt == [pc |-> "none", sock |-> NoSocket, final |-> FALSE, sweeps |-> FALSE]
NewTransport == [state |-> "stopped", gen |-> 0, sock |-> NoSocket, leases |-> {},
                 failures |-> {}, stopped |-> {}, gated |-> {}]

Init ==
  /\ bound \in Scenarios
  /\ mgr = [transport |-> None, members |-> {}, retiring |-> FALSE, made |-> 0]
  /\ tr = [t \in TransportIds |-> NewTransport]
  /\ ses = [s \in Sessions |-> Idle]
  /\ race = [s \in Sessions |-> NoRace]
  /\ halt = [s \in Sessions |-> NoHalt]
  /\ sweep = <<>>
  /\ open = {} /\ down = {}
  /\ bridges = [k \in Sockets |-> NoBridge]
  /\ buf = EmptyBuffer

-----------------------------------------------------------------------------
(* The registry *)
Create(s) ==
  LET fresh == mgr.transport = None
      t == IF fresh THEN mgr.made + 1 ELSE mgr.transport
  IN  /\ s \in bound.sessions /\ ses[s].pc = "none"
      /\ ~mgr.retiring
      /\ Cardinality(mgr.members) < MaxSessions
      /\ t \in TransportIds
      /\ mgr' = [mgr EXCEPT !.transport = t, !.members = @ \cup {s},
                            !.made = IF fresh THEN t ELSE @]
      /\ ses' = [ses EXCEPT ![s].pc = "created", ![s].t = t]
      /\ UNCHANGED <<tr, race, halt, sweep, open, down, bridges, buf, bound>>

RemoveSession(s) ==
  LET last == mgr.members = {s}
  IN  /\ bound.removes > 0 /\ s \in mgr.members
      /\ mgr' = [mgr EXCEPT !.members = @ \ {s}, !.retiring = @ \/ last]
      /\ halt' = [halt EXCEPT ![s].pc = "called", ![s].final = last]
      /\ bound' = [bound EXCEPT !.removes = @ - 1]
      /\ UNCHANGED <<tr, ses, race, sweep, open, down, bridges, buf>>

\* stop_all() stops one session after the other.
StopAll ==
  /\ bound.sweeps > 0 /\ mgr.members # {} /\ sweep = <<>>
  /\ \E order \in SetToSeqs(mgr.members) :
       /\ sweep' = Tail(order)
       /\ halt' = [halt EXCEPT ![Head(order)].pc = "called",
                               ![Head(order)].sweeps = TRUE,
                               ![Head(order)].final = Len(order) = 1]
  /\ mgr' = [mgr EXCEPT !.members = {}, !.retiring = TRUE]
  /\ bound' = [bound EXCEPT !.sweeps = @ - 1]
  /\ UNCHANGED <<tr, ses, race, open, down, bridges, buf>>

-----------------------------------------------------------------------------
(* Health events reach the sessions in L that accept them. *)
Reached(L) == {x \in L : ses[x].accept}
Told(L, up) == [x \in Sessions |->
                  IF x \in Reached(L) THEN [ses[x] EXCEPT !.running = up] ELSE ses[x]]
\* Never replay audio queued for an older physical generation.
Silences(L) == buf' = IF Listener \in Reached(L) THEN TornDown(buf) ELSE buf

Here(s) == tr[ses[s].t]
Links(s) == ses[s].gen
Mine(s, dir) == <<ses[s].t, ses[s].gen, dir>>
Cancelled(s) == Links(s) \in Here(s).stopped
\* The starter has left the race: race_cancel is set.
Racing(s) == ses[s].pc \in {"racing", "deaf"}

Unlocked(s) == halt[s].pc \notin {"closing", "clearing"}
\* start() takes the session's lock and attaches the lease.
Start(s) ==
  LET t == ses[s].t
      Enter(pc, g) == ses' = [ses EXCEPT ![s].pc = pc, ![s].gen = g, ![s].accept = TRUE]
      Attached == [tr[t] EXCEPT !.leases = @ \cup {s}]
  IN  /\ ses[s].pc = "created" /\ Unlocked(s)
      /\ \/ /\ tr[t].state = "connected"
            /\ Enter("joined", tr[t].gen)
            /\ tr' = [tr EXCEPT ![t] = Attached]
         \/ /\ tr[t].state = "connecting"
            /\ Enter("waiting", tr[t].gen)
            /\ tr' = [tr EXCEPT ![t] = Attached]
         \/ /\ tr[t].state \in {"stopped", "failed"}
            /\ tr[t].gen < MaxGen
            /\ Enter("listening", tr[t].gen + 1)
            /\ tr' = [tr EXCEPT ![t] = [Attached EXCEPT !.gen = @ + 1, !.state = "connecting"]]
      /\ UNCHANGED <<mgr, race, halt, sweep, open, down, bridges, buf, bound>>

\* Joining a healthy link: the event is replayed to this lease, and start() returns.
Up(s) == ses' = [ses EXCEPT ![s].pc = "up", ![s].running = TRUE]
Refused(s) == [ses[s] EXCEPT !.pc = "error", !.accept = FALSE, !.running = FALSE]
Joins(s) ==
  /\ ses[s].pc = "joined"
  /\ Up(s)
  /\ UNCHANGED <<mgr, tr, race, halt, sweep, open, down, bridges, buf, bound>>

\* Another starter establishes this generation: its socket or its failure is shared.
LinkReady(s) == Here(s).gen = Links(s) /\ Here(s).state = "connected" /\ s \in Here(s).leases
LeavesLease(s) == tr' = [tr EXCEPT ![ses[s].t].leases = @ \ {s}]
WaitEnds(s) ==
  /\ ses[s].pc = "waiting" /\ Links(s) \notin Here(s).failures /\ LinkReady(s)
  /\ ses' = [ses EXCEPT ![s].pc = "joined"]
  /\ UNCHANGED <<mgr, tr, race, halt, sweep, open, down, bridges, buf, bound>>
WaitFails(s) ==
  /\ ses[s].pc = "waiting"
  /\ Links(s) \in Here(s).failures \/ ~LinkReady(s)   \* told of the failure, or timed out
  /\ LeavesLease(s)
  /\ ses' = [ses EXCEPT ![s] = Refused(s)]
  /\ UNCHANGED <<mgr, race, halt, sweep, open, down, bridges, buf, bound>>

-----------------------------------------------------------------------------
(* _establish_sco() *)
Goes(s, pc, k) == ses' = [ses EXCEPT ![s].pc = pc, ![s].won = k]

Listens(s) ==
  /\ ses[s].pc = "listening"
  /\ \/ /\ bound.races > 0 /\ bound' = [bound EXCEPT !.races = @ - 1]
        /\ Goes(s, "racing", NoSocket) /\ race' = [race EXCEPT ![s].thread = "connecting"]
     \/ Goes(s, "direct", NoSocket) /\ race' = race /\ bound' = bound  \* no listening socket
  /\ UNCHANGED <<mgr, tr, halt, sweep, open, down, bridges, buf>>
DirectConnects(s) ==
  /\ ses[s].pc = "direct"
  /\ \/ /\ ~Cancelled(s)
        /\ Goes(s, "adopting", Mine(s, "out")) /\ open' = open \cup {Mine(s, "out")}
     \/ Goes(s, "failing", NoSocket) /\ open' = open
  /\ UNCHANGED <<mgr, tr, race, halt, sweep, down, bridges, buf, bound>>

\* The outbound thread connects, or gives up, and then looks at race_cancel.
OutboundConnects(s) ==
  /\ race[s].thread = "connecting"
  /\ \/ race' = [race EXCEPT ![s].thread = "connected"] /\ open' = open \cup {Mine(s, "out")}
     \/ race' = [race EXCEPT ![s] = [thread |-> "gone", result |-> "error"]] /\ open' = open
  /\ UNCHANGED <<mgr, tr, ses, halt, sweep, down, bridges, buf, bound>>
OutboundAnswers(s) ==
  /\ race[s].thread = "connected"
  /\ IF ~Racing(s) \/ Cancelled(s)
       THEN race' = [race EXCEPT ![s].thread = "gone"] /\ open' = open \ {Mine(s, "out")}
       ELSE race' = [race EXCEPT ![s] = [thread |-> "gone", result |-> "socket"]] /\ open' = open
  /\ UNCHANGED <<mgr, tr, ses, halt, sweep, down, bridges, buf, bound>>

\* The starter takes what the thread has put, accepts the phone's connection, loses
\* its listening socket, or runs out of time.
TakesResult(s) ==
  /\ Racing(s) /\ race[s].result # "empty"
  /\ IF race[s].result = "socket" THEN Goes(s, "settling", Mine(s, "out"))
     ELSE IF ses[s].pc = "deaf" THEN Goes(s, "settling", NoSocket) ELSE ses' = ses
  /\ race' = [race EXCEPT ![s].result = "empty"]
  /\ UNCHANGED <<mgr, tr, halt, sweep, open, down, bridges, buf, bound>>
Accepts(s) ==
  /\ ses[s].pc = "racing" /\ ~Cancelled(s)
  /\ Goes(s, "settling", Mine(s, "in")) /\ open' = open \cup {Mine(s, "in")}
  /\ UNCHANGED <<mgr, tr, race, halt, sweep, down, bridges, buf, bound>>
Deafens(s) ==
  /\ ses[s].pc = "racing" /\ Goes(s, "deaf", NoSocket)
  /\ UNCHANGED <<mgr, tr, race, halt, sweep, open, down, bridges, buf, bound>>
TimesUp(s) ==
  /\ Racing(s) /\ Goes(s, "settling", NoSocket)
  /\ UNCHANGED <<mgr, tr, race, halt, sweep, open, down, bridges, buf, bound>>

\* A late outbound success must not survive an inbound winner.
Late(s) == race[s].result = "socket" /\ ses[s].won # Mine(s, "out")
KeepsLate(s) == open
Drained(s) == IF Late(s) THEN open \ {Mine(s, "out")} ELSE open
\* The thread is joined, unless it still connects when the join times out.
Settles(s) ==
  /\ ses[s].pc = "settling" /\ race[s].thread # "connected"
  /\ open' = Drained(s)
  /\ race' = [race EXCEPT ![s].result = "empty"]
  /\ ses' = [ses EXCEPT ![s].pc = IF ses[s].won = NoSocket THEN "failing" ELSE "adopting"]
  /\ UNCHANGED <<mgr, tr, halt, sweep, down, bridges, buf, bound>>

-----------------------------------------------------------------------------
(* The rest of acquire() *)
Record(s) ==
  /\ ses[s].pc = "failing"
  /\ IF Here(s).gen = Links(s)
       THEN /\ tr' = [tr EXCEPT ![ses[s].t] =
                        [@ EXCEPT !.state = "failed", !.sock = NoSocket,
                                  !.failures = @ \cup {Links(s)}]]
            /\ ses' = [ses EXCEPT ![s].pc = "reporting", ![s].told = Here(s).leases]
       ELSE tr' = tr /\ ses' = [ses EXCEPT ![s].pc = "reporting", ![s].told = {}]
  /\ UNCHANGED <<mgr, race, halt, sweep, open, down, bridges, buf, bound>>
Reports(s) ==
  /\ ses[s].pc = "reporting"
  /\ ses' = [Told(ses[s].told, FALSE) EXCEPT ![s] = [Refused(s) EXCEPT !.told = {}]]
  /\ Silences(ses[s].told)
  /\ LeavesLease(s)
  /\ UNCHANGED <<mgr, race, halt, sweep, open, down, bridges, bound>>

StillStarting(s) == Here(s).gen = Links(s) /\ Here(s).state = "connecting" /\ ~Cancelled(s)
\* The socket that was won is not a CVSD link, or is gone already (_verify_cvsd()).
Unverified(s) ==
  /\ ses[s].pc = "adopting"
  /\ open' = open \ {ses[s].won}
  /\ Goes(s, "failing", NoSocket)
  /\ UNCHANGED <<mgr, tr, race, halt, sweep, down, bridges, buf, bound>>
Adopt(s) ==
  /\ ses[s].pc = "adopting"
  /\ IF StillStarting(s)
       THEN /\ tr' = [tr EXCEPT ![ses[s].t] =
                        [@ EXCEPT !.sock = ses[s].won, !.state = "connected"]]
            /\ bridges' = [bridges EXCEPT ![ses[s].won].pc = "gate"]
            /\ ses' = [ses EXCEPT ![s].pc = "announcing", ![s].told = Here(s).leases]
            /\ open' = open
       ELSE /\ open' = open \ {ses[s].won} /\ LeavesLease(s) /\ bridges' = bridges
            /\ ses' = [ses EXCEPT ![s] = Refused(s)]
  /\ UNCHANGED <<mgr, race, halt, sweep, down, buf, bound>>
\* Readiness is published before the bridge may report a failure.
Announce(s) ==
  /\ ses[s].pc = "announcing"
  /\ ses' = [Told(ses[s].told, TRUE) EXCEPT ![s].pc = "confirming", ![s].told = {}]
  /\ tr' = [tr EXCEPT ![ses[s].t].gated = @ \cup {Links(s)}]
  /\ UNCHANGED <<mgr, race, halt, sweep, open, down, bridges, buf, bound>>
Confirm(s) ==
  /\ ses[s].pc = "confirming"
  /\ IF LinkReady(s) /\ Here(s).sock = ses[s].won
       THEN ses' = [ses EXCEPT ![s].pc = "joined"]
       ELSE ses' = [ses EXCEPT ![s] = Refused(s)]
  /\ UNCHANGED <<mgr, tr, race, halt, sweep, open, down, bridges, buf, bound>>

-----------------------------------------------------------------------------
(* The bridge of a socket *)
Of(k) == tr[k[1]]
Stopping(k) == GenOf(k) \in Of(k).stopped
Stale(k) == Of(k).gen # GenOf(k) \/ Of(k).sock # k

LinkDrops(k) ==
  /\ bound.drops > 0 /\ k \in open /\ bridges[k].pc \in {"gate", "loop"} /\ k \notin down
  /\ down' = down \cup {k}
  /\ bound' = [bound EXCEPT !.drops = @ - 1]
  /\ UNCHANGED <<mgr, tr, ses, race, halt, sweep, open, bridges, buf>>
GateOpens(k) ==
  /\ bridges[k].pc = "gate" /\ GenOf(k) \in Of(k).gated
  /\ bridges' = [bridges EXCEPT ![k].pc = "loop"]
  /\ UNCHANGED <<mgr, tr, ses, race, halt, sweep, open, down, buf, bound>>
\* It is told to stop, or finds its socket dead, closed or replaced.
BridgeStops(k) ==
  /\ bridges[k].pc = "loop"
  /\ Stopping(k) \/ k \in down \/ k \notin open \/ Stale(k)
  /\ bridges' = [bridges EXCEPT ![k] = [@ EXCEPT !.pc = "ending",
                   !.failed = ~Stopping(k) /\ (k \in down \/ k \notin open)]]
  /\ UNCHANGED <<mgr, tr, ses, race, halt, sweep, open, down, buf, bound>>
NeverSuperseded(k) == FALSE
\* A stale bridge is never allowed to clear a replacement socket.
Superseded(k) == Stale(k)
BridgeEnds(k) ==
  /\ bridges[k].pc = "ending"
  /\ open' = open \ {k}
  /\ IF Superseded(k)
       THEN tr' = tr /\ bridges' = [bridges EXCEPT ![k].pc = "gone"]
       ELSE /\ tr' = [tr EXCEPT ![k[1]] =
                        [@ EXCEPT !.sock = NoSocket, !.stopped = @ \cup {Of(k).gen},
                                  !.state = IF bridges[k].failed THEN "failed" ELSE "stopped"]]
            /\ bridges' = [bridges EXCEPT ![k].pc = "telling", ![k].told = Of(k).leases]
  /\ UNCHANGED <<mgr, ses, race, halt, sweep, down, buf, bound>>
BridgeTells(k) ==
  /\ bridges[k].pc = "telling"
  /\ ses' = Told(bridges[k].told, FALSE)
  /\ Silences(bridges[k].told)
  /\ bridges' = [bridges EXCEPT ![k] = [NoBridge EXCEPT !.pc = "gone"]]
  /\ UNCHANGED <<mgr, tr, race, halt, sweep, open, down, bound>>
\* One packet: the phone's is captured, and the next of the sound is sent.
Listening(k) == bridges[k].pc = "loop" /\ k \in open \ down /\ ~Stopping(k) /\ ~Stale(k)
                /\ Listener \in Of(k).leases /\ ses[Listener].running
Frame(k) ==
  /\ Listening(k)
  /\ buf' = Take(buf, Packet).buffer /\ buf' # buf
  /\ UNCHANGED <<mgr, tr, ses, race, halt, sweep, open, down, bridges, bound>>

-----------------------------------------------------------------------------
(* stop() *)
Resting(s) == ses[s].pc \in {"none", "created", "up", "error"}
\* The final lease takes the link down.
Releases(T, s) ==
  IF s \in T.leases /\ T.leases = {s}
    THEN [T EXCEPT !.leases = {}, !.sock = NoSocket, !.state = "stopped",
                   !.stopped = @ \cup {T.gen}, !.gated = @ \cup {T.gen}]
    ELSE [T EXCEPT !.leases = @ \ {s}]
StopReleases(s) ==
  /\ halt[s].pc = "called" /\ Resting(s)
  /\ tr' = [tr EXCEPT ![ses[s].t] = Releases(@, s)]
  /\ ses' = [ses EXCEPT ![s].accept = FALSE]
  /\ halt' = [halt EXCEPT ![s].pc = "closing",
                          ![s].sock = IF Here(s).leases = {s} THEN Here(s).sock ELSE NoSocket]
  /\ UNCHANGED <<mgr, race, sweep, open, down, bridges, buf, bound>>
StopCloses(s) ==
  /\ halt[s].pc = "closing"
  /\ open' = open \ {halt[s].sock}
  /\ halt' = [halt EXCEPT ![s].pc = "clearing"]
  /\ UNCHANGED <<mgr, tr, ses, race, sweep, down, bridges, buf, bound>>
Retired(s) == IF mgr.members = {} /\ mgr.transport = ses[s].t
              THEN [mgr EXCEPT !.transport = None, !.retiring = FALSE]
              ELSE [mgr EXCEPT !.retiring = FALSE]
StopEnds(s) ==
  /\ halt[s].pc = "clearing"
  /\ ses' = [ses EXCEPT ![s].running = FALSE]
  /\ buf' = IF s = Listener THEN TornDown(buf) ELSE buf
  /\ IF halt[s].sweeps /\ sweep # <<>>
       THEN /\ halt' = [halt EXCEPT ![s].pc = "done",
                                    ![Head(sweep)] = [NoHalt EXCEPT !.pc = "called",
                                       !.sweeps = TRUE, !.final = Len(sweep) = 1]]
            /\ sweep' = Tail(sweep) /\ mgr' = mgr
       ELSE /\ halt' = [halt EXCEPT ![s].pc = "done"]
            /\ mgr' = (IF halt[s].final THEN Retired(s) ELSE mgr) /\ sweep' = sweep
  /\ UNCHANGED <<tr, race, open, down, bridges, bound>>

-----------------------------------------------------------------------------
Starter(s) ==
  \/ Joins(s) \/ WaitEnds(s) \/ WaitFails(s)
  \/ Listens(s) \/ DirectConnects(s) \/ TakesResult(s) \/ Settles(s)
  \/ Unverified(s) \/ Record(s) \/ Reports(s) \/ Adopt(s) \/ Announce(s) \/ Confirm(s)
Connector(s) == OutboundConnects(s) \/ OutboundAnswers(s)
Bridge(k) == GateOpens(k) \/ BridgeStops(k) \/ BridgeEnds(k) \/ BridgeTells(k)
Stopper(s) == StopReleases(s) \/ StopCloses(s) \/ StopEnds(s)
SCOStep ==
  \/ StopAll
  \/ \E s \in Sessions :
       \/ Create(s) \/ RemoveSession(s) \/ Start(s)
       \/ Starter(s) \/ Accepts(s) \/ Deafens(s) \/ TimesUp(s)
       \/ Connector(s) \/ Stopper(s)
  \/ \E k \in Sockets : LinkDrops(k) \/ Bridge(k) \/ Frame(k)
=============================================================================
