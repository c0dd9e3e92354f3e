---------------------------- MODULE LivePlayback ----------------------------
(* The speech of the live voice on its way to the caller: the voice's queue   *)
(* and its writer task (audio/gemini_playback.py), the audio WebSocket with   *)
(* the sidecar's receiver (audio/sidecar.py), and the playback buffer of the  *)
(* session Listener on the SCO link (SCOTransport).  An interruption clears    *)
(* the buffer by a direct call, past the messages of the WebSocket.            *)
EXTENDS SCOTransport

CONSTANTS Prebuffer,     \* PLAYBACK_PREBUFFER_FRAMES
          QueueFrames    \* _playback_frame_capacity

VARIABLES
  said,    \* frames enqueued so far: their names
  window,  \* the receiver's playback_window_id; windows opened; one was lost (history)
  queue,   \* _playback_queue
  epoch,   \* _playback_epoch
  writer,  \* _playback_writer()
  clears,  \* discards that have still to clear the session's buffer
  wire,    \* messages of the WebSocket on their way to the sidecar
  ws,      \* the WebSocket
  rx       \* on_receive() between the session's checks and its lock

voice == <<said, window, queue, epoch, writer, clears, wire, ws, rx>>
vars == <<sco, voice, bound>>

NoItem == [kind |-> "none", epoch |-> 0, win |-> 0, pcm |-> <<>>]
Item(kind, win, pcm) == [kind |-> kind, epoch |-> epoch, win |-> win, pcm |-> pcm]

VoiceInit ==
  /\ said = 0 /\ window = [id |-> 0, last |-> 0, lost |-> FALSE] /\ queue = <<>> /\ epoch = 0
  /\ writer = [pc |-> "get", frames |-> <<>>, epoch |-> 0, item |-> NoItem]
  /\ clears = 0 /\ wire = <<>> /\ ws = "open" /\ rx = NoItem

-----------------------------------------------------------------------------
(* The receiver of the provider's events *)
Buffered == Cardinality({i \in DOMAIN queue : queue[i].kind = "audio"})
Opening == window.id = 0
Win == IF Opening THEN window.last + 1 ELSE window.id
\* _begin_playback_window() and _enqueue_playback_pcm(); more than fits ends the voice.
Speaks(n) ==
  /\ bound.talk >= n /\ bound.turns > 0 /\ ws = "open" /\ clears = 0
  /\ IF Buffered + n > QueueFrames
       THEN ws' = "closed" /\ UNCHANGED <<said, window, queue>>
       ELSE /\ queue' = queue
                 \o (IF Opening THEN <<Item("start", Win, <<>>)>> ELSE <<>>)
                 \o [i \in 1..n |-> Item("audio", Win, <<said + i>>)]
            /\ said' = said + n
            /\ window' = [window EXCEPT !.id = Win, !.last = Win]
            /\ ws' = ws
  /\ bound' = [bound EXCEPT !.talk = @ - n]
  /\ UNCHANGED <<sco, epoch, writer, clears, wire, rx>>
\* generation_complete or turn_complete
TurnEnds ==
  /\ ~Opening /\ ws = "open" /\ clears = 0
  /\ queue' = Append(queue, Item("end", window.id, <<>>))
  /\ window' = [window EXCEPT !.id = 0]
  /\ bound' = [bound EXCEPT !.turns = @ - 1]
  /\ UNCHANGED <<sco, said, epoch, writer, clears, wire, ws, rx>>
\* The provider's connection ends in mid-turn; the next receiver starts without a window.
Reconnects ==
  /\ bound.breaks > 0 /\ ws = "open" /\ clears = 0 /\ ~Opening
  /\ window' = [window EXCEPT !.id = 0, !.lost = TRUE]
  /\ bound' = [bound EXCEPT !.breaks = @ - 1]
  /\ UNCHANGED <<sco, said, queue, epoch, writer, clears, wire, ws, rx>>
\* _discard_playback(): clear_playback() waits for a send under way, 0.2 s at most.
\* Only the provider's own interruption closes the window of the receiver; the caller's
\* speech over the opening and reset_conversation() leave it as it is.
Interrupted ==
  /\ bound.interrupts > 0 /\ ws = "open" /\ clears = 0
  /\ epoch' = epoch + 1 /\ queue' = <<>>
  /\ window' \in {window, [window EXCEPT !.id = 0]}
  /\ clears' = 1
  /\ bound' = [bound EXCEPT !.interrupts = @ - 1]
  /\ UNCHANGED <<sco, said, writer, wire, ws, rx>>
ClearsPlayback ==
  /\ clears > 0
  /\ clears' = 0
  /\ \/ buf' = Cleared(buf)
     \/ buf' = buf      \* timed out
  /\ UNCHANGED <<mgr, tr, ses, race, halt, sweep, open, down, bridges, bound,
                 said, window, queue, epoch, writer, wire, ws, rx>>

-----------------------------------------------------------------------------
(* The writer.  A send holds _playback_send_lock and is void in a later epoch. *)
Current(item) == item.epoch = epoch
Sends(m) == wire' = IF Current(m) THEN Append(wire, m) ELSE wire
Turns(pc, frames, ep, item) ==
  writer' = [pc |-> pc, frames |-> frames, epoch |-> ep, item |-> item]
Rests(item) == Turns("get", <<>>, 0, item)
Writing(pc) == writer.pc = pc /\ ws = "open"
WriterLeaves == <<sco, said, window, epoch, clears, ws, rx, bound>>

\* The next item: the one the last batch has left, or the head of the queue.
Next1 == IF writer.item # NoItem THEN writer.item ELSE Head(queue)
Gets ==
  /\ Writing("get") /\ (writer.item # NoItem \/ queue # <<>>)
  /\ queue' = IF writer.item # NoItem THEN queue ELSE Tail(queue)
  /\ \/ ~Current(Next1) /\ Rests(NoItem) /\ wire' = wire
     \/ /\ Current(Next1) /\ Next1.kind = "start" /\ clears = 0
        /\ Sends(Next1) /\ Turns("batch", <<>>, epoch, NoItem)
     \/ Current(Next1) /\ Next1.kind = "end" /\ clears = 0 /\ Sends(Next1) /\ Rests(NoItem)
     \/ Current(Next1) /\ Next1.kind = "audio" /\ Turns("pace", <<>>, 0, Next1) /\ wire' = wire
  /\ UNCHANGED WriterLeaves
\* A frame goes out when it is due; one that is late collects a new lead.
Paces ==
  /\ Writing("pace") /\ clears = 0
  /\ \/ Sends(writer.item) /\ Rests(NoItem)
     \/ Current(writer.item) /\ wire' = wire
        /\ Turns("batch", writer.item.pcm, epoch, NoItem)
  /\ UNCHANGED <<queue, WriterLeaves>>
Collecting == Writing("batch") /\ writer.item = NoItem
Collects ==
  /\ Collecting /\ Len(writer.frames) < Prebuffer /\ writer.epoch = epoch /\ queue # <<>>
  /\ LET item == Head(queue)
     IN  IF item.kind = "audio" /\ item.epoch = writer.epoch
           THEN Turns("batch", writer.frames \o item.pcm, writer.epoch, NoItem)
           ELSE Turns("flush", writer.frames, writer.epoch, item)
  /\ queue' = Tail(queue)
  /\ UNCHANGED <<wire, WriterLeaves>>
\* The batch is full, the wait is over, or an interruption has come.
Collected ==
  /\ Collecting
  /\ Turns("flush", writer.frames, writer.epoch, NoItem)
  /\ UNCHANGED <<wire, queue, WriterLeaves>>
Batch == [kind |-> "audio", epoch |-> writer.epoch, win |-> 0, pcm |-> writer.frames]
\* What follows the batch: the end of its window, or an item for the next turn.
Keeps(item) == IF item.kind = "end" THEN Turns("tail", <<>>, 0, item) ELSE Rests(item)
Flushes ==
  /\ Writing("flush") /\ clears = 0
  /\ IF writer.epoch # epoch
       THEN wire' = wire /\ Rests(IF Current(writer.item) THEN writer.item ELSE NoItem)
       ELSE /\ IF writer.frames = <<>> THEN wire' = wire ELSE Sends(Batch)
            /\ Keeps(writer.item)
  /\ UNCHANGED <<queue, WriterLeaves>>
EndsWindow ==
  /\ Writing("tail") /\ clears = 0
  /\ Sends(writer.item) /\ Rests(NoItem)
  /\ UNCHANGED <<queue, WriterLeaves>>

-----------------------------------------------------------------------------
(* The sidecar: on_receive() looks at the session, then takes its lock. *)
SessionUp == ses[Listener].running /\ tr[ses[Listener].t].state = "connected"
SidecarLeaves == <<said, window, queue, epoch, writer, clears, bound>>
LinkLeaves == <<mgr, tr, ses, race, halt, sweep, open, down, bridges>>
Receives ==
  /\ wire # <<>> /\ ws = "open" /\ rx = NoItem
  /\ wire' = Tail(wire)
  /\ IF SessionUp THEN rx' = Head(wire) /\ ws' = ws
                  ELSE rx' = rx /\ ws' = "closed"
  /\ UNCHANGED <<sco, SidecarLeaves>>
Acceptable(m) ==
  \/ m.kind = "start" /\ MayStart(buf)
  \/ m.kind = "end" /\ HasOpen(buf) /\ Last(buf.utterances).id = m.win
  \/ m.kind = "audio" /\ ~Overflows(buf, m.pcm) /\ (buf.controlled => HasOpen(buf))
Applied(m) == IF m.kind = "start" THEN Started(buf, m.win)
              ELSE IF m.kind = "end" THEN Ended(buf) ELSE Accepted(buf, m.pcm)
Handles ==
  /\ rx # NoItem
  /\ IF Acceptable(rx) THEN buf' = Applied(rx) /\ ws' = ws ELSE buf' = buf /\ ws' = "closed"
  /\ rx' = NoItem
  /\ UNCHANGED <<wire, LinkLeaves, SidecarLeaves>>

-----------------------------------------------------------------------------
LiveInit == Init /\ VoiceInit
Writes == Gets \/ Paces \/ Collects \/ Collected \/ Flushes \/ EndsWindow
VoiceStep ==
  \/ \E n \in 1..2 : Speaks(n)
  \/ TurnEnds \/ Reconnects \/ Interrupted \/ ClearsPlayback
  \/ Writes \/ Receives \/ Handles
\* The voice starts once its session is up.
Next == (SCOStep /\ UNCHANGED voice) \/ (ses[Listener].pc = "up" /\ VoiceStep)
Spec == LiveInit /\ [][Next]_vars

Threads ==
  \/ /\ \/ \E s \in Sessions : Starter(s) \/ TimesUp(s) \/ Connector(s) \/ Stopper(s)
        \/ \E k \in Sockets : Bridge(k) \/ Frame(k)
     /\ UNCHANGED voice
  \/ Writes \/ Receives \/ Handles \/ ClearsPlayback
Fairness == WF_vars(Threads)
LiveSpec == Spec /\ Fairness

-----------------------------------------------------------------------------
(* Every socket the daemon has opened is held by one who will close it, over  *)
(* the race of accept() and connect(), starts that fail and links that are    *)
(* replaced; and a transport is connected by the socket its bridge serves.    *)
Held(k) ==
  \/ \E s \in Sessions :
       \/ k = Mine(s, "out") /\ race[s].thread = "connected"
       \/ k = Mine(s, "out") /\ race[s].result = "socket"
       \/ k = ses[s].won /\ ses[s].pc \in {"settling", "adopting"}
       \/ k = halt[s].sock /\ halt[s].pc = "closing"
  \/ bridges[k].pc \in {"gate", "loop", "ending"}
SocketsHeld ==
  /\ \A k \in open : Held(k)
  /\ \A t \in TransportIds :
       /\ tr[t].sock \in Sockets <=> tr[t].state = "connected"
       /\ tr[t].sock \in Sockets => bridges[tr[t].sock].pc \in {"gate", "loop", "ending"}

TypeOK ==
  /\ mgr.transport \in 0..mgr.made /\ mgr.members \subseteq Sessions /\ mgr.made \in 0..MaxTransports
  /\ \A t \in TransportIds :
       /\ tr[t].state \in {"stopped", "connecting", "connected", "failed"}
       /\ tr[t].gen \in Gens /\ tr[t].leases \subseteq Sessions
       /\ tr[t].failures \cup tr[t].stopped \cup tr[t].gated \subseteq 1..MaxGen
  /\ \A s \in Sessions : ses[s].t \in 0..MaxTransports /\ ses[s].gen \in Gens
  /\ open \cup down \subseteq Sockets
  /\ ws \in {"open", "closed"} /\ clears \in 0..1 /\ epoch \in Nat /\ said \in Nat
  /\ Len(writer.frames) <= Prebuffer

\* The state is well formed, no socket is lost, and every frame the buffer has
\* accepted was played, cleared, torn down or is still in it, in a phase that suits it.
Inv == TypeOK /\ SocketsHeld /\ BufferOK(buf)

\* A link goes down because its peer is gone or its last lease is, and never
\* because the bridge of an earlier generation ends late (_bridge_ended()).
LinkKept ==
  [][\A t \in TransportIds :
       tr[t].sock \in Sockets /\ tr'[t].sock # tr[t].sock =>
         tr[t].sock \in down \/ tr'[t].leases = {}]_vars

\* What is on its way to the caller, the oldest first.
InFlight == Sound(buf) \o rx.pcm \o FlattenSeq([i \in DOMAIN wire |-> wire[i].pcm])
            \o writer.frames \o writer.item.pcm
            \o FlattenSeq([i \in DOMAIN queue |-> queue[i].pcm])
Troubled == epoch > 0 \/ ws = "closed" \/ down # {} \/ halt[Listener].pc # "none"

\* Queue, writer, batches, messages and jitter buffer together are one channel:
\* the caller hears every frame once and in order until speech is interrupted or
\* the line fails, and never an earlier frame after a later one.
Channel == INSTANCE Speech WITH heard <- buf.consumed, pending <- InFlight, cut <- Troubled
HeardInOrder == Channel!Spec

\* Starts and stops return, threads end, no dead, late or superseded socket stays
\* open, and speech whose turn has ended is heard to its end on a line that holds.
AtRest ==
  /\ \A s \in Sessions : Resting(s) /\ halt[s].pc \in {"none", "done"}
  /\ open \cap down = {}
  /\ open = {tr[t].sock : t \in {x \in TransportIds : tr[x].state = "connected"}}
  /\ ~Troubled /\ ~window.lost /\ Opening => InFlight = <<>>
ComesToRest == <>[]AtRest

\* Refuted by TLC.  Each provider reconnect is survived: the WebSocket of a call whose line holds and
\* whose caller has not interrupted stays open ("voice recovers when supported",
\* docs/manual-feature-checklist.md).
LineSurvives == ws = "closed" => down # {} \/ halt[Listener].pc # "none" \/ epoch > 0

\* Refuted by TLC.  The link is taken down with its final lease (the docstring of release()).
LastLeaseCloses == \A t \in TransportIds : tr[t].leases = {} => tr[t].sock = NoSocket
=============================================================================
