--------------------------- MODULE PlaybackBuffer ---------------------------
(* The playback side of one SCO session (audio/sco.py), as operators on its   *)
(* state.  Sound is a sequence of frames; one packet of the link takes n of   *)
(* them.  A legacy client queues plain sound; a client that has sent          *)
(* playback_start delimits utterances, each of which waits for TargetFrames   *)
(* before it plays and again after a gap.                                     *)
EXTENDS Naturals, Sequences, SequencesExt

CONSTANTS TargetFrames, MaxFrames

ASSUME FramesAssumption ==
  TargetFrames \in Nat \ {0} /\ MaxFrames \in Nat /\ TargetFrames <= MaxFrames

Phases == {"prebuffering", "playing", "gap_pending", "rebuffering"}

\* held counts the frames of the utterances; the other counters only grow.
EmptyBuffer == [plain |-> <<>>, utterances |-> <<>>, held |-> 0, controlled |-> FALSE,
                accepted |-> 0, consumed |-> 0, cleared |-> 0, torn |-> 0]
NewUtterance(id) == [id |-> id, pcm |-> <<>>, ended |-> FALSE, phase |-> "prebuffering"]

Queued(b) == Len(b.plain) + b.held
HasOpen(b) == b.controlled /\ b.utterances # <<>> /\ ~Last(b.utterances).ended

Overflows(b, pcm) == Queued(b) + Len(pcm) > MaxFrames

\* Sound that arrives in a gap proves the gap an underrun.
Extended(u, pcm) == [u EXCEPT !.pcm = @ \o pcm,
                              !.phase = IF @ = "gap_pending" THEN "rebuffering" ELSE @]
Accepted(b, pcm) ==
  LET more == [b EXCEPT !.accepted = @ + Len(pcm)]
  IN  IF b.controlled
        THEN [more EXCEPT !.utterances[Len(b.utterances)] = Extended(@, pcm),
                          !.held = @ + Len(pcm)]
        ELSE [more EXCEPT !.plain = @ \o pcm]

MayStart(b) == b.plain = <<>> /\ ~HasOpen(b)
Started(b, id) == [b EXCEPT !.controlled = TRUE, !.utterances = Append(@, NewUtterance(id))]

ClosedInGap(u) == [u EXCEPT !.ended = TRUE]
\* The end of an utterance shows that its gap was only its end.
Closed(u) == [u EXCEPT !.ended = TRUE, !.phase = IF @ = "gap_pending" THEN "playing" ELSE @]
Ended(b) == [b EXCEPT !.utterances[Len(b.utterances)] = Closed(@)]

Over(u) == u.ended /\ u.pcm = <<>>
\* Utterances that are over leave the head of the queue.
Trimmed(b) ==
  LET head == SelectInSeq(b.utterances, LAMBDA u : ~Over(u))
  IN  [b EXCEPT !.utterances =
         IF head = 0 THEN <<>> ELSE SubSeq(@, head, Len(@))]

EndedDone(b) == IF Head(b.utterances).ended THEN [b EXCEPT !.utterances = Tail(@)] ELSE b
HeadDone(b) == IF Over(Head(b.utterances)) THEN [b EXCEPT !.utterances = Tail(@)] ELSE b

\* The phase in which the head utterance meets the next packet.
Ripe(u) == Len(u.pcm) >= TargetFrames \/ u.ended
Awake(u) == [u EXCEPT !.phase =
               IF @ \in {"prebuffering", "rebuffering"} /\ Ripe(u) THEN "playing" ELSE @]
Starved(u, n) == Len(u.pcm) < n /\ ~u.ended

\* One packet: the buffer afterwards, and the frames that are heard.
TakeControlled(b, n) ==
  LET t == Trimmed(b)
      u == Awake(Head(t.utterances))
      k == IF n < Len(u.pcm) THEN n ELSE Len(u.pcm)
      Put(v) == [t EXCEPT !.utterances[1] = v]
  IN  IF t.utterances = <<>> THEN [buffer |-> t, out |-> <<>>]
      ELSE IF u.phase # "playing" THEN [buffer |-> Put(u), out |-> <<>>]
      ELSE IF Starved(u, n)
        THEN [buffer |-> Put([u EXCEPT !.phase = "gap_pending"]), out |-> <<>>]
      ELSE [buffer |-> HeadDone([Put([u EXCEPT !.pcm = SubSeq(@, k + 1, Len(@))])
                                   EXCEPT !.held = @ - k, !.consumed = @ + k]),
            out    |-> SubSeq(u.pcm, 1, k)]

TakePlain(b, n) ==
  LET k == IF n < Len(b.plain) THEN n ELSE Len(b.plain)
  IN  [buffer |-> [b EXCEPT !.plain = SubSeq(@, k + 1, Len(@)), !.consumed = @ + k],
       out    |-> SubSeq(b.plain, 1, k)]

Take(b, n) == IF b.controlled THEN TakeControlled(b, n) ELSE TakePlain(b, n)

Silenced(b) == [b EXCEPT !.plain = <<>>, !.utterances = <<>>, !.held = 0]
Cleared(b) == [Silenced(b) EXCEPT !.cleared = @ + Queued(b)]
TornDown(b) == [Silenced(b) EXCEPT !.torn = @ + Queued(b), !.controlled = FALSE]

\* All frames of the buffer, in order.
Sound(b) == b.plain \o FlattenSeq([i \in DOMAIN b.utterances |-> b.utterances[i].pcm])

BufferOK(b) ==
  /\ \A i \in DOMAIN b.utterances :
       /\ b.utterances[i].phase \in Phases
       /\ b.utterances[i].ended => b.utterances[i].phase # "gap_pending"
       /\ ~b.utterances[i].ended => i = Len(b.utterances)
  /\ Queued(b) = Len(Sound(b)) /\ Queued(b) <= MaxFrames
  /\ b.accepted = b.consumed + b.cleared + b.torn + Queued(b)
=============================================================================
