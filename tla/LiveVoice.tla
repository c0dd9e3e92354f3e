------------------------------ MODULE LiveVoice ------------------------------
(* The lifecycle of the live voice of a call (live_ai.py, gemini_live.py):     *)
(* callers of start() and stop() take turns on the lifecycle lock; start()     *)
(* acquires a media stream and creates the provider task; that task opens the   *)
(* audio socket and runs the supervisor, which connects to the model, resumes  *)
(* the logical session while it holds a resumption handle and otherwise begins *)
(* a new one.                                                                *)
(*                                                                           *)
(* One event loop: a step runs from one await to the next.  cancel() takes     *)
(* effect at the await the provider task is at (prov.doomed, then prov.cut).   *)
EXTENDS Naturals, Sequences, FiniteSets

CONSTANTS Starters, Stoppers,   \* the calls of start() and of stop(), numbered
          StartTries, MaxTries, \* failures before the first session, and at most
          Scenarios             \* bounds: [starts, stops, drops, updates, refusals, faults, ...]

ASSUME CallersAssumption ==
  Starters \subseteq Nat /\ Stoppers \subseteq Nat /\ Starters \cap Stoppers = {}
ASSUME TriesAssumption == StartTries \in Nat \ {0} /\ MaxTries \in Nat \ {0}

VARIABLES
  life,     \* _state, _stop_requested, _stop_event, _ready_event, _task set
  lock,     \* _lifecycle_lock: its holder, then those who wait for it
  call,     \* where every call of start() or stop() is
  exit,     \* the state a call leaves behind once the session is closed
  prov,     \* the provider task
  sup,      \* the session supervisor
  link,     \* the logical session: connected, resumable, reset wanted, number
  media,    \* the stream: current one, _stream_released, those the server holds
  bound

voice == <<life, lock, call, exit, prov, sup, link, media>>

Callers == Starters \cup Stoppers
LiveStates == {"starting", "running", "reconnecting"}
Halted == life.asked \/ life.halted

\* The provider task as one of its own steps finds it.
NoTask == [pc |-> "none", doomed |-> FALSE, cut |-> FALSE]
NoSup == [pc |-> "none", tries |-> 0, fresh |-> TRUE, resumes |-> FALSE]

Init ==
  /\ bound \in Scenarios
  /\ life = [state |-> "stopped", asked |-> FALSE, halted |-> FALSE, ready |-> FALSE,
             task |-> FALSE]
  /\ lock = <<>>
  /\ call = [c \in Callers |-> "idle"]
  /\ exit = [c \in Callers |-> "stopped"]
  /\ prov = NoTask
  /\ sup = NoSup
  /\ link = [up |-> FALSE, handle |-> FALSE, reset |-> FALSE, era |-> 0]
  /\ media = [stream |-> 0, freed |-> FALSE, held |-> {}, made |-> 0]

\* running: a live state and a provider task that is not done.
Running == life.state \in LiveStates /\ life.task

Holds(c) == lock # <<>> /\ Head(lock) = c
Doomed(p) == IF p.pc = "none" THEN p ELSE [p EXCEPT !.doomed = TRUE]
Goes(c, pc) == call' = [call EXCEPT ![c] = pc]
\* A call returns and leaves the lock to the next.
Returns(c) == Goes(c, "done") /\ lock' = Tail(lock)

\* The next of the calls C to be made.
Uncalled(c, C) == call[c] = "idle" /\ \A d \in C : d < c => call[d] # "idle"

-----------------------------------------------------------------------------
(* start() *)
StartCalled(c) ==
  /\ Uncalled(c, Starters) /\ bound.starts > 0
  /\ Goes(c, "queued") /\ lock' = Append(lock, c)
  /\ bound' = [bound EXCEPT !.starts = @ - 1]
  /\ UNCHANGED <<life, exit, prov, sup, link, media>>

StartLocked(c) ==
  /\ c \in Starters /\ call[c] = "queued" /\ Holds(c)
  /\ life' = [life EXCEPT !.asked = FALSE]
  /\ Goes(c, "checking")
  /\ UNCHANGED <<lock, exit, prov, sup, link, media, bound>>

\* The provider is available; a session that runs already is left alone.
StartChecked(c) ==
  /\ call[c] = "checking"
  /\ IF Running THEN Returns(c) ELSE Goes(c, "preparing") /\ UNCHANGED lock
  /\ UNCHANGED <<life, exit, prov, sup, link, media, bound>>

StartPrepared(c) ==
  /\ call[c] = "preparing"
  /\ IF life.asked
     THEN Returns(c) /\ life' = [life EXCEPT !.state = "stopped"]
     ELSE Goes(c, "acquiring") /\ UNCHANGED <<lock, life>>
  /\ UNCHANGED <<exit, prov, sup, link, media, bound>>

\* Preparing the provider or acquiring the stream fails.
StartRefused(c) ==
  /\ call[c] \in {"preparing", "acquiring"} /\ bound.faults > 0
  /\ Returns(c) /\ life' = [life EXCEPT !.state = "failed"]
  /\ bound' = [bound EXCEPT !.faults = @ - 1]
  /\ UNCHANGED <<exit, prov, sup, link, media>>

StreamAcquired(c) ==
  LET s == media.made + 1
      Undo(state) == Goes(c, "closing") /\ exit' = [exit EXCEPT ![c] = state]
  IN  /\ call[c] = "acquiring"
      /\ media' = [media EXCEPT !.stream = s, !.made = s, !.freed = FALSE, !.held = @ \cup {s}]
      /\ IF life.asked
         THEN Undo("stopped") /\ UNCHANGED <<life, prov, bound>>
         ELSE \/ /\ life' = [life EXCEPT !.state = "starting", !.halted = FALSE,
                                         !.ready = FALSE, !.task = TRUE]
                 /\ prov' = [NoTask EXCEPT !.pc = "born"]
                 /\ Goes(c, "readying") /\ UNCHANGED <<exit, bound>>
              \/ \* the stream has no URL
                 /\ bound.faults > 0
                 /\ life' = [life EXCEPT !.state = "failed"]
                 /\ bound' = [bound EXCEPT !.faults = @ - 1]
                 /\ Undo("failed") /\ UNCHANGED prov
      /\ UNCHANGED <<lock, sup, link>>

StartReady(c) ==
  /\ call[c] = "readying" /\ life.ready
  /\ IF life.state = "running"
     THEN Returns(c) /\ UNCHANGED <<life, prov>>
     ELSE /\ Goes(c, "failing") /\ UNCHANGED lock
          /\ life' = [life EXCEPT !.task = FALSE] /\ prov' = Doomed(prov)
  /\ UNCHANGED <<exit, sup, link, media, bound>>

\* Readiness may take a second at least: the provider task has begun by then.
StartTimeout(c) ==
  /\ call[c] = "readying" /\ ~life.ready /\ prov.pc # "born"
  /\ IF prov.pc = "none"
     THEN UNCHANGED bound
     ELSE bound.timeouts > 0 /\ bound' = [bound EXCEPT !.timeouts = @ - 1]
  /\ Goes(c, "failing")
  /\ life' = [life EXCEPT !.task = FALSE] /\ prov' = Doomed(prov)
  /\ UNCHANGED <<lock, exit, sup, link, media>>

StartFails(c) ==
  /\ call[c] = "failing" /\ prov.pc = "none"
  /\ Returns(c) /\ life' = [life EXCEPT !.state = "failed"]
  /\ UNCHANGED <<exit, prov, sup, link, media, bound>>

-----------------------------------------------------------------------------
(* stop() *)
Signalled == life' = [life EXCEPT !.asked = TRUE, !.halted = TRUE]
Stops == bound.stops > 0 /\ bound' = [bound EXCEPT !.stops = @ - 1]

\* signal_stop() of the call's end; the stop() it announces comes later.
StopSignalled(c) ==
  /\ Uncalled(c, Stoppers) /\ Running /\ Stops
  /\ Goes(c, "signalled") /\ Signalled
  /\ UNCHANGED <<lock, exit, prov, sup, link, media>>

\* The signal and the cancellation come before the lock.
StopCalled(c) ==
  /\ \/ Uncalled(c, Stoppers) /\ Stops
     \/ call[c] = "signalled" /\ UNCHANGED bound
  /\ Goes(c, "waiting") /\ lock' = Append(lock, c)
  /\ Signalled
  /\ prov' = IF life.task THEN Doomed(prov) ELSE prov
  /\ UNCHANGED <<exit, sup, link, media>>

StopSkipped(c) ==
  /\ call[c] = "waiting" /\ Holds(c)
  /\ life.state = "stopped" /\ ~life.task
  /\ Returns(c)
  /\ UNCHANGED <<life, exit, prov, sup, link, media, bound>>

StopLocked(c) ==
  /\ call[c] = "waiting" /\ Holds(c)
  /\ life.state # "stopped" \/ life.task
  /\ life' = [life EXCEPT !.state = "stopping", !.halted = TRUE, !.task = FALSE]
  /\ prov' = Doomed(prov)
  /\ exit' = [exit EXCEPT ![c] = "stopped"]
  /\ Goes(c, "shutting")
  /\ UNCHANGED <<lock, sup, link, media, bound>>

StopShut(c) ==
  /\ call[c] = "shutting" /\ prov.pc = "none"
  /\ Goes(c, "closing")
  /\ UNCHANGED <<life, lock, exit, prov, sup, link, media, bound>>

\* _close_provider_session() of start() and of stop(): it cancels the requests and
\* waits for them.
SessionClosing(c) ==
  /\ call[c] = "closing"
  /\ Goes(c, "gathering")
  /\ UNCHANGED <<life, lock, exit, prov, sup, link, media, bound>>

SessionClosed(c) ==
  /\ call[c] = "gathering"
  /\ link' = [link EXCEPT !.up = FALSE, !.handle = FALSE]
  /\ Goes(c, "releasing")
  /\ UNCHANGED <<life, lock, exit, prov, sup, media, bound>>

\* _release_media_stream: done already, done now, or refused; m is media after it.
Released == [media EXCEPT !.freed = TRUE, !.held = @ \ {media.stream}]
Release(m) ==
  \/ m = (IF media.freed THEN media ELSE Released) /\ UNCHANGED bound
  \/ /\ ~media.freed /\ media.stream # 0 /\ bound.refusals > 0
     /\ m = media
     /\ bound' = [bound EXCEPT !.refusals = @ - 1]

SessionReleased(c) ==
  /\ call[c] = "releasing"
  /\ \E m \in {media, Released} : Release(m) /\ media' = [m EXCEPT !.stream = 0]
  /\ Returns(c)
  /\ life' = [life EXCEPT !.state = exit[c]]
  /\ UNCHANGED <<exit, prov, sup, link>>

-----------------------------------------------------------------------------
(* The provider task *)
Failing(l) == IF l.state = "starting" THEN [l EXCEPT !.state = "failed", !.ready = TRUE] ELSE l
\* _task_done; a task that stop() or start() shuts down has been forgotten already.
TaskDone(l, cut) ==
  LET k == [l EXCEPT !.task = FALSE]
  IN  IF cut \/ Halted THEN Failing(k) ELSE [k EXCEPT !.state = "failed", !.ready = TRUE]

ProviderBegins ==
  /\ prov.pc = "born" /\ ~prov.doomed
  /\ prov' = [prov EXCEPT !.pc = "opening"]
  /\ link' = [link EXCEPT !.handle = FALSE, !.era = @ + 1]
  /\ media' = [media EXCEPT !.freed = FALSE]
  /\ UNCHANGED <<life, lock, call, exit, sup, bound>>

\* Cancelled before its first step: nothing of it runs, its cleanup neither.
ProviderUnborn ==
  /\ prov.pc = "born" /\ prov.doomed
  /\ prov' = NoTask
  /\ life' = TaskDone(life, TRUE)
  /\ UNCHANGED <<lock, call, exit, sup, link, media, bound>>

\* The audio socket of the stream is open.
ProviderServes ==
  /\ prov.pc = "opening" /\ ~prov.doomed
  /\ prov' = [prov EXCEPT !.pc = "serving"]
  /\ sup' = [NoSup EXCEPT !.pc = "choosing"]
  /\ UNCHANGED <<life, lock, call, exit, link, media, bound>>

\* The pipeline has ended: the finally clause begins.
Cleanup(l) ==
  /\ prov' = [prov EXCEPT !.pc = "closing"]
  /\ sup' = NoSup
  /\ link' = [link EXCEPT !.up = FALSE]
  /\ life' = l
  /\ UNCHANGED <<lock, call, exit, media>>

\* The socket cannot be opened, or it closes: the media stream has ended.
ProviderLost ==
  /\ \/ prov.pc = "opening" /\ ~prov.doomed
     \/ prov.pc = "serving"
  /\ bound.drops > 0
  /\ bound' = [bound EXCEPT !.drops = @ - 1]
  /\ Cleanup(IF Halted THEN life ELSE Failing(life))

\* A cancelled task closes its socket first, the supervisor runs on meanwhile.
ProviderLeaves ==
  /\ prov.pc = "serving" /\ prov.doomed
  /\ prov' = [prov EXCEPT !.pc = "leaving", !.doomed = FALSE, !.cut = TRUE]
  /\ UNCHANGED <<life, lock, call, exit, sup, link, media, bound>>

ProviderLeft ==
  /\ \/ prov.pc = "leaving"
     \/ prov.pc = "opening" /\ prov.doomed
  /\ prov' = [prov EXCEPT !.pc = "closing", !.doomed = FALSE, !.cut = TRUE]
  /\ sup' = NoSup
  /\ link' = [link EXCEPT !.up = FALSE]
  /\ UNCHANGED <<life, lock, call, exit, media, bound>>

Ends(cut) == prov' = NoTask /\ life' = TaskDone(life, cut)

\* A cancellation that finds the finally clause at an await skips the rest of it.
ProviderClosed ==
  /\ prov.pc = "closing"
  /\ IF prov.doomed
     THEN Ends(TRUE)
     ELSE prov' = [prov EXCEPT !.pc = "releasing"] /\ UNCHANGED life
  /\ UNCHANGED <<lock, call, exit, sup, link, media, bound>>

ProviderReleased ==
  /\ prov.pc = "releasing"
  /\ IF prov.doomed /\ ~media.freed
     THEN \* the request is on its way, its answer is never seen
          /\ media' \in {media, [Released EXCEPT !.freed = FALSE]}
          /\ Ends(TRUE) /\ UNCHANGED bound
     ELSE media' \in {media, Released} /\ Release(media') /\ Ends(prov.cut)
  /\ UNCHANGED <<lock, call, exit, sup, link>>

-----------------------------------------------------------------------------
(* The session supervisor *)
\* A stop ends the loop; the task ends without an error.
SupervisorReturns ==
  /\ sup.pc = "choosing" /\ life.halted
  /\ Cleanup(life)
  /\ UNCHANGED bound

\* The next attempt resumes the logical session, or is the first one.
ChooseSame ==
  /\ sup.pc = "choosing" /\ ~life.halted
  /\ sup.fresh \/ link.handle
  /\ sup' = [sup EXCEPT !.pc = "connecting", !.resumes = link.handle]
  /\ UNCHANGED <<life, lock, call, exit, prov, link, media, bound>>

\* It begins a new one: the scope of the old is retired before the attempt.
ChooseNew ==
  /\ sup.pc = "choosing" /\ ~life.halted
  /\ ~sup.fresh /\ ~link.handle
  /\ sup' = [sup EXCEPT !.pc = "connecting", !.resumes = FALSE]
  /\ link' = [link EXCEPT !.era = @ + 1]
  /\ UNCHANGED <<life, lock, call, exit, prov, media, bound>>

Connected ==
  /\ sup.pc = "connecting"
  /\ sup' = [sup EXCEPT !.pc = "live", !.fresh = FALSE]
  /\ link' = [link EXCEPT !.up = TRUE]
  /\ life' = IF sup.fresh
             THEN [life EXCEPT !.state = IF Halted THEN @ ELSE "running", !.ready = TRUE]
             ELSE [life EXCEPT !.state = IF life.asked THEN @ ELSE "running"]
  /\ UNCHANGED <<lock, call, exit, prov, media, bound>>

HandleUpdated(h) ==
  /\ sup.pc = "live" /\ bound.updates > 0 /\ h # link.handle
  /\ link' = [link EXCEPT !.handle = h]
  /\ bound' = [bound EXCEPT !.updates = @ - 1]
  /\ UNCHANGED <<life, lock, call, exit, prov, sup, media>>

\* Failures since the last session that held for 5 s.
Tries(stable) == IF stable THEN 1 ELSE sup.tries + 1
GivesUp(n) == n >= MaxTries \/ (sup.fresh /\ n >= StartTries)

\* The connection fails or ends without a stop: back off, then try again.
AttemptFails(stable) ==
  LET n == Tries(stable)
  IN  /\ sup.pc \in {"connecting", "live"} /\ ~Halted /\ bound.drops > 0
      /\ stable => sup.pc = "live"
      /\ ~GivesUp(n)
      /\ sup' = [sup EXCEPT !.pc = "backoff", !.tries = n]
      /\ link' = [link EXCEPT !.up = FALSE, !.handle = @ /\ n < 2]
      /\ life' = [life EXCEPT !.state = "reconnecting"]
      /\ bound' = [bound EXCEPT !.drops = @ - 1]
      /\ UNCHANGED <<lock, call, exit, prov, media>>

SupervisorFails ==
  /\ sup.pc \in {"connecting", "live"} /\ ~Halted /\ bound.drops > 0
  /\ \E stable \in {FALSE, sup.pc = "live"} : GivesUp(Tries(stable))
  /\ bound' = [bound EXCEPT !.drops = @ - 1]
  /\ Cleanup(Failing(life))

\* The session ends while a stop is under way: the supervisor returns.
SupervisorStops ==
  /\ sup.pc \in {"connecting", "live"} /\ Halted
  /\ Cleanup(life)
  /\ UNCHANGED bound

BackedOff ==
  /\ sup.pc = "backoff"
  /\ sup' = [sup EXCEPT !.pc = "choosing"]
  /\ UNCHANGED <<life, lock, call, exit, prov, link, media, bound>>

\* reset_conversation() wants a new context: the session is left for a new one.
ResetTaken ==
  /\ sup.pc = "live" /\ link.reset
  /\ sup' = [sup EXCEPT !.pc = "choosing"]
  /\ link' = [link EXCEPT !.up = FALSE, !.handle = FALSE, !.reset = FALSE]
  /\ UNCHANGED <<life, lock, call, exit, prov, media, bound>>

ResetAsked ==
  /\ bound.resets > 0 /\ ~Halted
  /\ link' = [link EXCEPT !.handle = FALSE, !.reset = TRUE]
  /\ bound' = [bound EXCEPT !.resets = @ - 1]
  /\ UNCHANGED <<life, lock, call, exit, prov, sup, media>>
=============================================================================
