---------------------------- MODULE MCVoiceTools ----------------------------
EXTENDS VoiceTools

CONSTANTS ask, change

Zero == [starts |-> 1, stops |-> 0, timeouts |-> 0, drops |-> 0, updates |-> 0,
         refusals |-> 0, faults |-> 0, resets |-> 0, calls |-> 0, cancels |-> 0]
\* The lifecycle: two starts, two stops, failures, refused releases.
Lifecycle == [Zero EXCEPT !.starts = 2, !.stops = 2, !.timeouts = 1, !.drops = 1,
                          !.refusals = 1, !.faults = 1]
\* A call over sessions that resume or begin anew.
Reconnects == [Zero EXCEPT !.drops = 2, !.updates = 1, !.calls = 1, !.cancels = 1]
\* Two calls, side by side or one after the other.
Pair == [Zero EXCEPT !.drops = 1, !.updates = 1, !.calls = 2]
\* A stop in the midst of a call.
StopMidway == [Zero EXCEPT !.stops = 1, !.drops = 1, !.updates = 1, !.calls = 1, !.cancels = 1]
\* A new context while a call runs.
Renewed == [Zero EXCEPT !.resets = 1, !.updates = 1, !.calls = 1]
\* The id of a call that was taken back is used again in a new session.
Reused == [Zero EXCEPT !.drops = 1, !.calls = 2, !.cancels = 1]

MCStarters == {1, 2}
MCStoppers == {3, 4}
MCIds == {ask, change}
MCTool == [i \in MCIds |-> IF i = change THEN "phone_session" ELSE Ordinary]
MCScenarios == {Lifecycle, Reconnects, Pair, StopMidway, Renewed, Reused}
=============================================================================
