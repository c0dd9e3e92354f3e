--------------------------- MODULE MCLivePlayback ---------------------------
\* Instances of LivePlayback for TLC.
EXTENDS LivePlayback

CONSTANTS v, w, x

Bare == [sessions |-> {v}, drops |-> 0, sweeps |-> 0, removes |-> 0, races |-> 0, talk |-> 0,
         turns |-> 0, interrupts |-> 0, breaks |-> 0]
Two == [Bare EXCEPT !.sessions = {v, w}]

\* Two sessions that share, lose and replace links, by connecting, by accepting and
\* by both; a turn over a link that drops; two turns; an interruption; a provider
\* that reconnects in mid-turn.
Transport == {[Two EXCEPT !.drops = 1, !.removes = 1], [Two EXCEPT !.removes = 2],
              [Two EXCEPT !.sweeps = 1, !.removes = 1], [Two EXCEPT !.races = 1, !.drops = 1],
              [Two EXCEPT !.races = 1, !.removes = 1], [Bare EXCEPT !.races = 1, !.removes = 1, !.drops = 1]}
Talk == {[Bare EXCEPT !.talk = 3, !.turns = 1, !.drops = 1],
         [Bare EXCEPT !.talk = 4, !.turns = 2],
         [Bare EXCEPT !.talk = 3, !.turns = 2, !.interrupts = 1],
         [Bare EXCEPT !.talk = 3, !.turns = 1, !.breaks = 1],
         [Bare EXCEPT !.talk = 2, !.turns = 1, !.breaks = 1, !.interrupts = 1]}
Small == Transport \cup Talk
\* One turn, in the middle of which the provider reconnects: refutes LineSurvives.
Reconnect == {[Bare EXCEPT !.talk = 3, !.turns = 1, !.breaks = 1]}
\* A third session waits for a link that is lost before it looks: refutes
\* LastLeaseCloses.
Crowd == {[Bare EXCEPT !.sessions = {v, w, x}, !.drops = 1, !.removes = 2]}
=============================================================================
