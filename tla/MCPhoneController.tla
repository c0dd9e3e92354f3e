-------------------------- MODULE MCPhoneController --------------------------
\* Instances of PhoneController for TLC.
EXTENDS PhoneController

CONSTANTS owner, guest, spam

Bare == [from |-> {owner}, calls |-> 1, requests |-> 0, ends |-> 0, refusals |-> 0, losses |-> 0,
         delays |-> 0, changes |-> 0, dials |-> 0]

\* Two calls, the first of which has a request; a gateway that is late or fails,
\* and a phone that refuses; a caller that turns out to be another; a staged dial
\* between calls of its recipient; ends of the daemon's own.
Small == {[Bare EXCEPT !.calls = 2, !.requests = 1],
          [Bare EXCEPT !.requests = 1, !.losses = 1, !.delays = 1],
          [Bare EXCEPT !.delays = 3, !.losses = 1, !.refusals = 1],
          [Bare EXCEPT !.from = {spam, Unknown}, !.changes = 1, !.refusals = 1],
          [Bare EXCEPT !.from = {guest}, !.calls = 2, !.dials = 1],
          [Bare EXCEPT !.calls = 2, !.losses = 1],
          [Bare EXCEPT !.ends = 1, !.refusals = 1, !.requests = 1]}

\* A request whose authority cannot be revoked, and the next call: refutes OwnLeases.
Inherited == {[Bare EXCEPT !.calls = 2, !.requests = 1, !.losses = 1]}
=============================================================================
