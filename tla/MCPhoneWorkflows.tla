-------------------------- MODULE MCPhoneWorkflows --------------------------
\* Instances of PhoneWorkflows for TLC.
EXTENDS PhoneWorkflows, TLC

CONSTANTS r, c

Objective == [reminder |-> FALSE, notify |-> FALSE, quiet |-> FALSE]
Reminder == [reminder |-> TRUE, notify |-> TRUE, quiet |-> FALSE]
Errand == [reminder |-> TRUE, notify |-> FALSE, quiet |-> TRUE]

Bare == [plans |-> {Errand}, moments |-> {1}, expires |-> FALSE, asks |-> {},
         outcomes |-> Outcomes, retries |-> 0, cancels |-> 1, moves |-> 0, faults |-> 0, crashes |-> 0]

\* One attempt that is moved, fails and is recovered; retries and a restart; a
\* reminder with its two deliveries.
Alone == {[Bare EXCEPT !.plans = {Objective}, !.moments = {1, 2}, !.expires = TRUE,
                       !.outcomes = {"talked", "failed"}, !.moves = 1, !.faults = 1, !.crashes = 1],
          [Bare EXCEPT !.plans = {Objective}, !.outcomes = {"talked", "missed"},
                       !.retries = 1, !.crashes = 1],
          [Bare EXCEPT !.retries = 2, !.faults = 1, !.crashes = 1],
          [Bare EXCEPT !.plans = {Reminder}, !.moments = {1, 2}, !.outcomes = {"talked"},
                       !.moves = 1, !.crashes = 1]}

\* A recipient who asks for a callback: it is tried twice and cancelled; it is
\* moved by the owner or the recipient; there is a restart.
Asked == [Bare EXCEPT !.asks = {<<r, 1>>}, !.outcomes = {"talked", "missed"}]
Chain == {[Asked EXCEPT !.retries = 1, !.cancels = 2],
          [Asked EXCEPT !.moments = {1, 2}, !.cancels = 0, !.moves = 1],
          [Asked EXCEPT !.crashes = 1]}
Requests == Alone \cup Chain

RootThrice == [k \in Keys |-> IF k = r THEN 3 ELSE 2]
=============================================================================
