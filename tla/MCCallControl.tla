---------------------------- MODULE MCCallControl ----------------------------
(* Instances of CallControl for TLC: a dial to one number, and incoming calls *)
(* from another one and from callers who withhold theirs.                     *)
EXTENDS CallControl

CONSTANTS n1, n2, d1

MCNumbers == {n1, n2}
MCDials   == {d1}
MCTarget  == [d \in MCDials |-> n1]

Plain == [dials |-> {}, callers |-> {n2}, calls |-> 1, ends |-> 0, queue |-> 3,
           clcc |-> FALSE]

MCScenarios == {
    [Plain EXCEPT !.calls = 2, !.callers = {n2, Nobody}, !.queue = 2],
    [Plain EXCEPT !.calls = 2, !.dials = {d1}, !.queue = 2],
    [Plain EXCEPT !.dials = {d1}, !.callers = {}, !.ends = 1, !.queue = 2, !.clcc = TRUE],
    [Plain EXCEPT !.ends = 1, !.clcc = TRUE]}
=============================================================================
