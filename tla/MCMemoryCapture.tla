-------------------------- MODULE MCMemoryCapture --------------------------
(* Instances of MemoryCapture for TLC: what a behaviour may contain. *)
EXTENDS MemoryCapture

Quiet == [calls |-> 1, events |-> 3, fails |-> 0, edits |-> 0, losses |-> 0, gateways |-> 0,
          daemons |-> 0, forgets |-> FALSE, bars |-> FALSE, lates |-> FALSE, retains |-> FALSE]
MCScenarios ==
  { [Quiet EXCEPT !.fails = 2, !.losses = 1],
    [Quiet EXCEPT !.daemons = 2, !.retains = TRUE],
    [Quiet EXCEPT !.daemons = 1, !.losses = 1],
    [Quiet EXCEPT !.gateways = 1, !.bars = TRUE, !.losses = 1],
    [Quiet EXCEPT !.lates = TRUE, !.fails = 1, !.forgets = TRUE],
    [Quiet EXCEPT !.calls = 2, !.events = 1, !.edits = 1, !.fails = 1],
    [Quiet EXCEPT !.calls = 2, !.events = 1, !.edits = 1, !.forgets = TRUE],
    [Quiet EXCEPT !.calls = 2, !.events = 1, !.gateways = 1],
    [Quiet EXCEPT !.events = 2, !.daemons = 1, !.retains = TRUE, !.lates = TRUE] }
=============================================================================
