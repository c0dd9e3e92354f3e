---------------------------- MODULE MCPhoneTasks ----------------------------
EXTENDS PhoneTasks

Zero == [submits |-> 1, cancels |-> 0, steers |-> 0, polls |-> 0, peers |-> 0, faults |-> 0,
         crashes |-> 0, continues |-> FALSE, hangs |-> FALSE, lapses |-> FALSE, resets |-> FALSE]
\* One task, continued and cancelled, with two lost answers.
Unanswered == [Zero EXCEPT !.cancels = 1, !.faults = 2, !.continues = TRUE, !.hangs = TRUE]
\* Two corrections of one task, and status requests.
Corrected == [Zero EXCEPT !.steers = 2, !.polls = 1, !.continues = TRUE, !.hangs = TRUE, !.lapses = TRUE]
\* A correction, a crash, a lost answer.
Crashed == [Zero EXCEPT !.steers = 1, !.faults = 1, !.crashes = 1, !.continues = TRUE, !.hangs = TRUE]
\* Two tasks of one conversation.
Two == [Zero EXCEPT !.submits = 2, !.cancels = 1, !.hangs = TRUE]
\* A capacity shared with another gateway, over a restart.
Shared == [Zero EXCEPT !.submits = 2, !.cancels = 1, !.peers = 1, !.crashes = 1]
\* The conversation is deleted.
Deleted == [Zero EXCEPT !.submits = 2, !.resets = TRUE]
Retired == [Zero EXCEPT !.resets = TRUE, !.steers = 1, !.faults = 1, !.continues = TRUE]
\* Two tasks, of which the caller continues some over the hangup.
Continued == [Zero EXCEPT !.submits = 2, !.continues = TRUE, !.hangs = TRUE]
MCScenarios == {Unanswered, Corrected, Crashed, Two, Shared, Deleted, Retired, Continued}
MCCorrections == {"earlier", "shorter"}
=============================================================================
