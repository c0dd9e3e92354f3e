-------------------------------- MODULE Queues --------------------------------
\* What the models share about queues of waiters and of events, in a form that
\* can be proved about (SelectSeq, and what the community modules build from it,
\* is opaque to the provers).
EXTENDS Naturals, Sequences

\* The queue q without the members of S, in the order of q: whoever is cancelled
\* leaves the queue he waits in, and nobody overtakes.
Without(q, S) ==
    LET kept[i \in 0 .. Len(q)] ==
            IF i = 0 THEN <<>>
            ELSE IF q[i] \in S THEN kept[i - 1] ELSE Append(kept[i - 1], q[i])
    IN  kept[Len(q)]
=============================================================================
