------------------------------- MODULE Speech -------------------------------
(* What a caller may expect of the voice: frames are heard in the order in    *)
(* which they were spoken, each at most once, and none is left out before     *)
(* the first interruption or failure.                                         *)
EXTENDS Naturals, Sequences, SequencesExt

VARIABLES said,     \* number of frames spoken
          heard,    \* number of frames heard
          pending,  \* the frames not heard yet
          cut       \* an interruption or a failure has happened

Init == said = 0 /\ heard = 0 /\ pending = <<>> /\ cut = FALSE

Increasing(s) == \A i, j \in DOMAIN s : i < j => s[i] < s[j]

Say == \E n \in 1..3 :
  /\ said' = said + n
  /\ pending' = pending \o [i \in 1..n |-> said + i]
  /\ UNCHANGED <<heard, cut>>
Hear == /\ IsSuffix(pending', pending)
        /\ heard' = heard + Len(pending) - Len(pending')
        /\ UNCHANGED <<said, cut>>
Interrupt == cut' = TRUE /\ UNCHANGED <<said, heard>>
             /\ Increasing(pending') /\ ToSet(pending') \subseteq ToSet(pending)
Drop == /\ cut
        /\ Increasing(pending') /\ ToSet(pending') \subseteq ToSet(pending)
        /\ UNCHANGED <<said, heard, cut>>

Next == Say \/ Hear \/ Interrupt \/ Drop
Spec == Init /\ [][Next]_<<said, heard, pending, cut>>
=============================================================================
