--------------------------- MODULE AttemptReceipts ---------------------------
(***************************************************************************)
(* What the phone daemon promises the gateway about the attempts of phone   *)
(* requests: an attempt is placed as a call at most once, an answer that    *)
(* is certain does not change, and none is given of a call that is up (the  *)
(* gateway may answer it with another call).  WorkflowExecution implements  *)
(* this; PhoneWorkflows uses it.                                            *)
(***************************************************************************)
CONSTANT Attempts

VARIABLES line,   \* the attempt's own call: not placed, up, over
          told    \* the answer the gateway has been given

receiptVars == <<line, told>>

\* talked: connected, with evidence.  missed: not connected, certainly.
Answers == {"talked", "missed", "unknown"}
Certain == {"talked", "missed"}

ReceiptsTypeOK == /\ line \in [Attempts -> {"new", "up", "over"}]
                  /\ told \in [Attempts -> Answers \cup {"none"}]

ReceiptsInit == /\ line = [a \in Attempts |-> "new"]
                /\ told = [a \in Attempts |-> "none"]

\* The call of an attempt goes out, once, and not after it was given up.
Place(a) == /\ line[a] = "new" /\ told[a] \notin Certain
            /\ line' = [line EXCEPT ![a] = "up"]
            /\ UNCHANGED told

HangUp(a) == /\ line[a] = "up"
             /\ line' = [line EXCEPT ![a] = "over"]
             /\ UNCHANGED told

\* An answer to the gateway; an uncertain one may be improved.
Tell(a, answer) ==
  /\ told[a] \in Certain => answer = told[a]
  /\ answer \in Certain => line[a] # "up"
  /\ answer = "talked" => line[a] = "over"
  /\ told' = [told EXCEPT ![a] = answer]
  /\ UNCHANGED line

ReceiptsNext == \E a \in Attempts :
  Place(a) \/ HangUp(a) \/ \E answer \in Answers : Tell(a, answer)

Receipts == ReceiptsInit /\ [][ReceiptsNext]_receiptVars
=============================================================================
