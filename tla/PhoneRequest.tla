---------------------------- MODULE PhoneRequest ----------------------------
(***************************************************************************)
(* What the gateway promises the owner about each phone request: it fires   *)
(* only while it is due, an attempt begins only by firing, and a request    *)
(* that is closed, or waits for the owner's guidance, does not fire again.  *)
(* A callback that was cancelled while an attempt of it goes on may come    *)
(* back; the root of a chain does not.  PhoneWorkflows implements this.     *)
(***************************************************************************)
EXTENDS Naturals

CONSTANTS Keys, Root

VARIABLES phase,  \* of each request
          fired   \* attempts that were begun

\* revoked: cancelled, with an attempt whose end is not decided yet.
\* stopped: completed, declined, cancelled, expired or exhausted; or
\* uncertain or needs_guidance.
Phases == {"absent", "held", "due", "firing", "revoked", "stopped"}

requestVars == <<phase, fired>>

RequestInit == /\ phase = [k \in Keys |-> "absent"]
               /\ fired = [k \in Keys |-> 0]

\* Where a request may go from each phase, other than by firing.
After(k) == [absent |-> {"held"},
             held |-> {"due", "stopped"},
             due |-> {"held", "stopped"},
             firing |-> {"held", "revoked", "stopped"},
             revoked |-> {"stopped"} \cup {to \in {"held"} : k # Root},
             stopped |-> {}]

Becomes(k) == /\ \E to \in After(k)[phase[k]] : phase' = [phase EXCEPT ![k] = to]
              /\ UNCHANGED fired

Fires(k) == /\ phase[k] = "due"
            /\ phase' = [phase EXCEPT ![k] = "firing"]
            /\ fired' = [fired EXCEPT ![k] = @ + 1]

RequestNext == \E k \in Keys : Fires(k) \/ Becomes(k)

Promise == RequestInit /\ [][RequestNext]_requestVars
=============================================================================
