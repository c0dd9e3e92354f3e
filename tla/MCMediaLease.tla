---------------------------- MODULE MCMediaLease ----------------------------
\* An instance of MediaLease for TLC: two requests and two owners.
EXTENDS MediaLease

CONSTANTS r1, r2, gemini, hermes
=============================================================================
