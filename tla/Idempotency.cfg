\* One request_id, four tool calls, a plain and an ephemeral operation.
SPECIFICATION FairSpec
CONSTANTS
  Invocation = {i1, i2, i3, i4}
  Operation = {place_call, acquire}
  Ephemeral = {acquire}
  Body = {said}
  Marker = marker
  None = none
  MaxCrashes = 1
INVARIANTS
    Inv
    AnswersDurable
PROPERTY
    InvocationsReturn
CHECK_DEADLOCK FALSE
