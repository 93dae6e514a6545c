SPECIFICATION Spec
INVARIANT CommittedIsWritten
CHECK_DEADLOCK FALSE
