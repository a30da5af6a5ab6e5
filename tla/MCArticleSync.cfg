SPECIFICATION MCSpec
CONSTANTS
  MaxRetry = 1
  MaxEvents = 2
  MaxRestarts = 1
\* Everything published has been handled.
CHECK_DEADLOCK FALSE
INVARIANTS
  FailureIsFinal
  StoresAgree
PROPERTIES
  EventsAreAnswered
