\* A record that pauses three times, two pages, one lost answer.
SPECIFICATION FairHandoffSpec
CONSTANTS
  Pages = {p1, p2}
  MaxRequests = 3
  MaxLost = 1
INVARIANTS AnsweredOnce
PROPERTIES AnswerArrives RelayStops
CHECK_DEADLOCK FALSE
