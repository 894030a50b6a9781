\* Deliveries in any order, failures, crashes and lost answers, one worker.
CONSTANTS
  Workers = {w1}
  Kinds = {"subscription"}
  Statuses = {"active", "past_due", "unpaid", "canceled", "paused"}
  Plans = {"intermediate"}
  Roles = {"member"}
  MemberLimits <- MCMemberLimits
  FileLimit = 0
  GraceDays = 1
  LostAnswers = TRUE
  MaxMember = 1
  MaxTime = 2
  MaxSub = 1
  MaxCustomer = 1
  MaxEvents = 3
SPECIFICATION FairSpec
\* The provider's events are bounded.
CHECK_DEADLOCK FALSE
INVARIANTS AccountIsCurrent
PROPERTIES EventsSettle
