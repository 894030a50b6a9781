\* Members join while deliveries overlap and the plan changes.
CONSTANTS
  Workers = {w1, w2}
  Kinds = {"subscription"}
  Statuses = {"active", "canceled"}
  Plans = {"intermediate"}
  Roles = {"member"}
  MemberLimits <- MCMemberLimits
  FileLimit = 0
  GraceDays = 1
  LostAnswers = FALSE
  MaxMember = 3
  MaxTime = 2
  MaxSub = 1
  MaxCustomer = 1
  MaxEvents = 2
SPECIFICATION HistorySpec
SYMMETRY WorkerSymmetry
\* The provider's events are bounded.
CHECK_DEADLOCK FALSE
INVARIANTS PlanIsCurrent
PROPERTIES SeatsAreWithinPlan
