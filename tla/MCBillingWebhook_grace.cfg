\* Invoices in any order, their deliveries overlapping.
CONSTANTS
  Workers = {w1, w2}
  Kinds = {"paid", "failed"}
  Statuses = {"active", "past_due"}
  Plans = {"base"}
  Roles = {"member"}
  MemberLimits <- MCMemberLimits
  FileLimit = 1
  GraceDays = 1
  LostAnswers = FALSE
  MaxMember = 1
  MaxTime = 3
  MaxSub = 1
  MaxCustomer = 1
  MaxEvents = 3
SPECIFICATION Spec
SYMMETRY WorkerSymmetry
INVARIANTS PaymentsAreRecorded
PROPERTIES GraceIsNotExtended UsageResetsOncePerPeriod
\* The provider's events are bounded.
CHECK_DEADLOCK FALSE
