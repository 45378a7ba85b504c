SPECIFICATION Spec
CONSTANTS
  Endpoints <- MCEndpoints
  Limited = {"book"}
  Minute = 2
  GlobalRate = 2
  EndpointRate = 1
  MaxRetryAfter = 1
  NumOps = 2
  Kinds = {"public", "private", "referral", "auth"}
  Deadlines = {0, 2}
  RetryHeaders <- MCRetryHeaders
  MaxGetRetries = 1
  MaxTime = 2
  MaxCallTime = 0
INVARIANTS ReferralIsHonest CooldownIsObserved SendsAreWithinBudget NoCallIsForgotten
PROPERTY QuietWhenAnswered
CHECK_DEADLOCK FALSE
