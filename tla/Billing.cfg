SPECIFICATION FairBilling
CONSTANTS
  Requesters = {p1, p2}
  NumStripeEvents = 2
  MaxMonths = 2
  MaxSends = 4
  MaxBillingFaults = 1
  FreeLimit = 1
  PaidLimit = 2
INVARIANTS PlanFollowsStripe OverLimitNeedsOverlap OneCustomer
PROPERTIES QuotaRefreshes
CHECK_DEADLOCK FALSE
