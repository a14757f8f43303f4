SPECIFICATION Spec
CHECK_DEADLOCK FALSE
SYMMETRY Symmetry
CONSTRAINTS RegistrationsFirst LongIfOneCompany
CONSTANTS
  Registrations = {h1, h2}
  Licenses = {l1, l2}
  Emails = {e1, e2}
  MaxFaults = 1
  Plans = {"starter"}
  Statuses = {"active"}
  Unknown = "legacy"
  Deliveries = {d1, d2}
  None = None
  MaxEvents = 3
  MaxDeliveries = 3
INVARIANTS
  TypeOK
  AccountsAreWhole
  AnswersAreTrue
  RowIsOneEvent
  SubscriptionFollowsWebhooks
