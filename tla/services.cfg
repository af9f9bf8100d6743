CONSTANTS
  u1 = u1  u2 = u2  c1 = c1  c2 = c2  a1 = a1  None = None
  Null = Null  NoReference = NoReference
  User <- Users  Request <- Calls  Session <- Calls  Attempt = {a1}
  Runner <- Users  Assigner <- Calls  Payment <- Calls  Cancellation = {a1}  MaxStock = 2
  Call <- Calls
  Reported <- Users  DailyLimit = 2  DeliveryLimit = 1  MaxIncidents = 4
  Cause = {1, 2, 3}  Category = {"RUNNER_JOB_GRABBING", "RUNNER_GPS_ANOMALY"}
  categoryOf <- CategoryOf  scoreOf <- ScoreOf  maxContribution <- MaxContribution
  Line <- Users  City = {"city"}  cityOf <- CityOf  MaxQuantity = 2
  MaxUnits = 1
  Price = {1, 2}  MaxStated = 1  Edit <- Edits  File <- Files
  Account <- Users
  Tracked = {a1}  Tracker = {"runner", "admin"}  Admin = {"admin"}
  Interval = 2  Retention = 2  MaxTime = 3
  Secret <- Users
  Provider = {"bakery", "grocery"}  CityFees <- Fees  Distance = {0, 10, 115, 290}
  Radius = {200, 300}  RunnerFee <- RunnerFees
  ProviderOrder <- Users
  Email <- Users  EmailInterval = 1  Lifetime <- Lifetimes
  MaxPosition = 2
  Seeding <- SeedingSteps
SPECIFICATION MCSpec
CONSTRAINTS Promised MigrationBound PageBound
SYMMETRY Sym
INVARIANTS TypeOK OneRunner OrderFollowsGoods CompletedIsCaptured AuditTellsRoles
  LimitsHoldButForOverlap EachCauseCountsOnce TotalIsOfLines MigrationKeepsUnits
  SalesSurviveEdits OneAccount SecretSurvives PartsAddUp CoveredMeansPaid
  LinksWork RouteIsOfShown
PROPERTIES UpdatesAreSpaced
CHECK_DEADLOCK FALSE
