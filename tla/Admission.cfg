SPECIFICATION Spec
CONSTANTS
  r1 = r1
  r2 = r2
  Run = {r1, r2}
  Path <- Locks
  Value = {"IN_PROGRESS", "SUCCEEDED", "FAILED"}
  Character = {"x", "/"}
  Separator = "/"
  Measure = {"daily_loss", "balance_difference"}
  Signed = {"balance_difference"}
  Flag = {"settlement_healthy"}
  Offered <- MCOffered
  JobId <- MCJobId
  Installs <- MCInstalls
  MaxNow = 1
INVARIANT NeverTorn
INVARIANT AdmissionInv
INVARIANT SubmittedOnce
INVARIANT LaunchedIsAdmissible
INVARIANT OneLockPerOperation
PROPERTY ImplementsFile
\* Every run ends: the system stops.
CHECK_DEADLOCK FALSE
