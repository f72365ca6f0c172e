SPECIFICATION Spec
CONSTANTS
  Admin = {admin1, admin2}
  Boot = boot
  Input <- MCInput
  Base <- MCBase
  Prowlarr = TRUE
  MaxSaves = 2
INVARIANT AcquisitionUsesKey
CHECK_DEADLOCK FALSE
