SPECIFICATION Spec
CONSTANTS
  Sizes <- MCSizes
  Characters <- MCCharacters
  Users <- MCUsers
  VMs <- MCVMs
  GuestPaths <- MCGuestPaths
  HostPaths <- MCHostPaths
  Backslash <- MCBackslash
  OtherArgs <- MCOtherArgs
CHECK_DEADLOCK FALSE
INVARIANTS AsAsked ExitTells BlocksKept
