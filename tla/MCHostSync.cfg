SPECIFICATION FairSpec
CONSTANTS
  Devices = {ssh, adb}
  AdbDevices = {adb}
  Subs = {"", "d"}
  Names = {"x", "y"}
  Workspaces <- MCWorkspaces
  Disks <- MCDisks
  Volumes <- MCVolumes
  Args <- MCArgs
  HostPaths <- MCHostPaths
  Picks <- MCPicks
  Chunks = 2
  MaxFlows = 2
  MaxEdits = 2
  MaxFaults = 1
  MaxEvents = 3
  Torn = Torn
  None = None
CHECK_DEADLOCK FALSE
INVARIANTS
  PushDelivers
  PullMirrors
  DownloadsNotPushed
PROPERTIES
  WritesInPlace
  
