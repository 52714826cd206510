SPECIFICATION FairSpec
CONSTANTS
  Nodes = {llcc, ddr}
  Paths = {x1}
  Service = systemd
  Shells = {}
  ShellModes = {}
  Free = free
  Faults = {"refused", "kill"}
  MaxFaults = 1
  MaxExternal = 0
INVARIANT AwakeRestored
PROPERTY Restored
