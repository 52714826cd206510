SPECIFICATION Spec
CONSTANTS
  Nodes = {llcc}
  Paths = {x1}
  Service = systemd
  Shells = {sh}
  ShellModes = {"pre"}
  Free = free
  Faults = {}
  MaxFaults = 0
  MaxExternal = 0
PROPERTY RestrictedToSuspend
