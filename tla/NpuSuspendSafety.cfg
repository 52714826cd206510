SPECIFICATION Spec
CONSTANTS
  Nodes = {llcc, ddr}
  Paths = {x1, x2}
  Service = systemd
  Shells = {sh}
  ShellModes = {"pre", "recover"}
  Free = free
  Faults = {"refused", "unapplied", "kill"}
  MaxFaults = 2
  MaxExternal = 2
SYMMETRY Symmetry
INVARIANT WriteAhead
PROPERTY ExternalPreserved
