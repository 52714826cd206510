SPECIFICATION Spec
CONSTANTS
  Apps = {a1, a2, a3}
  Empty = empty
  Background = background
  Drawer = drawer
  SlotCount = 3
  Limit = 2
  MaxDrops = 1
  MaxOthers = 1
SYMMETRY Symmetry
INVARIANT ShortcutsSound
PROPERTY OneGestureOneShortcut
