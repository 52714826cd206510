SPECIFICATION Spec
CONSTANTS
  Launches = {l1}
  None = None
PROPERTY FollowsLease
