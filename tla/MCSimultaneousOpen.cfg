SPECIFICATION Spec
CONSTANTS
  Id = {"a"}
  MayOpen <- BothOpen
  MaxOpens = 2
  MaxLink = 1
INVARIANT ResolvedChannelIsRouted
CHECK_DEADLOCK FALSE
