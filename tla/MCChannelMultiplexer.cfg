SPECIFICATION FairSpec
CONSTANTS
  Id = {"a", "b"}
  MayOpen <- SplitOpens
  MaxOpens = 3
  MaxLink = 2
INVARIANTS
  MultiplexerInvariant
  OpensAreExpected
  MessagesStayInTheirChannel
  AgreeWhenQuiet
PROPERTIES
  ImplementsChannelPair
  OpenResolves
  PeerHearsOfClose
CHECK_DEADLOCK FALSE
