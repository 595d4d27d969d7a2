SPECIFICATION SystemSpec
CONSTANTS
  None = None
  Nil = None
  person = person
  code1 = code1
  code2 = code2
  call1 = call1
  call2 = call2
  system = system
  other = other
  modeA = modeA
  modeB = modeB
  own = own
  foreign = foreign
  Calls = {call1}
  MaxEvents = 4
  Capacity = 2
  FlushInterval = 2
  MaxFaults = 1
  Documents = {word, slides}
  Requests = {call1, call2}
  Ports = {port1, port2}
  MaxRequests = 3
  MaxChildren = 3
  Pair = {call1, call2}
  Persons = {person}
  Codes = {code1, code2}
  MaxRows = 3
  MaxUpdates = 2
  MaxLoops = 2
  MaxErrors = 2
  MaxPublished = 4
  Conns = {call1}
  BusSize = 2
  Buffer = 2
  MaxTicks = 3
  MaxTalk = 2
  Users = {system, other}
  System = system
  MaxSecrets = 3
  MaxTokens = 3
  Modes = {modeA, modeB}
  Default = modeA
  MaxSessions = 2
  Room = 1
  AskCapacity = 2
  MaxAsks = 2
  MaxPrompts = 2
  MaxStops = 1
  Exts = {"extension"}
  MaxVersion = 2
  Many = 3
  MaxServers = 2
  Servers = {"search", "files"}
  Count = 2
  Names = {"ann", "bob"}
  MaxSlots = 3
  MaxTurns = 2
  FrameCapacity = 2
  Own = own
  Other = foreign
  ChatBudgets <- ChatChoices
  PluginBudgets <- PluginChoices
  AccountBudgets <- AccountChoices
  AcpBudgets <- AcpChoices
  ExtensionBudgets <- ExtensionChoices
  Transports <- McpTransports
  Adapter <- McpAdapters
  McpBudgets <- McpChoices
  RosterBudgets <- RosterChoices
  GatewayBudgets <- GatewayChoices
CHECK_DEADLOCK FALSE
INVARIANTS ServicesTypeOK SessionHasMember ContextsAreSeparate
INVARIANTS NoUpdateLost OffStaysOff LossIsFullQueue RestartKeepsSessions LoggedOutStaysOut
INVARIANTS RowIsLastObserved ObservedIsActual ReloadShowsTheSame WatchersAreOwned AskIsHeard
INVARIANTS SwitchesAreKept DependenciesLoadFirst CopiesFollowRows RosterAgrees TurnHasItsEnd
PROPERTIES DecisionStands KeepsTranscript
