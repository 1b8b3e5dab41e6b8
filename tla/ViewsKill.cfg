SPECIFICATION ViewsSpec
CONSTANTS
  ViewActors = {1}
  SessionNames = {"x", "y"}
  ViewAgents = {agent1}
  ViewClients = {1}
  Nobody = Nobody
  Hops = 2
  MaxVerbs = 2
  MaxViewTurns = 2
  MaxUids = 2
INVARIANT AgentsAreNoViews
CHECK_DEADLOCK FALSE
