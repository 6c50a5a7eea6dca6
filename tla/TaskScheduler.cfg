SPECIFICATION Spec
CONSTANTS
  c1 = c1
  c2 = c2
  dep = dep
  root = root
  gds = gds
  other = other
  NoTask = NoTask
  w1 = w1
  w2 = w2
  Workers <- MCWorkers
  Pools <- MCPools
  Clients <- MCClients
  Tasks <- MCTasks
  Plan <- MCPlan
  Nested <- MCNested
  MaxThreads <- MCMaxThreads
  Timed = {c1}
  Endless = {gds}
  Faulty = {c2}
  MaxEvents = 1
INVARIANTS ReturnsAlone FinalizedOnce DependenciesFirst

PROPERTY ShutsDown
