SPECIFICATION Spec
CONSTANTS
  w1 = w1
  w2 = w2
  p1 = p1
  p2 = p2
  t1 = t1
  t2 = t2
  t3 = t3
  Workers <- MCWorkers
  Producers <- MCProducers
  Tasks <- MCTasks
  Word = 4
  NoOne = NoOne
  NoTask = NoTask
INVARIANTS
  TypeOK
  TasksConserved
  ShutdownDrains
PROPERTIES
  EveryTaskRuns
  ImplementsTaskPool
CHECK_DEADLOCK FALSE
