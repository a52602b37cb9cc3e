SPECIFICATION FairSpec
CONSTANTS
  a1 = a1
  a2 = a2
  i1 = i1
  i2 = i2
  i3 = i3
  t1 = t1
  t2 = t2
  t3 = t3
  Agents <- MCAgents
  InstanceIds <- MCInstanceIds
  MaxInstances = 4
  MaxActive = 2
  StaleBound = 2
  Tasks <- MCTasks
  Workflows <- MCOneWorkflow
  Answers = {FALSE}
  NoTask = NoTask
PROPERTIES
  WorkflowTerminates
