CONSTANTS
  qa = qa
  backend = backend
  t1 = t1
  t2 = t2
  t3 = t3
  Experts <- MCExperts
  MaxConcurrent <- MCMaxConcurrent
  Task <- MCTask
  Capability <- MCCapability
  Nearness <- MCNearness
  Request <- MCRequest
  Latency <- MCLatency
  Price <- MCPrice
  Window = 1
SPECIFICATION Spec
SYMMETRY Tasks
INVARIANTS
  LoadIsRunning
  
