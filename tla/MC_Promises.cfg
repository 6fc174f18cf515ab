CONSTANTS
  c1 = c1
  c2 = c2
  Sockets = {s1, s2, s3, s4}
  Channels = {a, b}
  MaxMounts = 2
  MaxActs = 7
  MaxDrops = 3
  NoSocket = NoSocket
  MaxJobs = 1
  MaxVisits = 2
  MaxFails = 1
  Crons <- TwoCrons
  Bodies <- AllBodies
  Admins = {a1, a2}
  Loops = {l1, l2, l3}
  NoLoop = NoLoop
  Unset = Unset
SPECIFICATION PromisesSpec
INVARIANTS
  LoopsAgree
  ConnectionAgrees
  
PROPERTIES
  EnabledKeepsFiring
  ComponentsAreServed
CHECK_DEADLOCK FALSE
