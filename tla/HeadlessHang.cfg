CONSTANTS
  Parts = {"headless"}
  d1 = d1
  d2 = d2
  d3 = d3
  Deliveries = {d1, d2, d3}
  Payload <- MCPayload
  DirOf <- MCDirOf
  MaxConcurrent = 2
  MaxStops = 1
  Inbox <- MCInbox
  MaxTurns = 2
  Sessions <- MCSessions
  MaxTokens = 1
  e1 = e1
  e2 = e2
  e3 = e3
  ta = ta
  tb = tb
  Engines = {e1, e2, e3}
  Tools = {ta, tb}
  Mode <- MCMode
  Allowed = {}
  Denied = {}
  PresetAllow = {ta}
  PresetDeny = {}
  Approved = {ta}
  Blocked = {}
  MaxRules = 1
  MaxAlive = 2
  s1 = s1
  s2 = s2
  s3 = s3
  Processes = {s1, s2, s3}
  Backend <- MCBackend
  OldEntries = {0, 1}
  MaxEntries = 2
  MaxAge = 2
  MaxClock = 3
  NoArray = NoArray
  Replies <- MCReplies
  MaxSubtasks = 2
  MaxLocal = 1
  PipeCap = 2
  Script <- MCScript
  Responses <- MCResponses
  MaxAttempts = 3
  ChannelCap = 1
  Trace = Trace
  Gen = Gen
  x1 = x1
  Spans = {x1}
  MaxTries = 3
  h1 = h1
  h2 = h2
  t1 = t1
  t2 = t2
  t3 = t3
  Hosts = {h1, h2}
  Toolers = {t1, t2, t3}
  HostOf <- MCHostOf
  Machines = {"m1"}
  NoMachine = "none"
SPECIFICATION Spec
PROPERTIES HeadlessEnds
CHECK_DEADLOCK FALSE
