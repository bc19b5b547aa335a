CONSTANTS
  s1 = s1
  s2 = s2
  e1 = e1
  e2 = e2
  a1 = a1
  a2 = a2
  v1 = v1
  v2 = v2
  Sessions = {s1, s2}
  Endpoints = {e1, e2}
  Acls = {a1, a2}
  Services = {v1, v2}
  NoSession = NoSession
  NoEndpoint = NoEndpoint
  NoAcl = NoAcl
  NoService = NoService
  Registrations <- MCRegistrations
  NumInstances = 3
  Adversities = {}
  MaxServices <- MCMaxServices
  MaxSessions = 2
  AdspMaxChars = 3
  UappRoom <- MCUappRoom
  UappMaxChars = 2
SPECIFICATION FairSpec
INVARIANTS
  TypeOK
  SessionsOwned
  NoServiceLeak
  ServedEndToEnd
PROPERTIES
  StackAnswered
  ReadsEnd
  MicroappCloseHonoured
