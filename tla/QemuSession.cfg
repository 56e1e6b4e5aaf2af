SPECIFICATION Spec
CONSTANTS
  server = server
  client = client
  third = third
  lan = lan
  uplink = uplink
  office = office
  Sources = {server, client, third}
  SocketNets = {lan}
  UserNets = {uplink, office}
  Subnets = 2
  Hash <- Hashes
  Networks <- Links
  MaxStarts = 3
  MaxCancels = 3
INVARIANTS
  SessionInv
  MigrationsSettled
  AnswersMatch
PROPERTIES
  NothingLeft
