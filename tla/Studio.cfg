SPECIFICATION Spec
CONSTANTS
  server = server
  command = command
  editor = editor
  viewer = viewer
  user = user
  Processes = {server, command}
  Clients = {editor, viewer, user}
  ProcessOf <- Owners
  MaxCalls = 5
  MaxStarts = 2
CONSTRAINT
  KeepApart
INVARIANTS
  StudioInv
  RevisionExact
  NothingUnreachable
PROPERTIES
  StoppedStays
