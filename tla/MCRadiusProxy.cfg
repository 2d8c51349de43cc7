SPECIFICATION Spec
CONSTANTS
  c1 = c1
  c2 = c2
  i1 = i1
  i2 = i2
  Clients <- MCClients
  Ids <- MCIds
  Server = server
  NoAddr = noaddr
  Shapes <- MCShapes
  MaxArrivals = 4
CHECK_DEADLOCK FALSE
INVARIANTS
  TypeOK
  ForwardedInOrder
  
  AnswersToAsker
PROPERTY
  BufferedIsSent
