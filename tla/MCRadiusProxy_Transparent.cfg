SPECIFICATION Spec
CONSTANTS
  c1 = c1
  c2 = c2
  i1 = i1
  i2 = i2
  Clients <- MCOneClient
  Ids <- MCIds
  Server = server
  NoAddr = noaddr
  Shapes <- AllShapes
  MaxArrivals = 3
CHECK_DEADLOCK FALSE
INVARIANT
  Transparent
