SPECIFICATION BusSpec
CONSTANTS
  r1 = r1
  p1 = p1  p2 = p2  p3 = p3
  Page <- Pages
  Row <- Rows
  MaxWrites = 3
  MaxTroubles = 2
INVARIANTS
  BusTypeOK
  NoticesAccounted
PROPERTY BusDrains
