SPECIFICATION Spec
CONSTANTS
  r1 = r1
  p1 = p1
  Row <- Rows
  Page <- Pages
  Filters <- AllOrNothing
  PageSize = 1
  MaxWrites = 2
  MaxTroubles = 2
  MaxRequests = 1
INVARIANT TypeOK
PROPERTIES
  AgreementStays
  PagesCatchUp
