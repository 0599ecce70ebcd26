CONSTANTS
  p1 = p1
  n1 = n1
  n2 = n2
  r1 = r1
  Properties <- OneListing
  Negotiations <- OneNegotiation
  PropertyOf <- AllOnOne
  Requests = {}
  Decisions <- TwoDecisions
  MaxDocs = 1
SPECIFICATION Spec
PROPERTY RefusedStaysRefused
