CONSTANTS
  p1 = p1
  n1 = n1
  n2 = n2
  r1 = r1
  Properties <- OneListing
  Negotiations <- TwoNegotiations
  PropertyOf <- AllOnOne
  Requests = {}
  Decisions <- TwoDecisions
  MaxDocs = 1
SYMMETRY Interchangeable
SPECIFICATION Spec
INVARIANTS
  TypeOK
  ApprovalsBehindStage
  DraftBehindSignatures
  InProgressHasContract
  AtMostOneOpenProposal
PROPERTIES
  FinalizationIsComplete
  CancellationRelists
  DealtIsKept
