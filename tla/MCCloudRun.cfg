SPECIFICATION Spec
CONSTANTS
  o1 = o1
  o2 = o2
  s1 = s1
  s2 = s2
  f1 = f1
  f2 = f2
  m1 = m1
  m2 = m2
  ann = ann
  bob = bob
  None = None
  Operators = {o1, o2}
  Paths = {f1, f2}
  SourceOrder <- MCSourceOrder
  Reads <- MCReads
  Written <- MCWritten
  Normal <- MCNormal
  Folded <- MCFolded
  Residual <- MCResidual
  NonFinite <- MCNonFinite
  Huge <- MCHuge
  CloudNames <- MCCloudNames
  Decodings <- MCDecodings
  Candidates <- MCCandidates
  Batches <- MCBatches
  Plans <- MCPlans
  Handed <- MCHanded
  Snapshots <- MCSnapshots
  Approvals <- MCApprovals
  McApproval <- MCMcApproval
  MaxJobs = 3
SYMMETRY Symmetry
INVARIANTS WorkReady AuditTruthful MirrorTruthful ProtectedToTheEnd GatesAgree
CHECK_DEADLOCK FALSE
