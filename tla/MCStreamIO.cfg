CONSTANTS
  Threads = {t1, t2}
  Jobs <- SomeJobs
  Reads = {2}
  Capacity = 2
  MaxCalls = 2
SPECIFICATION Spec
SYMMETRY Symmetry
INVARIANTS TypeOK IovsOwned ReportedIsSent WholeUnlessShort TakenIsReported
