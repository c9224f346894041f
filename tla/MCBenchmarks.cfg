CONSTANTS
  Builds <- MCBuilds
  Runs <- MCRuns
  Junk <- MCJunk
SPECIFICATION MCSpec
INVARIANTS ListIntact ListRestored InputsRestored ScanInside Validated ShouldBe
PROPERTY SortsStable
