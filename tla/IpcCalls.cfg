SPECIFICATION IpcSpec
CONSTANTS
  Missing = Missing
  MaxCredentials = 2
  MaxSets = 3
  Samples <- MCSamples
INVARIANTS StubReadsWhatProxyWrote ReturnIsTrue AttributesArrive
