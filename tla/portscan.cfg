CONSTANTS
  Pids = {1, 2}
  Names = {"bash", "nmap"}
  Scanners = {"nmap"}
  Dests <- ThreeDests
  Window = 1
  DistinctPorts = 2
  DistinctHosts = 2
SPECIFICATION Spec
INVARIANTS TypeOK WindowIsExact KnownScannerReported
