\* Programs' frames and other senders' messages, bit by bit, and every bit rate.
CONSTANTS
  Addresses <- MCAddresses
  Dlcs <- MCDlcs
  Sids <- MCSids
  Eids <- MCEids
  WireDlcs <- MCWireDlcs
  r1 = r1
  r2 = r2
  Readers <- MCReaders
  Requested <- MCRequested
  Lost <- MCLost
  MaxReports = 3
SPECIFICATION LoopbackSpec
SYMMETRY Symmetry
INVARIANTS
  LoopbackTypeOK
  BitrateComesBack
  StatsBounded
PROPERTIES
  ReadAsWritten
  PassedOnUnchanged
