SPECIFICATION FairSpec
CONSTANTS
  Jobs = {j1}
  Workers = {w1}
  RemoteIds = {r1}
  Nobody = Nobody
  NoJob = NoJob
  NoRemote = NoRemote
PROPERTIES
  CancelSettles
  RemoteEndReported
