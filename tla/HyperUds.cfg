\* Three calls over one connection, and seven peers in the client's place.
SPECIFICATION FairSpec
CONSTANTS
  Texts <- MCTexts
  Requests <- MCRequests
  Responses <- MCResponses
  RawPeers <- MCRawPeers
  MaxFds = 2
  MaxHeaders = 4
  MaxHeaderBytes = 5
  MaxBodyBytes = 2
  ReadBytes = 2
  SocketBytes = 3
  MaxCalls = 3
INVARIANTS
  TypeOK
  ServesWholeRequests
  AcceptsWhatItPrepares
  ReusedOnlyClean
PROPERTIES
  ServerEnds
  RpcSpec
\* Connections end.
CHECK_DEADLOCK FALSE
