SPECIFICATION Spec
CONSTANTS
    Length <- Lengths
    Requests = 3
    ReqMod = 8
    MaxBuf = 7
INVARIANTS ExchangeTypeOK WholeRequests InTurn HeadWhole InStep
CHECK_DEADLOCK FALSE
