CONSTANTS
    phone1 = phone1  phone2 = phone2  laptop = laptop
    phone  = phone   desk   = desk
    Process  = {phone1, phone2, laptop}
    Machine  <- MCMachine
    Client   <- MCClient
    None     = None
    Garbled  = Garbled
    Env      = {"read", "fail", "slow"}
    MaxFault = 2
SPECIFICATION FairSpec
INVARIANTS
    TypeOK
    OverlapIsExplained
PROPERTIES
    LockIsRecovered
    RunsEnd
