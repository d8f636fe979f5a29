CONSTANTS
    p1 = p1  p2 = p2  notes = notes  dcim = dcim  docs = docs
    Process  = {p1, p2}
    Name     = {notes, dcim, docs}
    Configs  <- MCConfigs
    Runtimes <- MCRuntimes
    Devices  <- MCDevices
    Commands <- MCCommands
    None     = None
    Env      = {"kill", "lock", "cut", "scheduler", "wiped"}
SPECIFICATION Spec
SYMMETRY ProcessSymmetry
INVARIANTS
    TypeOK
    AskedIsTried
    PagesMeanFailures
    SchedulesCoverJobs
PROPERTIES
    TiredDeviceRests
