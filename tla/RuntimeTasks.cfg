SPECIFICATION TasksSpec
CONSTANTS
    None = None
    Cpus = {"cpu1", "cpu2"}
    Groups = {"LAST_ERROR"}
    FlashCpus = {"cpu1"}
    RamCpus = {"cpu2"}
    ReadCpus = {"cpu2"}
    RunCpu = "cpu1"
    ProgramFiles = {"a.out"}
    RamFiles = {"r.txt"}
    OutFiles = {"a.out"}
    FlashImages = {A, B}
    RamImages = {"R"}
    Services = {"S"}
    ServiceFile = "service.out"
    Scopes = {"REQUIRED", "CUSTOM"}
    Masks = {{"META"}, {"APP"}}
    Limit = 1
    MaxGen = 2
    MaxService = 1
    MaxChanges = 1
INVARIANTS ShownIsTrue TasksInv
PROPERTIES ConfirmedIsExecuted ResultIsShown
CHECK_DEADLOCK FALSE
SYMMETRY Symmetry
