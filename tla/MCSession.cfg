SPECIFICATION Spec
CONSTANTS
  Clients = {"patient", "hasty"}
  Patient = {"patient"}
  Requests = {"LSTAT", "OPENDIR"}
  MaxRequests = 2
  NULL = NULL
INVARIANTS
  TypeOK
  HandleIsOwn
PROPERTIES
  ImplementsService
  LeaversAreLetGo
  PatientIsAnswered
  EveryoneGetsATurn
CHECK_DEADLOCK FALSE
