SPECIFICATION Spec
CONSTANTS
  RESULT_BUFFER_SIZE = 2
  MaxRows = 3
INVARIANTS WaitsEnd ReadyForNextCall NoRowLost CloseWillHappen
PROPERTIES StatusRises
