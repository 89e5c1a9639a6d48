SPECIFICATION Spec
CONSTANT Inputs <- MC_Inputs
INVARIANTS
  OptionsArrive
  ReportedAsUsed
  ValidOptionsWork
CHECK_DEADLOCK FALSE
