SPECIFICATION Spec
CONSTANT Inputs <- MC_ClientKey
INVARIANT ClientKeyArrives
CHECK_DEADLOCK FALSE
