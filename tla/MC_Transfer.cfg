SPECIFICATION Spec
CONSTRAINT FewMissing
CONSTANT Inputs <- MC_Inputs
INVARIANTS
  TypeOK
  FreesOnlyItsOwn
  ReadsOnlyFilled
  NothingLost
  NothingLeaks
  DecodersFailSafely
CHECK_DEADLOCK FALSE
