SPECIFICATION Spec
CONSTANTS
  Thread <- Threads4
  Bytes <- ThreeBytes
  Crossing <- CrossingPair
  Programs <- SoundPrograms
  MaxWriteVector = 9
  InitCapacity = 2
  MaxSeq = 10
INVARIANT NoFalseRace
INVARIANT PlainRacesReported
INVARIANT ShadowFits
CHECK_DEADLOCK FALSE
