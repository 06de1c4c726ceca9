SPECIFICATION FairSpec
CONSTANTS
  KeysOf <- BothSets
  Typing = 5
INVARIANTS TypeOK DetectsRight DecoderStartsAligned
PROPERTIES OneKeyIsEnough
CHECK_DEADLOCK FALSE
