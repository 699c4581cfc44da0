SPECIFICATION StimulusSpec
CONSTANTS
  Items <- FourItems
  Reads = 6
INVARIANTS
  EachItemOnce
  HumidityKeepsUp
