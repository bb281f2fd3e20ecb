SPECIFICATION FairGatesSpec
CONSTANTS
  Readings <- SomeReadings
  GoodReadings <- GoodOnes
  MinInState <- LeastTimes
  Sustained <- SustainedTimes
  CooldownFor <- Durations
  KsInputs = {0, 4}
  Warmup = 1
  MaxLag = 1
  MaxAge = 3
INVARIANTS GatesTypeOK NoEntryInCooldown NoEntrySoonAfterHalt
PROPERTIES HaltNeedsApproval FallsAfterHold TradingResumes
