CONSTANTS
  MaxReplay = 2
  MaxRetries = 2
  MaxLines = 3
  WireCap = 2
  ExitCodes <- MCExitCodes
  TornCuts <- MCAfterId
SPECIFICATION FairSpec
INVARIANTS TypeOK ReplayWindow NoSpuriousGap NoLossWithoutEviction GivesUpOnlyAfterDrops
PROPERTIES Contract DoneReachesClient
CHECK_DEADLOCK FALSE
