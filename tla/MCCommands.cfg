SPECIFICATION FairSpec
CONSTANTS
  Caller = {1, 2, 3}
  Job = {1, 2, 3}
  Times = 2
  MaxQueue = 2
  Workers = 1
  Traffic <- MCTraffic
INVARIANTS TypeOK CancelledGiftsAreNotSent ProcessesWithinWorkers
PROPERTIES TakesWhatWaits StoppedJobsSendNoMore StoppedDownloadsLetGo EveryCallEnds
CHECK_DEADLOCK FALSE
