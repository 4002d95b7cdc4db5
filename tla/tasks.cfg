SPECIFICATION FairSpec
CONSTANTS
  None = None
  Page = Page
  InitialAlbum <- MCAlbum
  MaxTroubles = 2
  Plans <- MCPlans
  UploadedImage <- MCUploaded
  Requests = {1, 2, 3}
  CommandsPerTick = 2
CHECK_DEADLOCK FALSE
PROPERTY MarkedWasShown
PROPERTY PlanConverges
PROPERTY EveryTaskShown
PROPERTY PageGivesWay
