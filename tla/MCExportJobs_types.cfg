CONSTANTS
    image = image
    video = video
    model = model
    techpack = techpack
    Exports = {image, video, techpack}
    TypeOf <- OneOfEach
    MaxAttempts = 3
    MaxStalled = 1
    MaxCrashes = 1
    MaxExports = 1
SPECIFICATION FairSpec
INVARIANTS TypeOK DeliveredHasFile RetriesAccounted GivesUpOnlyAfterStall CancelBeforeStartSticks
PROPERTY JobsSettle
CHECK_DEADLOCK FALSE
