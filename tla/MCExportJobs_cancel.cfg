CONSTANTS
    image = image
    video = video
    model = model
    techpack = techpack
    Exports = {image, video, model, techpack}
    TypeOf <- OneOfEach
    MaxAttempts = 3
    MaxStalled = 1
    MaxCrashes = 0
    MaxExports = 1
SPECIFICATION Spec
INVARIANT CancelStopsWorker
CHECK_DEADLOCK FALSE
