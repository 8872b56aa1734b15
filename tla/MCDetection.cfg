SPECIFICATION DetectionSpec
CONSTANTS
    p1 = p1
    p2 = p2
    p3 = p3
    Kinds = {"compare", "ocr"}
    Pixels = {p1, p2, p3}
    Near <- MCNear
    Areas <- MCAreas
    FilterLists <- MCFilterLists
    Channels <- MCChannels
    MaxFrames = 2
    MaxDetections = 2
INVARIANTS OnlyInPlaceFiltersInterfere OcrAnswersItsOwnImage
CHECK_DEADLOCK FALSE
