SPECIFICATION FairSpec
CONSTANTS
    Devices = {d1, d2}
    MaxInputs = 2
INVARIANTS
    OnlyTheCameraInUseIsOpen
    HeldCameraIsOpen
    DaemonsSurvive
PROPERTIES
    ScreenFollowsCamera
    ScreenNeverGoesBack
CHECK_DEADLOCK FALSE
