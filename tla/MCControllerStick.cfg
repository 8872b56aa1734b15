SPECIFICATION FairSpec
CONSTANTS
    Buttons = {}
    Hat = Hat
    HatDirs = {}
    Sticks = {L}
    StickDirs = {North}
    Pressed = Pressed
    Off = Off
    Clients = {c1, c2}
    Daemon = Daemon
    Nobody = Nobody
    Durations = {1}
    Horizon = 2
INVARIANTS
    ConsoleMatchesRecord
PROPERTIES
    TimedHoldsEnd
