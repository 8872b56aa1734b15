SPECIFICATION Spec
CONSTANTS
    Buttons = {A}
    Hat = Hat
    HatDirs = {Up, Down}
    Sticks = {}
    StickDirs = {}
    Pressed = Pressed
    Off = Off
    Clients = {c1, c2}
    Daemon = Daemon
    Nobody = Nobody
    Durations = {1}
    Horizon = 2
SYMMETRY ClientSymmetry
INVARIANTS
    ConsoleMatchesRecord
    CallsFindTheirProtocol
PROPERTIES
    ClearAloneRestoresRest
    HoldsAreOnlyProlonged
