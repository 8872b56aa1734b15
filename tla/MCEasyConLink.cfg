CONSTANTS
    Buttons <- MCButtons
    Directions <- MCDirections
    Backlog = 2
SPECIFICATION Spec
INVARIANTS
    PacketIsExact
PROPERTIES
    ImplementsGamepad
