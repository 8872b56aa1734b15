SPECIFICATION LibrarySpec
CONSTANTS
    Files = {f1, f2}
    Descriptions = {d1, d2}
    Properties = {x, y}
    None = None
INVARIANTS ReadyMeansAllLoaded FormReachesTheScript
