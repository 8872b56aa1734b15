SPECIFICATION SelectionSpec
CONSTANTS
    GuiSize = 4
    InputSize = 6
INVARIANTS LeftoversOnlyAfterTrouble PanelShowsTheHighlight
PROPERTIES InsideSelectionsOpenThePanel
