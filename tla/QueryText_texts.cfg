SPECIFICATION Spec
CONSTANTS
    MaxMarkers = 2
    MaxCommands = 2
    MaxNesting = 2
    MaxBraces = 1
    MaxValue = 2
INVARIANTS MarkersAgree CommandsAgree ValuesIntact
