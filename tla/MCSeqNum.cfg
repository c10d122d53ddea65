SPECIFICATION Spec
CONSTANTS
    Half = 16
    Window = 6
INVARIANTS
    FlowControl
PROPERTIES
    ResetOnlyAcrossHalf
