SPECIFICATION Spec
CONSTANTS
    MaxPages = 127
PROPERTIES
    ReopenNearby
