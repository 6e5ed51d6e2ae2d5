SPECIFICATION Spec
CONSTANTS
    Rps = 8
    HuntRungs = 5
PROPERTIES
    RefusedOnlyOverRate
