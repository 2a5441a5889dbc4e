CONSTANTS
    Images <- MCImages
    Uninit = {255}
    SaveOps <- MCSaveOps
    RestoreOps <- MCRestoreOps
SPECIFICATION StackSpec
CONSTRAINT Bounded
INVARIANT TypeOK
INVARIANT StackIntact
PROPERTY ReturnsAfterCall
PROPERTY CallsGoWhereTold
PROPERTY RefinesWordStack
