CONSTANTS
    Images <- MCImages
    Uninit = {255}
    SaveOps <- MCSaveOps
    RestoreOps <- MCRestoreOps
SPECIFICATION StackSpec
PROPERTY RefinesWordStack
