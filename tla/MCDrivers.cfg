CONSTANTS
    Images <- MCImages
    Uninit = {118}
    Budgets <- MCBudgets
    Garbage = {0, 99}
    Limit = 6
SPECIFICATION DriversSpec
INVARIANTS DriversTypeOK BudgetKept ResultReported
PROPERTIES LengthsAgree HaltIsFinal ReturnsOrSpins EmulatorExits
