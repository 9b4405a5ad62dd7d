SPECIFICATION Spec
CONSTANTS
    W = 6
    Operands <- AllOperands
    Places <- FirstPlaces
    Garbage = 4660
INVARIANTS ConditionsDecide HalvesChain MultiplyAndDivide ShiftsAndRotates
INVARIANTS DecimalArithmetic InterruptTransparent CallsReturn
INVARIANTS BlockOperations OperandsAreStable
