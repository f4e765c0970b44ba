\* Five parts suffice for an operator in a right operand.
CONSTANTS MaxParts = 5
SPECIFICATION Spec
INVARIANTS RulesDecide
CHECK_DEADLOCK FALSE
