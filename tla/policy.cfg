\* Every expression of up to four modules, the loop counted in two or three
\* bits, and nine modules passed in any order.
SPECIFICATION Spec
CONSTANTS
    Expressions <- Accepted
    MaxLength = 9
INVARIANTS PolicyTypeOK PassedInOrder LoopIsBounded ClearedAfterExecution LegalIsAccepted
CHECK_DEADLOCK FALSE
