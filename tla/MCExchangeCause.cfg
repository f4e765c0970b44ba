\* A pending read while the exchange fails.
CONSTANTS MaxData = 1
SPECIFICATION Spec
INVARIANTS ReaderSeesProducer
CHECK_DEADLOCK FALSE
