SPECIFICATION SetSpec
CONSTANTS
    Scenarios <- MCFaultless
CHECK_DEADLOCK FALSE
PROPERTIES NeverRefundsPay
