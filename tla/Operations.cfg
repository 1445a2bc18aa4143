SPECIFICATION OperationsSpec
CONSTANTS
    Threshold = 2
    Recovery = 1
    MaxBackoff = 2
    MaxLevel = 1
    MaxExecutions = 1
    Workers = {"withdrawal_monitor", "monitoring_worker"}
    Counting = {"stuck_withdrawals"}
    Counts = {1}
INVARIANTS
    HeartbeatMeansChecked
PROPERTIES
    CallsAreSpaced
    BreakerCloses
