SPECIFICATION Spec
INVARIANTS OffsetsRight RangeOnDisk SharedRight VerdictTrue HistoryTrue TreeRight
INVARIANTS ReplayRight TraceRight MemoryExact RatesKept ReportsTrue DisksRight
PROPERTIES PassComplete
CHECK_DEADLOCK FALSE
