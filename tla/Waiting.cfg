SPECIFICATION Spec
INVARIANTS FilesServed FlowSound LinkTrue RdmaExact
PROPERTIES EveryoneEnds
CHECK_DEADLOCK FALSE
