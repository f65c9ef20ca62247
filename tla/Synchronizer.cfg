SPECIFICATION Spec
PROPERTY SimImplementsHdl
INVARIANT CrossingLatency
