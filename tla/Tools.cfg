SPECIFICATION Spec
INVARIANTS ModelsSafe CheckersExact EvidenceSound ReleaseSound GeometrySound
PROPERTY OraclesSound
CHECK_DEADLOCK FALSE
