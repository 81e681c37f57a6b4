\* Two requests: one can be finished while the other is still in flight.
CONSTANT Req = {r1, r2}
SPECIFICATION Spec
CHECK_DEADLOCK FALSE
INVARIANTS Inv FailureDrains
PROPERTY EndsWhenAsked
