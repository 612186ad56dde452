\* What counts as an extreme outlier, on a window of five samples.
SPECIFICATION AWSpec
CONSTANTS
    Window = 5
    MinHistory = 4
    Samples = {10, 11, 14, 30}
    MaxSamples = 7
INVARIANT
    ExtremeMeansIdentical
CHECK_DEADLOCK FALSE
