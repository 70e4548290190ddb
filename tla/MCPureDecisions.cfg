\* Segment sizes at one hundredth of the real limits; every saved record.
SPECIFICATION MCSpec
CONSTANTS
    TargetBytes = 12
    MaxBytes = 18
    ReassembledMax = 144
    CountMax = 12
    Overhead = 2
    Longest = 200
    Ports = {1, 2}
    MaxPorts = 2
INVARIANTS CountIsHonest SegmentsFit PlanKeepsChoice
CHECK_DEADLOCK FALSE
