\* Three runs of the script, two starts of each end.
CONSTANTS
    None = None
    Torn = Torn
    MaxRuns = 3
    MaxStarts = 2
CHECK_DEADLOCK FALSE
SPECIFICATION Spec
INVARIANT QuietStartsConnect
PROPERTY NeverOpenAgain
