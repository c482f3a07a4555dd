SPECIFICATION Spec
CONSTANTS
    i1 = i1
    i2 = i2
    Interfaces <- MCInterfaces
    CpuTimes <- MCCpuTimes
    Statistics <- MCStatistics
    Drives <- MCDrives
    MaxDrives = 2
    MaxSamples = 2
    PerSecond = 10
    MaxSample = 10
    LeastRange = 2
    None = None
SYMMETRY MCSymmetry
INVARIANTS
    TypeOK
    LinesEndNow
    ErrorsExplain
    GaugeAgreesWithoutShares
PROPERTIES
    RatesAreTraffic
