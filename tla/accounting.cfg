CONSTANT MaxShares = 3
SPECIFICATION Spec
PROPERTIES NewLossIsLoud ReportedOnce
