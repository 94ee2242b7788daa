CONSTANTS
    MaxUint = 31
    DefaultFees <- MCDefaultFees
    DefaultCutoff = 1
    MaxWaitBlock = 1
    Tx <- MCTx
    TipCap <- MCTipCap
    FeeCap <- MCFeeCap
    Gas <- MCGas
    GasLimit = 24
    FirstBaseFee = {4, 16, 31}
    Root <- MCRoot
    DecayTable <- MCDecayTable
    MaxBlockCount = 2
    StatsOf <- MCStatsOf
    Snapshots <- MCSnapshots
    MaxBlock = 3
SPECIFICATION AnalysisSpec
INVARIANT FeesAreQuantiles
INVARIANT LevelsOrdered
PROPERTY ForecastHolds
PROPERTY RequestSumsWindow
