SPECIFICATION LlmSpec
CONSTANTS
    t1 = t1
    t2 = t2
    t3 = t3
    c1 = c1
    c2 = c2
    Turns = {t1, t3}
    Correlations = {c1, c2}
    CorrelationOf <- MCCorrelationOf
    MaxCalls <- MCMaxCalls
    Total <- MCTotal
    Cap = 3
    Projected = 1
    Quotas = {3, 1}
    Refreshers = {r1}
    MaxLlmFaults = 0
    NoOne = NoOne
PROPERTIES
    AdmissionsObeyQuota
CHECK_DEADLOCK FALSE
