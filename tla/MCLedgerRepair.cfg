SPECIFICATION RSpec
CONSTANTS
    Workers = {w}
    Operators = {o}
    Gaps = {g}
    FromLedger <- From1
    ToLedger <- To3
    Tip = 3
    BatchSize = 1
    Concurrency = 2
    MaxAttempts = 2
    MaxJobs = 1
    MaxCrashes = 1
    None = None
INVARIANTS OneRunnerPerJob ClaimHeld RangesAttempted
PROPERTY OpenGapsSettle
