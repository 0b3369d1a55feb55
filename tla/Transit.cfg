SPECIFICATION Spec
CONSTANTS
    r1 = r1
    r2 = r2
    Relay <- TwoRelays
    Mailboxes <- FirstThenSecond
    PostsDirect = TRUE
    PollsDirect = TRUE
    Lookback = 1
    MaxTexts = 2
    MaxHour = 3
    MaxMissed = 0
    MaxFailed = 1
INVARIANTS TypeOK HourInOneFetch PromptTextsArrive
CHECK_DEADLOCK FALSE
