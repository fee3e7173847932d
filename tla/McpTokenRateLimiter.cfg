\* Two tokens, two calls per window, a 3 s window at half-second ticks.
CONSTANTS
    TokenIds = {k1, k2}
    PerMinute = 2
    WindowSecs = 3
    TicksPerSec = 2
SPECIFICATION Spec
INVARIANT TypeOK
INVARIANT SlidingWindowBound
PROPERTY LimiterImplementsSlidingWindow
PROPERTY RetryAfterHonoured
