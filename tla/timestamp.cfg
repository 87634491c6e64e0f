SPECIFICATION Spec
CONSTANTS
    None = None
    ParseError = ParseError
    Spans <- CheckedSpans
    Times <- CheckedTimes
    Zones <- CheckedZones
CHECK_DEADLOCK FALSE
INVARIANTS
    CalendarRight
    RoundTrip
    ZonesRight
    OnlyRealDates
