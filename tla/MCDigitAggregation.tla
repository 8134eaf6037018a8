------------------------- MODULE MCDigitAggregation -------------------------
EXTENDS DigitAggregation

\* A call with these detectors, values of the timers, bounds on other events and digits,
\* and start.
Use(detectors, values, events, count, start) ==
  [channels |-> detectors, timers |-> values, others |-> events, digits |-> count,
   first |-> start]

MCUses == {Use({"inband", "bfsk"}, {1, 2}, 1, 3, 1), \* aggregated, beside an event
           Use({"inband"}, {0, 1}, 0, 3, 1),         \* aggregation on and off
           Use({"rfc2833"}, {0}, 1, 3, 1),           \* not aggregated, beside an event
           Use({"inband", "bfsk"}, {0}, 0, 2, 1),    \* not aggregated, two detectors
           Use({"rfc2833", "inband"}, {1}, 0, 3, 1), \* a full rfc2833 buffer
           Use({"inband"}, {1}, 0, 3, DayMs - 1)}    \* midnight
=============================================================================
