----------------------------- MODULE MCCandleSync -----------------------------
(***************************************************************************)
(* Values for TLC: a candle opens every two ticks and two fill a page.     *)
(***************************************************************************)
EXTENDS CandleSync, TLC

CONSTANTS s1, s2

Row(at, value) == [at |-> at, value |-> value, valid |-> TRUE]
Range3 == [start |-> 2, end |-> 6]

\* Ranges of two and three candles, and two requests that must be refused; rows
\* in range, repeated with another value, off the grid, out of range and invalid.
SomeRanges == {Range3, [start |-> 2, end |-> 4], [start |-> 6, end |-> 2],
               [start |-> 3, end |-> 6]}
MixedRows == {Row(2, "v1"), Row(2, "v2"), Row(5, "v1"), Row(6, "v1"), Row(8, "v1"),
              [at |-> 4, value |-> "v1", valid |-> FALSE]}

\* Ranges that share a candle, which the exchange corrects.
SharedRanges == {[start |-> 4, end |-> 6], [start |-> 6, end |-> 8]}
ChangedRows == {Row(4, "v1"), Row(6, "v1"), Row(6, "v2")}
===============================================================================
