-------------------------------- MODULE EmaAtr --------------------------------
(***************************************************************************)
(* The ema_atr strategy (strategies/ema_atr.py) as functions of the closes *)
(* it is given.  An EMA is an exact fraction; the code's Decimals agree    *)
(* with it up to 28 digits.  The ATR only places the diagnostic stop, so   *)
(* nothing but its warm-up is kept.                                        *)
(***************************************************************************)
EXTENDS Integers, Sequences

CONSTANTS FastPeriod, SlowPeriod, AtrPeriod

ASSUME StrategyConstants ==
    /\ FastPeriod \in Nat \ {0} /\ SlowPeriod \in Nat /\ AtrPeriod \in Nat \ {0}
    /\ FastPeriod < SlowPeriod

RequiredHistory == IF SlowPeriod > AtrPeriod THEN SlowPeriod + 1 ELSE AtrPeriod + 1

\* One turn of the loop of ema: up to the first period values they are summed for
\* the mean that seeds it, then smoothed by 2/(period+1).
Smoothed(value, i, before, period) ==
    IF i <= period
    THEN [num |-> before.num + value, den |-> period]
    ELSE [num |-> 2 * value * before.den + (period - 1) * before.num,
          den |-> (period + 1) * before.den]

\* ema: an average from the entry period on.
Ema(values, period) ==
    LET average[i \in 0 .. Len(values)] ==
            IF i = 0 THEN [num |-> 0, den |-> period]
            ELSE Smoothed(values[i], i, average[i - 1], period)
    IN  average

\* fast - slow after the candle i, up to a positive factor.
Lead(values, i) ==
    LET fast == Ema(values, FastPeriod)[i]
        slow == Ema(values, SlowPeriod)[i]
    IN  fast.num * slow.den - slow.num * fast.den

\* Mutant of Evaluate: a cross that touches first is not a cross.
EvaluateStrict(values) ==
    LET before == Lead(values, Len(values) - 1)
        now    == Lead(values, Len(values))
    IN  IF before < 0 /\ now > 0 THEN "buy"
        ELSE IF before > 0 /\ now < 0 THEN "sell" ELSE "hold"

\* evaluate: the action for the last of at least RequiredHistory closes.
Evaluate(values) ==
    LET before == Lead(values, Len(values) - 1)
        now    == Lead(values, Len(values))
    IN  IF before <= 0 /\ now > 0 THEN "buy"
        ELSE IF before >= 0 /\ now < 0 THEN "sell" ELSE "hold"
===============================================================================
