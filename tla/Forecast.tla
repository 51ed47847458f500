------------------------------ MODULE Forecast ------------------------------
(* PredictionsService.run: a linear trend and an average over the gross    *)
(* sales of the daily metrics of the last 90 days.  A run is one           *)
(* transaction.  Fractions are numerators over `Scale`; the points are     *)
(* rounded to cents afterwards, which is left out.                         *)
EXTENDS Integers, Sequences, FiniteSetsExt

CONSTANTS
    DaySales,       \* the gross sales a day may have
    MostDays,       \* bound: daily metrics in the window
    Horizon         \* horizonDays

ASSUME ForecastAssumption ==
    DaySales \subseteq Nat /\ MostDays \in Nat /\ Horizon \in Nat

VARIABLES
    history,        \* the gross sales of the window's rows, oldest first
    forecast        \* the latest run: what it read, its points, its insight

forecastVars == <<history, forecast>>

NoForecast == [of |-> <<>>, scale |-> 1, points |-> <<>>, insight |-> "none"]

ForecastInit == history = <<>> /\ forecast = NoForecast

(* A rollup adds the row of a day.                                         *)
DayRolledUp(v) ==
    /\ Len(history) < MostDays
    /\ history' = Append(history, v)
    /\ UNCHANGED forecast

-----------------------------------------------------------------------------
(* linearFit: least squares over x = 1 .. n; no slope for fewer than two.  *)
HistoryDays == Len(history)
SumOver(f(_)) == MapThenSumSet(f, DOMAIN history)
SumX == SumOver(LAMBDA x : x)
SumY == SumOver(LAMBDA x : history[x])
SumXY == SumOver(LAMBDA x : x * history[x])
SumXX == SumOver(LAMBDA x : x * x)
Denom == IF HistoryDays < 2 THEN 1 ELSE HistoryDays * SumXX - SumX * SumX
Slope == IF HistoryDays < 2 THEN 0 ELSE HistoryDays * SumXY - SumX * SumY
Scale == IF HistoryDays = 0 THEN 1 ELSE HistoryDays * Denom

(* intercept + slope * x and the average of the days, times Scale.         *)
FromTheStart(i) == SumY * Denom - Slope * SumX + Slope * HistoryDays * i
Trend(i) == SumY * Denom - Slope * SumX + Slope * HistoryDays * (HistoryDays + i)
Average == SumY * Denom

(* A point, times 10 * Scale; sales are never forecast below zero.         *)
Mixed(i) == 6 * Trend(i) + 4 * Average
Point(i) == IF Mixed(i) < 0 THEN 0 ELSE Mixed(i)

InsightOfGrowth == IF Slope > 0 THEN "opportunity" ELSE "warning"
InsightType == IF Slope >= 0 THEN "opportunity" ELSE "warning"

PredictionRun ==
    /\ forecast' = [of |-> history, scale |-> Scale, insight |-> InsightType,
                    points |-> [i \in 1 .. Horizon |-> Point(i)]]
    /\ UNCHANGED history

(* latest: the points of the run that was made last.                       *)
LatestSeries == forecast.points

ForecastNext == (\E v \in DaySales : DayRolledUp(v)) \/ PredictionRun

-----------------------------------------------------------------------------
(* Properties                                                              *)

ForecastTypeOK ==
    /\ history \in Seq(DaySales) /\ Len(history) <= MostDays
    /\ forecast.of \in Seq(DaySales) /\ forecast.scale \in Nat \ {0}
    /\ forecast.points \in Seq(Nat)
    /\ forecast.insight \in {"none", "opportunity", "warning"}

(* Sales that have moved on a line go on on that line: a point is 0.6 of   *)
(* the line's value on its day and 0.4 of the average so far.              *)
LineGoesOn ==
    LET of == forecast.of
        n == Len(of)
        d == of[2] - of[1]
        onLine == \A x \in 1 .. n : of[x] = of[1] + (x - 1) * d
    IN n >= 2 /\ onLine =>
          \A i \in DOMAIN LatestSeries :
              LET mixed == 6 * (of[1] + (n + i - 1) * d) + 2 * (of[1] + of[n])
              IN LatestSeries[i] = IF mixed < 0 THEN 0 ELSE mixed * forecast.scale

(* The headline agrees with the points: under "trending down" every day    *)
(* is forecast below the average of the days seen, under "trending up"     *)
(* none is.                                                                *)
HeadlineAgrees ==
    LET n == Len(forecast.of)
        sum == MapThenSumSet(LAMBDA x : forecast.of[x], DOMAIN forecast.of)
        below(i) == LatestSeries[i] * n < 10 * forecast.scale * sum
    IN \A i \in DOMAIN LatestSeries : n > 0 =>
          (forecast.insight = "warning") = below(i)

(* Both: the points and the words about them tell the same story.          *)
ForecastAgrees == LineGoesOn /\ HeadlineAgrees
=============================================================================
