--------------------------- MODULE MCSeriesAnalysis ---------------------------
(* Two reports for Celery, a request that appends and one that uploads a history, *)
(* any two of them, over a series of one, four or five points: the trend sets in  *)
(* with a second and a fourth, the verdict with a fifth, and five were stored     *)
(* without one.                                                                   *)
EXTENDS SeriesAnalysis, TLC

CONSTANTS base, t1, t2, q1, u1

Row(at, value) == [at |-> at, value |-> value]

MCBaselines ==
    {<<Row(1, 1)>>,
     <<Row(1, 1), Row(2, 2), Row(3, 3), Row(4, 4), Row(5, 5)>>,
     <<Row(1, 6), Row(2, 6), Row(3, 6), Row(4, 6)>>}

\* A row without a date, and two, one with an old and one with a future date.
MCContents == {<<Row(0, 6)>>, <<Row(2, 6), Row(8, 9)>>}

\* The first report has the file name of the base.
MCMatches == (t1 :> {t1, base}) @@ (t2 :> {t2})
=============================================================================
