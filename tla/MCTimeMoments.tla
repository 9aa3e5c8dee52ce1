----------------------------- MODULE MCTimeMoments -----------------------------
EXTENDS TimeMoments

\* A moment of the user's: the mean of source 1 over all steps, unless it says otherwise.
Mean(n) == [name |-> n, src |-> 1, weighted |-> FALSE, type |-> "mean", nt_start |-> 1,
            t_start |-> -1, mode |-> "auto", from |-> n]
Variance(n)   == [Mean(n) EXCEPT !.type = "variance"]
Weighted(d)   == [d EXCEPT !.weighted = TRUE]
FromStep(d, n) == [d EXCEPT !.nt_start = n]
FromTime(d, t) == [d EXCEPT !.nt_start = -1, !.t_start = t]
Restarts(d, m) == [d EXCEPT !.mode = m]
Was(d, n)     == [d EXCEPT !.from = n]
Thrice(s)     == <<s, s, s>>

Chains ==
  { \* a mean, its variance and a later mean; the variance first
    Thrice(<<Mean("u"), Variance("v"), FromStep(Mean("l"), 5)>>),
    Thrice(<<Variance("v"), Mean("u"), FromTime(Mean("e"), 3), FromTime(Mean("l"), 19)>>),
    \* weights; a variance whose mean is asked for later
    Thrice(<<Weighted(Mean("w")), Mean("u"), Weighted(Variance("x"))>>),
    <<<<Variance("v")>>, <<Variance("v"), Mean("u")>>, <<Mean("n"), Was(Variance("r"), "v")>>>>,
    \* a reset, a change of weight, a moment of a previous run
    <<<<Mean("u"), Variance("v")>>, <<Restarts(Mean("u"), "reset"), Variance("v")>>,
      <<Weighted(Mean("u")), Variance("v")>>>>,
    \* an exact restart, and one of a moment after one that has not started
    <<<<[Mean("u") EXCEPT !.t_start = 0]>>,
      <<Restarts([Mean("u") EXCEPT !.t_start = 0], "exact")>>, <<Restarts(Mean("u"), "exact")>>>>,
    <<<<FromStep(Weighted(Mean("l")), 5), Weighted(Mean("w"))>>,
      <<Restarts(Weighted(Mean("w")), "reset")>>>>,
    <<<<FromStep(Mean("l"), 5), [Weighted(Mean("w")) EXCEPT !.t_start = 0]>>,
      <<Restarts([Weighted(Mean("w")) EXCEPT !.t_start = 0], "exact")>>>> }

\* A mean from a time that a step ends at.
StartChain == {<<<<FromTime(Mean("u"), 4)>>>>}

Values  == << <<1, 4, 2, 7, 3, 5>>, <<2, 2, 9, 1, 1, 6>> >>
Weights == <<2, 1, 3, 1, 2, 1>>
=============================================================================
