------------------------------ MODULE Histogram ------------------------------
(***************************************************************************)
(* The histogram of allocation sizes of stats.py: bins whose bounds are in *)
(* geometric progression.  The code takes logarithms; here powers are      *)
(* compared, which is the same but for how a size that is exactly a bound  *)
(* is rounded.  data gives the number of allocations of each size.         *)
(***************************************************************************)
EXTENDS Integers, Sequences, FiniteSetsExt

\* What get_histogram_databins raises: min() of nothing, or a division by a
\* step of 0.  draw_histogram is not given an empty histogram to draw.
ValueError(data) == DOMAIN data \ {0} = {}
ZeroDivisionError(data) == ~ValueError(data) /\ Max(DOMAIN data) = 1

Low(data) == Min(DOMAIN data \ {0})
High(data) == Max(DOMAIN data)

\* The bound after i bins, to the power of Degree: the progression leads from
\* Low to High, or from its square root if they are the same.
Degree(data, bins) == IF Low(data) = High(data) THEN 2 * bins ELSE bins
BoundPower(i, data, bins) ==
    IF Low(data) = High(data) THEN High(data)^(bins + i)
    ELSE Low(data)^(bins - i) * High(data)^i

\* The bin that a size is counted in, from 0.
Bucket(size, data, bins) ==
    IF size = 0 THEN 0
    ELSE Min({bins - 1,
              Max({i \in 0..bins : BoundPower(i, data, bins) <= size^Degree(data, bins)})})

get_histogram_databins(data, bins) ==
    [b \in 1..bins |->
        [end |-> Max({n \in 0..High(data) : n^Degree(data, bins) <= BoundPower(b, data, bins)}),
         count |-> MapThenSumSet(LAMBDA s : data[s],
                                 {s \in DOMAIN data : Bucket(s, data, bins) = b - 1})]]

\* The last bin includes its bound, the others do not.
describe_histogram_databins(databins) ==
    [b \in DOMAIN databins |->
        [min_bytes |-> IF b = 1 THEN 0 ELSE databins[b - 1].end,
         max_bytes |-> IF b = Len(databins) THEN databins[b].end ELSE databins[b].end - 1,
         count |-> databins[b].count]]
==============================================================================
