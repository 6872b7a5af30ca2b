-------------------------------- MODULE Scores --------------------------------
(***************************************************************************)
(* The score of a cache record, calculate_cache_score of score_calculator: *)
(* the product of four factors, kept between 100 and 1000.  The factors    *)
(* are fractions over the denominators given with each; the popularity and *)
(* the score are cut, not rounded, to two decimals and to one.             *)
(***************************************************************************)
EXTENDS Integers, FiniteSetsExt

Most(a, b) == Max({a, b})
Clamp(x, lo, hi) == Max({lo, Min({x, hi})})

\* A kind is [episode, series, progress]: an episode, one with tvshows_info,
\* and in_progress.

\* Tenths.
MediaFactor(k) == IF ~k.episode THEN 10 ELSE IF k.series THEN 17 ELSE 14

\* 3600ths, h hours after the last access.
AccessFactor(k, h) ==
    IF k.episode
    THEN IF h <= 72 THEN Most(2880, 4320 - 20 * h) ELSE Most(1080, 2880 - 6 * (h - 72))
    ELSE IF h <= 48 THEN Most(2520, 3960 - 30 * h) ELSE Most(720, 2520 - 9 * (h - 48))

\* 3600ths, d days after the creation.
CreationFactor(d) == IF d <= 30 THEN 3600 ELSE Most(2160, 3600 - 30 * (d - 30))

\* 14400ths.
FreshnessFactor(k, h, d) ==
    Clamp(3 * AccessFactor(k, h) + CreationFactor(d), 2880, 25920)

\* Hundredths, for n accesses in d days: the frequency is 10 * n / t, a day
\* of at least a tenth.
PopularityFactor(k, n, d) ==
    LET t == Most(1, 10 * d)
        f == (1000 * n) \div t
        p == IF k.episode
             THEN IF f >= 200 THEN 160
                  ELSE IF f >= 100 THEN 130
                  ELSE IF f >= 30 THEN 100 + (3 * f) \div 2
                  ELSE Most(40, 80 + 2 * f)
             ELSE IF f >= 50 THEN 140
                  ELSE IF f >= 20 THEN 100 + 2 * f
                  ELSE IF f >= 5 THEN 70 + 4 * f
                  ELSE Most(30, 60 + 6 * f)
    IN  Clamp(p, 30, 180)

\* Tenths.
ContextFactor(k) ==
    IF k.progress THEN IF k.episode THEN 13 ELSE 11
                  ELSE IF k.episode THEN 10 ELSE 9

\* The scores there are, in tenths.
ScoreRange == 1000..10000

\* Tenths: 4000 * media / 10 * freshness / 14400 * popularity / 100 * context / 10
CacheScore(k, n, h, d) ==
    Clamp((MediaFactor(k) * FreshnessFactor(k, h, d) * PopularityFactor(k, n, d)
           * ContextFactor(k)) \div 36000, 1000, 10000)
===============================================================================
