---------------------------- MODULE CleanupProofs ----------------------------
(***************************************************************************)
(* Theorems about Cleanup, for any directories, files, sizes, limits and   *)
(* intervals.                                                              *)
(***************************************************************************)
EXTENDS Cleanup, SumsProofs, TLAPS

Kinds == [episode : BOOLEAN, series : BOOLEAN, progress : BOOLEAN]

-------------------------------------------------------------------------------
(* Scores.                                                                 *)

\* The larger and the smaller of two integers.
LEMMA MostIs ==
  ASSUME NEW a \in Int, NEW b \in Int
  PROVE  Max({a, b}) = (IF a >= b THEN a ELSE b) /\ Min({a, b}) = (IF a <= b THEN a ELSE b)
  BY DEF Max, Min

\* The larger one is an integer above both.
LEMMA MostInt ==
  ASSUME NEW a \in Int, NEW b \in Int
  PROVE  Most(a, b) \in Int /\ Most(a, b) >= a /\ Most(a, b) >= b
  BY MostIs DEF Most

\* What is clamped lies between its bounds.
LEMMA ClampIn ==
  ASSUME NEW x \in Int, NEW lo \in Int, NEW hi \in Int, lo <= hi
  PROVE  Clamp(x, lo, hi) \in Int /\ lo <= Clamp(x, lo, hi) /\ Clamp(x, lo, hi) <= hi
  <1>1. PICK m \in Int : m = Min({hi, x}) /\ m <= hi
    <2>1. Min({hi, x}) = IF hi <= x THEN hi ELSE x
      BY MostIs
    <2>2. PICK m \in Int : m = (IF hi <= x THEN hi ELSE x) /\ m <= hi
      OBVIOUS
    <2> QED
      BY <2>1, <2>2
  <1>2. {hi, x} = {x, hi}
    OBVIOUS
  <1>3. Clamp(x, lo, hi) = Max({lo, m})
    BY <1>1, <1>2 DEF Clamp
  <1> QED
    BY <1>1, <1>3, MostIs

\* A score is between 100 and 1000, whatever the record says.
LEMMA ScoreIn ==
  ASSUME NEW k \in Kinds, NEW n \in Nat, NEW h \in Nat, NEW d \in Nat
  PROVE  CacheScore(k, n, h, d) \in ScoreRange
  <1>1. PICK m \in Int : m = MediaFactor(k)
    BY DEF MediaFactor
  <1>2. PICK c \in Int : c = ContextFactor(k)
    BY DEF ContextFactor
  <1>3. PICK a \in Int : a = AccessFactor(k, h)
    <2>1. /\ Most(2880, 4320 - 20 * h) \in Int /\ Most(1080, 2880 - 6 * (h - 72)) \in Int
          /\ Most(2520, 3960 - 30 * h) \in Int /\ Most(720, 2520 - 9 * (h - 48)) \in Int
      <3>1. /\ 4320 - 20 * h \in Int /\ 2880 - 6 * (h - 72) \in Int
            /\ 3960 - 30 * h \in Int /\ 2520 - 9 * (h - 48) \in Int
        OBVIOUS
      <3> QED
        BY <3>1, MostInt
    <2> QED
      BY <2>1 DEF AccessFactor
  <1>4. PICK b \in Int : b = CreationFactor(d)
    <2>1. Most(2160, 3600 - 30 * (d - 30)) \in Int
      <3>1. 3600 - 30 * (d - 30) \in Int
        OBVIOUS
      <3> QED
        BY <3>1, MostInt
    <2> QED
      BY <2>1 DEF CreationFactor
  <1>5. PICK f \in Int : f = FreshnessFactor(k, h, d)
    <2>1. PICK x \in Int : x = 3 * a + b
      OBVIOUS
    <2>2. FreshnessFactor(k, h, d) = Clamp(x, 2880, 25920)
      BY <1>3, <1>4, <2>1 DEF FreshnessFactor
    <2> QED
      BY <2>2, ClampIn
  <1>6. PICK p \in Int : p = PopularityFactor(k, n, d)
    <2>1. PICK t \in Int : t = Most(1, 10 * d) /\ t >= 1
      <3>1. 10 * d \in Int
        OBVIOUS
      <3> QED
        BY <3>1, MostInt
    <2>2. PICK q \in Int : q = (1000 * n) \div t
      BY <2>1
    <2>3. Most(40, 80 + 2 * q) \in Int /\ Most(30, 60 + 6 * q) \in Int
      <3>1. 80 + 2 * q \in Int /\ 60 + 6 * q \in Int
        OBVIOUS
      <3> QED
        BY <3>1, MostInt
    <2>4. PICK x \in Int :
             x = IF k.episode
                 THEN IF q >= 200 THEN 160
                      ELSE IF q >= 100 THEN 130
                      ELSE IF q >= 30 THEN 100 + (3 * q) \div 2
                      ELSE Most(40, 80 + 2 * q)
                 ELSE IF q >= 50 THEN 140
                      ELSE IF q >= 20 THEN 100 + 2 * q
                      ELSE IF q >= 5 THEN 70 + 4 * q
                      ELSE Most(30, 60 + 6 * q)
      BY <2>3
    <2>5. PopularityFactor(k, n, d) = Clamp(x, 30, 180)
      BY <2>1, <2>2, <2>4 DEF PopularityFactor
    <2> QED
      BY <2>5, ClampIn
  <1>7. PICK y \in Int : y = (m * f * p * c) \div 36000
    <2>1. m * f * p * c \in Int
      OBVIOUS
    <2> QED
      BY <2>1
  <1>8. PICK lo \in Int, hi \in Int : lo = 1000 /\ hi = 10000
    OBVIOUS
  <1>9. CacheScore(k, n, h, d) = Clamp(y, lo, hi)
    BY <1>1, <1>2, <1>5, <1>6, <1>7, <1>8 DEF CacheScore
  <1>10. lo <= hi
    BY <1>8
  <1>11. Clamp(y, lo, hi) \in Int /\ lo <= Clamp(y, lo, hi) /\ Clamp(y, lo, hi) <= hi
    BY <1>10, ClampIn
  <1>12. PICK z \in Int : z = Clamp(y, lo, hi)
    BY <1>11
  <1>13. lo <= z /\ z <= hi
    BY <1>11, <1>12
  <1>14. z \in ScoreRange
    BY <1>8, <1>13 DEF ScoreRange
  <1> QED
    BY <1>9, <1>12, <1>14

-------------------------------------------------------------------------------
(* The invariant.                                                          *)

Types == /\ row \in [Entries -> Row \cup {None}]
         /\ \A e \in Entries : file[e] \in [Parts(e) -> File \cup {None}]
         /\ file = [e \in Entries |-> file[e]]
         /\ total \in Nat /\ now \in Nat /\ torn \in BOOLEAN
         /\ \A e \in Entries : saving[e] \in Parts(e) \cup {None}
         /\ saving = [e \in Entries |-> saving[e]]
         /\ next \in [Tasks -> Nat]

\* What is written is not there yet.  The dates of the files are in order, those
\* of the row past; and, unless it lost a file since, one of its files was last
\* read, before the last request for it, no later than the row says.
Agrees(e) ==
    /\ saving[e] \notin Held(e)
    /\ \A p \in Held(e) : file[e][p].before <= file[e][p].atime /\ file[e][p].atime <= now
    /\ row[e] # None => /\ row[e].created <= now /\ row[e].read <= now
                        /\ e \notin lost => \E p \in Held(e) : file[e][p].before <= row[e].read

Total == IsFiniteSet(Rows) /\ (torn \/ total = SizeOf(Rows))

Timely == created \subseteq Due /\ \A n \in Tasks : next[n] <= now + Interval[n]

Data == Types /\ (\A e \in Entries : Agrees(e)) /\ Total

Inv == Data /\ Timely

\* What every step of the scheduler and every restart leaves well typed.
Others == /\ \A e \in Entries : saving'[e] \in {saving[e], None}
          /\ saving' = [e \in Entries |-> saving'[e]]
          /\ next' \in [Tasks -> Nat] /\ now' = now

\* The rows, or the rows with other scores.
SameBut(rows) ==
    /\ rows \in [Entries -> Row \cup {None}]
    /\ \A e \in Entries : /\ rows[e] = None <=> row[e] = None
                          /\ row[e] # None => /\ rows[e].size = row[e].size
                                              /\ rows[e].created = row[e].created
                                              /\ rows[e].read = row[e].read

\* Sums of sizes do not depend on the set the function is given on.
LEMMA SizesSum ==
  ASSUME NEW t \in [Entries -> Row \cup {None}], NEW S, IsFiniteSet(S),
         \A e \in S : e \in Entries /\ t[e] # None,
         NEW f, f = [e \in Entries |-> IF t[e] = None THEN 0 ELSE t[e].size]
  PROVE  /\ Sum([e \in S |-> t[e].size], S) = Sum(f, S)
         /\ Sum(f, S) \in Nat
         /\ \A e \in Entries : f[e] \in Nat /\ (t[e] # None => f[e] = t[e].size)
  <1>1. \A e \in Entries : f[e] \in Nat /\ (t[e] # None => f[e] = t[e].size)
    BY DEF Row
  <1>2. PICK g : g = [e \in S |-> t[e].size]
    OBVIOUS
  <1>3. \A e \in S : g[e] = f[e]
    BY <1>1, <1>2
  <1>4. Sum(g, S) = Sum(f, S)
    BY <1>3, SumSame
  <1>5. \A e \in S : f[e] \in Nat
    BY <1>1
  <1> QED
    BY <1>1, <1>2, <1>4, <1>5, SumNat

\* The score of a row.
LEMMA ScoreOfRow ==
  ASSUME Data, NEW e \in Entries, NEW r \in Row, r.created <= now, r.read <= now
  PROVE  Score(e, r) \in ScoreRange
  <1>1. PICK h \in Nat : h = 24 * (now - r.read)
    BY DEF Data, Types, Row
  <1>2. PICK d \in Nat : d = now - r.created
    BY DEF Data, Types, Row
  <1>3. PICK k \in Kinds : k = Kind[e]
    BY CleanupAssumption DEF Kinds
  <1>4. PICK n \in Nat : n = r.count
    BY DEF Row
  <1>5. Score(e, r) = CacheScore(k, n, h, d)
    BY <1>1, <1>2, <1>3, <1>4 DEF Score
  <1>6. CacheScore(k, n, h, d) \in ScoreRange
    BY ScoreIn
  <1> QED
    BY <1>5, <1>6

\* A recalculation changes scores alone, to what they are now.
LEMMA Rescored ==
  ASSUME Data
  PROVE  /\ SameBut(Recalculated) /\ SameBut(row)
         /\ \A e \in Rows : Recalculated[e].score = Score(e, row[e])
  <1>1. SameBut(row)
    BY DEF SameBut, Data, Types
  <1>2. ASSUME NEW e \in Entries, row[e] # None
        PROVE  /\ Recalculated[e] \in Row /\ Recalculated[e] # None
               /\ Recalculated[e].size = row[e].size
               /\ Recalculated[e].created = row[e].created
               /\ Recalculated[e].read = row[e].read
               /\ Recalculated[e].score = Score(e, row[e])
    <2>1. PICK r \in Row : r = row[e]
      BY <1>2 DEF Data, Types
    <2>2. r.created <= now /\ r.read <= now /\ r.created \in Nat /\ r.read \in Nat
      <3>1. r.created \in Nat /\ r.read \in Nat /\ now \in Nat
        BY DEF Data, Types, Row
      <3>2. r.created <= now /\ r.read <= now
        BY <1>2, <2>1 DEF Data, Agrees
      <3> QED
        BY <3>1, <3>2
    <2>3. PICK z \in ScoreRange : z = Score(e, r)
      BY <2>2, ScoreOfRow
    <2>4. PICK y \in Row : y = [r EXCEPT !.score = z]
      BY DEF Row
    <2>5. /\ y.size = r.size /\ y.created = r.created /\ y.read = r.read
          /\ y.score = z
      BY <2>4 DEF Row
    <2>6. Recalculated[e] = y
      BY <1>2, <2>1, <2>3, <2>4 DEF Recalculated
    <2>7. y # None
      BY CleanupAssumption
    <2> QED
      BY <2>1, <2>3, <2>5, <2>6, <2>7
  <1>3. ASSUME NEW e \in Entries, row[e] = None PROVE Recalculated[e] = None
    BY <1>3 DEF Recalculated
  <1>4. Recalculated \in [Entries -> Row \cup {None}]
    <2>1. \A e \in Entries : Recalculated[e] \in Row \cup {None}
      BY <1>2, <1>3
    <2> QED
      BY <2>1 DEF Recalculated
  <1> QED
    BY <1>1, <1>2, <1>3, <1>4 DEF SameBut, Rows
-------------------------------------------------------------------------------
(* Steps.                                                                  *)

\* The sum of the rows is that of those removed and those left.
LEMMA SizesLeft ==
  ASSUME Data, NEW S \in SUBSET Rows, NEW rows, SameBut(rows),
         row' = [e \in Entries |-> IF e \in S THEN None ELSE rows[e]]
  PROVE  /\ IsFiniteSet(Rows)' /\ SizeOf(S) \in Nat /\ SizeOf(Rows)' \in Nat
         /\ SizeOf(Rows) = SizeOf(S) + SizeOf(Rows)'
  <1>1. IsFiniteSet(Rows) /\ Rows \subseteq Entries
    BY DEF Data, Total, Rows
  <1>2. row' \in [Entries -> Row \cup {None}]
    BY DEF SameBut
  <1>5. PICK t, u : t = row /\ u = row'
    OBVIOUS
  <1>6. PICK f, g : /\ f = [e \in Entries |-> IF t[e] = None THEN 0 ELSE t[e].size]
                    /\ g = [e \in Entries |-> IF u[e] = None THEN 0 ELSE u[e].size]
    OBVIOUS
  <1>7. PICK R : R = Rows \ S
    OBVIOUS
  <1>8. Rows' = R
    BY <1>7 DEF Rows, SameBut
  <1>9. /\ IsFiniteSet(S) /\ IsFiniteSet(R) /\ IsFiniteSet(Rows)
        /\ \A e \in Rows : e \in Entries /\ t[e] # None
        /\ \A e \in R : e \in Rows /\ u[e] # None /\ u[e].size = t[e].size
    BY <1>1, <1>5, <1>7, FS_Subset DEF Rows, SameBut
  <1>10. t \in [Entries -> Row \cup {None}] /\ u \in [Entries -> Row \cup {None}]
    BY <1>2, <1>5 DEF Data, Types
  <1>11. /\ SizeOf(Rows) = Sum(f, Rows) /\ SizeOf(S) = Sum(f, S) /\ Sum(f, S) \in Nat
         /\ \A e \in Rows : f[e] \in Nat /\ f[e] = t[e].size
    <2>1. SizeOf(Rows) = Sum([e \in Rows |-> t[e].size], Rows)
          /\ SizeOf(S) = Sum([e \in S |-> t[e].size], S)
      BY <1>5 DEF SizeOf
    <2>2. /\ Sum([e \in Rows |-> t[e].size], Rows) = Sum(f, Rows)
          /\ \A e \in Entries : f[e] \in Nat /\ (t[e] # None => f[e] = t[e].size)
      BY <1>6, <1>9, <1>10, SizesSum
    <2>3. \A e \in S : e \in Entries /\ t[e] # None
      BY <1>9
    <2>4. Sum([e \in S |-> t[e].size], S) = Sum(f, S) /\ Sum(f, S) \in Nat
      BY <1>6, <1>9, <1>10, <2>3, SizesSum
    <2> QED
      BY <1>9, <2>1, <2>2, <2>4
  <1>12. /\ SizeOf(Rows)' = Sum(g, R) /\ Sum(g, R) \in Nat
         /\ \A e \in R : g[e] = u[e].size
    <2>1. SizeOf(Rows)' = Sum([e \in R |-> u[e].size], R)
      BY <1>5, <1>8 DEF SizeOf
    <2>2. \A e \in R : e \in Entries /\ u[e] # None
      BY <1>9
    <2>3. /\ Sum([e \in R |-> u[e].size], R) = Sum(g, R) /\ Sum(g, R) \in Nat
          /\ \A e \in Entries : g[e] \in Nat /\ (u[e] # None => g[e] = u[e].size)
      BY <1>6, <1>9, <1>10, <2>2, SizesSum
    <2> QED
      BY <2>1, <2>2, <2>3
  <1>13. Sum(g, R) = Sum(f, R)
    <2>1. \A e \in R : g[e] = f[e]
      BY <1>9, <1>11, <1>12
    <2> QED
      BY <1>9, <2>1, SumSame
  <1>14. Sum(f, Rows) = Sum(f, S) + Sum(f, R)
    <2>1. Sum(f, Rows) = Sum(f, S) + Sum(f, Rows \ S)
      BY <1>9, <1>11, SumSplit
    <2> QED
      BY <1>7, <2>1
  <1> QED
    BY <1>8, <1>9, <1>11, <1>12, <1>13, <1>14

\* What is left of cache_size.
LEMMA TotalLeft ==
  ASSUME total \in Nat, NEW S, SizeOf(S) \in Nat
  PROVE  /\ TotalWithout(S) \in Nat
         /\ TotalWithout(S) >= total - SizeOf(S)
         /\ TotalWithout(S) = 0 \/ TotalWithout(S) = total - SizeOf(S)
         /\ total >= SizeOf(S) => TotalWithout(S) = total - SizeOf(S)
  BY DEF TotalWithout

\* Directories are removed, some of them in part, and the scores of the others
\* may change.
LEMMA RemoveInv ==
  ASSUME Data, NEW gone \in SUBSET Rows, NEW uncounted \in SUBSET Rows, NEW hurt,
         NEW rows, SameBut(rows), Remove(gone, uncounted, hurt, rows), Others
  PROVE  /\ Data' /\ SizeOf(gone) \in Nat /\ total' >= total - SizeOf(gone)
         /\ total' = 0 \/ total' = total - SizeOf(gone)
         /\ \A e \in Entries : Gone(e) <=> e \in gone \cup uncounted
  <1>1. PICK S : S = gone \cup uncounted
    OBVIOUS
  <1>2. PICK lose \in SUBSET UNION {{e} \X Held(e) : e \in hurt} :
          /\ row' = [e \in Entries |-> IF e \in S THEN None ELSE rows[e]]
          /\ file' = [e \in Entries |->
                        [p \in Parts(e) |-> IF e \in S \/ <<e, p>> \in lose
                                           THEN None ELSE file[e][p]]]
          /\ total' = TotalWithout(gone)
          /\ torn' = (torn \/ uncounted # {})
          /\ lost' = (lost \ S) \cup {x[1] : x \in lose}
    BY <1>1 DEF Remove
  <1>3. row' \in [Entries -> Row \cup {None}]
    BY <1>2 DEF SameBut
  <1>4. ASSUME NEW e \in Entries
        PROVE  /\ file'[e] \in [Parts(e) -> File \cup {None}]
               /\ \A p \in Held(e)' : p \in Held(e) /\ file'[e][p] = file[e][p]
    BY <1>2 DEF Data, Types, Held
  <1>5. file' = [e \in Entries |-> file'[e]]
    BY <1>2
  <1>6. ASSUME NEW e \in Entries PROVE Agrees(e)'
    <2>1. Agrees(e) /\ now' = now
      BY DEF Data, Others
    <2>2. /\ saving'[e] \notin Held(e)'
          /\ \A p \in Held(e)' : file'[e][p].before <= file'[e][p].atime /\ file'[e][p].atime <= now'
      <3>1. None \notin Parts(e)
        BY CleanupAssumption
      <3> QED
        BY <1>4, <2>1, <3>1 DEF Agrees, Others, Held
    <2>3. CASE row'[e] # None
      <3>1. e \notin S /\ row'[e] = rows[e] /\ row[e] # None
        BY <1>2, <2>3 DEF SameBut
      <3>2. /\ row'[e].created = row[e].created /\ row'[e].read = row[e].read
        BY <3>1 DEF SameBut
      <3>3. ASSUME e \notin lost' PROVE \E p \in Held(e)' : file'[e][p].before <= row'[e].read
        <4>1. e \notin lost /\ \A p \in Parts(e) : <<e, p>> \notin lose
          <5>1. \A p \in Parts(e) : <<e, p>>[1] = e
            OBVIOUS
          <5> QED
            BY <1>2, <3>1, <3>3, <5>1
        <4>2. \A p \in Parts(e) : file'[e][p] = file[e][p]
          BY <1>2, <3>1, <4>1
        <4>3. Held(e)' = Held(e)
          BY <4>2 DEF Held
        <4> QED
          BY <2>1, <3>1, <3>2, <4>1, <4>2, <4>3 DEF Agrees, Held
      <3> QED
        BY <2>1, <2>2, <3>1, <3>2, <3>3 DEF Agrees
    <2> QED
      BY <2>2, <2>3 DEF Agrees
  <1>7. IsFiniteSet(Rows)' /\ SizeOf(Rows) = SizeOf(S) + SizeOf(Rows)' /\ SizeOf(Rows)' \in Nat
        /\ SizeOf(S) \in Nat
    <2>1. S \in SUBSET Rows
      BY <1>1
    <2> QED
      BY <1>2, <2>1, SizesLeft
  <1>8. SizeOf(gone) \in Nat
    <2>1. PICK t, T : t = row /\ T = gone
      OBVIOUS
    <2>2. PICK f : f = [e \in Entries |-> IF t[e] = None THEN 0 ELSE t[e].size]
      OBVIOUS
    <2>3. t \in [Entries -> Row \cup {None}] /\ IsFiniteSet(T)
          /\ \A e \in T : e \in Entries /\ t[e] # None
      BY <2>1, FS_Subset DEF Data, Types, Total, Rows
    <2>4. Sum([e \in T |-> t[e].size], T) \in Nat
      BY <2>2, <2>3, SizesSum
    <2> QED
      BY <2>1, <2>4 DEF SizeOf
  <1>9. total \in Nat
    BY DEF Data, Types
  <1>10. /\ total' \in Nat /\ total' >= total - SizeOf(gone)
         /\ total' = 0 \/ total' = total - SizeOf(gone)
         /\ total >= SizeOf(gone) => total' = total - SizeOf(gone)
    <2>1. total' = TotalWithout(gone)
      BY <1>2
    <2> QED
      BY <1>8, <1>9, <2>1, TotalLeft
  <1>11. torn' \/ total' = SizeOf(Rows)'
    <2>1. CASE torn \/ uncounted # {}
      BY <1>2, <2>1
    <2>2. CASE ~torn /\ uncounted = {}
      <3>1. total = SizeOf(Rows) /\ S = gone
        BY <1>1, <2>2 DEF Data, Total
      <3>2. total = SizeOf(gone) + SizeOf(Rows)'
        BY <1>7, <3>1
      <3> QED
        BY <1>7, <1>8, <1>10, <3>2
    <2> QED
      BY <2>1, <2>2
  <1>12. Types'
    <2>1. torn' \in BOOLEAN
      BY <1>2
    <2>2. \A e \in Entries : saving'[e] \in Parts(e) \cup {None}
      BY DEF Others, Data, Types
    <2> QED
      BY <1>3, <1>4, <1>5, <1>9, <1>10, <2>1, <2>2 DEF Data, Types, Others
  <1>13. Total'
    BY <1>7, <1>11 DEF Total
  <1>14. \A e \in Entries : Gone(e) <=> e \in S
    BY <1>1, <1>2 DEF SameBut, Gone, Rows
  <1> QED
    BY <1>1, <1>6, <1>8, <1>10, <1>12, <1>13, <1>14 DEF Data

\* The rows and cache_size go on as they are when every row keeps its size.
LEMMA SameTotal ==
  ASSUME Data, Rows' = Rows, \A d \in Rows : row'[d].size = row[d].size,
         UNCHANGED <<total, torn>>
  PROVE  Total'
  <1>1. [d \in Rows' |-> row'[d].size] = [d \in Rows |-> row[d].size]
    OBVIOUS
  <1>2. SizeOf(Rows)' = SizeOf(Rows)
    BY <1>1 DEF SizeOf
  <1> QED
    BY <1>2 DEF Data, Total

\* A request takes the time of the one before.
LEMMA AccessInv ==
  ASSUME Data, NEW e \in Entries, Access(e)
  PROVE  Data'
  <1>1. PICK p \in Held(e) :
           /\ row' = [row EXCEPT ![e] = IF @ = None THEN None ELSE LookedUp(e, p)]
           /\ file' = [file EXCEPT ![e][p] = [atime |-> now, before |-> file[e][p].atime]]
    BY DEF Access
  <1>2. /\ UNCHANGED <<total, saving, next, torn, now>> /\ lost' = lost \ {e}
        /\ p \in Parts(e) /\ file[e][p] # None
    BY DEF Access, Held
  <1>3. PICK x \in File : x = file[e][p]
    BY <1>2 DEF Data, Types
  <1>4. PICK a \in Nat : a = x.atime /\ a <= now
    BY <1>1, <1>3 DEF File, Data, Agrees
  <1>5. now \in Nat
    BY DEF Data, Types
  <1>6. PICK y \in File : y = [atime |-> now, before |-> a] /\ y.atime = now /\ y.before = a
    <2>1. [atime |-> now, before |-> a] \in File
      BY <1>5 DEF File
    <2> QED
      BY <2>1
  <1>7. /\ \A d \in Entries : file'[d] \in [Parts(d) -> File \cup {None}]
        /\ file' = [d \in Entries |-> file'[d]]
        /\ file'[e][p] = y /\ \A q \in Parts(e) : q # p => file'[e][q] = file[e][q]
        /\ \A d \in Entries : d # e => file'[d] = file[d]
    <2>1. file' = [file EXCEPT ![e][p] = y]
      BY <1>1, <1>3, <1>4, <1>6
    <2> QED
      BY <1>2, <2>1 DEF Data, Types
  <1>8. y # None
    BY CleanupAssumption
  <1>9. \A d \in Entries : Held(d)' = Held(d)
    BY <1>2, <1>7, <1>8 DEF Held
  <1>10. /\ row' \in [Entries -> Row \cup {None}]
         /\ row[e] = None => row'[e] = None
         /\ row[e] # None => /\ row'[e] # None /\ row'[e].size = row[e].size
                             /\ row'[e].created = row[e].created /\ row'[e].read = a
         /\ \A d \in Entries : d # e => row'[d] = row[d]
    <2>1. CASE row[e] = None
      <3>1. row' = [row EXCEPT ![e] = None]
        BY <1>1, <2>1
      <3> QED
        BY <2>1, <3>1 DEF Data, Types
    <2>2. CASE row[e] # None
      <3>1. PICK r \in Row : r = row[e]
        BY <2>2 DEF Data, Types
      <3>2. PICK s \in Row : /\ s = [r EXCEPT !.read = a]
                             /\ s.size = r.size /\ s.created = r.created /\ s.read = a
        <4>1. PICK s \in Row : s = [r EXCEPT !.read = a]
          BY DEF Row
        <4>2. s.size = r.size /\ s.created = r.created /\ s.read = a
          BY <4>1 DEF Row
        <4> QED
          BY <4>1, <4>2
      <3>3. row' = [row EXCEPT ![e] = s]
        <4>1. LookedUp(e, p) = s
          BY <1>3, <1>4, <3>1, <3>2 DEF LookedUp
        <4> QED
          BY <1>1, <2>2, <4>1
      <3>4. s # None
        BY CleanupAssumption
      <3> QED
        BY <2>2, <3>1, <3>2, <3>3, <3>4 DEF Data, Types
    <2> QED
      BY <2>1, <2>2
  <1>11. Agrees(e)'
    <2>1. ASSUME NEW q \in Held(e)
          PROVE  file'[e][q].before <= file'[e][q].atime /\ file'[e][q].atime <= now
      <3>1. CASE q = p
        BY <1>4, <1>5, <1>6, <1>7, <3>1
      <3>2. CASE q # p
        BY <1>7, <3>2 DEF Held, Data, Agrees
      <3> QED
        BY <3>1, <3>2
    <2>2. ASSUME row'[e] # None
          PROVE  /\ row'[e].created <= now /\ row'[e].read <= now
                 /\ file'[e][p].before <= row'[e].read
      <3>1. row[e] # None
        BY <1>10, <2>2
      <3> QED
        BY <1>4, <1>6, <1>7, <1>10, <3>1 DEF Data, Agrees
    <2>3. saving'[e] \notin Held(e)'
      BY <1>2, <1>9 DEF Data, Agrees
    <2> QED
      BY <1>1, <1>2, <1>9, <2>1, <2>2, <2>3 DEF Agrees
  <1>12. ASSUME NEW d \in Entries, d # e PROVE Agrees(d)'
    BY <1>2, <1>7, <1>9, <1>10, <1>12 DEF Data, Agrees
  <1>13. Total'
    <2>1. Rows' = Rows /\ \A d \in Rows : row'[d].size = row[d].size
      BY <1>10 DEF Rows
    <2> QED
      BY <1>2, <2>1, SameTotal
  <1>14. Types'
    BY <1>2, <1>7, <1>10 DEF Data, Types
  <1> QED
    BY <1>11, <1>12, <1>13, <1>14 DEF Data

\* What is superfluous goes, unknown to the row.
LEMMA BeginSaveInv ==
  ASSUME Data, NEW e \in Entries, BeginSave(e)
  PROVE  Data'
  <1>1. PICK p \in Parts(e) \ Held(e), S \in SUBSET Held(e) :
           /\ file' = [file EXCEPT ![e] = [q \in Parts(e) |-> IF q \in S THEN None ELSE @[q]]]
           /\ lost' = IF S = {} THEN lost ELSE lost \cup {e}
           /\ saving' = [saving EXCEPT ![e] = p] \/ UNCHANGED saving
    BY DEF BeginSave, Savable
  <1>2. UNCHANGED <<row, total, next, torn, now>>
    BY DEF BeginSave
  <1>3. /\ \A d \in Entries : file'[d] \in [Parts(d) -> File \cup {None}]
        /\ file' = [d \in Entries |-> file'[d]]
        /\ \A q \in Parts(e) : file'[e][q] = IF q \in S THEN None ELSE file[e][q]
        /\ \A d \in Entries : d # e => file'[d] = file[d]
    BY <1>1 DEF Data, Types
  <1>4. /\ Held(e)' = Held(e) \ S /\ \A q \in Held(e)' : file'[e][q] = file[e][q]
        /\ \A d \in Entries : d # e => Held(d)' = Held(d)
    BY <1>3 DEF Held
  <1>5. Agrees(e)'
    <2>0. saving'[e] \notin Held(e)'
      <3>1. saving'[e] = p \/ saving'[e] = saving[e]
        BY <1>1 DEF Data, Types
      <3> QED
        BY <1>1, <1>4, <3>1 DEF Data, Agrees
    <2>1. \A q \in Held(e)' : file'[e][q].before <= file'[e][q].atime /\ file'[e][q].atime <= now
      BY <1>4 DEF Data, Agrees
    <2>2. e \notin lost' => e \notin lost /\ S = {}
      BY <1>1
    <2> QED
      BY <1>2, <1>4, <2>0, <2>1, <2>2 DEF Data, Agrees
  <1>6. ASSUME NEW d \in Entries, d # e PROVE Agrees(d)'
    <2>1. saving'[d] = saving[d]
      BY <1>1, <1>6 DEF Data, Types
    <2> QED
      BY <1>1, <1>2, <1>3, <1>4, <1>6, <2>1 DEF Data, Agrees
  <1>7. Total'
    <2>1. Rows' = Rows /\ \A d \in Rows : row'[d].size = row[d].size
      BY <1>2 DEF Rows
    <2> QED
      BY <1>2, <2>1, SameTotal
  <1>8. Types'
    BY <1>1, <1>2, <1>3 DEF Data, Types
  <1> QED
    BY <1>5, <1>6, <1>7, <1>8 DEF Data

\* The file that appears, read now.
LEMMA AppearsIs ==
  ASSUME Data, NEW e \in Entries, NEW p \in Parts(e), Appears(e, p)
  PROVE  /\ \A d \in Entries : file'[d] \in [Parts(d) -> File \cup {None}]
         /\ file' = [d \in Entries |-> file'[d]]
         /\ p \in Held(e)' /\ file'[e][p].before = now
         /\ \A d \in Entries : d # e => file'[d] = file[d] /\ Held(d)' = Held(d)
         /\ \A q \in Held(e) : q \in Held(e)' /\ (q # p => file'[e][q] = file[e][q])
         /\ \A q \in Held(e)' :
               file'[e][q].before <= file'[e][q].atime /\ file'[e][q].atime <= now
  <1>1. PICK y \in File : y = [atime |-> now, before |-> now] /\ y.atime = now /\ y.before = now
    <2>1. [atime |-> now, before |-> now] \in File
      BY DEF File, Data, Types
    <2> QED
      BY <2>1
  <1>2. y # None
    BY CleanupAssumption
  <1>3. /\ \A d \in Entries : file'[d] \in [Parts(d) -> File \cup {None}]
        /\ file' = [d \in Entries |-> file'[d]]
        /\ file'[e][p] = y /\ \A q \in Parts(e) : q # p => file'[e][q] = file[e][q]
        /\ \A d \in Entries : d # e => file'[d] = file[d]
    <2>1. file' = [file EXCEPT ![e][p] = y]
      BY <1>1 DEF Appears
    <2> QED
      BY <2>1 DEF Data, Types
  <1>4. /\ \A d \in Entries : d # e => Held(d)' = Held(d)
        /\ Held(e)' = Held(e) \cup {p}
    BY <1>2, <1>3 DEF Held
  <1>5. now \in Nat /\ Agrees(e)
    BY DEF Data, Types
  <1>6. ASSUME NEW q \in Held(e)'
        PROVE  file'[e][q].before <= file'[e][q].atime /\ file'[e][q].atime <= now
    <2>1. CASE q = p
      BY <1>1, <1>3, <1>5, <2>1
    <2>2. CASE q # p
      BY <1>3, <1>4, <1>5, <2>2 DEF Agrees, Held
    <2> QED
      BY <2>1, <2>2
  <1> QED
    BY <1>1, <1>3, <1>4, <1>6 DEF Held

\* A file that gets no row.
LEMMA CutOffInv ==
  ASSUME Data, NEW e \in Entries, SaveCutOff(e)
  PROVE  Data'
  <1>1. PICK p \in Parts(e) : p = saving[e]
    BY DEF SaveCutOff, Data, Types
  <1>2. /\ Appears(e, p) /\ saving' = [saving EXCEPT ![e] = None]
        /\ UNCHANGED <<row, total, next, torn, lost, now>>
    BY <1>1 DEF SaveCutOff, Saved, ghost
  <1>3. Agrees(e)'
    <2>1. None \notin Parts(e) /\ p \notin Held(e) /\ saving'[e] = None
      BY <1>1, <1>2, CleanupAssumption DEF Data, Types, Agrees
    <2>2. ASSUME row[e] # None, e \notin lost
          PROVE  \E r \in Held(e)' : file'[e][r].before <= row[e].read
      <3>1. PICK q \in Held(e) : file[e][q].before <= row[e].read
        BY <2>2 DEF Data, Agrees
      <3>2. q # p
        BY <2>1
      <3> QED
        BY <1>2, <3>1, <3>2, AppearsIs
    <2>3. saving'[e] \notin Held(e)'
      BY <2>1 DEF Held
    <2> QED
      BY <1>2, <2>2, <2>3, AppearsIs DEF Data, Agrees
  <1>4. ASSUME NEW d \in Entries, d # e PROVE Agrees(d)'
    <2>1. saving'[d] = saving[d]
      BY <1>2, <1>4 DEF Data, Types
    <2> QED
      BY <1>2, <1>4, <2>1, AppearsIs DEF Data, Agrees
  <1>5. Total'
    <2>1. Rows' = Rows /\ \A d \in Rows : row'[d].size = row[d].size
      BY <1>2 DEF Rows
    <2> QED
      BY <1>2, <2>1, SameTotal
  <1>6. Types'
    BY <1>2, AppearsIs DEF Data, Types
  <1> QED
    BY <1>3, <1>4, <1>5, <1>6 DEF Data

\* The row after one more file: its dates are those of now, its size
\* takes the file in.
LEMMA RowsWithIs ==
  ASSUME Data, NEW e \in Entries, NEW p \in Parts(e), NEW r \in RowsWith(e, p)
  PROVE  /\ r \in Row
         /\ r.size = Bytes[e][p] + (IF row[e] = None THEN 0 ELSE row[e].size)
         /\ r.created = (IF row[e] = None THEN now ELSE row[e].created)
         /\ r.read = now
  <1>1. PICK b \in Nat : b = Bytes[e][p]
    BY CleanupAssumption
  <1>2. now \in Nat
    BY DEF Data, Types
  <1>3. ASSUME NEW x \in Row, x.created <= now, x.read = now
        PROVE  LET y == [x EXCEPT !.score = Score(e, x)]
               IN  /\ y \in Row /\ y.size = x.size
                   /\ y.created = x.created /\ y.read = x.read
    <2>1. x.read <= now
      BY <1>2, <1>3
    <2>2. PICK z \in ScoreRange : z = Score(e, x)
      BY <1>3, <2>1, ScoreOfRow
    <2> QED
      BY <2>2 DEF Row
  <1>4. CASE row[e] = None
    <2>1. PICK new \in Row : new = [size |-> b, score |-> 4000, created |-> now,
                                   read |-> now, count |-> 1]
      <3>1. PICK z \in ScoreRange : z = 4000
        BY DEF ScoreRange
      <3>2. [size |-> b, score |-> z, created |-> now, read |-> now, count |-> 1] \in Row
        BY <1>2 DEF Row
      <3> QED
        BY <3>1, <3>2
    <2>2. new.created = now /\ new.read = now /\ new.size = b
      BY <2>1
    <2>3. r = [new EXCEPT !.score = Score(e, new)]
      BY <1>1, <1>4, <2>1 DEF RowsWith
    <2>4. new.created <= now
      BY <1>2, <2>2
    <2> QED
      BY <1>1, <1>3, <1>4, <2>2, <2>3, <2>4
  <1>5. CASE row[e] # None
    <2>1. PICK x \in Row : x = row[e]
      BY <1>5 DEF Data, Types
    <2>2. PICK m \in Nat, c \in Nat : m = x.size + b /\ c = x.count + 1
      BY DEF Row
    <2>3. PICK old : old = [x EXCEPT !.size = m, !.count = c, !.read = now]
      OBVIOUS
    <2>4. /\ old \in Row /\ old.size = m /\ old.read = now
          /\ old.created = x.created
      BY <1>2, <2>3 DEF Row
    <2>5. [row[e] EXCEPT !.size = @ + Bytes[e][p], !.count = @ + 1, !.read = now] = old
      BY <1>1, <2>1, <2>2, <2>3 DEF Row
    <2>6. r = old \/ r = [old EXCEPT !.score = Score(e, old)]
      <3>1. PICK o : o = [row[e] EXCEPT !.size = @ + Bytes[e][p], !.count = @ + 1,
                                        !.read = now]
        OBVIOUS
      <3>2. r = o \/ r = [o EXCEPT !.score = Score(e, o)]
        BY <1>5, <3>1 DEF RowsWith
      <3> QED
        BY <2>5, <3>1, <3>2
    <2>7. old.created <= now
      <3>1. x.created <= now
        BY <1>5, <2>1 DEF Data, Agrees
      <3> QED
        BY <2>4, <3>1
    <2>8. /\ r \in Row /\ r.size = old.size
          /\ r.created = old.created /\ r.read = old.read
      BY <1>3, <2>4, <2>6, <2>7
    <2>9. m = b + x.size
      BY <2>2 DEF Row
    <2> QED
      BY <1>1, <1>5, <2>1, <2>4, <2>8, <2>9
  <1> QED
    BY <1>4, <1>5

\* One more file, and the row with it; cache_size follows, or a restart tears it
\* off.
LEMMA SavedInv ==
  ASSUME Data, NEW e \in Entries, NEW p \in Parts(e), Appears(e, p),
         \E r \in RowsWith(e, p) : row' = [row EXCEPT ![e] = r],
         lost' = lost \ {e}, saving'[e] = None, Others,
         \/ total' = total + Bytes[e][p] /\ torn' = torn
         \/ total' = total /\ torn' = TRUE
  PROVE  Data' /\ \A d \in Entries : ~Gone(d)
  <1>1. PICK r \in RowsWith(e, p) : row' = [row EXCEPT ![e] = r]
    OBVIOUS
  <1>2. /\ r \in Row
        /\ r.size = Bytes[e][p] + (IF row[e] = None THEN 0 ELSE row[e].size)
        /\ r.created = (IF row[e] = None THEN now ELSE row[e].created)
        /\ r.read = now
    BY RowsWithIs
  <1>3. r # None /\ None \notin Parts(e)
    BY <1>2, CleanupAssumption
  <1>4. /\ row' \in [Entries -> Row \cup {None}] /\ row'[e] = r
        /\ \A d \in Entries : d # e => row'[d] = row[d]
    BY <1>1, <1>2 DEF Data, Types
  <1>5. now \in Nat /\ total \in Nat /\ now' = now
    BY DEF Data, Types, Others
  <1>6. PICK b \in Nat : b = Bytes[e][p]
    BY CleanupAssumption
  <1>7. Agrees(e)'
    <2>1. r.created <= now /\ r.read <= now
      BY <1>2, <1>5 DEF Data, Agrees
    <2>2. saving'[e] \notin Held(e)'
      BY <1>3 DEF Held
    <2>3. p \in Held(e)' /\ file'[e][p].before <= r.read
      BY <1>2, <1>5, AppearsIs
    <2> QED
      BY <1>4, <1>5, <2>1, <2>2, <2>3, AppearsIs DEF Agrees
  <1>8. ASSUME NEW d \in Entries, d # e PROVE Agrees(d)'
    <2>1. saving'[d] = saving[d] \/ saving'[d] = None
      BY DEF Others
    <2>2. None \notin Parts(d) /\ Held(d) \subseteq Parts(d)
      BY CleanupAssumption DEF Held
    <2>3. Held(d)' = Held(d) /\ file'[d] = file[d] /\ row'[d] = row[d] /\ Agrees(d)
      BY <1>4, <1>8, AppearsIs DEF Data
    <2>4. saving'[d] \notin Held(d)'
      BY <2>1, <2>2, <2>3 DEF Agrees
    <2> QED
      BY <1>5, <1>8, <2>3, <2>4 DEF Agrees
  <1>9. PICK t, u, T, U : t = row /\ u = row' /\ T = Rows /\ U = Rows'
    OBVIOUS
  <1>10. PICK R : R = T \ {e}
    OBVIOUS
  <1>11. /\ IsFiniteSet(T) /\ IsFiniteSet(R)
         /\ U = R \cup {e} /\ e \notin R /\ (e \notin T => R = T) /\ IsFiniteSet(U)
    <2>1. IsFiniteSet(T)
      BY <1>9 DEF Data, Total
    <2>2. U = R \cup {e}
      BY <1>3, <1>4, <1>9, <1>10 DEF Rows
    <2>3. IsFiniteSet(R) /\ IsFiniteSet(R \cup {e})
      BY <1>10, <2>1, FS_RemoveElement, FS_AddElement
    <2> QED
      BY <1>10, <2>1, <2>2, <2>3
  <1>12. ASSUME total' = total + Bytes[e][p], ~torn
         PROVE  total' = SizeOf(Rows)'
    <2>1. total = SizeOf(Rows)
      BY <1>12 DEF Data, Total
    <2>4. PICK f, g : /\ f = [d \in Entries |-> IF t[d] = None THEN 0 ELSE t[d].size]
                      /\ g = [d \in Entries |-> IF u[d] = None THEN 0 ELSE u[d].size]
      OBVIOUS
    <2>5. /\ t \in [Entries -> Row \cup {None}] /\ u \in [Entries -> Row \cup {None}]
          /\ \A d \in T : d \in Entries /\ t[d] # None
          /\ \A d \in U : d \in Entries /\ u[d] # None
          /\ \A d \in R : d \in Entries /\ u[d] = t[d]
      BY <1>4, <1>9, <1>10 DEF Data, Types, Rows
    <2>6. /\ SizeOf(Rows) = Sum(f, T)
          /\ \A d \in Entries : f[d] \in Nat /\ (t[d] # None => f[d] = t[d].size)
      <3>1. SizeOf(Rows) = Sum([d \in T |-> t[d].size], T)
        BY <1>9 DEF SizeOf
      <3> QED
        BY <1>11, <2>4, <2>5, <3>1, SizesSum
    <2>7. /\ SizeOf(Rows)' = Sum(g, U)
          /\ \A d \in Entries : g[d] \in Nat /\ (u[d] # None => g[d] = u[d].size)
      <3>1. SizeOf(Rows)' = Sum([d \in U |-> u[d].size], U)
        BY <1>9 DEF SizeOf
      <3> QED
        BY <1>11, <2>4, <2>5, <3>1, SizesSum
    <2>8. Sum(g, R) = Sum(f, R) /\ Sum(f, R) \in Nat
      <3>1. \A d \in R : g[d] = f[d] /\ f[d] \in Nat
        BY <2>4, <2>5, <2>6
      <3> QED
        BY <1>11, <3>1, SumSame, SumNat
    <2>9. Sum(g, U) = g[e] + Sum(g, R)
      <3>1. g[e] \in Nat /\ \A d \in R : g[d] \in Nat
        BY <2>5, <2>7
      <3> QED
        BY <1>11, <3>1, SumAdd
    <2>10. Sum(f, T) = f[e] + Sum(f, R)
      <3>1. CASE e \in T
        <4>1. \A d \in T : f[d] \in Nat
          BY <2>5, <2>6
        <4> QED
          BY <1>10, <1>11, <3>1, <4>1, SumRemove
      <3>2. CASE e \notin T
        <4>1. f[e] = 0 /\ R = T
          BY <1>9, <1>11, <2>4, <3>2 DEF Rows
        <4> QED
          BY <2>8, <4>1
      <3> QED
        BY <3>1, <3>2
    <2>11. g[e] = b + f[e] /\ f[e] \in Nat
      <3>1. g[e] = r.size
        BY <1>3, <1>4, <1>9, <2>7
      <3>2. f[e] = IF row[e] = None THEN 0 ELSE row[e].size
        BY <1>9, <2>4
      <3> QED
        BY <1>2, <1>6, <2>6, <3>1, <3>2
    <2>12. total' = Sum(f, T) + b
      BY <1>6, <1>12, <2>1, <2>6
    <2>13. SizeOf(Rows)' = (b + f[e]) + Sum(f, R)
      BY <2>7, <2>8, <2>9, <2>11
    <2> QED
      BY <2>8, <2>10, <2>11, <2>12, <2>13
  <1>13. Total'
    <2>1. IsFiniteSet(Rows)'
      BY <1>9, <1>11
    <2> QED
      BY <1>12, <2>1 DEF Total
  <1>14. Types'
    <2>1. total' \in Nat
      BY <1>5, <1>6
    <2>2. \A d \in Entries : saving'[d] \in Parts(d) \cup {None}
      BY DEF Others, Data, Types
    <2>3. torn' \in BOOLEAN
      BY DEF Data, Types
    <2> QED
      BY <1>4, <1>5, <2>1, <2>2, <2>3, AppearsIs DEF Others, Types
  <1>15. \A d \in Entries : ~Gone(d)
    BY <1>3, <1>4 DEF Gone
  <1> QED
    BY <1>7, <1>8, <1>13, <1>14, <1>15 DEF Data

\* A save that comes to its end.
LEMMA EndSaveInv ==
  ASSUME Data, NEW e \in Entries, EndSave(e)
  PROVE  Data' /\ \A d \in Entries : ~Gone(d)
  <1>1. PICK p \in Parts(e) : p = saving[e]
    BY DEF EndSave, Data, Types
  <1>2. /\ Appears(e, p) /\ lost' = lost \ {e} /\ torn' = torn
        /\ \E r \in RowsWith(e, p) : row' = [row EXCEPT ![e] = r]
        /\ total' = total + Bytes[e][p]
    BY <1>1 DEF EndSave
  <1>3. saving'[e] = None /\ Others
    BY DEF EndSave, Saved, Others, Data, Types
  <1> QED
    BY <1>2, <1>3, SavedInv

-------------------------------------------------------------------------------
(* What a check or a weekly round removes.                                 *)

\* A set of indices has a least one,
LEMMA LeastIndex ==
  ASSUME NEW n \in Nat, NEW J \in SUBSET (1..n), J # {}
  PROVE  \E j \in J : \A k \in J : j <= k
  <1>1. PICK T : T = {1..j : j \in J}
    OBVIOUS
  <1>2. PICK N : N = 1..n /\ IsFiniteSet(N)
    BY FS_Interval
  <1>3. PICK s \in T : \A t \in T : t \subseteq s => t = s
    <2>1. \A j \in J : 1..j \in SUBSET N
      BY <1>2
    <2>2. T \in SUBSET (SUBSET N)
      BY <1>1, <2>1
    <2>3. T # {} /\ IsFiniteSet(N)
      BY <1>1, <1>2
    <2> QED
      BY <2>2, <2>3, MinimalSet
  <1>4. PICK j \in J : s = 1..j
    BY <1>1, <1>3
  <1>5. ASSUME NEW k \in J, k < j PROVE FALSE
    <2>1. 1..k \in T /\ 1..k \subseteq s
      BY <1>1, <1>4, <1>5
    <2>2. 1..k = 1..j
      BY <1>3, <1>4, <2>1
    <2>3. j \in 1..j /\ j \notin 1..k
      BY <1>5
    <2> QED
      BY <2>2, <2>3
  <1> QED
    BY <1>5

\* and a greatest one.
LEMMA GreatestIndex ==
  ASSUME NEW n \in Nat, NEW J \in SUBSET (1..n), J # {}
  PROVE  \E j \in J : \A k \in J : k <= j
  <1>1. PICK T : T = {j..n : j \in J}
    OBVIOUS
  <1>2. PICK N : N = 1..n /\ IsFiniteSet(N)
    BY FS_Interval
  <1>3. PICK s \in T : \A t \in T : t \subseteq s => t = s
    <2>1. \A j \in J : j..n \in SUBSET N
      BY <1>2
    <2>2. T \in SUBSET (SUBSET N)
      BY <1>1, <2>1
    <2>3. T # {} /\ IsFiniteSet(N)
      BY <1>1, <1>2
    <2> QED
      BY <2>2, <2>3, MinimalSet
  <1>4. PICK j \in J : s = j..n
    BY <1>1, <1>3
  <1>5. ASSUME NEW k \in J, j < k PROVE FALSE
    <2>1. k..n \in T /\ k..n \subseteq s
      BY <1>1, <1>4, <1>5
    <2>2. k..n = j..n
      BY <1>3, <1>4, <2>1
    <2>3. j \in j..n /\ j \notin k..n
      BY <1>5
    <2> QED
      BY <2>2, <2>3
  <1> QED
    BY <1>5

\* A queue holds every candidate.
LEMMA QueueHolds ==
  ASSUME NEW S, IsFiniteSet(S), NEW rows, NEW q \in Queues(S, rows)
  PROVE  \E n \in Nat : /\ q \in [1..n -> S] /\ DOMAIN q = 1..n
                        /\ \A e \in S : \E i \in 1..n : q[i] = e
  <1>1. PICK n \in Nat : n = Cardinality(S)
    BY FS_CardinalityType
  <1>2. q \in [1..n -> S] /\ \A i, j \in 1..n : i < j => q[i] # q[j]
    BY <1>1 DEF Queues
  <1>3. \A i, j \in 1..n : q[i] = q[j] => i = j
    BY <1>2
  <1>4. q \in Injection(1..n, S)
    BY <1>2, <1>3 DEF Injection, IsInjective
  <1>5. IsFiniteSet(1..n) /\ Cardinality(1..n) = n
    BY FS_Interval
  <1>6. q \in Surjection(1..n, S)
    BY <1>1, <1>4, <1>5, FS_Injection
  <1> QED
    BY <1>2, <1>6 DEF Surjection

\* G, removed of S, is enough, and no more than it takes, and sorts before the
\* rest.
Enough(S, G, rows, reduction) ==
    /\ G \subseteq S
    /\ G = S \/ SizeOf(G) >= reduction
    /\ G # {} => \E e \in G : SizeOf(G) < reduction + row[e].size
    /\ \A e \in G, d \in S \ G : SortsBefore(rows[e], rows[d])

\* What a run down the queue of T removes when it fails for those in stuck: of
\* the others all or enough; but for the last one not enough; and none before
\* one that sorts below it.
LEMMA Taking ==
  ASSUME Data, NEW T \in SUBSET Rows, NEW rows, NEW q \in Queues(T, rows),
         NEW reduction \in Int, NEW stuck \in SUBSET T
  PROVE  Enough(T \ stuck, UntilEnough(q, reduction, stuck) \ stuck, rows, reduction)
  <1> SUFFICES ASSUME NEW S, S = T \ stuck,
                      NEW G, G = UntilEnough(q, reduction, stuck) \ stuck
               PROVE  Enough(S, G, rows, reduction)
    OBVIOUS
  <1>1. IsFiniteSet(T) /\ \A e \in T : e \in Entries /\ row[e] # None
    BY FS_Subset DEF Data, Total, Rows
  <1>2. PICK n \in Nat : /\ q \in [1..n -> T] /\ DOMAIN q = 1..n
                         /\ \A e \in T : \E i \in 1..n : q[i] = e
    BY <1>1, QueueHolds
  <1>3. PICK t : t = row
    OBVIOUS
  <1>4. PICK f : f = [e \in Entries |-> IF t[e] = None THEN 0 ELSE t[e].size]
    OBVIOUS
  <1>5. ASSUME NEW R \in SUBSET T
        PROVE  /\ IsFiniteSet(R) /\ SizeOf(R) = Sum(f, R) /\ SizeOf(R) \in Nat
               /\ \A e \in R : f[e] = row[e].size /\ f[e] \in Nat
    <2>1. IsFiniteSet(R)
      BY <1>1, FS_Subset
    <2>2. t \in [Entries -> Row \cup {None}] /\ \A e \in R : e \in Entries /\ t[e] # None
      BY <1>1, <1>3 DEF Data, Types
    <2>3. SizeOf(R) = Sum([e \in R |-> t[e].size], R)
      BY <1>3 DEF SizeOf
    <2> QED
      BY <1>3, <1>4, <2>1, <2>2, <2>3, SizesSum
  <1>6. ASSUME NEW R \in SUBSET T, NEW P \in SUBSET R PROVE SizeOf(P) <= SizeOf(R)
    <2>1. IsFiniteSet(R) /\ \A e \in R : f[e] \in Nat
      BY <1>5
    <2>2. Sum(f, P) <= Sum(f, R)
      BY <2>1, SumSubset
    <2>3. SizeOf(P) = Sum(f, P) /\ SizeOf(R) = Sum(f, R)
      BY <1>5
    <2> QED
      BY <2>2, <2>3
  <1> DEFINE A(j) == Ahead(q, j, stuck)
             J == {j \in 1..n : SizeOf(A(j)) < reduction}
  <1>7. G = {q[i] : i \in J} \ stuck
    BY <1>2 DEF UntilEnough
  <1>8. ASSUME NEW j \in 1..n
        PROVE  A(j) \subseteq S /\ SizeOf(A(j)) \in Nat
    <2>1. A(j) \in SUBSET S
      BY <1>2 DEF Ahead
    <2> QED
      BY <1>5, <2>1
  <1>9. \A j \in 1..n : j \in J <=> SizeOf(A(j)) < reduction
    OBVIOUS
  <1>10. J \subseteq 1..n
    OBVIOUS
  <1> HIDE DEF J
  <1> HIDE DEF A
  <1>11. ASSUME NEW j \in 1..n, j \notin J PROVE SizeOf(A(j)) >= reduction
    BY <1>8, <1>11, <1>9
  <1>12. ASSUME NEW i \in 1..n, NEW j \in 1..n, j <= i, i \in J PROVE j \in J
    <2>1. A(j) \subseteq A(i)
      BY <1>12 DEF A, Ahead
    <2>2. SizeOf(A(j)) <= SizeOf(A(i))
      BY <1>6, <1>8, <2>1
    <2>3. SizeOf(A(i)) < reduction
      BY <1>12, <1>9
    <2> QED
      BY <1>8, <1>9, <2>2, <2>3
  <1>13. G \subseteq S
    BY <1>2, <1>7, <1>10
  <1>14. G = S \/ SizeOf(G) >= reduction
    <2>1. CASE J = 1..n
      BY <1>2, <1>7, <2>1
    <2>2. CASE J # 1..n
      <3>1. PICK N : N = (1..n) \ J
        OBVIOUS
      <3>2. PICK j \in N : \A k \in N : j <= k
        <4>1. N \in SUBSET (1..n) /\ N # {}
          BY <1>10, <2>2, <3>1
        <4> QED
          BY <4>1, LeastIndex
      <3>3. j \in 1..n /\ j \notin J /\ \A k \in 1..(j - 1) : k \in J
        BY <3>1, <3>2
      <3>4. A(j) \subseteq G
        BY <1>7, <3>3 DEF A, Ahead
      <3>5. SizeOf(A(j)) <= SizeOf(G)
        BY <1>6, <1>13, <3>4
      <3>6. SizeOf(A(j)) >= reduction /\ SizeOf(A(j)) \in Nat /\ SizeOf(G) \in Nat
        BY <1>5, <1>8, <1>11, <1>13, <3>3
      <3> QED
        BY <3>5, <3>6
    <2> QED
      BY <2>1, <2>2
  <1>15. ASSUME G # {} PROVE \E e \in G : SizeOf(G) < reduction + row[e].size
    <2>1. PICK I : I = {i \in J : q[i] \notin stuck}
      OBVIOUS
    <2>2. PICK j \in I : \A k \in I : k <= j
      <3>1. I \in SUBSET (1..n) /\ I # {}
        BY <1>7, <1>15, <1>10, <2>1
      <3> QED
        BY <3>1, GreatestIndex
    <2>3. j \in 1..n /\ j \in J /\ q[j] \in G /\ q[j] \in S
      BY <1>2, <1>7, <1>10, <2>1, <2>2
    <2>4. PICK e \in S : e = q[j]
      BY <2>3
    <2>5. PICK P : P = A(j)
      OBVIOUS
    <2>6. P \subseteq S /\ SizeOf(P) \in Nat /\ SizeOf(P) < reduction /\ IsFiniteSet(P)
      BY <1>5, <1>8, <1>9, <2>3, <2>5
    <2>7. G \subseteq P \cup {e}
      <3>1. \A k \in I : k = j \/ k \in 1..(j - 1)
        BY <1>10, <2>1, <2>2
      <3>2. \A d \in G : d \notin stuck /\ \E k \in I : d = q[k]
        BY <1>7, <2>1
      <3> QED
        BY <2>4, <2>5, <3>1, <3>2 DEF A, Ahead
    <2>8. f[e] = row[e].size /\ f[e] \in Nat
      <3>1. {e} \in SUBSET T
        OBVIOUS
      <3> QED
        BY <1>5, <3>1
    <2>9. SizeOf(P \cup {e}) <= SizeOf(P) + row[e].size
      <3>1. CASE e \in P
        <4>1. PICK U : U = P \cup {e}
          OBVIOUS
        <4>2. U = P
          BY <3>1, <4>1
        <4>3. SizeOf(U) <= SizeOf(P) + row[e].size
          BY <2>6, <2>8, <4>2
        <4> QED
          BY <4>1, <4>3
      <3>2. CASE e \notin P
        <4>1. \A d \in P : f[d] \in Nat
          BY <1>5, <2>6
        <4>2. Sum(f, P \cup {e}) = f[e] + Sum(f, P)
          BY <2>6, <2>8, <3>2, <4>1, SumAdd
        <4>3. SizeOf(P \cup {e}) = Sum(f, P \cup {e}) /\ SizeOf(P) = Sum(f, P)
          <5>1. P \cup {e} \in SUBSET T /\ P \in SUBSET T
            BY <2>6
          <5> QED
            BY <1>5, <5>1
        <4> QED
          BY <2>6, <2>8, <4>2, <4>3
      <3> QED
        BY <3>1, <3>2
    <2>10. SizeOf(G) <= SizeOf(P \cup {e})
      <3>1. P \cup {e} \in SUBSET T /\ G \in SUBSET (P \cup {e})
        BY <2>6, <2>7
      <3> QED
        BY <1>6, <3>1
    <2>11. SizeOf(G) \in Nat /\ SizeOf(P \cup {e}) \in Nat
      <3>1. P \cup {e} \in SUBSET T /\ G \in SUBSET T
        BY <1>13, <2>6
      <3> QED
        BY <1>5, <3>1
    <2>12. SizeOf(G) < reduction + row[e].size
      BY <2>6, <2>8, <2>9, <2>10, <2>11
    <2> QED
      BY <2>3, <2>4, <2>12
  <1>16. ASSUME NEW e \in G, NEW d \in S \ G PROVE SortsBefore(rows[e], rows[d])
    <2>1. PICK i \in 1..n : q[i] = e /\ i \in J
      BY <1>7, <1>10
    <2>2. PICK j \in 1..n : q[j] = d /\ j \notin J
      BY <1>2, <1>7
    <2>3. i < j
      BY <1>12, <2>1, <2>2
    <2>4. SortsBefore(rows[q[i]], rows[q[j]])
      BY <1>2, <2>3 DEF Queues
    <2> QED
      BY <2>1, <2>2, <2>4
  <1> QED
    BY <1>13, <1>14, <1>15, <1>16 DEF Enough

\* What a check sets out to remove leads to the target, as far as sizes are
\* rounded.
LEMMA ReductionIs ==
  ASSUME Types, NEW reduction \in Reductions
  PROVE  reduction \in Int /\ total - reduction <= Target + Unit /\ total - reduction >= Target - Unit
  <1>1. PICK a \in Rounded(total), b \in Rounded(Target) : reduction = a - b
    BY DEF Reductions
  <1>2. total \in Nat /\ Target \in Nat /\ Unit \in Nat
    BY CleanupAssumption DEF Types
  <1>3. a \in Int /\ 2 * a - 2 * total \in -Unit..Unit
    BY <1>2 DEF Rounded
  <1>4. b \in Int /\ 2 * b - 2 * Target \in -Unit..Unit
    BY <1>2 DEF Rounded
  <1> QED
    BY <1>1, <1>2, <1>3, <1>4

\* An execution sets its task to one interval from now.
LEMMA FinishIs ==
  ASSUME Inv, NEW n \in Tasks, NEW ok \in BOOLEAN, Finish(n, ok)
  PROVE  next' \in [Tasks -> Nat] /\ now' = now /\ Timely'
  <1>1. next' = [next EXCEPT ![n] = now + Interval[n]] /\ created' = created \ {n} /\ now' = now
    BY DEF Finish, NextRun
  <1>2. PICK i \in Nat : i = Interval[n]
    BY CleanupAssumption
  <1>3. now \in Nat /\ next \in [Tasks -> Nat]
    BY DEF Inv, Data, Types
  <1>4. /\ next' \in [Tasks -> Nat] /\ next'[n] = now + i
        /\ \A m \in Tasks : m # n => next'[m] = next[m]
    BY <1>1, <1>2, <1>3
  <1>5. created' \subseteq Due'
    BY <1>1, <1>4 DEF Inv, Timely, Due
  <1>6. \A m \in Tasks : next'[m] <= now' + Interval[m]
    BY <1>1, <1>2, <1>3, <1>4 DEF Inv, Timely
  <1> QED
    BY <1>1, <1>4, <1>5, <1>6 DEF Timely

\* The scheduler's next times lie ahead by an interval at most.
LEMMA RegisteredIs ==
  ASSUME now \in Nat
  PROVE  Registered \in [Tasks -> Nat] /\ \A n \in Tasks : Registered[n] <= now + Interval[n]
  <1>1. ASSUME NEW n \in Tasks
        PROVE  Registered[n] \in Nat /\ Registered[n] <= now + Interval[n]
    <2>1. PICK i \in Nat : i = Interval[n]
      BY CleanupAssumption
    <2>2. Registered[n] = IF n = "recalculate" THEN now ELSE now + i
      BY <2>1 DEF Registered
    <2>3. (n = "recalculate" /\ Registered[n] = now) \/ Registered[n] = now + i
      BY <2>2
    <2> QED
      BY <2>1, <2>3
  <1> QED
    BY <1>1 DEF Registered

\* A restart registers the tasks anew and forgets the saves.
LEMMA RestartsIs ==
  ASSUME Inv, Restarts
  PROVE  Others /\ Timely' /\ created' = {}
  <1>1. now \in Nat
    BY DEF Inv, Data, Types
  <1>2. Others
    BY <1>1, RegisteredIs DEF Restarts, Others
  <1>3. Timely'
    BY <1>1, RegisteredIs DEF Restarts, Timely
  <1> QED
    BY <1>2, <1>3 DEF Restarts

\* The saves under directories that are gone fail.
LEMMA UndermineIs ==
  ASSUME NEW gone, Undermine(gone)
  PROVE  /\ \A e \in Entries : saving'[e] \in {saving[e], None}
         /\ saving' = [e \in Entries |-> saving'[e]]
  BY DEF Undermine

\* To remove nothing is to change scores at most.
LEMMA RemoveNothing ==
  ASSUME Data, NEW rows, SameBut(rows), row' = rows, UNCHANGED <<file, total, torn, lost>>
  PROVE  Remove({}, {}, {}, rows)
  <1>1. row' = [e \in Entries |-> IF e \in {} \cup {} THEN None ELSE rows[e]]
    BY DEF SameBut
  <1>2. \A e \in Entries : file[e] = [p \in Parts(e) |-> file[e][p]]
    BY DEF Data, Types
  <1>3. file' = [e \in Entries |-> [p \in Parts(e) |->
                   IF e \in {} \cup {} \/ <<e, p>> \in {} THEN None ELSE file[e][p]]]
    BY <1>2 DEF Data, Types
  <1>4. total' = TotalWithout({})
    <2>1. SizeOf({}) = 0
      BY SumEmpty DEF SizeOf
    <2> QED
      BY <2>1 DEF TotalWithout, Data, Types
  <1>5. torn' = (torn \/ {} # {})
    <2>1. torn \in BOOLEAN /\ torn' = torn
      BY DEF Data, Types
    <2> QED
      BY <2>1
  <1>6. lost' = (lost \ ({} \cup {})) \cup {x[1] : x \in {}}
    OBVIOUS
  <1>7. PICK U : U = UNION {{e} \X Held(e) : e \in {}} /\ {} \in SUBSET U
    OBVIOUS
  <1>8. \E lose \in SUBSET U :
          /\ row' = [e \in Entries |-> IF e \in {} \cup {} THEN None ELSE rows[e]]
          /\ file' = [e \in Entries |-> [p \in Parts(e) |->
                        IF e \in {} \cup {} \/ <<e, p>> \in lose THEN None ELSE file[e][p]]]
          /\ total' = TotalWithout({})
          /\ torn' = (torn \/ {} # {})
          /\ lost' = (lost \ ({} \cup {})) \cup {x[1] : x \in lose}
    BY <1>1, <1>3, <1>4, <1>5, <1>6, <1>7
  <1> QED
    BY <1>7, <1>8 DEF Remove

\* A save that a restart tears off from cache_size.
LEMMA SaveTornInv ==
  ASSUME Inv, NEW e \in Entries, RestartInSave(e)
  PROVE  Data' /\ \A d \in Entries : ~Gone(d)
  <1>1. PICK p \in Parts(e) : p = saving[e]
    BY DEF RestartInSave, Inv, Data, Types
  <1>2. /\ Appears(e, p) /\ lost' = lost \ {e} /\ torn' = TRUE /\ total' = total
        /\ \E r \in RowsWith(e, p) : row' = [row EXCEPT ![e] = r]
    BY <1>1 DEF RestartInSave
  <1>3. saving'[e] = None /\ Others
    BY RestartsIs DEF RestartInSave, Restarts
  <1> QED
    BY <1>2, <1>3, SavedInv DEF Inv

\* Where a check removes G and could have removed all of S.
Takes(S, G, reduction) ==
    /\ Candidates \ S \subseteq Busy
    /\ Enough(S, G, Recalculated, reduction)

\* A check runs down a queue of the candidates.
LEMMA CheckTakes ==
  ASSUME Inv, CheckRuns, NeedsCleanup
  PROVE  \E S \in SUBSET Candidates, reduction \in Reductions : \E G \in SUBSET S :
            /\ Takes(S, G, reduction)
            /\ \E hurt : Remove(G, {}, hurt, Recalculated)
            /\ Others /\ Timely'
  <1>1. "check" \in Tasks /\ Check /\ Finish("check", TRUE)
    BY DEF CheckRuns, Turn, Inv, Timely, Due
  <1>2. PICK reduction \in Reductions, q \in Queues(Candidates, Recalculated),
             stuck \in SUBSET (Candidates \cap Busy) :
           /\ Remove(UntilEnough(q, reduction, stuck) \ stuck, {},
                     UntilEnough(q, reduction, stuck) \cap stuck, Recalculated)
           /\ Undermine(UntilEnough(q, reduction, stuck) \ stuck)
    BY <1>1 DEF Check
  <1>3. PICK rows : rows = Recalculated
    OBVIOUS
  <1>4. PICK T : T = Candidates
    OBVIOUS
  <1>5. T \in SUBSET Rows /\ stuck \in SUBSET T /\ q \in Queues(T, rows)
    <2>1. T \subseteq Rows /\ stuck \subseteq T
      BY <1>4 DEF Candidates
    <2> QED
      BY <1>3, <1>4, <2>1
  <1>6. PICK S, G : S = T \ stuck /\ G = UntilEnough(q, reduction, stuck) \ stuck
    OBVIOUS
  <1>7. reduction \in Int
    BY ReductionIs DEF Inv, Data
  <1>8. Enough(S, G, rows, reduction)
    <2>1. Enough(T \ stuck, UntilEnough(q, reduction, stuck) \ stuck, rows, reduction)
      BY <1>5, <1>7, Taking DEF Inv
    <2> QED
      BY <1>6, <2>1
  <1>9. Takes(S, G, reduction) /\ S \in SUBSET Candidates /\ G \in SUBSET S
    BY <1>2, <1>3, <1>4, <1>6, <1>8 DEF Takes, Enough
  <1>10. \E hurt : Remove(G, {}, hurt, Recalculated)
    BY <1>2, <1>6
  <1>11. Others /\ Timely'
    <2>1. Undermine(G)
      BY <1>2, <1>6
    <2> QED
      BY <1>1, <2>1, FinishIs, UndermineIs DEF Others
  <1> QED
    BY <1>9, <1>10, <1>11

\* A check that is cut off has not got further than it would have.
LEMMA CheckCut ==
  ASSUME Inv, RestartInCheck
  PROVE  \E gone, uncounted \in SUBSET Candidates, reduction \in Reductions :
            /\ \E hurt : Remove(gone, uncounted, hurt, Recalculated)
            /\ SizeOf(gone) < reduction
            /\ \A e \in gone \cup uncounted, d \in Candidates \ (gone \cup uncounted \cup Busy) :
                  SortsBefore(Recalculated[e], Recalculated[d])
  <1>1. PICK reduction \in Reductions, q \in Queues(Candidates, Recalculated),
             stuck \in SUBSET (Candidates \cap Busy) :
           \E j \in DOMAIN q :
             /\ SizeOf(Ahead(q, j, stuck)) < reduction
             /\ RemoveUpTo(Ahead(q, j, {}), q[j], stuck, Recalculated)
    BY DEF RestartInCheck
  <1>2. PICK j \in DOMAIN q :
             /\ SizeOf(Ahead(q, j, stuck)) < reduction
             /\ RemoveUpTo(Ahead(q, j, {}), q[j], stuck, Recalculated)
    BY <1>1
  <1>3. PICK T, rows : T = Candidates /\ rows = Recalculated
    OBVIOUS
  <1>4. IsFiniteSet(T) /\ q \in Queues(T, rows)
    BY <1>1, <1>3, FS_Subset DEF Candidates, Inv, Data, Total
  <1>5. PICK n \in Nat : /\ q \in [1..n -> T] /\ DOMAIN q = 1..n
                         /\ \A e \in T : \E i \in 1..n : q[i] = e
    BY <1>4, QueueHolds
  <1>6. \A i, k \in 1..n : i < k => SortsBefore(rows[q[i]], rows[q[k]])
    BY <1>4, <1>5 DEF Queues
  <1>7. PICK done, gone, h : done = Ahead(q, j, {}) /\ gone = Ahead(q, j, stuck) /\ h = q[j]
    OBVIOUS
  <1>8. /\ gone = done \ stuck /\ done = {q[k] : k \in 1..(j - 1)}
        /\ gone \subseteq T /\ h \in T
    BY <1>5, <1>7 DEF Ahead
  <1>9. ASSUME NEW uncounted \in SUBSET {h}, NEW e \in gone \cup uncounted,
               NEW d \in T \ (gone \cup uncounted \cup Busy)
        PROVE  SortsBefore(rows[e], rows[d])
    <2>1. PICK i \in 1..n : q[i] = e /\ (i < j \/ (i = j /\ h \in uncounted))
      BY <1>5, <1>7, <1>8
    <2>2. PICK k \in 1..n : q[k] = d
      BY <1>5
    <2>3. d \notin stuck
      BY <1>1
    <2>4. ~(k < j)
      BY <1>5, <1>8, <2>2, <2>3
    <2>5. i = j => k # j
      BY <1>7, <2>1, <2>2
    <2>6. i < k
      BY <1>5, <2>1, <2>4, <2>5
    <2> QED
      BY <1>6, <2>1, <2>2, <2>6
  <1>10. \/ \E hurt : Remove(gone, {}, hurt, rows)
         \/ \E hurt : Remove(gone, {h}, hurt, rows)
    BY <1>2, <1>3, <1>7, <1>8 DEF RemoveUpTo
  <1>11. PICK uncounted \in SUBSET {h} : \E hurt : Remove(gone, uncounted, hurt, rows)
    BY <1>10
  <1>12. SizeOf(gone) < reduction
    BY <1>2, <1>7
  <1>13. \A e \in gone \cup uncounted, d \in T \ (gone \cup uncounted \cup Busy) :
            SortsBefore(rows[e], rows[d])
    BY <1>9
  <1>14. gone \in SUBSET T /\ uncounted \in SUBSET T
    BY <1>8, <1>11
  <1> QED
    BY <1>3, <1>11, <1>12, <1>13, <1>14

\* What writes to the database beside the saves and the requests.
Round == \/ CheckRuns /\ NeedsCleanup
         \/ RecalculateRuns \/ WeeklyRuns
         \/ RestartInRecalculate \/ RestartInCheck \/ RestartInWeekly

\* All of it removes candidates, and rescores rows.
LEMMA Rounds ==
  ASSUME Inv, Round
  PROVE  /\ Others /\ Timely'
         /\ \E gone, uncounted \in SUBSET Candidates : \E hurt, rows :
               SameBut(rows) /\ Remove(gone, uncounted, hurt, rows)
  <1>1. PICK now1, old : now1 = Recalculated /\ old = row
    OBVIOUS
  <1>2. SameBut(now1) /\ SameBut(old)
    BY <1>1, Rescored DEF Inv
  <1>3. CASE CheckRuns /\ NeedsCleanup
    <2>1. PICK S \in SUBSET Candidates, reduction \in Reductions : \E G \in SUBSET S :
             (\E hurt : Remove(G, {}, hurt, Recalculated)) /\ Others /\ Timely'
      BY <1>3, CheckTakes
    <2>2. PICK G \in SUBSET S : (\E hurt : Remove(G, {}, hurt, now1)) /\ Others /\ Timely'
      BY <1>1, <2>1
    <2>3. G \in SUBSET Candidates /\ {} \in SUBSET Candidates
      OBVIOUS
    <2> QED
      BY <1>2, <2>2, <2>3
  <1>4. CASE RecalculateRuns
    <2>1. "recalculate" \in Tasks /\ Recalculate /\ Finish("recalculate", TRUE)
      BY <1>4 DEF RecalculateRuns, Turn, Inv, Timely, Due
    <2>2. Remove({}, {}, {}, now1)
      BY <1>1, <1>2, <2>1, RemoveNothing DEF Recalculate, ghost, Inv
    <2>3. Others /\ Timely'
      BY <2>1, FinishIs DEF Recalculate, Others, Inv, Data, Types
    <2> QED
      BY <1>2, <2>2, <2>3
  <1>5. CASE WeeklyRuns
    <2>1. "weekly" \in Tasks /\ Weekly /\ Finish("weekly", TRUE)
      BY <1>5 DEF WeeklyRuns, Turn, Inv, Timely, Due
    <2>2. PICK stuck \in SUBSET (LowScores \cap Busy) :
             Remove(LowScores \ stuck, {}, stuck, row) /\ Undermine(LowScores \ stuck)
      BY <2>1 DEF Weekly
    <2>3. PICK gone : gone = LowScores \ stuck /\ gone \in SUBSET Candidates
      BY DEF LowScores
    <2>4. Remove(gone, {}, stuck, old) /\ Undermine(gone)
      BY <1>1, <2>2, <2>3
    <2>5. Others /\ Timely'
      BY <2>1, <2>4, FinishIs, UndermineIs DEF Others
    <2> QED
      BY <1>2, <2>3, <2>4, <2>5
  <1>6. CASE RestartInRecalculate
    <2>1. Restarts /\ UNCHANGED <<file, total, torn, lost>>
      BY <1>6 DEF RestartInRecalculate, ghost
    <2>2. PICK S \in SUBSET Rows :
             row' = [e \in Entries |-> IF e \in S THEN now1[e] ELSE row[e]]
      BY <1>1, <1>6 DEF RestartInRecalculate
    <2>3. PICK rows : rows = row'
      OBVIOUS
    <2>4. \A e \in Entries : rows[e] = now1[e] \/ rows[e] = old[e]
      BY <1>1, <2>2, <2>3
    <2>5. SameBut(rows)
      <3>1. rows \in [Entries -> Row \cup {None}]
        <4>1. \A e \in Entries : (IF e \in S THEN now1[e] ELSE row[e]) \in Row \cup {None}
          BY <1>1, <1>2 DEF SameBut
        <4> QED
          BY <2>2, <2>3, <4>1
      <3> QED
        BY <1>2, <2>4, <3>1 DEF SameBut
    <2>6. Remove({}, {}, {}, rows)
      BY <2>1, <2>3, <2>5, RemoveNothing DEF Inv
    <2> QED
      BY <2>1, <2>5, <2>6, RestartsIs
  <1>7. CASE RestartInCheck
    <2>1. PICK gone, uncounted \in SUBSET Candidates, reduction \in Reductions :
             \E hurt : Remove(gone, uncounted, hurt, Recalculated)
      BY <1>7, CheckCut
    <2>2. \E hurt : Remove(gone, uncounted, hurt, now1)
      BY <1>1, <2>1
    <2> QED
      BY <1>2, <1>7, <2>2, RestartsIs DEF RestartInCheck
  <1>8. CASE RestartInWeekly
    <2>1. PICK done \in SUBSET LowScores, stuck \in SUBSET (LowScores \cap Busy) :
             \E h \in LowScores \ done : RemoveUpTo(done, h, stuck, row)
      BY <1>8 DEF RestartInWeekly
    <2>2. PICK h \in LowScores \ done : RemoveUpTo(done, h, stuck, old)
      BY <1>1, <2>1
    <2>3. PICK gone : gone = done \ stuck
      OBVIOUS
    <2>4. \/ \E hurt : Remove(gone, {}, hurt, old)
          \/ \E hurt : Remove(gone, {h}, hurt, old)
      BY <2>2, <2>3 DEF RemoveUpTo
    <2>5. gone \in SUBSET Candidates /\ {h} \in SUBSET Candidates /\ {} \in SUBSET Candidates
      BY <2>2, <2>3 DEF LowScores
    <2> QED
      BY <1>2, <1>8, <2>4, <2>5, RestartsIs DEF RestartInWeekly
  <1> QED
    BY <1>3, <1>4, <1>5, <1>6, <1>7, <1>8 DEF Round

\* The state goes on as it is.
LEMMA SameData ==
  ASSUME Data, UNCHANGED <<disk, ghost>>, now' = now \/ now' = now + 1,
         \A e \in Entries : saving'[e] \in {saving[e], None},
         saving' = [e \in Entries |-> saving'[e]], next' \in [Tasks -> Nat]
  PROVE  Data'
  <1>1. now \in Nat /\ now' \in Nat /\ now <= now'
    BY DEF Data, Types
  <1>2. UNCHANGED <<row, file, total, torn, lost>>
    BY DEF disk, ghost
  <1>3. ASSUME NEW e \in Entries PROVE Agrees(e)'
    <2>1. Agrees(e) /\ Held(e)' = Held(e)
      BY <1>2 DEF Data, Held
    <2>2. saving'[e] \notin Held(e)'
      <3>1. None \notin Parts(e)
        BY CleanupAssumption
      <3> QED
        BY <2>1, <3>1 DEF Agrees, Held
    <2>3. ASSUME NEW p \in Held(e) PROVE file[e][p].atime <= now'
      BY <1>1, <2>1 DEF Agrees, Data, Types, File, Held
    <2>4. ASSUME row[e] # None PROVE row[e].created <= now' /\ row[e].read <= now'
      BY <1>1, <2>1, <2>4 DEF Agrees, Data, Types, Row
    <2> QED
      BY <1>2, <2>1, <2>2, <2>3, <2>4 DEF Agrees
  <1>4. Total'
    BY <1>2 DEF Data, Total, Rows, SizeOf
  <1>5. Types'
    <2>1. \A e \in Entries : saving'[e] \in Parts(e) \cup {None}
      BY DEF Data, Types
    <2> QED
      BY <1>1, <1>2, <2>1 DEF Data, Types
  <1> QED
    BY <1>3, <1>4, <1>5 DEF Data

\* Every step keeps the invariant.
LEMMA NextInv == Inv /\ [Next]_vars => Inv'
  <1> SUFFICES ASSUME Inv, [Next]_vars PROVE Inv'
    OBVIOUS
  <1>1. ASSUME UNCHANGED <<created, next, now>> PROVE Timely'
    BY <1>1 DEF Inv, Timely, Due
  <1>2. /\ next \in [Tasks -> Nat] /\ now \in Nat
        /\ saving = [e \in Entries |-> saving[e]]
    BY DEF Inv, Data, Types
  <1>3. CASE Round
    <2>1. PICK gone, uncounted \in SUBSET Candidates : \E hurt, rows :
             SameBut(rows) /\ Remove(gone, uncounted, hurt, rows)
      BY <1>3, Rounds
    <2>2. PICK hurt, rows : SameBut(rows) /\ Remove(gone, uncounted, hurt, rows)
      BY <2>1
    <2>3. gone \in SUBSET Rows /\ uncounted \in SUBSET Rows
      BY DEF Candidates
    <2> QED
      BY <1>3, <2>2, <2>3, Rounds, RemoveInv DEF Inv
  <1>4. CASE CheckRuns /\ ~NeedsCleanup
    <2>1. "check" \in Tasks /\ Check /\ Finish("check", TRUE)
      BY <1>4 DEF CheckRuns, Turn, Inv, Timely, Due
    <2>2. UNCHANGED <<disk, saving, ghost>>
      BY <1>4, <2>1 DEF Check
    <2> QED
      BY <1>2, <2>1, <2>2, FinishIs, SameData DEF Inv
  <1>5. ASSUME NEW e \in Entries, BeginSave(e) PROVE Inv'
    BY <1>1, <1>5, BeginSaveInv DEF Inv, BeginSave
  <1>6. ASSUME NEW e \in Entries, EndSave(e) PROVE Inv'
    BY <1>1, <1>6, EndSaveInv DEF Inv, EndSave
  <1>7. ASSUME NEW e \in Entries, SaveFails(e) PROVE Inv'
    <2>1. /\ saving' = [saving EXCEPT ![e] = None]
          /\ UNCHANGED <<disk, ghost>> /\ UNCHANGED <<next, created, now>>
      BY <1>7 DEF SaveFails, Saved
    <2>2. /\ \A d \in Entries : saving'[d] \in {saving[d], None}
          /\ saving' = [d \in Entries |-> saving'[d]]
      BY <1>2, <2>1
    <2> QED
      BY <1>1, <1>2, <2>1, <2>2, SameData DEF Inv
  <1>8. ASSUME NEW e \in Entries, SaveCutOff(e) PROVE Inv'
    BY <1>1, <1>8, CutOffInv DEF Inv, SaveCutOff
  <1>9. ASSUME NEW e \in Entries, Access(e) PROVE Inv'
    BY <1>1, <1>9, AccessInv DEF Inv, Access
  <1>10. CASE Wake
    <2>1. UNCHANGED <<disk, ghost>> /\ UNCHANGED <<saving, next, now>> /\ Timely'
      BY <1>10 DEF Wake, Inv, Timely, Due
    <2> QED
      BY <1>2, <2>1, SameData DEF Inv
  <1>11. ASSUME NEW n \in Tasks, Fails(n) PROVE Inv'
    <2>1. next' \in [Tasks -> Nat] /\ now' = now /\ Timely'
      BY <1>11, FinishIs DEF Fails
    <2>2. UNCHANGED <<disk, ghost>> /\ UNCHANGED saving
      BY <1>11 DEF Fails
    <2> QED
      BY <1>2, <2>1, <2>2, SameData DEF Inv
  <1>12. CASE Restart
    <2>1. Others /\ Timely' /\ UNCHANGED <<disk, ghost>>
      BY <1>12, RestartsIs DEF Restart
    <2> QED
      BY <2>1, SameData DEF Inv, Others
  <1>13. ASSUME NEW e \in Entries, RestartInSave(e) PROVE Inv'
    BY <1>13, SaveTornInv, RestartsIs DEF Inv, RestartInSave
  <1>14. CASE Tick
    <2>1. ASSUME NEW n \in Tasks PROVE next'[n] <= now' + Interval[n]
      <3>1. PICK i \in Nat : i = Interval[n]
        BY CleanupAssumption
      <3>2. next[n] <= now + i /\ next[n] \in Nat
        BY <1>2, <3>1 DEF Inv, Timely
      <3> QED
        BY <1>2, <1>14, <3>1, <3>2 DEF Tick
    <2>2. Timely'
      BY <1>14, <2>1 DEF Tick, Timely
    <2>3. UNCHANGED <<disk, ghost>> /\ UNCHANGED <<saving, next>> /\ now' = now + 1
      BY <1>14 DEF Tick
    <2> QED
      BY <1>2, <2>2, <2>3, SameData DEF Inv
  <1>15. CASE UNCHANGED vars
    <2>1. UNCHANGED <<disk, ghost>> /\ UNCHANGED <<saving, next, created, now>>
      BY <1>15 DEF vars
    <2> QED
      BY <1>1, <1>2, <2>1, SameData DEF Inv
  <1> QED
    BY <1>3, <1>4, <1>5, <1>6, <1>7, <1>8, <1>9, <1>10, <1>11, <1>12, <1>13, <1>14, <1>15
       DEF Next, Requests, Executions, Stops, Round

\* It holds when the scheduler starts.
LEMMA InitInv == Init => Inv
  <1> SUFFICES ASSUME Init PROVE Inv
    OBVIOUS
  <1>1. now \in Nat /\ next \in [Tasks -> Nat] /\ \A n \in Tasks : next[n] <= now + Interval[n]
    BY RegisteredIs DEF Init
  <1>2. Types
    BY <1>1 DEF Init, Types, NoFiles
  <1>3. \A e \in Entries : Agrees(e)
    BY DEF Init, Agrees, Held, NoFiles
  <1>4. Total
    <2>1. Rows = {}
      BY DEF Init, Rows
    <2> QED
      BY <2>1, SumEmpty, FS_EmptySet DEF Init, Total, SizeOf
  <1>5. Timely
    BY <1>1 DEF Init, Timely
  <1> QED
    BY <1>2, <1>3, <1>4, <1>5 DEF Inv, Data

-------------------------------------------------------------------------------
(* The theorems.                                                           *)

\* Every reachable state satisfies the invariant.
THEOREM Invariance == Spec => []Inv
  BY InitInv, NextInv, PTL DEF Spec

\* A row stands for a file unless it lost one behind its back, and cache_size is
\* the total of the rows unless a restart tore an update: whatever is saved,
\* cut off, evicted, and stopped half way.
THEOREM TypeCorrect == Spec => []TypeOK
  <1>1. ASSUME Inv PROVE TypeOK
    <2>1. ASSUME NEW e \in Entries, row[e] # None
          PROVE  /\ row[e].score \in ScoreRange
                 /\ row[e].created <= now /\ row[e].read <= now
                 /\ e \in lost \/ Held(e) # {}
      BY <1>1, <2>1 DEF Inv, Data, Types, Agrees, Row
    <2> QED
      BY <1>1, <2>1 DEF Inv, Data, Types, Total, Timely, TypeOK
  <1> QED
    BY <1>1, Invariance, PTL

\* Only the rounds of the tasks, and those that a restart cuts off, remove rows.
LEMMA OnlyRounds ==
  ASSUME Inv, [Next]_vars, NEW e \in Entries, Gone(e)
  PROVE  Round
  <1>1. ASSUME NEW d \in Entries, EndSave(d) \/ RestartInSave(d) PROVE FALSE
    BY <1>1, EndSaveInv, SaveTornInv DEF Inv
  <1>2. ASSUME NEW d \in Entries, Access(d) PROVE FALSE
    <2>1. PICK p \in Held(d) :
             row' = [row EXCEPT ![d] = IF @ = None THEN None ELSE LookedUp(d, p)]
      BY <1>2 DEF Access
    <2>2. d = e
      BY <2>1 DEF Gone, Inv, Data, Types
    <2>3. PICK r \in Row : r = row[e]
      BY DEF Gone, Inv, Data, Types
    <2>4. PICK a \in Nat : a = file[d][p].atime
      BY DEF Inv, Data, Types, File, Held
    <2>5. LookedUp(d, p) = [r EXCEPT !.read = a]
      BY <2>2, <2>3, <2>4 DEF LookedUp
    <2>6. PICK s \in Row : s = [r EXCEPT !.read = a]
      BY DEF Row
    <2>7. row' = [row EXCEPT ![e] = s]
      BY <2>1, <2>2, <2>5, <2>6 DEF Gone
    <2>8. s # None
      BY CleanupAssumption
    <2> QED
      BY <2>7, <2>8 DEF Gone, Inv, Data, Types
  <1>3. ASSUME UNCHANGED row PROVE FALSE
    BY <1>3 DEF Gone
  <1>4. CASE CheckRuns
    <2>1. NeedsCleanup
      BY <1>3, <1>4 DEF CheckRuns, Check, disk
    <2> QED
      BY <1>4, <2>1 DEF Round
  <1> QED
    BY <1>1, <1>2, <1>3, <1>4 DEF Next, Requests, Executions, Stops, Round, BeginSave, SaveFails,
                                  SaveCutOff, Wake, Fails, Restart, Tick, vars, disk

\* What is removed was not protected.
LEMMA GoneUnprotected ==
  ASSUME Inv, [Next]_vars, NEW e \in Entries, Gone(e)
  PROVE  e \in Candidates
  <1>1. PICK gone, uncounted \in SUBSET Candidates : \E hurt, rows :
           SameBut(rows) /\ Remove(gone, uncounted, hurt, rows)
    BY OnlyRounds, Rounds
  <1>2. PICK hurt, rows : SameBut(rows) /\ Remove(gone, uncounted, hurt, rows)
    BY <1>1
  <1>3. Others
    BY OnlyRounds, Rounds
  <1>4. gone \in SUBSET Rows /\ uncounted \in SUBSET Rows
    BY DEF Candidates
  <1>5. e \in gone \cup uncounted
    BY <1>2, <1>3, <1>4, RemoveInv DEF Inv
  <1> QED
    BY <1>5

\* Nothing is evicted of which no file had gone unread, before the last request
\* for it, for the days of protection, unless it lost a file since.
THEOREM ColdIsEvicted == Spec => ColdOnly
  <1>1. ASSUME Inv, [Next]_vars, NEW e \in Entries \ lost, Gone(e)
        PROVE  \E p \in Parts(e) : /\ file[e][p] # None
                                   /\ now - file[e][p].before >= Protection
    <2>1. ~Protected(e) /\ row[e] # None
      BY <1>1, GoneUnprotected DEF Candidates, Rows
    <2>2. PICK p \in Held(e) : file[e][p].before <= row[e].read
      BY <1>1, <2>1 DEF Inv, Data, Agrees
    <2>3. p \in Parts(e) /\ file[e][p] # None
      BY DEF Held
    <2>4. file[e][p].before \in Nat /\ row[e].read \in Nat /\ now \in Nat
      BY <1>1, <2>1, <2>3 DEF Inv, Data, Types, Row, File
    <2>5. now - file[e][p].before >= Protection
      BY <2>1, <2>2, <2>4, CleanupAssumption DEF Protected
    <2> QED
      BY <2>3, <2>5
  <1>2. Inv /\ [Next]_vars =>
           [\A e \in Entries \ lost : Gone(e) =>
              \E p \in Parts(e) : /\ file[e][p] # None
                                  /\ now - file[e][p].before >= Protection]_vars
    BY <1>1
  <1> QED
    BY <1>2, Invariance, PTL DEF Spec, ColdOnly

\* What a check removes and leaves, in one place.
LEMMA CheckRemoves ==
  ASSUME Inv, CheckRuns, NeedsCleanup
  PROVE  \E S \in SUBSET Candidates, reduction \in Reductions : \E G \in SUBSET S :
            /\ Takes(S, G, reduction)
            /\ total' >= total - SizeOf(G) /\ SizeOf(G) \in Nat
            /\ total' = 0 \/ total' = total - SizeOf(G)
            /\ \A e \in Entries : Gone(e) <=> e \in G
  <1>1. PICK S \in SUBSET Candidates, reduction \in Reductions : \E G \in SUBSET S :
           /\ Takes(S, G, reduction)
           /\ \E hurt : Remove(G, {}, hurt, Recalculated)
           /\ Others
    BY CheckTakes
  <1>2. PICK G \in SUBSET S :
           /\ Takes(S, G, reduction)
           /\ \E hurt : Remove(G, {}, hurt, Recalculated)
           /\ Others
    BY <1>1
  <1>3. PICK hurt, rows : Remove(G, {}, hurt, rows) /\ rows = Recalculated
    BY <1>2
  <1>4. SameBut(rows) /\ G \in SUBSET Rows /\ {} \in SUBSET Rows
    BY <1>3, Rescored DEF Inv, Candidates
  <1>5. /\ total' >= total - SizeOf(G) /\ SizeOf(G) \in Nat
        /\ total' = 0 \/ total' = total - SizeOf(G)
        /\ \A e \in Entries : Gone(e) <=> e \in G \cup {}
    BY <1>2, <1>3, <1>4, RemoveInv DEF Inv
  <1> QED
    BY <1>2, <1>5

\* A check that finds the threshold reached goes down to the target, as far as
\* sizes are rounded, or leaves only what is protected or written under.
THEOREM TargetReached == Spec => ReachesTarget
  <1>1. ASSUME Inv, NeedsCleanup, CheckRuns
        PROVE  \/ total' <= Target + Unit
               \/ \A e \in Rows : row'[e] = None \/ Protected(e) \/ e \in Busy
    <2>1. PICK S \in SUBSET Candidates, reduction \in Reductions : \E G \in SUBSET S :
             /\ Takes(S, G, reduction)
             /\ total' = 0 \/ total' = total - SizeOf(G)
             /\ SizeOf(G) \in Nat
             /\ \A e \in Entries : Gone(e) <=> e \in G
      BY <1>1, CheckRemoves
    <2>2. PICK G \in SUBSET S :
             /\ Takes(S, G, reduction)
             /\ total' = 0 \/ total' = total - SizeOf(G)
             /\ SizeOf(G) \in Nat
             /\ \A e \in Entries : Gone(e) <=> e \in G
      BY <2>1
    <2>3. CASE G = S
      <3>1. ASSUME NEW e \in Rows PROVE row'[e] = None \/ Protected(e) \/ e \in Busy
        <4>1. e \in G \/ e \in Busy \/ Protected(e)
          BY <2>2, <2>3 DEF Takes, Candidates
        <4> QED
          BY <2>2, <4>1 DEF Gone, Rows
      <3> QED
        BY <3>1
    <2>4. CASE SizeOf(G) >= reduction
      <3>1. reduction \in Int /\ total - reduction <= Target + Unit /\ total \in Nat
        BY <1>1, ReductionIs DEF Inv, Data, Types
      <3>2. total' <= Target + Unit
        BY <2>2, <2>4, <3>1, CleanupAssumption
      <3> QED
        BY <3>2
    <2> QED
      BY <2>2, <2>3, <2>4 DEF Takes, Enough
  <1>2. Inv /\ [Next]_vars =>
           [NeedsCleanup /\ CheckRuns =>
              \/ total' <= Target + Unit
              \/ \A e \in Rows : row'[e] = None \/ Protected(e) \/ e \in Busy]_vars
    BY <1>1
  <1> QED
    BY <1>2, Invariance, PTL DEF Spec, ReachesTarget

\* In the turn of a check, what removes anything is the check, to its end or not.
LEMMA CheckTurn ==
  ASSUME Inv, [Next]_vars, Turn("check"), NEW e \in Entries, Gone(e)
  PROVE  \/ CheckRuns /\ NeedsCleanup
         \/ RestartInCheck
  <1>1. ~Turn("weekly") /\ ~Turn("recalculate")
    BY DEF Turn, Before
  <1>2. CASE RestartInRecalculate
    <2>0. PICK now1 : now1 = Recalculated
      OBVIOUS
    <2>1. PICK S \in SUBSET Rows :
             row' = [d \in Entries |-> IF d \in S THEN now1[d] ELSE row[d]]
      BY <1>2, <2>0 DEF RestartInRecalculate
    <2>2. SameBut(now1)
      BY <2>0, Rescored DEF Inv
    <2> QED
      BY <2>1, <2>2 DEF Gone, SameBut
  <1> QED
    BY <1>1, <1>2, OnlyRounds DEF Round, RecalculateRuns, WeeklyRuns, RestartInWeekly

\* What a check that a restart cuts off removes and leaves.
LEMMA CutRemoves ==
  ASSUME Inv, RestartInCheck
  PROVE  \E G \in SUBSET Candidates, reduction \in Reductions :
            /\ total' > total - reduction
            /\ \A e \in Entries : Gone(e) <=> e \in G
            /\ \A e \in G, d \in Candidates \ (G \cup Busy) :
                  SortsBefore(Recalculated[e], Recalculated[d])
  <1>1. PICK gone, uncounted \in SUBSET Candidates, reduction \in Reductions :
           /\ \E hurt : Remove(gone, uncounted, hurt, Recalculated)
           /\ SizeOf(gone) < reduction
           /\ \A e \in gone \cup uncounted, d \in Candidates \ (gone \cup uncounted \cup Busy) :
                 SortsBefore(Recalculated[e], Recalculated[d])
    BY CheckCut
  <1>2. PICK hurt, rows : Remove(gone, uncounted, hurt, rows) /\ rows = Recalculated
    BY <1>1
  <1>3. SameBut(rows) /\ gone \in SUBSET Rows /\ uncounted \in SUBSET Rows
    BY <1>2, Rescored DEF Inv, Candidates
  <1>4. Others
    BY RestartsIs DEF RestartInCheck
  <1>5. /\ Data' /\ SizeOf(gone) \in Nat /\ total' >= total - SizeOf(gone)
        /\ \A e \in Entries : Gone(e) <=> e \in gone \cup uncounted
    BY <1>2, <1>3, <1>4, RemoveInv DEF Inv
  <1>6. total' > total - reduction
    <2>1. total \in Nat /\ total' \in Nat /\ reduction \in Int
      BY <1>5, ReductionIs DEF Inv, Data, Types
    <2> QED
      BY <1>1, <1>5, <2>1
  <1>7. PICK G : G = gone \cup uncounted
    OBVIOUS
  <1> QED
    BY <1>1, <1>5, <1>6, <1>7

\* But for one of the entries a check removes, the target would not be reached.
THEOREM NothingInVain == Spec => NoNeedlessEviction
  <1>1. ASSUME Inv, [Next]_vars, Turn("check"), NEW d \in Entries, Gone(d)
        PROVE  \E e \in {x \in Entries : Gone(x)} : total' + row[e].size > Target - Unit
    <2>1. CASE CheckRuns /\ NeedsCleanup
      <3>1. PICK S \in SUBSET Candidates, reduction \in Reductions : \E G \in SUBSET S :
               /\ Takes(S, G, reduction)
               /\ total' >= total - SizeOf(G) /\ SizeOf(G) \in Nat
               /\ total' = 0 \/ total' = total - SizeOf(G)
               /\ \A e \in Entries : Gone(e) <=> e \in G
        BY <1>1, <2>1, CheckRemoves
      <3>2. PICK G \in SUBSET S :
               /\ Takes(S, G, reduction)
               /\ total' >= total - SizeOf(G) /\ SizeOf(G) \in Nat
               /\ total' = 0 \/ total' = total - SizeOf(G)
               /\ \A e \in Entries : Gone(e) <=> e \in G
        BY <3>1
      <3>3. PICK e \in G : SizeOf(G) < reduction + row[e].size
        BY <1>1, <3>2 DEF Takes, Enough
      <3>4. e \in Entries /\ row[e].size \in Nat /\ total \in Nat
        BY <1>1 DEF Candidates, Rows, Inv, Data, Types, Row
      <3>5. reduction \in Int /\ total - reduction >= Target - Unit
        BY <1>1, ReductionIs DEF Inv, Data
      <3>6. total' \in Int
        BY <3>2, <3>4
      <3>7. total' + row[e].size > Target - Unit
        BY <3>2, <3>3, <3>4, <3>5, <3>6, CleanupAssumption
      <3> QED
        BY <3>2, <3>4, <3>7
    <2>2. CASE RestartInCheck
      <3>1. PICK reduction \in Reductions : total' > total - reduction
        BY <1>1, <2>2, CutRemoves
      <3>2. reduction \in Int /\ total - reduction >= Target - Unit
        BY <1>1, ReductionIs DEF Inv, Data
      <3>3. row[d].size \in Nat /\ total \in Nat
        BY <1>1 DEF Gone, Inv, Data, Types, Row
      <3>4. total' \in Nat
        BY <1>1, NextInv DEF Inv, Data, Types
      <3>5. total' + row[d].size > Target - Unit
        BY <3>1, <3>2, <3>3, <3>4, CleanupAssumption
      <3> QED
        BY <1>1, <3>5
    <2> QED
      BY <1>1, <2>1, <2>2, CheckTurn
  <1>2. Inv /\ [Next]_vars =>
           [Turn("check") =>
              LET gone == {e \in Entries : Gone(e)}
              IN  gone # {} => \E e \in gone : total' + row[e].size > Target - Unit]_vars
    BY <1>1
  <1> QED
    BY <1>2, Invariance, PTL DEF Spec, NoNeedlessEviction

\* A check takes the lowest scores of that moment.
THEOREM LowestGoFirst == Spec => LowestFirst
  <1>1. ASSUME Inv, [Next]_vars, Turn("check"), NEW e \in Rows, NEW f \in Rows,
               Gone(e), ~Gone(f), ~Protected(f), f \notin Busy
        PROVE  Score(e, row[e]) <= Score(f, row[f])
    <2>1. e \in Entries /\ f \in Entries /\ f \in Candidates
      BY <1>1 DEF Rows, Candidates
    <2>2. SortsBefore(Recalculated[e], Recalculated[f])
      <3>1. CASE CheckRuns /\ NeedsCleanup
        <4>1. PICK S \in SUBSET Candidates, reduction \in Reductions : \E G \in SUBSET S :
                 /\ Takes(S, G, reduction)
                 /\ \A x \in Entries : Gone(x) <=> x \in G
          BY <1>1, <3>1, CheckRemoves
        <4>2. PICK G \in SUBSET S :
                 /\ Takes(S, G, reduction)
                 /\ \A x \in Entries : Gone(x) <=> x \in G
          BY <4>1
        <4>3. e \in G /\ f \in S \ G
          BY <1>1, <2>1, <4>2 DEF Takes
        <4> QED
          BY <4>2, <4>3 DEF Takes, Enough
      <3>2. CASE RestartInCheck
        <4>1. PICK G \in SUBSET Candidates :
                 /\ \A x \in Entries : Gone(x) <=> x \in G
                 /\ \A x \in G, d \in Candidates \ (G \cup Busy) :
                       SortsBefore(Recalculated[x], Recalculated[d])
          BY <1>1, <3>2, CutRemoves
        <4> QED
          BY <1>1, <2>1, <4>1
      <3> QED
        BY <1>1, <2>1, <3>1, <3>2, CheckTurn
    <2>3. Recalculated[e].score = Score(e, row[e]) /\ Recalculated[f].score = Score(f, row[f])
      BY <1>1, Rescored DEF Inv
    <2>4. PICK a \in Int, b \in Int : a = Recalculated[e].score /\ b = Recalculated[f].score
      <3>1. PICK now1 : now1 = Recalculated
        OBVIOUS
      <3>2. SameBut(now1)
        BY <1>1, <3>1, Rescored DEF Inv
      <3>3. now1[e] \in Row /\ now1[f] \in Row
        BY <2>1, <3>2 DEF SameBut, Rows
      <3>4. \A z \in ScoreRange : z \in Int
        BY DEF ScoreRange
      <3>5. now1[e].score \in ScoreRange /\ now1[f].score \in ScoreRange
        BY <3>3 DEF Row
      <3> QED
        BY <3>1, <3>4, <3>5
    <2> QED
      BY <2>2, <2>3, <2>4 DEF SortsBefore
  <1>2. Inv /\ [Next]_vars =>
           [Turn("check") =>
              \A e, f \in Rows :
                 Gone(e) /\ ~Gone(f) /\ ~Protected(f) /\ f \notin Busy
                   => Score(e, row[e]) <= Score(f, row[f])]_vars
    BY <1>1
  <1> QED
    BY <1>2, Invariance, PTL DEF Spec, LowestFirst
===============================================================================
