----------------------------- MODULE DeskProofs -----------------------------
(***************************************************************************)
(* Proofs about what people enter, and what they are told of it: the      *)
(* figures of a video (ResultMetrics), what administrators set             *)
(* (Configuration), and the ratings and conclusions that the engines of    *)
(* V1.1 draw from both (Assessment).                                       *)
(***************************************************************************)
EXTENDS ResultMetrics, Configuration, Assessment,
        SequenceTheorems, WellFoundedInduction, FiniteSetTheorems, TLAPS

-----------------------------------------------------------------------------
(* Quotients.                                                              *)

\* A quotient is computed from two figures, neither of which is a quotient or a text.
LEMMA QuotientParts ==
  ASSUME NEW f \in Quotients
  PROVE  /\ Bases[f] = {Above[f], Below[f]} /\ Factor[f] \in Nat \ {0}
         /\ f \notin Texts
         /\ Above[f] \notin Quotients \cup Texts /\ Below[f] \notin Quotients \cup Texts
<1>1. CASE f = "cpc" BY <1>1 DEF Bases, Above, Below, Factor, Quotients, Texts
<1>2. CASE f = "cpm" BY <1>2 DEF Bases, Above, Below, Factor, Quotients, Texts
<1>3. CASE f = "roi" BY <1>3 DEF Bases, Above, Below, Factor, Quotients, Texts
<1> QED BY <1>1, <1>2, <1>3 DEF Quotients

\* Division of natural numbers leaves a remainder.
LEMMA Division ==
  ASSUME NEW k \in Nat, NEW e \in Nat \ {0}
  PROVE  k \div e \in Nat /\ e * (k \div e) <= k /\ k < e * (k \div e) + e
<1>1. k \div e \in Int /\ k \div e >= 0 OBVIOUS
<1>2. e * (k \div e) <= k BY SMTT(30)
<1>3. k < e * (k \div e) + e BY SMTT(30)
<1> QED BY <1>1, <1>2, <1>3

\* Rounding moves a quotient by half of the divisor at most.
LEMMA RoundedNear ==
  ASSUME NEW n \in Nat, NEW d \in Nat \ {0}
  PROVE  /\ Rounded(n, d) \in Nat
         /\ 2 * (Rounded(n, d) * d) <= 2 * n + d
         /\ 2 * n <= 2 * (Rounded(n, d) * d) + d
<1> DEFINE k == 2 * n + d
           e == 2 * d
           q == k \div e
<1>1. k \in Nat /\ e \in Nat \ {0} OBVIOUS
<1> HIDE DEF k, e
<1>2. q \in Nat /\ e * q <= k /\ k < e * q + e BY <1>1, Division
<1> HIDE DEF q
<1>3. q * d \in Nat /\ e * q = 2 * (q * d) BY <1>2 DEF e
<1>4. Rounded(n, d) = q BY DEF Rounded, q, k, e
<1> QED BY <1>2, <1>3, <1>4 DEF k, e

\* What a quotient and its warning are depends on three fields.
LEMMA QuotientDepends ==
  ASSUME NEW f \in Quotients, NEW x, NEW y, DOMAIN x = DOMAIN y,
         \A g \in Bases[f] \cap DOMAIN x : x[g] = y[g]
  PROVE  /\ Quotient(x, f) = Quotient(y, f)
         /\ (f \in DOMAIN x => x[f] = y[f]) => (Warned(x, f) <=> Warned(y, f))
<1>1. Figure(x, Above[f]) = Figure(y, Above[f]) /\ Figure(x, Below[f]) = Figure(y, Below[f])
  BY QuotientParts DEF Figure
<1>2. Quotient(x, f) = Quotient(y, f) BY <1>1 DEF Quotient
<1>3. ASSUME f \in DOMAIN x => x[f] = y[f] PROVE Warned(x, f) <=> Warned(y, f)
  <2>1. Figure(x, f) = Figure(y, f) BY <1>3 DEF Figure
  <2>2. Above[f] \in DOMAIN x => x[Above[f]] = y[Above[f]] BY QuotientParts
  <2>3. Below[f] \in DOMAIN x => x[Below[f]] = y[Below[f]] BY QuotientParts
  <2>4. Figure(x, f) # Nothing => x[f] = y[f] BY <1>3 DEF Figure
  <2>5. Figure(x, Above[f]) # Nothing => Above[f] \in DOMAIN x BY DEF Figure
  <2>6. Figure(x, Below[f]) # Nothing => Below[f] \in DOMAIN x BY DEF Figure
  <2> QED BY <1>1, <2>1, <2>2, <2>3, <2>4, <2>5, <2>6 DEF Warned
<1> QED BY <1>2, <1>3

\* A quotient that was computed is a number or nothing, and is never warned about.
LEMMA ComputedIsQuiet ==
  ASSUME NEW x, NEW f \in Quotients, \A g \in Bases[f] \cap DOMAIN x : x[g] \in Nat \cup {Nothing}
  PROVE  /\ Quotient(x, f) \in Nat \cup {Nothing}
         /\ f \in DOMAIN x /\ x[f] = Quotient(x, f) => ~Warned(x, f)
<1> DEFINE a == Figure(x, Above[f])
           b == Figure(x, Below[f])
           n == Factor[f] * a
<1>1. a \in Nat \cup {Nothing} /\ b \in Nat \cup {Nothing} BY QuotientParts DEF Figure
<1>2. CASE a = Nothing \/ b \in {Nothing, 0} BY <1>2 DEF Quotient, Warned
<1>3. CASE ~(a = Nothing \/ b \in {Nothing, 0})
  <2>1. a \in Nat /\ b \in Nat \ {0} /\ n \in Nat BY <1>1, <1>3, QuotientParts
  <2>2. a = x[Above[f]] /\ b = x[Below[f]] BY <1>3 DEF Figure
  <2>3. Quotient(x, f) = Rounded(n, b) BY <1>3 DEF Quotient
  <2> HIDE DEF a, b, n
  <2>4. /\ Rounded(n, b) \in Nat
        /\ 2 * (Rounded(n, b) * b) <= 2 * n + b /\ 2 * n <= 2 * (Rounded(n, b) * b) + b
    BY <2>1, RoundedNear
  <2>5. ASSUME f \in DOMAIN x, x[f] = Quotient(x, f), Warned(x, f) PROVE FALSE
    <3> DEFINE c == Rounded(n, b) * b
    <3>1. x[f] * x[Below[f]] = c BY <2>2, <2>3, <2>5
    <3>2. Factor[f] * x[Above[f]] = n BY <2>2 DEF n
    <3>3. c \in Nat BY <2>1, <2>4
    <3> HIDE DEF c
    <3>4. (IF c >= n THEN c - n ELSE n - c) > 100 * b
      BY <2>2, <2>5, <3>1, <3>2 DEF Warned
    <3>5. 2 * c <= 2 * n + b /\ 2 * n <= 2 * c + b BY <2>4 DEF c
    <3> QED BY <2>1, <3>3, <3>4, <3>5
  <2> QED BY <2>3, <2>4, <2>5
<1> QED BY <1>2, <1>3

-----------------------------------------------------------------------------
(* Snapshots.                                                              *)

\* The values of a snapshot, of the empty one too, are figures of the type of video.
LEMMA SnapshotTypes ==
  ASSUME FiguresOK, NEW n \in 0 .. Last
  PROVE  /\ Snapshot(n).values \in FigureRows(video)
         /\ \A f \in FieldsOf(video) \ Texts : Snapshot(n).values[f] \in Nat \cup {Nothing}
         /\ \A f \in FieldsOf(video) : n = 0 => Snapshot(n).values[f] = Nothing
<1>1. CASE n = 0 BY <1>1 DEF Snapshot, Empty, FigureRows
<1>2. CASE n # 0
  <2>1. n \in 1 .. Last /\ snapshots[n] \in SnapshotRows(video) BY <1>2 DEF FiguresOK, Last
  <2> QED BY <1>2, <2>1 DEF Snapshot, FiguresOK, SnapshotRows
<1> QED BY <1>1, <1>2

\* What the server makes of the newest snapshot and of what was sent: sent figures
\* stay, figures that are no quotients and were not sent are those of the snapshot,
\* and a quotient that was not sent is computed or, if it and what it is computed from
\* were left alone, the snapshot's.
LEMMA SnapshotMade ==
  ASSUME FiguresOK, NEW a \in Authors, NEW edit \in Edits, NEW reloaded \in BOOLEAN,
         Submit(a, edit, reloaded)
  PROVE  \E row \in SnapshotRows(video) :
           LET x == row.values  p == Snapshot(Last) IN
           /\ snapshots' = Append(snapshots, row) /\ row.shown = p.values
           /\ \A f \in FieldsOf(video) \ Texts : x[f] \in Nat \cup {Nothing}
           /\ \A f \in FieldsOf(video) \ (row.supplied \cup Quotients) : x[f] = p.values[f]
           /\ \A f \in (FieldsOf(video) \cap Quotients) \ row.supplied :
                \/ x[f] = Quotient(x, f)
                \/ /\ x[f] = p.values[f] /\ x[f] # Nothing
                   /\ \A g \in Bases[f] : g \notin row.supplied
<1> DEFINE S == Payload(form[a], edit)
           p == Snapshot(Last)
           y == Merged(edit, S)
           x == WithQuotients(y, S)
           row == [values |-> x, supplied |-> S, shown |-> Snapshot(form[a]).values]
           F == FieldsOf(video)
<1>1. /\ DOMAIN edit \subseteq F /\ form[a] = Last /\ snapshots' = Append(snapshots, row)
      /\ \A f \in S : Valid(f, edit[f])
  BY DEF Submit, BaseMatches
<1>2. S \subseteq DOMAIN edit /\ S \subseteq F BY <1>1 DEF Payload
<1>3. Last \in 0 .. Last BY DEF FiguresOK, Last
<1>4. /\ p.values \in FigureRows(video) /\ row.shown = p.values
      /\ \A f \in F \ Texts : p.values[f] \in Nat \cup {Nothing}
  BY <1>1, <1>3, SnapshotTypes
<1>5. \A f \in S : edit[f] \in Entered BY <1>2 DEF Entered
<1>6. y \in FigureRows(video) /\ \A f \in F : y[f] = IF f \in S THEN edit[f] ELSE p.values[f]
  BY <1>4, <1>5 DEF Merged, FigureRows
<1>7. \A f \in F \ Texts : y[f] \in Nat \cup {Nothing}
  <2> SUFFICES ASSUME NEW f \in F \ Texts, f \in S PROVE edit[f] \in Nat \cup {Nothing}
    BY <1>4, <1>6
  <2>1. edit[f] \in Int \cup {Nothing} BY <1>2, MetricsAssumption
  <2>2. edit[f] # Nothing => edit[f] >= 0 BY <1>1 DEF Valid, Fits
  <2> QED BY <2>1, <2>2
<1>8. /\ DOMAIN y = F /\ DOMAIN x = F
      /\ \A f \in F : x[f] = IF f \in Quotients \ S /\ (y[f] = Nothing \/ Bases[f] \cap S # {})
                             THEN Quotient(y, f) ELSE y[f]
  BY <1>6 DEF WithQuotients, FigureRows
<1> HIDE DEF x, y, S, p
<1>9. \A f \in Quotients : Quotient(y, f) \in Nat \cup {Nothing} /\ Quotient(x, f) = Quotient(y, f)
  <2> SUFFICES ASSUME NEW f \in Quotients
               PROVE  Quotient(y, f) \in Nat \cup {Nothing} /\ Quotient(x, f) = Quotient(y, f)
    OBVIOUS
  <2>1. \A g \in Bases[f] \cap F : g \notin Quotients \cup Texts BY QuotientParts
  <2>2. \A g \in Bases[f] \cap F : y[g] \in Nat \cup {Nothing} BY <1>7, <2>1
  <2>3. \A g \in Bases[f] \cap F : x[g] = y[g] BY <1>8, <2>1
  <2> QED BY <1>8, <2>2, <2>3, ComputedIsQuiet, QuotientDepends
<1>10. \A f \in F \ Texts : x[f] \in Nat \cup {Nothing}
  BY <1>7, <1>8, <1>9
<1>11. x \in FigureRows(video)
  <2>1. x = [f \in F |-> x[f]] BY <1>8 DEF x, WithQuotients
  <2>2. \A f \in F : y[f] \in Entered \cup Nat \cup {Nothing} BY <1>6 DEF FigureRows
  <2>3. \A f \in F : x[f] \in Entered \cup Nat \cup {Nothing} BY <1>8, <1>9, <2>2
  <2> QED BY <2>1, <2>3 DEF FigureRows
<1>12. row \in SnapshotRows(video) BY <1>2, <1>4, <1>11 DEF SnapshotRows
<1>13. \A f \in F \ (S \cup Quotients) : x[f] = p.values[f] BY <1>6, <1>8
<1>14. ASSUME NEW f \in (F \cap Quotients) \ S
       PROVE  \/ x[f] = Quotient(x, f)
              \/ x[f] = p.values[f] /\ x[f] # Nothing /\ \A g \in Bases[f] : g \notin S
  BY <1>6, <1>8, <1>9
<1> QED BY <1>1, <1>4, <1>10, <1>12, <1>13, <1>14

\* The rows of older snapshots keep what they say.
LEMMA OlderStayFounded ==
  ASSUME MetricsInv, NEW row \in SnapshotRows(video), snapshots' = Append(snapshots, row),
         video' = video
  PROVE  /\ Len(snapshots') = Last + 1 /\ snapshots'[Last + 1] = row
         /\ \A n \in 1 .. Last : snapshots'[n] = snapshots[n]
         /\ snapshots' \in Seq(SnapshotRows(video))
         /\ Last \in Nat
BY DEF MetricsInv, FiguresOK, Last

\* Every step keeps the invariant.
LEMMA MetricsInvStep ==
  ASSUME MetricsInv, [MetricsNext]_metricsVars
  PROVE  MetricsInv'
<1>1. CASE UNCHANGED <<video, snapshots>>
  BY <1>1 DEF MetricsInv, FiguresOK, FiguresAreFounded, Founded, Last, Untouched
<1>2. ASSUME NEW a \in Authors, NEW edit \in Edits, NEW reloaded \in BOOLEAN,
             Submit(a, edit, reloaded)
      PROVE  MetricsInv'
  <2>0. PICK last \in Nat : last = Last BY DEF MetricsInv, FiguresOK, Last
  <2> DEFINE F == FieldsOf(video)
             N == last + 1
             p == Snapshot(Last)
  <2>1. video' = video BY <1>2 DEF Submit
  <2>2. PICK row \in SnapshotRows(video) :
          /\ snapshots' = Append(snapshots, row) /\ row.shown = p.values
          /\ \A f \in F \ Texts : row.values[f] \in Nat \cup {Nothing}
          /\ \A f \in F \ (row.supplied \cup Quotients) : row.values[f] = p.values[f]
          /\ \A f \in (F \cap Quotients) \ row.supplied :
               \/ row.values[f] = Quotient(row.values, f)
               \/ /\ row.values[f] = p.values[f] /\ row.values[f] # Nothing
                  /\ \A g \in Bases[f] : g \notin row.supplied
    BY <1>2, SnapshotMade DEF MetricsInv
  <2>3. /\ Last' = N /\ snapshots'[N] = row /\ Last \in Nat /\ Last = last
        /\ \A n \in 1 .. Last : snapshots'[n] = snapshots[n]
        /\ snapshots' \in Seq(SnapshotRows(video))
    BY <2>0, <2>1, <2>2, OlderStayFounded DEF Last
  <2>4. row \in [values : FigureRows(video), supplied : SUBSET F, shown : FigureRows(video)]
    BY DEF SnapshotRows
  <2>5. DOMAIN row.values = F BY <2>4 DEF FigureRows
  <2>6. FiguresOK'
    <3>1. video' \in Videos /\ snapshots' \in Seq(SnapshotRows(video'))
      BY <2>1, <2>3 DEF MetricsInv, FiguresOK
    <3>2. ASSUME NEW n \in 1 .. N, NEW f \in F \ Texts
          PROVE  snapshots'[n].values[f] \in Nat \cup {Nothing}
      <4>1. CASE n = N BY <4>1, <2>2, <2>3
      <4>2. CASE n # N
        <5>1. n \in 1 .. Last BY <4>2, <2>3
        <5> QED BY <5>1, <2>3 DEF MetricsInv, FiguresOK
      <4> QED BY <4>1, <4>2
    <3>3. \A n \in 1 .. Last' : \A f \in FieldsOf(video') \ Texts :
             snapshots'[n].values[f] \in Nat \cup {Nothing}
      BY <2>1, <2>3, <3>2
    <3> QED BY <3>1, <3>3 DEF FiguresOK
  <2>7. ASSUME NEW f, NEW m \in Nat, NEW n \in 0 .. Last
        PROVE  Untouched(f, m, n)' <=> Untouched(f, m, n)
    <3>1. \A k \in m + 1 .. n : k \in 1 .. Last BY <2>3
    <3>2. \A k \in m + 1 .. n : snapshots'[k] = snapshots[k] BY <3>1, <2>3
    <3> QED BY <3>2 DEF Untouched
  <2>8. ASSUME NEW n \in 1 .. Last PROVE Founded(n)'
    <3>1. Founded(n) /\ n \in 0 .. Last BY DEF MetricsInv, FiguresAreFounded
    <3>2. \A m \in 1 .. n : m \in Nat /\ snapshots'[m] = snapshots[m] BY <2>3
    <3>3. snapshots'[n] = snapshots[n] BY <2>3
    <3>4. \A f : \A m \in 1 .. n : Untouched(f, m, n)' <=> Untouched(f, m, n)
      BY <2>7, <3>1, <3>2
    <3> QED BY <3>1, <3>2, <3>3, <3>4 DEF Founded
  <2>9. ASSUME NEW f \in F \ (row.supplied \cup Quotients) PROVE row.values[f] = row.shown[f]
    BY <2>2
  <2>10. ASSUME NEW f \in F \cap Quotients, row.values[f] # Quotient(row.values, f) \/ Warned(row.values, f)
         PROVE  \E m \in 1 .. N : /\ f \in snapshots'[m].supplied /\ Untouched(f, m, N)'
                                   /\ row.values[f] = snapshots'[m].values[f]
    <3> DEFINE x == row.values
    <3>1. CASE f \in row.supplied
      <4>1. Untouched(f, N, N)' BY <2>3 DEF Untouched
      <4>2. N \in 1 .. N BY <2>3
      <4> QED BY <3>1, <4>1, <4>2, <2>3
    <3>2. CASE f \notin row.supplied
      <4>1. \A g \in Bases[f] \cap DOMAIN x : x[g] \in Nat \cup {Nothing}
        BY <2>2, <2>5, QuotientParts
      <4>2. x[f] # Quotient(x, f) BY <2>5, <2>10, <4>1, ComputedIsQuiet
      <4>3. x[f] = p.values[f] /\ x[f] # Nothing /\ \A g \in Bases[f] : g \notin row.supplied
        BY <2>2, <3>2, <4>2
      <4>4. Last \in 0 .. Last BY <2>3
      <4>5. Last \in 1 .. Last /\ p = snapshots[Last]
        BY <2>3, <4>3, <4>4, SnapshotTypes DEF MetricsInv, Snapshot
      <4>6. DOMAIN p.values = F
        BY <4>4, SnapshotTypes DEF MetricsInv, FigureRows
      <4>7. \A g \in Bases[f] \cap F : x[g] = p.values[g] BY <2>2, <4>3, QuotientParts
      <4>8. /\ Quotient(x, f) = Quotient(p.values, f)
            /\ Warned(x, f) <=> Warned(p.values, f)
        BY <2>5, <4>3, <4>6, <4>7, QuotientDepends
      <4>9. PICK m \in 1 .. Last : /\ f \in snapshots[m].supplied /\ Untouched(f, m, last)
                                   /\ p.values[f] = snapshots[m].values[f]
        BY <2>3, <2>10, <4>3, <4>5, <4>6, <4>8 DEF MetricsInv, FiguresAreFounded, Founded
      <4>10. Untouched(f, m, last)' BY <2>3, <2>7, <4>4, <4>9, m \in Nat
      <4>11. (Bases[f] \cup {f}) \cap row.supplied = {} BY <3>2, <4>3
      <4>12. \A k \in m + 1 .. N : k = N \/ k \in m + 1 .. Last BY <2>3
      <4>13. Untouched(f, m, N)' BY <2>3, <4>10, <4>11, <4>12 DEF Untouched
      <4>14. m \in 1 .. N /\ snapshots'[m] = snapshots[m] BY <2>3
      <4> QED BY <4>3, <4>9, <4>13, <4>14
    <3> QED BY <3>1, <3>2
  <2>11. Founded(N)' BY <2>3, <2>5, <2>9, <2>10, Zenon DEF Founded
  <2>12. \A n \in 1 .. N : n \in 1 .. Last \/ n = N BY <2>3
  <2> QED BY <2>3, <2>6, <2>8, <2>11, <2>12 DEF MetricsInv, FiguresAreFounded
<1>3. CASE \E a \in Authors : Load(a) BY <1>1, <1>3 DEF Load
<1> QED BY <1>1, <1>2, <1>3 DEF MetricsNext, metricsVars

\* No figure comes from nowhere: what an author did not send is what the form showed,
\* and a quotient that does not follow from the figures under it, the only kind that
\* is warned about, was sent by a person after the last change to them.  It holds for
\* every number of authors and snapshots, of what createSnapshot makes of them.
THEOREM FiguresFounded == MetricsSpec => []FiguresAreFounded
<1>1. MetricsInit => MetricsInv
  BY DEF MetricsInit, MetricsInv, FiguresOK, FiguresAreFounded, Last
<1>2. MetricsInv /\ [MetricsNext]_metricsVars => MetricsInv' BY MetricsInvStep
<1>3. MetricsInv => FiguresAreFounded BY DEF MetricsInv
<1> QED BY <1>1, <1>2, <1>3, PTL DEF MetricsSpec

-----------------------------------------------------------------------------
(* Settings.                                                               *)

\* Saved revisions of a setting, and those of the parameters of a stage.
Saves(k) == {r \in revisions : r.target = k}
ParameterSaves(s) == {r \in revisions : r.target = "evaluation_parameters" /\ r.value.stage = s}

\* A save entered over the newest version adds that version to the history.
LEMMA SaveStep ==
  ASSUME SettingsOK, RevisionsTellTheHistory, NothingOverwrittenUnseen, OneModelInForce,
         NEW k \in SettingKeys, NEW value \in Values(k), NEW sent, sent.origin = sent.base,
         Save(k, value, sent)
  PROVE  /\ SettingsOK' /\ NothingOverwrittenUnseen' /\ OneModelInForce'
         /\ \A q \in SettingKeys : SettingHistory(q)'
<1> DEFINE v == settings[k].version + 1
           new == [target |-> k, version |-> v, value |-> value, origin |-> sent.origin]
<1>1. /\ settings[k].version \in Nat /\ sent.origin = settings[k].version
      /\ value \in Parameters \cup {NoValue}
  BY DEF SettingsOK, Save, Unchanged, Values
<1>2. /\ settings' = [settings EXCEPT ![k] = [version |-> v, value |-> value]]
      /\ revisions' = revisions \cup {new} /\ models' = TakeModel(k, value)
  BY DEF Save
<1>3. v \in Nat /\ sent.origin = v - 1 /\ v # settings[k].version BY <1>1
<1> HIDE DEF v
<1>4. new \in [target : SettingKeys, version : Nat, value : Parameters \cup {NoValue}, origin : Nat]
  BY <1>1, <1>3
<1>5. /\ new.target = k /\ new.version = v /\ new.value = value /\ new.origin = v - 1
  BY <1>3
<1> HIDE DEF new
<1>6. \A r \in revisions : r.target = k => r.version \in 1 .. (v - 1)
  BY <1>1, <1>3 DEF RevisionsTellTheHistory, SettingHistory, v
<1>7. IsFiniteSet(revisions') /\ revisions' \subseteq
        [target : SettingKeys, version : Nat, value : Parameters \cup {NoValue}, origin : Nat]
  BY <1>2, <1>4, FS_AddElement DEF SettingsOK
<1>8. settings' \in [SettingKeys -> [version : Nat, value : Parameters \cup {NoValue}]]
  BY <1>1, <1>2, <1>3 DEF SettingsOK
<1>9. NothingOverwrittenUnseen' BY <1>2, <1>5 DEF NothingOverwrittenUnseen
<1>10. ASSUME NEW q \in SettingKeys PROVE SettingHistory(q)'
  <2>1. IsFiniteSet(Saves(q)) BY FS_Subset DEF Saves, SettingsOK
  <2>2. SettingHistory(q) BY DEF RevisionsTellTheHistory
  <2>3. CASE q # k
    <3>1. {r \in revisions' : r.target = q} = {r \in revisions : r.target = q} BY <1>2, <1>5, <2>3
    <3>2. settings'[q] = settings[q] BY <1>2, <2>3 DEF SettingsOK
    <3> QED BY <2>2, <3>1, <3>2 DEF SettingHistory
  <2>4. CASE q = k
    <3> DEFINE S == {r \in revisions' : r.target = k}
    <3>1. S = Saves(k) \cup {new} BY <1>2, <1>5 DEF Saves
    <3>2. new \notin Saves(k) BY <1>3, <1>5, <1>6 DEF Saves
    <3>3. Cardinality(Saves(k)) = v - 1 /\ {r.version : r \in Saves(k)} = 1 .. (v - 1)
      BY <1>1, <2>2, <2>4 DEF SettingHistory, Saves, v
    <3>4. Cardinality(S) = v
      <4>1. Cardinality(S) = Cardinality(Saves(k)) + 1 BY <2>1, <2>4, <3>1, <3>2, FS_AddElement
      <4> QED BY <1>1, <3>3, <4>1 DEF v
    <3>5. {r.version : r \in S} = {r.version : r \in Saves(k)} \cup {v} BY <1>5, <3>1
    <3>6. {r.version : r \in S} = 1 .. v
      <4>1. 1 .. v = 1 .. (v - 1) \cup {v} BY <1>1 DEF v
      <4> QED BY <3>3, <3>5, <4>1
    <3>7. settings'[k] = [version |-> v, value |-> value] BY <1>2 DEF SettingsOK
    <3>8. \A r \in S : r.version = v => r.value = value BY <1>1, <1>5, <1>6, <3>1 DEF Saves, v
    <3> QED BY <2>4, <3>4, <3>6, <3>7, <3>8 DEF SettingHistory
  <2> QED BY <2>3, <2>4
<1>11. /\ \A s \in Stages : \E m \in models' : {n \in models' : n.stage = s} = {m}
       /\ OneModelInForce'
  <2>1. CASE k # "evaluation_parameters"
    <3>1. models' = models BY <1>2, <2>1 DEF TakeModel
    <3>2. \A s : {r \in revisions' : r.target = "evaluation_parameters" /\ r.value.stage = s} = ParameterSaves(s)
      BY <1>2, <1>5, <2>1 DEF ParameterSaves
    <3>3. OneModelInForce'
      <4>1. \A s \in Stages : Cardinality({m \in models' : m.stage = s}) = 1 BY <3>1 DEF OneModelInForce
      <4>2. ASSUME NEW s \in Stages
            PROVE  \A r \in ParameterSaves(s) :
                     (\A q \in ParameterSaves(s) : q.version <= r.version) => r.value \in models'
        BY <3>1 DEF OneModelInForce, ParameterSaves
      <4> QED BY <3>2, <4>1, <4>2 DEF OneModelInForce
    <3> QED BY <3>1, <3>3 DEF SettingsOK
  <2>2. CASE k = "evaluation_parameters"
    <3>1. value.stage \in Stages BY <2>2, ConfigurationAssumption DEF Values, Stages
    <3>2. models' = {m \in models : m.stage # value.stage} \cup {value} BY <1>2, <2>2 DEF TakeModel
    <3>3. ASSUME NEW s \in Stages
          PROVE  /\ \E m \in models' : {n \in models' : n.stage = s} = {m}
                 /\ \A r \in ParameterSaves(s)' : (\A q \in ParameterSaves(s)' : q.version <= r.version) => r.value \in models'
      <4>1. CASE s = value.stage
        <5>1. {n \in models' : n.stage = s} = {value} BY <3>2, <4>1
        <5>2. ASSUME NEW r \in ParameterSaves(s)', \A q \in ParameterSaves(s)' : q.version <= r.version
              PROVE  r = new
          <6>1. new \in ParameterSaves(s)' BY <1>2, <1>5, <2>2, <4>1 DEF ParameterSaves
          <6>2. v <= r.version BY <1>5, <5>2, <6>1
          <6> QED BY <1>1, <1>2, <1>6, <2>2, <6>2 DEF ParameterSaves, v
        <5> QED BY <1>5, <3>2, <5>1, <5>2
      <4>2. CASE s # value.stage
        <5>1. {n \in models' : n.stage = s} = {n \in models : n.stage = s} BY <3>2, <4>2
        <5>2. ParameterSaves(s)' = ParameterSaves(s) BY <1>2, <1>5, <4>2 DEF ParameterSaves
        <5>3. \A r \in ParameterSaves(s) : (\A q \in ParameterSaves(s) : q.version <= r.version) => r.value \in models
          BY DEF OneModelInForce, ParameterSaves
        <5>4. \A r \in ParameterSaves(s) : r.value \in models => r.value \in models'
          BY <3>2, <4>2 DEF ParameterSaves
        <5> QED BY <3>2, <4>2, <5>1, <5>2, <5>3, <5>4 DEF SettingsOK
      <4> QED BY <4>1, <4>2
    <3>4. \A s \in Stages : Cardinality({n \in models' : n.stage = s}) = 1 BY <3>3, FS_Singleton
    <3> QED BY <3>3, <3>4 DEF OneModelInForce, ParameterSaves
  <2> QED BY <2>1, <2>2
<1> QED BY <1>7, <1>8, <1>9, <1>10, <1>11 DEF SettingsOK

-----------------------------------------------------------------------------
(* The console.                                                            *)

ConsoleFields ==
  [data : Shown, loaded : BOOLEAN, fetch : {"none", "asked", "read"}, answer : Shown,
   orphans : SUBSET [key : Policies, put : Requests], forms : [SettingKeys -> Sheets]]

\* A console as it can be: an answer that arrives has a version for every setting.
Sane(c) == c \in ConsoleFields /\ (c.fetch = "read" => c.answer \in [SettingKeys -> Nat])

\* The form of a setting shows the version it is sent with, and so does its request.
LEMMA SheetsAgree ==
  ASSUME ConsoleOK, NEW k \in SettingKeys
  PROVE  /\ Sane(console) /\ sheet(k) \in Sheets /\ sheet(k).put \in Requests
         /\ sheet(k).base \in Nat /\ sheet(k).origin = sheet(k).base
         /\ sheet(k).put.base \in Nat /\ sheet(k).put.origin = sheet(k).put.base
BY DEF ConsoleOK, Sane, ConsoleFields, sheet, Sheets, Requests

\* A form on a version, one that takes a version over, and one whose request changes.
LEMMA SheetsMade ==
  /\ NoPut \in Requests
  /\ \A v \in Nat : FormOn(v) \in Sheets
  /\ \A f \in Sheets, v \in Nat : Rebase(f, v) \in Sheets
  /\ \A f \in Sheets, p \in Requests : [f EXCEPT !.put = p] \in Sheets
  /\ \A f \in Sheets, d \in BOOLEAN : [f EXCEPT !.dirty = d] \in Sheets
BY DEF NoPut, Requests, FormOn, Sheets, Rebase

\* One form is replaced.
LEMMA FormStep ==
  ASSUME ConsoleOK, NEW k \in SettingKeys, NEW f \in Sheets
  PROVE  Sane(SetForm(k, f)) /\ Sane(Ask(SetForm(k, f)))
<1>1. Sane(SetForm(k, f)) BY DEF ConsoleOK, Sane, ConsoleFields, SetForm
<1>2. ASSUME NEW c, Sane(c) PROVE Sane(Ask(c))
  BY <1>2 DEF Sane, ConsoleFields, Ask, Shown
<1> QED BY <1>1, <1>2

\* The forms of a page that starts again.
LEMMA AbandonStep ==
  ASSUME ConsoleOK, NEW data \in Shown, Abandon(data)
  PROVE  ConsoleOK'
<1> DEFINE F(k) == IF k \in Policies THEN FormOn(IF data = NoData THEN 0 ELSE data[k])
                   ELSE [sheet(k) EXCEPT !.dirty = FALSE]
           drafts == [k \in SettingKeys |-> F(k)]
<1>1. \A k \in SettingKeys : (IF data = NoData THEN 0 ELSE data[k]) \in Nat BY DEF Shown
<1>2. drafts \in [SettingKeys -> Sheets] BY <1>1, SheetsAgree, SheetsMade
<1>3. Abandoned \in SUBSET [key : Policies, put : Requests]
  <2>1. console.orphans \in SUBSET [key : Policies, put : Requests] BY DEF ConsoleOK
  <2>2. \A k \in Policies : sheet(k).put \in Requests BY SheetsAgree DEF SettingKeys
  <2> QED BY <2>1, <2>2 DEF Abandoned, Orphans
<1>4. console' = Ask([WithForms(console, F) EXCEPT !.data = data, !.loaded = FALSE, !.orphans = Abandoned])
  BY DEF Abandon
<1>5. console' = [console EXCEPT !.forms = drafts, !.data = data, !.loaded = FALSE, !.orphans = Abandoned,
                    !.fetch = "asked", !.answer = NoData]
  BY <1>4, SheetsAgree DEF Ask, WithForms, ConsoleOK
<1> HIDE DEF drafts
<1> QED BY <1>2, <1>3, <1>5 DEF ConsoleOK, Shown

\* What happens at the console: forms edited, sent, answered, reloaded; the settings
\* asked for, read, delivered and lost; the page left with requests in flight.
LEMMA ConsoleStep ==
  ASSUME ConsoleOK, SettingsOK, SettingsNext
  PROVE  ConsoleOK'
<1>1. ASSUME Sane(console') PROVE ConsoleOK' BY <1>1 DEF Sane, ConsoleFields, ConsoleOK
<1>2. ASSUME NEW k \in SettingKeys,
             \/ SaveElsewhere(k) \/ Edit(k) \/ SendForm(k) \/ Serve(k) \/ Fail(k) \/ Saved(k)
             \/ ReloadForm(k)
      PROVE  Sane(console')
  <2>1. CASE SaveElsewhere(k) BY <2>1, SheetsAgree DEF SaveElsewhere
  <2>2. CASE Edit(k) BY <2>2, SheetsAgree, SheetsMade, FormStep DEF Edit
  <2>3. CASE SendForm(k)
    <3> DEFINE p == [at |-> "sent", base |-> sheet(k).base, origin |-> sheet(k).origin]
    <3>1. p \in Requests BY SheetsAgree DEF Requests
    <3> HIDE DEF p
    <3>2. console' = SetForm(k, [sheet(k) EXCEPT !.put = p]) BY <2>3 DEF SendForm, p
    <3> QED BY <3>1, <3>2, SheetsAgree, SheetsMade, FormStep
  <2>4. CASE Serve(k)
    <3> DEFINE p == [sheet(k).put EXCEPT !.at = "saved"]
    <3>1. p \in Requests BY SheetsAgree DEF Requests
    <3>2. [sheet(k) EXCEPT !.put.at = "saved"] = [sheet(k) EXCEPT !.put = p]
      BY SheetsAgree DEF Sheets
    <3>3. console' = SetForm(k, [sheet(k) EXCEPT !.put = p]) BY <2>4, <3>2 DEF Serve
    <3> HIDE DEF p
    <3> QED BY <3>1, <3>3, SheetsAgree, SheetsMade, FormStep
  <2>5. CASE Fail(k) BY <2>5, SheetsAgree, SheetsMade, FormStep DEF Fail
  <2>6. CASE Saved(k)
    <3>1. sheet(k).put.base + 1 \in Nat BY SheetsAgree
    <3> QED BY <2>6, <3>1, SheetsMade, FormStep DEF Saved
  <2>7. CASE ReloadForm(k)
    <3>1. console.data[k] \in Nat BY <2>7 DEF ReloadForm, ConsoleOK, Shown
    <3> QED BY <2>7, <3>1, SheetsMade, FormStep DEF ReloadForm
  <2> QED BY <1>2, <2>1, <2>2, <2>3, <2>4, <2>5, <2>6, <2>7
<1>3. CASE ReadSettings
  <2>1. [k \in SettingKeys |-> settings[k].version] \in [SettingKeys -> Nat] BY DEF SettingsOK
  <2> QED BY <1>3, <2>1 DEF ReadSettings, ConsoleOK, Shown
<1>4. CASE DeliverSettings
  <2> DEFINE row == console.answer
             F(k) == IF k \in Inline THEN InlineForm(sheet(k), row[k]) ELSE PolicyForm(sheet(k), row[k])
             fs == [k \in SettingKeys |-> F(k)]
  <2>1. row \in [SettingKeys -> Nat] BY <1>4 DEF DeliverSettings, ConsoleOK
  <2>2. fs \in [SettingKeys -> Sheets]
    <3> SUFFICES ASSUME NEW k \in SettingKeys PROVE F(k) \in Sheets OBVIOUS
    <3>1. row[k] \in Nat /\ sheet(k) \in Sheets BY <2>1, SheetsAgree
    <3> HIDE DEF row
    <3>2. InlineForm(sheet(k), row[k]) \in Sheets BY <3>1, SheetsMade DEF InlineForm
    <3>3. PolicyForm(sheet(k), row[k]) \in Sheets BY <3>1, SheetsMade DEF PolicyForm
    <3> QED BY <3>2, <3>3
  <2>3. console' = [WithForms(console, F) EXCEPT !.data = row, !.loaded = TRUE,
                                                 !.fetch = "none", !.answer = NoData]
    BY <1>4 DEF DeliverSettings
  <2>4. console' = [console EXCEPT !.forms = fs, !.data = row, !.loaded = TRUE,
                                   !.fetch = "none", !.answer = NoData]
    BY <2>3, SheetsAgree DEF WithForms, ConsoleOK
  <2> HIDE DEF fs, row
  <2> QED BY <2>1, <2>2, <2>4 DEF ConsoleOK, Shown
<1>5. CASE LoseSettings BY <1>5 DEF LoseSettings, ConsoleOK, Shown
<1>6. CASE Refresh \/ ChooseSettings
  <2>1. console.data \in Shown /\ NoData \in Shown BY DEF ConsoleOK, Shown
  <2> QED BY <1>6, <2>1, AbandonStep DEF Refresh, ChooseSettings
<1>7. ASSUME NEW o \in console.orphans, ServeOrphan(o) \/ SavedOrphan(o) \/ LoseOrphan(o)
      PROVE  Sane(console')
  <2>1. o \in [key : Policies, put : Requests] BY DEF ConsoleOK
  <2>2. [o EXCEPT !.put.at = "saved"] \in [key : Policies, put : Requests] BY <2>1 DEF Requests
  <2>3. \A c, q : Sane(c) /\ q \in SUBSET [key : Policies, put : Requests]
          => Sane([c EXCEPT !.orphans = q]) /\ Sane(Ask([c EXCEPT !.orphans = q]))
    BY DEF Sane, ConsoleFields, Ask, Shown
  <2>4. console.orphans \in SUBSET [key : Policies, put : Requests] BY DEF ConsoleOK
  <2>5. CASE ServeOrphan(o)
    <3> DEFINE q == (console.orphans \ {o}) \cup {[o EXCEPT !.put.at = "saved"]}
    <3>1. q \in SUBSET [key : Policies, put : Requests] BY <2>2, <2>4
    <3>2. console' = [console EXCEPT !.orphans = q] BY <2>5 DEF ServeOrphan
    <3> HIDE DEF q
    <3> QED BY <2>3, <3>1, <3>2, <2>1, SheetsAgree DEF ConsoleOK, Sane, ConsoleFields
  <2>6. CASE SavedOrphan(o) \/ LoseOrphan(o)
    <3> DEFINE q == console.orphans \ {o}
    <3>1. q \in SUBSET [key : Policies, put : Requests] BY <2>4
    <3>2. console' = [console EXCEPT !.orphans = q] \/ console' = Ask([console EXCEPT !.orphans = q])
      BY <2>6 DEF SavedOrphan, LoseOrphan
    <3> HIDE DEF q
    <3> QED BY <2>3, <3>1, <3>2 DEF ConsoleOK, Sane, ConsoleFields
  <2> QED BY <1>7, <2>5, <2>6
<1> QED BY <1>1, <1>2, <1>3, <1>4, <1>5, <1>6, <1>7 DEF SettingsNext

\* Whatever happens at the console or elsewhere, a setting is saved over the newest
\* version or not at all.
LEMMA SettingsStep ==
  ASSUME ConsoleOK, SettingsOK, RevisionsTellTheHistory, NothingOverwrittenUnseen,
         OneModelInForce, SettingsNext
  PROVE  /\ SettingsOK' /\ NothingOverwrittenUnseen' /\ OneModelInForce'
         /\ \A q \in SettingKeys : SettingHistory(q)'
<1> DEFINE Good == /\ SettingsOK' /\ NothingOverwrittenUnseen' /\ OneModelInForce'
                   /\ \A q \in SettingKeys : SettingHistory(q)'
<1>1. ASSUME UNCHANGED <<settings, models, revisions>> PROVE Good
  BY <1>1 DEF SettingsOK, RevisionsTellTheHistory, NothingOverwrittenUnseen, OneModelInForce,
              SettingHistory
<1>2. ASSUME NEW k \in SettingKeys, NEW value \in Values(k), NEW sent, sent.origin = sent.base,
             Save(k, value, sent)
      PROVE  Good
  BY <1>2, SaveStep
<1> HIDE DEF Good
<1>3. ASSUME NEW k \in SettingKeys, SaveElsewhere(k) PROVE Good BY <1>2, <1>3 DEF SaveElsewhere
<1>4. ASSUME NEW k \in SettingKeys, Serve(k) PROVE Good
  BY <1>2, <1>4, SheetsAgree DEF Serve
<1>5. ASSUME NEW o \in console.orphans, ServeOrphan(o) PROVE Good
  <2>1. o.key \in SettingKeys /\ o.put.origin = o.put.base
    BY DEF ConsoleOK, Requests, SettingKeys
  <2> QED BY <1>2, <1>5, <2>1 DEF ServeOrphan
<1>6. Good
  BY <1>1, <1>3, <1>4, <1>5 DEF SettingsNext, Edit, SendForm, Fail, Saved, ReloadForm, ReadSettings,
     DeliverSettings, LoseSettings, Refresh, ChooseSettings, SavedOrphan, LoseOrphan
<1> QED BY <1>6 DEF Good

-----------------------------------------------------------------------------
(* Benchmarks.                                                             *)

\* Revisions of a benchmark.
Changes(i) == {c \in changes : c.row = i}

\* The greatest of the first n numbers is n.
LEMMA GreatestVersion ==
  ASSUME NEW n \in Nat \ {0}
  PROVE  Ext!Max(1 .. n) = n
<1>1. n \in 1 .. n /\ \A y \in 1 .. n : n >= y OBVIOUS
<1>2. Ext!Max(1 .. n) \in 1 .. n /\ \A y \in 1 .. n : Ext!Max(1 .. n) >= y BY <1>1 DEF Ext!Max
<1>3. Ext!Max(1 .. n) >= n BY <1>1, <1>2
<1> QED BY <1>2, <1>3

\* A new benchmark starts its history.
LEMMA InsertStep ==
  ASSUME BenchmarksOK, \A i \in DOMAIN rows : BenchmarkHistory(i), NEW a \in Managers, InsertNew(a)
  PROVE  BenchmarksOK' /\ \A i \in DOMAIN rows' : BenchmarkHistory(i)'
<1> DEFINE e == work[a].entry
           n == Len(rows) + 1
           new == [row |-> n, version |-> 1, value |-> e]
<1>1. e \in Entries BY DEF InsertNew, BenchmarksOK, WorkRows, Idle
<1>2. /\ rows' = Append(rows, e) /\ changes' = changes \cup {new}
      /\ work' = [work EXCEPT ![a] = Idle] /\ UNCHANGED profiles
  BY DEF InsertNew, Close
<1>3. rows \in Seq(Entries) /\ n \in Nat /\ n \notin DOMAIN rows /\ DOMAIN rows \subseteq Nat
  BY DEF BenchmarksOK
<1> HIDE DEF e
<1>4. /\ rows' \in Seq(Entries) /\ DOMAIN rows' = DOMAIN rows \cup {n}
      /\ rows'[n] = e /\ \A i \in DOMAIN rows : rows'[i] = rows[i]
  <2>1. Len(rows') = n /\ rows' \in Seq(Entries) BY <1>1, <1>2, <1>3
  <2>2. DOMAIN rows' = 1 .. n /\ DOMAIN rows = 1 .. Len(rows) BY <1>3, <2>1
  <2> QED BY <1>1, <1>2, <1>3, <2>1, <2>2
<1> HIDE DEF n
<1>5. /\ new \in [row : DOMAIN rows', version : Nat, value : Entries]
      /\ new.row = n /\ new.version = 1 /\ new.value = e
  BY <1>1, <1>4
<1> HIDE DEF new
<1>6. changes \subseteq [row : DOMAIN rows', version : Nat, value : Entries]
  BY <1>4 DEF BenchmarksOK
<1>7. IsFiniteSet(changes') BY <1>2, FS_AddElement DEF BenchmarksOK
<1>8. work' \in [Managers -> WorkRows'] BY <1>2, <1>4 DEF BenchmarksOK, WorkRows
<1>9. ASSUME NEW i \in DOMAIN rows' PROVE BenchmarkHistory(i)'
  <2>1. CASE i \in DOMAIN rows
    <3>1. {c \in changes' : c.row = i} = {c \in changes : c.row = i} BY <1>2, <1>3, <1>5, <2>1
    <3> QED BY <1>4, <2>1, <3>1 DEF BenchmarkHistory
  <2>2. CASE i = n
    <3>1. {c \in changes' : c.row = i} = {new} BY <1>2, <1>3, <1>5, <2>2 DEF BenchmarksOK
    <3>2. Cardinality({new}) = 1 BY FS_Singleton
    <3>3. {c.version : c \in {new}} = 1 .. 1 BY <1>5
    <3> QED BY <1>4, <1>5, <2>2, <3>1, <3>2, <3>3 DEF BenchmarkHistory
  <2> QED BY <1>4, <2>1, <2>2
<1> QED BY <1>2, <1>4, <1>5, <1>6, <1>7, <1>8, <1>9 DEF BenchmarksOK

\* A change goes on where the history ends, and starts it for a row without one.
LEMMA UpdateStep ==
  ASSUME BenchmarksOK, \A i \in DOMAIN rows : BenchmarkHistory(i), NEW a \in Managers, UpdateRow(a)
  PROVE  BenchmarksOK' /\ \A i \in DOMAIN rows' : BenchmarkHistory(i)'
<1> DEFINE i == work[a].row
           e == work[a].entry
           known == changes \cup Baseline(i)
           last == Ext!Max({c.version : c \in {d \in known : d.row = i}})
           new == [row |-> i, version |-> last + 1, value |-> e]
<1>1. i \in DOMAIN rows /\ e \in Entries BY DEF UpdateRow, BenchmarksOK, WorkRows, Idle
<1>2. /\ rows' = [rows EXCEPT ![i] = e] /\ changes' = known \cup {new}
      /\ work' = [work EXCEPT ![a] = Idle] /\ UNCHANGED profiles
  BY DEF UpdateRow, Close
<1>3. rows \in Seq(Entries) /\ rows[i] \in Entries BY <1>1 DEF BenchmarksOK
<1> HIDE DEF i, e
<1>4. /\ rows' \in Seq(Entries) /\ DOMAIN rows' = DOMAIN rows
      /\ rows'[i] = e /\ \A j \in DOMAIN rows : j # i => rows'[j] = rows[j]
  BY <1>1, <1>2, <1>3
<1> DEFINE S == {c \in known : c.row = i}
<1>5. PICK n \in Nat \ {0} :
        /\ {c.version : c \in S} = 1 .. n /\ Cardinality(S) = n /\ IsFiniteSet(S)
        /\ IsFiniteSet(known)
        /\ known \subseteq [row : DOMAIN rows, version : Nat, value : Entries]
        /\ \A j \in DOMAIN rows \ {i} : {c \in known : c.row = j} = Changes(j)
  <2>1. BenchmarkHistory(i) /\ IsFiniteSet(Changes(i)) BY <1>1, FS_Subset DEF BenchmarksOK, Changes
  <2>2. /\ Cardinality(Changes(i)) \in Nat /\ (Cardinality(Changes(i)) = 0 <=> Changes(i) = {})
        /\ {c.version : c \in Changes(i)} = 1 .. Cardinality(Changes(i))
    BY <2>1, FS_CardinalityType, FS_EmptySet DEF BenchmarkHistory, Changes
  <2>3. CASE VersionsOf(i) = {}
    <3> DEFINE base == [row |-> i, version |-> 1, value |-> rows[i]]
    <3>1. Changes(i) = {} BY <2>3 DEF VersionsOf, Changes
    <3>2. known = changes \cup {base} BY <2>3 DEF Baseline
    <3>3. base.row = i /\ base.version = 1 OBVIOUS
    <3>4. base \in [row : DOMAIN rows, version : Nat, value : Entries] BY <1>1, <1>3
    <3> HIDE DEF base, known
    <3>5. S = {base} BY <3>1, <3>2, <3>3 DEF Changes
    <3>6. IsFiniteSet(S) /\ Cardinality(S) = 1 BY <3>5, FS_Singleton
    <3>7. {c.version : c \in S} = 1 .. 1 BY <3>3, <3>5
    <3>8. IsFiniteSet(known) BY <3>2, FS_AddElement DEF BenchmarksOK
    <3>9. \A j \in DOMAIN rows \ {i} : {c \in known : c.row = j} = Changes(j)
      BY <3>2, <3>3 DEF Changes
    <3>10. known \subseteq [row : DOMAIN rows, version : Nat, value : Entries]
      BY <3>2, <3>4 DEF BenchmarksOK
    <3> HIDE DEF S
    <3> QED BY <3>6, <3>7, <3>8, <3>9, <3>10
  <2>4. CASE VersionsOf(i) # {}
    <3>1. known = changes BY <2>4 DEF Baseline
    <3>2. Changes(i) # {} BY <2>4 DEF VersionsOf, Changes
    <3>3. S = Changes(i) BY <3>1 DEF Changes
    <3>4. Cardinality(S) \in Nat \ {0} BY <2>2, <3>2, <3>3
    <3>5. \A j \in DOMAIN rows \ {i} : {c \in known : c.row = j} = Changes(j) BY <3>1 DEF Changes
    <3>6. IsFiniteSet(known) /\ known \subseteq [row : DOMAIN rows, version : Nat, value : Entries]
      BY <3>1 DEF BenchmarksOK
    <3> HIDE DEF S, known
    <3> QED BY <2>1, <2>2, <3>3, <3>4, <3>5, <3>6
  <2> QED BY <2>3, <2>4
<1>6. last = n BY <1>5, GreatestVersion
<1> HIDE DEF last
<1>7. /\ new \in [row : DOMAIN rows, version : Nat, value : Entries]
      /\ new.row = i /\ new.version = n + 1 /\ new.value = e
  BY <1>1, <1>5, <1>6 DEF i, e
<1> HIDE DEF new, known
<1>8. IsFiniteSet(changes') /\ changes' \subseteq [row : DOMAIN rows', version : Nat, value : Entries]
  BY <1>2, <1>4, <1>5, <1>7, FS_AddElement
<1>9. work' \in [Managers -> WorkRows'] BY <1>2, <1>4 DEF BenchmarksOK, WorkRows
<1>10. ASSUME NEW j \in DOMAIN rows' PROVE BenchmarkHistory(j)'
  <2>1. CASE j # i
    <3>1. {c \in changes' : c.row = j} = {c \in changes : c.row = j}
      BY <1>2, <1>4, <1>5, <1>7, <2>1 DEF Changes
    <3> QED BY <1>4, <2>1, <3>1 DEF BenchmarkHistory
  <2>2. CASE j = i
    <3> DEFINE T == {c \in changes' : c.row = i}
    <3>1. T = S \cup {new} BY <1>2, <1>7
    <3>2. \A c \in S : c.version \in 1 .. n BY <1>5
    <3>3. new \notin S BY <1>5, <1>7, <3>2
    <3> HIDE DEF S
    <3>4. Cardinality(T) = n + 1 BY <1>5, <3>1, <3>3, FS_AddElement
    <3>5. {c.version : c \in T} = {c.version : c \in S} \cup {n + 1} BY <1>7, <3>1
    <3>6. 1 .. (n + 1) = 1 .. n \cup {n + 1} BY <1>5
    <3>7. \A c \in T : c.version = n + 1 => c.value = e BY <1>5, <1>7, <3>1, <3>2
    <3> HIDE DEF T
    <3>8. {c.version : c \in T} = 1 .. (n + 1) BY <1>5, <3>5, <3>6
    <3> QED BY <1>4, <2>2, <3>4, <3>7, <3>8 DEF BenchmarkHistory, T
  <2> QED BY <2>1, <2>2
<1> QED BY <1>4, <1>8, <1>9, <1>10 DEF BenchmarksOK

\* The checks before a change, and the row that it waits for.
LEMMA CheckStep ==
  ASSUME BenchmarksOK, NEW a \in Managers, NEW e \in Entries,
         CheckNew(a, e) \/ \E i \in DOMAIN rows : LockRow(a, i, e)
  PROVE  BenchmarksOK' /\ UNCHANGED <<rows, changes, profiles>>
<1>1. UNCHANGED <<rows, changes, profiles>> BY DEF CheckNew, LockRow
<1>2. PICK t \in WorkRows : work' = [work EXCEPT ![a] = t]
  <2>1. CASE CheckNew(a, e)
    <3>1. [op |-> "create", entry |-> e] \in WorkRows BY DEF WorkRows
    <3> QED BY <2>1, <3>1 DEF CheckNew, Open
  <2>2. ASSUME NEW i \in DOMAIN rows, LockRow(a, i, e)
        PROVE  \E t \in WorkRows : work' = [work EXCEPT ![a] = t]
    <3>1. [op |-> "replace", row |-> i, entry |-> e] \in WorkRows BY DEF WorkRows
    <3> QED BY <2>2, <3>1 DEF LockRow, Open
  <2> QED BY <2>1, <2>2
<1>3. WorkRows' = WorkRows BY <1>1 DEF WorkRows
<1> QED BY <1>1, <1>2, <1>3 DEF BenchmarksOK

-----------------------------------------------------------------------------
(* Profiles.                                                               *)

\* The greatest of a set of numbers.
LEMMA Greatest ==
  ASSUME NEW S \in SUBSET Nat, NEW m \in S, \A y \in S : y <= m
  PROVE  Ext!Max(S) = m
<1>1. \A y \in S : m >= y OBVIOUS
<1>2. Ext!Max(S) \in S /\ \A y \in S : Ext!Max(S) >= y BY <1>1 DEF Ext!Max
<1>3. Ext!Max(S) \in Nat /\ m \in Nat /\ Ext!Max(S) >= m /\ Ext!Max(S) <= m BY <1>2
<1> QED BY <1>3

\* The places of approvals, and 0 for none.
Ats == {0} \cup {profiles[i].at : i \in DOMAIN profiles}

\* No profile is approved after the last approval.
LEMMA LastApproval ==
  ASSUME ProfilesOK
  PROVE  /\ Ats \in SUBSET Nat /\ Approvals = Ext!Max(Ats) /\ \A y \in Ats : y <= Approvals
         /\ \A i \in DOMAIN profiles : profiles[i] \in ProfileRows
<1>1. \A i \in DOMAIN profiles : profiles[i] \in ProfileRows
  BY ElementOfSeq DEF ProfilesOK
<1>2. \A y \in Ats : y <= Approvals BY <1>1 DEF Ats, ProfilesOK
<1> QED BY <1>1, <1>2 DEF Ats, Approvals, ProfilesOK, ProfileRows

\* A draft changes nothing about what is in force.
LEMMA CreateStep ==
  ASSUME ProfilesOK, BenchmarksOK, OneProfileInForce, NEW a \in Managers, CreateProfile(a)
  PROVE  ProfilesOK' /\ BenchmarksOK' /\ OneProfileInForce'
<1> DEFINE n == Len(profiles) + 1
           draft == [at |-> 0, enabled |-> FALSE]
<1>1. profiles \in Seq(ProfileRows) /\ draft \in ProfileRows
      /\ Approvals \in Nat
  BY DEF ProfilesOK, ProfileRows
<1>2. /\ profiles' = Append(profiles, draft) /\ UNCHANGED <<rows, changes, work>>
  BY DEF CreateProfile
<1>3. draft.at = 0 /\ draft.enabled = FALSE OBVIOUS
<1> HIDE DEF draft
<1>4. /\ profiles' \in Seq(ProfileRows) /\ DOMAIN profiles' = DOMAIN profiles \cup {n}
      /\ n \notin DOMAIN profiles
      /\ profiles'[n] = draft /\ \A i \in DOMAIN profiles : profiles'[i] = profiles[i]
  <2>1. Len(profiles') = n /\ profiles' \in Seq(ProfileRows) BY <1>1, <1>2
  <2>2. DOMAIN profiles' = 1 .. n /\ DOMAIN profiles = 1 .. Len(profiles) BY <1>1, <2>1
  <2> QED BY <1>1, <1>2, <2>1, <2>2
<1> HIDE DEF n
<1>5. Ats' = Ats BY <1>3, <1>4 DEF Ats
<1>6. Approvals' = Approvals BY <1>5 DEF Approvals, Ats
<1>7. InForce' = InForce BY <1>3, <1>4 DEF InForce
<1>8. ProfilesOK' BY <1>1, <1>3, <1>4, <1>6 DEF ProfilesOK
<1>9. BenchmarksOK' BY <1>2, <1>4 DEF BenchmarksOK, WorkRows
<1>10. OneProfileInForce' BY <1>4, <1>6, <1>7 DEF OneProfileInForce
<1> QED BY <1>8, <1>9, <1>10

\* An approval puts its profile in force and no other one.
LEMMA ApproveStep ==
  ASSUME ProfilesOK, BenchmarksOK, NEW a \in Managers, ApproveProfile(a)
  PROVE  ProfilesOK' /\ BenchmarksOK' /\ OneProfileInForce'
<1> DEFINE i == work[a].row
           new == [at |-> Approvals + 1, enabled |-> TRUE]
<1>1. i \in DOMAIN profiles
  BY DEF ApproveProfile, HasKey, BenchmarksOK, WorkRows, Idle
<1>2. /\ profiles' = InsteadOfOthers(i) /\ UNCHANGED <<rows, changes>>
      /\ work' = [work EXCEPT ![a] = Idle]
  BY DEF ApproveProfile, Close
<1> HIDE DEF i
<1>3. profiles \in Seq(ProfileRows) /\ Approvals \in Nat
  BY DEF ProfilesOK
<1>4. new.at = Approvals + 1 /\ new.enabled = TRUE /\ new \in ProfileRows
  BY <1>3 DEF ProfileRows
<1>5. /\ DOMAIN profiles' = DOMAIN profiles /\ profiles'[i] = new
      /\ \A j \in DOMAIN profiles : j # i =>
           /\ profiles'[j].at = profiles[j].at /\ profiles'[j].enabled = FALSE
           /\ profiles'[j] \in ProfileRows
  BY <1>1, <1>2, LastApproval DEF InsteadOfOthers, ProfileRows
<1> HIDE DEF new
<1>6. profiles' \in Seq(ProfileRows)
  <2>1. DOMAIN profiles = 1 .. Len(profiles) /\ Len(profiles) \in Nat BY <1>3
  <2>2. profiles' = [j \in 1 .. Len(profiles) |-> profiles'[j]]
    BY <1>2, <1>5, <2>1 DEF InsteadOfOthers
  <2>3. \A j \in 1 .. Len(profiles) : profiles'[j] \in ProfileRows
    BY <1>4, <1>5, <2>1
  <2>4. profiles' \in [1 .. Len(profiles) -> ProfileRows] BY <2>2, <2>3
  <2> QED BY <2>1, <2>4
<1>7. Approvals' = Approvals + 1
  <2>1. \A j \in DOMAIN profiles' : profiles'[j].at \in Nat /\ profiles'[j].at <= Approvals + 1
    <3>1. \A j \in DOMAIN profiles : profiles[j].at \in Nat /\ profiles[j].at <= Approvals
      BY LastApproval DEF ProfilesOK, ProfileRows
    <3> QED BY <1>3, <1>4, <1>5, <3>1
  <2>2. Approvals + 1 \in Ats' BY <1>1, <1>4, <1>5 DEF Ats
  <2>3. Ats' \in SUBSET Nat /\ \A y \in Ats' : y <= Approvals + 1 BY <1>3, <2>1 DEF Ats
  <2>4. Ext!Max(Ats') = Approvals + 1 BY <2>2, <2>3, Greatest
  <2> QED BY <2>4 DEF Approvals, Ats
<1>8. ProfilesOK'
  <2>1. \A j \in DOMAIN profiles : profiles[j].at \in Nat /\ profiles[j].at <= Approvals
    BY LastApproval DEF ProfilesOK, ProfileRows
  <2>2. \A j \in DOMAIN profiles' : profiles'[j].at <= Approvals' BY <1>3, <1>4, <1>5, <1>7, <2>1
  <2> QED BY <1>3, <1>6, <1>7, <2>2 DEF ProfilesOK
<1>9. BenchmarksOK' BY <1>2, <1>5 DEF BenchmarksOK, WorkRows
<1>10. InForce' = {i} BY <1>1, <1>3, <1>4, <1>5 DEF InForce
<1>11. OneProfileInForce' BY <1>1, <1>4, <1>5, <1>7, <1>10 DEF OneProfileInForce
<1> QED BY <1>8, <1>9, <1>11

\* The locks of approvals, taken and given up.
LEMMA LockStep ==
  ASSUME BenchmarksOK, NEW a \in Managers,
         LockKey(a) \/ BreakDeadlock(a) \/ \E i \in DOMAIN profiles : LockProfile(a, i)
  PROVE  BenchmarksOK' /\ UNCHANGED <<rows, changes, profiles>>
<1>1. UNCHANGED <<rows, changes, profiles>> BY DEF LockKey, BreakDeadlock, LockProfile
<1>2. PICK t \in WorkRows : work' = [work EXCEPT ![a] = t]
  <2>1. CASE LockKey(a)
    <3> DEFINE t == [work[a] EXCEPT !.key = TRUE]
    <3>1. t \in WorkRows BY <2>1 DEF LockKey, BenchmarksOK, WorkRows, Idle
    <3>2. work' = [work EXCEPT ![a] = t] BY <2>1 DEF LockKey
    <3> QED BY <3>1, <3>2
  <2>2. CASE BreakDeadlock(a) BY <2>2 DEF BreakDeadlock, Close, WorkRows
  <2>3. ASSUME NEW i \in DOMAIN profiles, LockProfile(a, i)
        PROVE  \E t \in WorkRows : work' = [work EXCEPT ![a] = t]
    <3>1. [op |-> "approve", row |-> i, key |-> FALSE] \in WorkRows BY DEF WorkRows
    <3> QED BY <2>3, <3>1 DEF LockProfile, Open
  <2> QED BY <2>1, <2>2, <2>3
<1>3. WorkRows' = WorkRows BY <1>1 DEF WorkRows
<1> QED BY <1>1, <1>2, <1>3 DEF BenchmarksOK

-----------------------------------------------------------------------------
(* The selection of benchmarks.                                            *)

\* Of a set of numbers there is a least one.
LEMMA LeastExists ==
  ASSUME NEW S \in SUBSET Nat, S # {}
  PROVE  Ext!Min(S) \in S
<1>1. PICK x \in S : \A y \in S : ~(<<y, x>> \in OpToRel(<, Nat))
  <2>1. S \subseteq Nat /\ S # {} OBVIOUS
  <2> QED BY <2>1, NatLessThanWellFounded, WFMin, Zenon
<1>2. ASSUME NEW y \in S PROVE x <= y
  <2>1. y \in Nat /\ x \in Nat OBVIOUS
  <2>2. ~(y < x) BY <1>1, <2>1 DEF OpToRel
  <2> QED BY <2>1, <2>2
<1> QED BY <1>2 DEF Ext!Min

\* The library's operators count as the theorems about finite sets do.
LEMMA SameCount == \A S : Ext!Cardinality(S) = Cardinality(S)
BY DEF Ext!Cardinality, Cardinality

\* An order of the rows has every row, and the rows have an order.
LEMMA OrdersAreWhole ==
  ASSUME NEW A, IsFiniteSet(A)
  PROVE  /\ \A order \in Ext!SetToSeqs(A) :
              /\ order \in [1 .. Cardinality(A) -> A]
              /\ \A i \in A : \E n \in DOMAIN order : order[n] = i
         /\ Ext!SetToSeq(A) \in Ext!SetToSeqs(A)
<1> DEFINE Positions == 1 .. Cardinality(A)
<1>1. /\ Cardinality(A) \in Nat /\ ExistsBijection(Positions, A) /\ IsFiniteSet(Positions)
      /\ Cardinality(Positions) = Cardinality(A)
  <2>1. Cardinality(A) \in Nat /\ ExistsBijection(Positions, A) BY FS_CardinalityType
  <2>2. IsFiniteSet(Positions) /\ Cardinality(Positions) = Cardinality(A) BY <2>1, FS_Interval
  <2> QED BY <2>1, <2>2
<1>2. ASSUME NEW order \in Ext!SetToSeqs(A) PROVE order \in Surjection(Positions, A)
  <2>1. order \in Injection(Positions, A) BY <1>2, SameCount DEF Ext!SetToSeqs, Injection, IsInjective
  <2> HIDE DEF Positions
  <2> QED BY <1>1, <2>1, FS_Injection
<1>3. Ext!SetToSeq(A) \in Ext!SetToSeqs(A)
  <2>1. \E f \in [Positions -> A] : IsInjective(f) BY <1>1 DEF ExistsBijection, Bijection, Injection
  <2>2. Ext!SetToSeq(A) \in [Positions -> A] /\ IsInjective(Ext!SetToSeq(A))
    BY <2>1, SameCount DEF Ext!SetToSeq, Ext!IsInjective, IsInjective
  <2> QED BY <2>2, SameCount DEF Ext!SetToSeqs, IsInjective
<1>4. \A order \in Ext!SetToSeqs(A) : order \in [Positions -> A] BY SameCount DEF Ext!SetToSeqs
<1> QED BY <1>2, <1>3, <1>4 DEF Surjection

\* Of the rows of a metric one is chosen, and one of the brand if there is one.
LEMMA ChosenFits ==
  ASSUME BenchmarksOK, NEW order \in Ext!SetToSeqs(Applicable), NEW m \in Metrics
  PROVE  LET i == Chosen(order, m) IN
         /\ i \in Applicable /\ rows[i].metric = m
         /\ (\E j \in Applicable : rows[j].metric = m /\ rows[j].brand = Brand) => rows[i].brand = Brand
<1>1. Applicable \subseteq DOMAIN rows /\ IsFiniteSet(Applicable)
  <2>1. Applicable \subseteq DOMAIN rows BY DEF Applicable
  <2>2. DOMAIN rows = 1 .. Len(rows) /\ Len(rows) \in Nat BY DEF BenchmarksOK
  <2>3. IsFiniteSet(DOMAIN rows) BY <2>2, FS_Interval
  <2> QED BY <2>1, <2>3, FS_Subset
<1>2. /\ order \in [1 .. Cardinality(Applicable) -> Applicable]
      /\ \A i \in Applicable : \E n \in DOMAIN order : order[n] = i
      /\ Cardinality(Applicable) \in Nat
  BY <1>1, OrdersAreWhole, FS_CardinalityType
<1> DEFINE mine == PlacesOf(order, m)
           exact == {n \in mine : rows[order[n]].brand = Brand}
           place == Ext!Min(IF exact # {} THEN exact ELSE mine)
<1>3. mine \in SUBSET Nat /\ \A n \in mine : order[n] \in Applicable /\ rows[order[n]].metric = m
  BY <1>2 DEF PlacesOf
<1>4. mine # {}
  <2>1. PICK i \in Applicable : rows[i].metric = m BY DEF Metrics
  <2> QED BY <1>2, <2>1 DEF PlacesOf
<1>5. exact \subseteq mine OBVIOUS
<1>6. place \in IF exact # {} THEN exact ELSE mine
  <2>1. exact # {} => Ext!Min(exact) \in exact BY <1>3, <1>5, LeastExists
  <2>2. Ext!Min(mine) \in mine BY <1>3, <1>4, LeastExists
  <2> QED BY <2>1, <2>2
<1>7. place \in mine BY <1>5, <1>6
<1>8. Chosen(order, m) = order[place] BY DEF Chosen
<1>9. ASSUME NEW j \in Applicable, rows[j].metric = m, rows[j].brand = Brand
      PROVE  rows[order[place]].brand = Brand
  <2>1. PICK n \in DOMAIN order : order[n] = j BY <1>2
  <2>2. n \in exact BY <1>9, <2>1 DEF PlacesOf
  <2> QED BY <1>6, <2>2
<1> QED BY <1>3, <1>7, <1>8, <1>9

\* Two orders choose the same benchmark for a metric.
LEMMA SelectionHolds ==
  ASSUME BenchmarksOK
  PROVE  SelectionAgrees
<1>1. IsFiniteSet(Applicable)
  <2>1. Applicable \subseteq DOMAIN rows BY DEF Applicable
  <2>2. DOMAIN rows = 1 .. Len(rows) /\ Len(rows) \in Nat BY DEF BenchmarksOK
  <2>3. IsFiniteSet(DOMAIN rows) BY <2>2, FS_Interval
  <2> QED BY <2>1, <2>3, FS_Subset
<1>2. ASSUME NEW order \in Ext!SetToSeqs(Applicable), NEW m \in Metrics
      PROVE  Same(rows[Chosen(order, m)], rows[Chosen(Ext!SetToSeq(Applicable), m)])
  <2> DEFINE i == Chosen(order, m)
             j == Chosen(Ext!SetToSeq(Applicable), m)
  <2>1. Ext!SetToSeq(Applicable) \in Ext!SetToSeqs(Applicable) BY <1>1, OrdersAreWhole
  <2>2. /\ i \in Applicable /\ rows[i].metric = m
        /\ (\E k \in Applicable : rows[k].metric = m /\ rows[k].brand = Brand) => rows[i].brand = Brand
    BY <1>2, ChosenFits
  <2>3. /\ j \in Applicable /\ rows[j].metric = m
        /\ (\E k \in Applicable : rows[k].metric = m /\ rows[k].brand = Brand) => rows[j].brand = Brand
    BY <2>1, ChosenFits
  <2> HIDE DEF i, j
  <2>4. rows[i].brand = rows[j].brand BY <2>2, <2>3 DEF Applicable
  <2> QED BY <2>2, <2>3, <2>4 DEF Same, i, j
<1>3. ASSUME NEW order \in Ext!SetToSeqs(Applicable), NEW m \in Metrics
      PROVE  LET i == Chosen(order, m) IN
             /\ rows[i].metric = m
             /\ (\E j \in Applicable : rows[j].metric = m /\ rows[j].brand = Brand) => rows[i].brand = Brand
             /\ Same(rows[i], rows[Chosen(Ext!SetToSeq(Applicable), m)])
  BY <1>2, <1>3, ChosenFits
<1> QED BY <1>3 DEF SelectionAgrees

\* The configuration is what was last decided, by somebody who saw what it was: with any
\* number of settings, of benchmarks, of profiles, of administrators and of requests
\* whose form is gone, and in whatever order their answers come.
THEOREM ConfigurationsAgree == ConfigurationSpec => []ConfigurationAgrees
<1>1. ConfigurationInit => ConfigurationInv
  <2> SUFFICES ASSUME ConfigurationInit PROVE ConfigurationInv OBVIOUS
  <2>1. ConsoleOK
    BY DEF ConfigurationInit, ConsoleOK, Shown, Sheets, Requests, NoPut
  <2>2. SettingsOK /\ NothingOverwrittenUnseen /\ OneModelInForce
    <3>1. revisions = {} /\ models = [stage : Stages, model : {Seed}] BY DEF ConfigurationInit
    <3>2. ASSUME NEW s \in Stages PROVE {n \in models : n.stage = s} = {[stage |-> s, model |-> Seed]}
      BY <3>1
    <3>3. \A s \in Stages : \E m \in models : {n \in models : n.stage = s} = {m} BY <3>1, <3>2
    <3>4. \A s \in Stages : Cardinality({n \in models : n.stage = s}) = 1 BY <3>3, FS_Singleton
    <3>5. settings \in [SettingKeys -> [version : Nat, value : Parameters \cup {NoValue}]]
      BY DEF ConfigurationInit
    <3> QED BY <3>1, <3>3, <3>4, <3>5, FS_EmptySet
        DEF SettingsOK, NothingOverwrittenUnseen, OneModelInForce
  <2>3. BenchmarksOK
    <3>1. rows \in Seq(Entries)
      <4>1. rows \in {<<>>} \cup {<<e>> : e \in Entries} BY DEF ConfigurationInit
      <4>2. <<>> \in Seq(Entries) /\ \A e \in Entries : <<e>> \in Seq(Entries) OBVIOUS
      <4> QED BY ONLY <4>1, <4>2
    <3>2. changes = {} /\ IsFiniteSet({}) BY FS_EmptySet DEF ConfigurationInit
    <3>3. work \in [Managers -> WorkRows] BY DEF ConfigurationInit, WorkRows
    <3> QED BY <3>1, <3>2, <3>3 DEF BenchmarksOK
  <2>4. Approvals = 0
    <3>1. {0} \cup {profiles[i].at : i \in DOMAIN profiles} = {0} BY DEF ConfigurationInit
    <3>2. Ext!Max({0}) = 0
      <4>1. 0 \in {0} /\ \A y \in {0} : 0 >= y OBVIOUS
      <4> QED BY <4>1 DEF Ext!Max
    <3> QED BY <3>1, <3>2 DEF Approvals
  <2>5. ProfilesOK /\ OneProfileInForce
    BY <2>4 DEF ConfigurationInit, ProfilesOK, OneProfileInForce
  <2>6. RevisionsTellTheHistory
    <3>1. Cardinality({}) = 0 BY FS_EmptySet
    <3>2. \A k \in SettingKeys : SettingHistory(k)
      <4> SUFFICES ASSUME NEW k \in SettingKeys PROVE SettingHistory(k) OBVIOUS
      <4>1. {r \in revisions : r.target = k} = {} /\ settings[k].version = 0 BY DEF ConfigurationInit
      <4> QED BY <3>1, <4>1 DEF SettingHistory
    <3>3. \A i \in DOMAIN rows : BenchmarkHistory(i)
      <4> SUFFICES ASSUME NEW i \in DOMAIN rows PROVE BenchmarkHistory(i) OBVIOUS
      <4>1. {c \in changes : c.row = i} = {} BY DEF ConfigurationInit
      <4>2. {c.version : c \in {}} = 1 .. 0 OBVIOUS
      <4> QED BY <3>1, <4>1, <4>2 DEF BenchmarkHistory
    <3> QED BY <3>2, <3>3 DEF RevisionsTellTheHistory
  <2> QED BY <2>1, <2>2, <2>3, <2>5, <2>6 DEF ConfigurationInv
<1>2. ConfigurationInv /\ [ConfigurationNext]_configurationVars => ConfigurationInv'
  <2> SUFFICES ASSUME ConfigurationInv, [ConfigurationNext]_configurationVars
               PROVE  ConfigurationInv'
    OBVIOUS
  <2> DEFINE Settings == /\ ConsoleOK /\ SettingsOK /\ NothingOverwrittenUnseen /\ OneModelInForce
                         /\ \A k \in SettingKeys : SettingHistory(k)
             Decided == /\ BenchmarksOK /\ ProfilesOK /\ OneProfileInForce
                       /\ \A i \in DOMAIN rows : BenchmarkHistory(i)
  <2>1. Settings /\ Decided BY DEF ConfigurationInv, RevisionsTellTheHistory
  <2>2. ASSUME UNCHANGED settingVars PROVE Settings'
    <3>1. UNCHANGED <<settings, models, revisions, console>> BY <2>2 DEF settingVars
    <3> QED BY <2>1, <3>1 DEF ConsoleOK, SettingsOK, NothingOverwrittenUnseen, OneModelInForce,
                              SettingHistory
  <2>3. ASSUME UNCHANGED <<rows, changes>> PROVE (\A i \in DOMAIN rows : BenchmarkHistory(i))'
    BY <2>1, <2>3 DEF BenchmarkHistory
  <2>4. ASSUME UNCHANGED profiles PROVE ProfilesOK' /\ OneProfileInForce'
    BY <2>1, <2>4 DEF ProfilesOK, OneProfileInForce, Approvals, InForce
  <2>5. ASSUME UNCHANGED benchmarkVars PROVE Decided'
    <3>1. UNCHANGED <<rows, changes, profiles, work>> BY <2>5 DEF benchmarkVars
    <3>2. BenchmarksOK' BY <2>1, <3>1 DEF BenchmarksOK, WorkRows
    <3> QED BY <2>3, <2>4, <3>1, <3>2
  <2>6. CASE UNCHANGED configurationVars
    <3>1. UNCHANGED settingVars /\ UNCHANGED benchmarkVars
      BY <2>6 DEF configurationVars, settingVars, benchmarkVars
    <3>2. Settings' /\ Decided' BY <2>2, <2>5, <3>1
    <3> QED BY <3>2 DEF ConfigurationInv, RevisionsTellTheHistory
  <2>7. CASE SettingsNext /\ UNCHANGED benchmarkVars
    <3>1. Settings' BY <2>7, ConsoleStep, SettingsStep DEF ConfigurationInv
    <3>2. Decided' BY <2>5, <2>7
    <3> QED BY <3>1, <3>2 DEF ConfigurationInv, RevisionsTellTheHistory
  <2>8. ASSUME NEW a \in Managers, UNCHANGED settingVars, Decided' PROVE ConfigurationInv'
    <3>1. Settings' BY <2>2, <2>8
    <3> QED BY <2>8, <3>1 DEF ConfigurationInv, RevisionsTellTheHistory
  <2>9. CASE BenchmarksNext /\ UNCHANGED settingVars
    <3>1. PICK a \in Managers : \/ \E e \in Entries : CheckNew(a, e) \/ \E i \in DOMAIN rows : LockRow(a, i, e)
                                \/ InsertNew(a) \/ UpdateRow(a)
      BY <2>9 DEF BenchmarksNext
    <3>2. CASE InsertNew(a) \/ UpdateRow(a)
      <4>1. UNCHANGED profiles BY <3>2 DEF InsertNew, UpdateRow
      <4>2. Decided' BY <2>1, <2>4, <3>2, <4>1, InsertStep, UpdateStep
      <4> QED BY <2>8, <2>9, <4>2
    <3>3. CASE \E e \in Entries : CheckNew(a, e) \/ \E i \in DOMAIN rows : LockRow(a, i, e)
      <4>1. Decided' BY <2>1, <2>3, <2>4, <3>3, CheckStep
      <4> QED BY <2>8, <2>9, <4>1
    <3> QED BY <3>1, <3>2, <3>3
  <2>10. CASE ProfilesNext /\ UNCHANGED settingVars
    <3>1. PICK a \in Managers : \/ CreateProfile(a) \/ \E i \in DOMAIN profiles : LockProfile(a, i)
                                \/ LockKey(a) \/ ApproveProfile(a) \/ BreakDeadlock(a)
      BY <2>10 DEF ProfilesNext
    <3>2. CASE CreateProfile(a) \/ ApproveProfile(a)
      <4>1. UNCHANGED <<rows, changes>> BY <3>2 DEF CreateProfile, ApproveProfile
      <4>2. Decided' BY <2>1, <2>3, <3>2, <4>1, CreateStep, ApproveStep
      <4> QED BY <2>8, <2>10, <4>2
    <3>3. CASE LockKey(a) \/ BreakDeadlock(a) \/ \E i \in DOMAIN profiles : LockProfile(a, i)
      <4>1. Decided' BY <2>1, <2>3, <2>4, <3>3, LockStep
      <4> QED BY <2>8, <2>10, <4>1
    <3> QED BY <3>1, <3>2, <3>3
  <2> QED BY <2>6, <2>7, <2>9, <2>10 DEF ConfigurationNext
<1>3. ConfigurationInv => ConfigurationAgrees
  BY SelectionHolds DEF ConfigurationInv, ConfigurationAgrees
<1> QED BY <1>1, <1>2, <1>3, PTL DEF ConfigurationSpec

-----------------------------------------------------------------------------
(* Ratings.                                                                *)

\* A set of natural numbers has a least one.
LEMMA LeastNumber ==
  ASSUME NEW S \in SUBSET Nat, S # {}
  PROVE  \E x \in S : \A y \in S : x <= y
<1>1. PICK x \in S : \A y \in S : ~(<<y, x>> \in OpToRel(<, Nat))
  BY NatLessThanWellFounded, WFMin, Zenon
<1>2. ASSUME NEW y \in S PROVE x <= y
  <2>1. y \in Nat /\ x \in Nat OBVIOUS
  <2>2. ~(y < x) BY <1>1, <2>1 DEF OpToRel
  <2> QED BY <2>1, <2>2
<1> QED BY <1>2

\* The ratings of content and of data, as sets.
ContentRatings == {Ratings[l] : l \in 1 .. 6}
DataRatingSet == {DataRatings[i] : i \in 1 .. 7}

\* The six content ratings and their levels.
LEMMA Levels ==
  /\ ContentRatings = {"D", "C", "B-", "B", "A", "A+"}
  /\ Level("D") = 1 /\ Level("C") = 2 /\ Level("B-") = 3
  /\ Level("B") = 4 /\ Level("A") = 5 /\ Level("A+") = 6
  /\ \A l \in 1 .. 6 : Level(Ratings[l]) = l
<1>1. \A l \in 1 .. 6 : Level(Ratings[l]) = l BY DEF Level, Ratings
<1>2. /\ Ratings[1] = "D" /\ Ratings[2] = "C" /\ Ratings[3] = "B-"
      /\ Ratings[4] = "B" /\ Ratings[5] = "A" /\ Ratings[6] = "A+" BY DEF Ratings
<1>3. ContentRatings = {"D", "C", "B-", "B", "A", "A+"} BY <1>2 DEF ContentRatings
<1> QED BY <1>1, <1>2, <1>3

\* A better score never has a worse rating.
LEMMA RatingsMonotone ==
  ASSUME NEW s \in Int, NEW t \in Int, s <= t
  PROVE  /\ RatingOf(s) \in ContentRatings
         /\ Level(RatingOf(s)) <= Level(RatingOf(t))
BY Levels DEF RatingOf

\* The seven data ratings and their ranks.
LEMMA Ranks ==
  /\ \A i \in 1 .. 7 : Rank(DataRatings[i]) = i
  /\ \A r \in DataRatingSet : Rank(r) \in 1 .. 7 /\ DataRatings[Rank(r)] = r
<1>1. \A i \in 1 .. 7 : Rank(DataRatings[i]) = i BY DEF Rank, DataRatings
<1> QED BY <1>1 DEF DataRatingSet

\* The first threshold that is met gives the rating.
LEMMA ThresholdRatings ==
  ASSUME NEW value, NEW t
  PROVE  LET r == ThresholdRating(value, t) IN
         /\ r \in DataRatingSet
         /\ Rank(r) = 7 \/ Meets(value, t.values[Rank(r)], t.direction)
         /\ \A j \in 1 .. Rank(r) - 1 : ~Meets(value, t.values[j], t.direction)
<1> DEFINE Places == {i \in 1 .. 7 : i = 7 \/ Meets(value, t.values[i], t.direction)}
           First(i) == /\ i = 7 \/ Meets(value, t.values[i], t.direction)
                       /\ \A j \in 1 .. i - 1 : ~Meets(value, t.values[j], t.direction)
           place == CHOOSE i \in 1 .. 7 : First(i)
<1>1. Places \in SUBSET Nat /\ 7 \in Places OBVIOUS
<1>2. PICK i \in Places : \A j \in Places : i <= j BY <1>1, LeastNumber
<1>3. i \in 1 .. 7 /\ First(i)
  <2>1. ASSUME NEW j \in 1 .. i - 1 PROVE ~Meets(value, t.values[j], t.direction)
    <3>1. i \in 1 .. 7 /\ j \in 1 .. 7 /\ ~(i <= j) BY <1>2
    <3>2. j \notin Places BY <1>2, <3>1
    <3> QED BY <3>1, <3>2
  <2> QED BY <1>2, <2>1
<1>4. place \in 1 .. 7 /\ First(place) BY <1>3
<1>5. ThresholdRating(value, t) = DataRatings[place] BY DEF ThresholdRating
<1> HIDE DEF place
<1>6. Rank(DataRatings[place]) = place /\ DataRatings[place] \in DataRatingSet
  BY <1>4, Ranks DEF DataRatingSet
<1> QED BY <1>4, <1>5, <1>6

\* A better value never has a worse rating by the thresholds.
LEMMA ThresholdsMonotone ==
  ASSUME NEW v \in Int, NEW w \in Int, NEW t \in ThresholdRows, Meets(v, w, t.direction)
  PROVE  Rank(ThresholdRating(v, t)) <= Rank(ThresholdRating(w, t))
<1> DEFINE i == Rank(ThresholdRating(v, t))
           j == Rank(ThresholdRating(w, t))
<1>1. i \in 1 .. 7 /\ j \in 1 .. 7 BY ThresholdRatings, Ranks
<1>2. /\ j = 7 \/ Meets(w, t.values[j], t.direction)
      /\ \A k \in 1 .. i - 1 : ~Meets(v, t.values[k], t.direction)
  BY ThresholdRatings
<1> HIDE DEF i, j
<1>3. ASSUME j < i PROVE FALSE
  <2>1. j \in 1 .. i - 1 /\ j \in 1 .. 6 BY <1>1, <1>3
  <2>2. t.values[j] \in Int BY <2>1 DEF ThresholdRows
  <2>3. Meets(v, t.values[j], t.direction) BY <1>2, <2>1, <2>2 DEF Meets
  <2> QED BY <1>2, <2>1, <2>3
<1> QED BY <1>1, <1>3 DEF i, j

-----------------------------------------------------------------------------
(* Guards.                                                                 *)

\* A guard applies.
Applies(metrics, g) == metrics[g.metric] # Null /\ Matches(metrics[g.metric], g)
\* The rating and the caps of the guards that apply.
Caps(first, metrics, guards, n) ==
  {first} \cup {guards[i].cap : i \in {k \in 1 .. n : Applies(metrics, guards[k])}}
\* The worst of some ratings.
Worst(r, C) == r \in C /\ \A c \in C : Rank(c) <= Rank(r)

\* What a guard makes of a rating, and the ratings after each of the guards.
Capped(r, metrics, g) == IF Applies(metrics, g) THEN Worse(r, g.cap) ELSE r
Guarding(h, first, metrics, guards, n) ==
  h = [i \in 0 .. n |-> IF i = 0 THEN first ELSE Capped(h[i - 1], metrics, guards[i])]

\* The guards go one after the other.
LEMMA GuardingExists ==
  ASSUME NEW first, NEW metrics, NEW guards, NEW last \in Nat
  PROVE  \E h : Guarding(h, first, metrics, guards, last)
<1> DEFINE Step(r, i) == Capped(r, metrics, guards[i])
           Row(h, n) == Guarding(h, first, metrics, guards, n)
           Bad == {n \in Nat : ~\E h : Row(h, n)}
<1>1. Bad = {}
  <2> SUFFICES ASSUME Bad # {} PROVE FALSE OBVIOUS
  <2>1. PICK n \in Bad : \A m \in Bad : n <= m
    <3>1. Bad \in SUBSET Nat OBVIOUS
    <3> QED BY <3>1, LeastNumber
  <2>2. n # 0
    <3> DEFINE h == [i \in 0 .. 0 |-> first]
    <3>1. Row(h, 0) BY DEF Guarding
    <3> QED BY <2>1, <3>1
  <2>3. PICK h : Row(h, n - 1)
    <3>1. n - 1 \in Nat /\ ~(n <= n - 1) BY <2>1, <2>2
    <3>2. n - 1 \notin Bad BY <2>1, <3>1
    <3> QED BY <3>1, <3>2
  <2> DEFINE g == [i \in 0 .. n |-> IF i = n THEN Step(h[n - 1], n) ELSE h[i]]
  <2>4. \A i \in 0 .. n : g[i] = IF i = 0 THEN first ELSE Step(g[i - 1], i)
    <3> HIDE DEF Step
    <3> TAKE i \in 0 .. n
    <3>1. n \in Nat /\ n > 0 BY <2>1, <2>2
    <3>2. CASE i = n
      <4>1. g[i] = Step(h[n - 1], n) BY <3>1, <3>2
      <4>2. g[i - 1] = h[n - 1] BY <3>1, <3>2
      <4> QED BY <3>1, <3>2, <4>1, <4>2
    <3>3. CASE i # n
      <4>1. i \in 0 .. n - 1 /\ (i # 0 => i - 1 \in 0 .. n /\ i - 1 # n) BY <3>1, <3>3
      <4>2. h[i] = IF i = 0 THEN first ELSE Step(h[i - 1], i) BY <2>3, <4>1 DEF Guarding, Step
      <4>3. g[i] = h[i] /\ (i # 0 => g[i - 1] = h[i - 1]) BY <3>3, <4>1
      <4> HIDE DEF g
      <4> QED BY <4>2, <4>3
    <3> QED BY <3>2, <3>3
  <2>5. Row(g, n)
    <3> DEFINE k == [i \in 0 .. n |-> IF i = 0 THEN first ELSE Step(g[i - 1], i)]
    <3>1. DOMAIN g = 0 .. n /\ DOMAIN k = 0 .. n /\ g = [i \in 0 .. n |-> g[i]] /\ \A i \in 0 .. n : k[i] = g[i] BY <2>4
    <3>2. g = k BY <3>1
    <3> QED BY <3>2 DEF Guarding
  <2> QED BY <2>1, <2>5
<1> QED BY <1>1

\* The guarded rating is the worst of the rating and the caps of the guards that apply.
LEMMA GuardedIsWorst ==
  ASSUME NEW first \in DataRatingSet, NEW metrics, NEW M, NEW guards \in Seq(GuardRows(M))
  PROVE  Worst(Guarded(first, metrics, guards), Caps(first, metrics, guards, Len(guards)))
<1> DEFINE last == Len(guards)
           after == CHOOSE h : Guarding(h, first, metrics, guards, last)
           Bad == {n \in 0 .. last : ~Worst(after[n], Caps(first, metrics, guards, n))}
<1>1. last \in Nat OBVIOUS
<1>2. Guarding(after, first, metrics, guards, last) BY <1>1, GuardingExists
<1>3. Guarded(first, metrics, guards) = after[last] BY DEF Guarded, Guarding, Capped, Applies
<1> HIDE DEF after, last
<1>4. Bad = {}
  <2> SUFFICES ASSUME Bad # {} PROVE FALSE OBVIOUS
  <2>1. PICK n \in Bad : \A m \in Bad : n <= m
    <3>1. Bad \in SUBSET Nat BY <1>1
    <3> QED BY <3>1, LeastNumber
  <2>2. n # 0
    <3>1. after[0] = first BY <1>1, <1>2 DEF Guarding
    <3>2. Caps(first, metrics, guards, 0) = {first} BY DEF Caps
    <3>3. Rank(first) \in 1 .. 7 BY Ranks
    <3>4. Worst(after[0], Caps(first, metrics, guards, 0)) BY <3>1, <3>2, <3>3 DEF Worst
    <3> QED BY <2>1, <3>4
  <2>3. n \in 1 .. last /\ n - 1 \in 0 .. last /\ ~(n <= n - 1) BY <1>1, <2>1, <2>2
  <2> DEFINE r == after[n - 1]
             c == guards[n].cap
             C == Caps(first, metrics, guards, n - 1)
             D == Caps(first, metrics, guards, n)
  <2>4. Worst(r, C) BY <2>1, <2>3
  <2>5. after[n] = IF Applies(metrics, guards[n]) THEN Worse(r, c) ELSE r
    BY <1>1, <1>2, <2>3 DEF Guarding, Capped
  <2>6. D = IF Applies(metrics, guards[n]) THEN C \cup {c} ELSE C
    <3>1. 1 .. n = 1 .. n - 1 \cup {n} BY <1>1, <2>3
    <3>2. {k \in 1 .. n : Applies(metrics, guards[k])} =
            {k \in 1 .. n - 1 : Applies(metrics, guards[k])}
              \cup (IF Applies(metrics, guards[n]) THEN {n} ELSE {})
      BY <3>1
    <3> QED BY <3>2, Zenon DEF Caps
  <2>7. \A i \in 1 .. last : guards[i].cap \in DataRatingSet
    <3>1. \A i \in 1 .. last : guards[i] \in GuardRows(M) BY DEF last
    <3> QED BY <3>1 DEF GuardRows, DataRatingSet
  <2>8. C \subseteq DataRatingSet /\ c \in DataRatingSet
    <3>1. \A k \in 1 .. n - 1 : k \in 1 .. last BY <1>1, <2>3
    <3> QED BY <2>3, <2>7, <3>1 DEF Caps
  <2> HIDE DEF r, c, C, D
  <2>9. r \in DataRatingSet /\ Rank(r) \in 1 .. 7 /\ Rank(c) \in 1 .. 7 /\ \A d \in C : Rank(d) \in 1 .. 7
    BY <2>4, <2>8, Ranks DEF Worst
  <2>10. Worst(after[n], D)
    <3>1. CASE ~Applies(metrics, guards[n]) BY <2>4, <2>5, <2>6, <3>1
    <3>2. CASE Applies(metrics, guards[n])
      <4>1. after[n] = Worse(r, c) /\ D = C \cup {c} BY <2>5, <2>6, <3>2
      <4> QED BY <2>4, <2>9, <4>1 DEF Worst, Worse
    <3> QED BY <3>1, <3>2
  <2> QED BY <2>1, <2>10 DEF D
<1> QED BY <1>1, <1>3, <1>4 DEF last

\* The caps that are compared are ratings.
LEMMA CapsAreRatings ==
  ASSUME NEW first \in DataRatingSet, NEW metrics, NEW M, NEW guards \in Seq(GuardRows(M))
  PROVE  Caps(first, metrics, guards, Len(guards)) \subseteq DataRatingSet
<1>1. \A i \in 1 .. Len(guards) : guards[i] \in GuardRows(M) OBVIOUS
<1>2. \A i \in 1 .. Len(guards) : guards[i].cap \in DataRatingSet BY <1>1 DEF GuardRows, DataRatingSet
<1> QED BY <1>2 DEF Caps

\* There is one worst rating.
LEMMA WorstIsUnique ==
  ASSUME NEW C \in SUBSET DataRatingSet, NEW r, NEW s, Worst(r, C), Worst(s, C)
  PROVE  r = s
<1>1. r \in DataRatingSet /\ s \in DataRatingSet BY DEF Worst
<1>2. Rank(r) <= Rank(s) /\ Rank(s) <= Rank(r) BY DEF Worst
<1>3. Rank(r) \in 1 .. 7 /\ Rank(s) \in 1 .. 7 BY <1>1, Ranks
<1>4. Rank(r) = Rank(s) BY <1>2, <1>3
<1> QED BY <1>1, <1>4, Ranks

\* A rating that is not worse, with the same caps, ends no worse.
LEMMA WorstIsMonotone ==
  ASSUME NEW p \in DataRatingSet, NEW q \in DataRatingSet, Rank(p) <= Rank(q),
         NEW C \in SUBSET DataRatingSet, NEW r, NEW s,
         Worst(r, {p} \cup C), Worst(s, {q} \cup C)
  PROVE  Rank(r) <= Rank(s)
<1>1. r \in DataRatingSet /\ s \in DataRatingSet BY DEF Worst
<1>2. Rank(p) \in 1 .. 7 /\ Rank(q) \in 1 .. 7 /\ Rank(r) \in 1 .. 7 /\ Rank(s) \in 1 .. 7 BY <1>1, Ranks
<1>3. Rank(q) <= Rank(s) /\ \A c \in C : Rank(c) <= Rank(s) BY DEF Worst
<1>4. r = p \/ r \in C BY DEF Worst
<1> QED BY <1>2, <1>3, <1>4

\* A sufficient snapshot has the rating of its primary metric, guarded.
LEMMA RatingOfSnapshot ==
  ASSUME NEW x \in Figures, NEW b \in Benchmarks, Sufficient(x, b)
  PROVE  LET r == ThresholdRating(x[b.primary], b.thresholds) IN
         /\ r \in DataRatingSet
         /\ b.thresholds \in ThresholdRows /\ x[b.primary] \in Int
         /\ b.primary \in DOMAIN x /\ b.guards \in Seq(GuardRows(DOMAIN x))
         /\ Caps(r, x, b.guards, Len(b.guards)) \in SUBSET DataRatingSet
         /\ Worst(DataRating(x, b), Caps(r, x, b.guards, Len(b.guards)))
<1> DEFINE r == ThresholdRating(x[b.primary], b.thresholds)
<1>1. b \in BenchmarkRows(DOMAIN x) /\ x \in [DOMAIN x -> Int \cup {Null}] BY AssessmentAssumption
<1>2. b.thresholds # Null /\ x[b.primary] # Null BY DEF Sufficient
<1>3. /\ b.primary \in DOMAIN x /\ b.guards \in Seq(GuardRows(DOMAIN x))
      /\ b.thresholds \in ThresholdRows \cup {Null}
  BY <1>1 DEF BenchmarkRows
<1>4. b.thresholds \in ThresholdRows /\ x[b.primary] \in Int BY <1>1, <1>2, <1>3
<1>5. r \in DataRatingSet BY ThresholdRatings
<1>6. DataRating(x, b) = Guarded(r, x, b.guards) BY DEF DataRating
<1> HIDE DEF r
<1>7. Caps(r, x, b.guards, Len(b.guards)) \subseteq DataRatingSet BY <1>3, <1>5, CapsAreRatings
<1>8. Worst(Guarded(r, x, b.guards), Caps(r, x, b.guards, Len(b.guards))) BY <1>3, <1>5, GuardedIsWorst
<1> QED BY <1>3, <1>4, <1>5, <1>6, <1>7, <1>8 DEF r

\* A better primary metric, of which no guard is, never has a worse rating.
LEMMA BetterIsNotWorse ==
  ASSUME NEW x \in Figures, NEW b \in Benchmarks, Sufficient(x, b),
         \A i \in 1 .. Len(b.guards) : b.guards[i].metric # b.primary,
         NEW y \in Better(x, b), Sufficient(y, b)
  PROVE  Rank(DataRating(y, b)) <= Rank(DataRating(x, b))
<1> DEFINE p == ThresholdRating(y[b.primary], b.thresholds)
           q == ThresholdRating(x[b.primary], b.thresholds)
           n == Len(b.guards)
           C == {b.guards[i].cap : i \in {k \in 1 .. n : Applies(x, b.guards[k])}}
<1>1. /\ y \in Figures /\ Meets(y[b.primary], x[b.primary], b.thresholds.direction)
      /\ \A m \in DOMAIN x : m # b.primary => y[m] = x[m]
  BY DEF Better
<1>2. Rank(p) <= Rank(q) BY <1>1, RatingOfSnapshot, ThresholdsMonotone
<1>3. Caps(q, x, b.guards, n) = {q} \cup C BY DEF Caps
<1>4. Caps(p, y, b.guards, n) = {p} \cup C
  <2>1. \A k \in 1 .. n : b.guards[k] \in GuardRows(DOMAIN x) BY RatingOfSnapshot
  <2>2. \A k \in 1 .. n : b.guards[k].metric \in DOMAIN x BY <2>1 DEF GuardRows
  <2>3. \A k \in 1 .. n : y[b.guards[k].metric] = x[b.guards[k].metric] BY <1>1, <2>2
  <2>4. \A k \in 1 .. n : Applies(y, b.guards[k]) <=> Applies(x, b.guards[k]) BY <2>3 DEF Applies
  <2>5. {k \in 1 .. n : Applies(x, b.guards[k])} = {k \in 1 .. n : Applies(y, b.guards[k])} BY <2>4
  <2> QED BY <2>5, Zenon DEF Caps
<1>5. /\ p \in DataRatingSet /\ q \in DataRatingSet
      /\ {q} \cup C \in SUBSET DataRatingSet
      /\ Worst(DataRating(x, b), {q} \cup C) /\ Worst(DataRating(y, b), {p} \cup C)
  BY <1>1, <1>3, <1>4, RatingOfSnapshot
<1> HIDE DEF p, q, C
<1>6. C \in SUBSET DataRatingSet BY <1>5
<1> QED BY <1>2, <1>5, <1>6, WorstIsMonotone

\* The guards of a benchmark in the opposite order.
Backwards(b) == [b EXCEPT !.guards = [i \in 1 .. Len(b.guards) |-> b.guards[Len(b.guards) + 1 - i]]]

\* The order of the guards does not matter.
LEMMA BackwardsIsTheSame ==
  ASSUME NEW x \in Figures, NEW b \in Benchmarks, Sufficient(x, b)
  PROVE  DataRating(x, Backwards(b)) = DataRating(x, b)
<1> DEFINE c == Backwards(b)
           n == Len(b.guards)
           r == ThresholdRating(x[b.primary], b.thresholds)
           S == {k \in 1 .. n : Applies(x, b.guards[k])}
           T == {k \in 1 .. n : Applies(x, c.guards[k])}
<1>1. b \in BenchmarkRows(DOMAIN x) BY AssessmentAssumption
<1>2. n \in Nat /\ \A k \in 1 .. n : b.guards[k] \in GuardRows(DOMAIN x) BY RatingOfSnapshot
<1>3. /\ c.primary = b.primary /\ c.required = b.required /\ c.sampleMetric = b.sampleMetric
      /\ c.sample = b.sample /\ c.days = b.days /\ c.thresholds = b.thresholds
      /\ c.guards = [i \in 1 .. n |-> b.guards[n + 1 - i]]
  BY <1>1 DEF Backwards, BenchmarkRows
<1>4. c.guards \in Seq(GuardRows(DOMAIN x)) /\ Len(c.guards) = n
  <2>1. \A i \in 1 .. n : n + 1 - i \in 1 .. n BY <1>2
  <2>2. c.guards \in [1 .. n -> GuardRows(DOMAIN x)] BY <1>2, <1>3, <2>1
  <2> QED BY <1>2, <2>2
<1>5. DataRating(x, c) = Guarded(r, x, c.guards)
  <2>1. Sufficient(x, c) BY <1>3 DEF Sufficient
  <2> QED BY <1>3, <2>1 DEF DataRating
<1>6. r \in DataRatingSet BY ThresholdRatings
<1> HIDE DEF c, r
<1>7. Worst(DataRating(x, c), Caps(r, x, c.guards, n)) BY <1>4, <1>5, <1>6, GuardedIsWorst
<1>8. Caps(r, x, c.guards, n) = Caps(r, x, b.guards, n)
  <2> DEFINE Turn(k) == n + 1 - k
  <2>1. \A k \in 1 .. n : Turn(k) \in 1 .. n /\ Turn(Turn(k)) = k BY <1>2
  <2>2. \A k \in 1 .. n : c.guards[k] = b.guards[Turn(k)] BY <1>3
  <2>3. \A k \in 1 .. n : b.guards[k] = c.guards[Turn(k)] BY <2>1, <2>2
  <2> HIDE DEF Turn
  <2>4. \A k \in S : Turn(k) \in T /\ c.guards[Turn(k)].cap = b.guards[k].cap BY <2>1, <2>3
  <2>5. \A k \in T : Turn(k) \in S /\ b.guards[Turn(k)].cap = c.guards[k].cap BY <2>1, <2>2
  <2>6. {c.guards[i].cap : i \in T} = {b.guards[i].cap : i \in S} BY <2>4, <2>5
  <2> QED BY <2>6, Zenon DEF Caps
<1>9. /\ Caps(r, x, b.guards, n) \in SUBSET DataRatingSet
      /\ Worst(DataRating(x, b), Caps(r, x, b.guards, n))
  BY RatingOfSnapshot DEF r
<1>10. DataRating(x, c) = DataRating(x, b) BY <1>7, <1>8, <1>9, WorstIsUnique
<1> QED BY <1>10 DEF c

\* The data rating follows the figures it was made of.
LEMMA RatingFollows == RatedOK => RatingFollowsFigures
<1> SUFFICES ASSUME RatedOK, rating \notin {Null, "insufficient"} PROVE RatingFollowsFigures
  BY DEF RatingFollowsFigures
<1> DEFINE x == figures.metrics
           b == figures.benchmark
<1>1. x \in Figures /\ b \in Benchmarks /\ Sufficient(x, b) /\ rating = DataRating(x, b) BY DEF RatedOK
<1> HIDE DEF x, b
<1>2. ASSUME \A i \in 1 .. Len(b.guards) : b.guards[i].metric # b.primary,
             NEW y \in Better(x, b), Sufficient(y, b)
      PROVE  Rank(DataRating(y, b)) <= Rank(rating)
  BY <1>1, <1>2, BetterIsNotWorse
<1>3. DataRating(x, Backwards(b)) = rating BY <1>1, BackwardsIsTheSame
<1> QED BY <1>2, <1>3 DEF RatingFollowsFigures, Backwards, x, b

-----------------------------------------------------------------------------
(* The matrix.                                                             *)

\* Up to which data rating the rows of the matrix conclude "effective", and up to
\* which at least "low_effective".
Effective == <<5, 4, 4, 3, 0, 0>>
LowEffective == <<7, 7, 6, 6, 5, 5>>

\* What they make of content at level i and data at rank j.
Concluded(i, j) ==
  IF j <= Effective[i] THEN "effective" ELSE IF j <= LowEffective[i] THEN "low_effective" ELSE "invalid"

\* Each row concludes by its two bounds where it concludes itself.
LEMMA RowsConclude ==
  \A i \in 1 .. 6, j \in 1 .. 7 : Matrix[i][j] = "R" \/ Conclusion(Matrix[i][j]) = Concluded(i, j)
<1>1. ASSUME NEW j \in 1 .. 7 PROVE Matrix[1][j] = "R" \/ Conclusion(Matrix[1][j]) = Concluded(1, j)
  <2>1. Matrix[1] = <<"S",  "A+", "A",  "A",  "B",  "B-", "C">> BY DEF Matrix
  <2>2. Concluded(1, j) = IF j <= 5 THEN "effective" ELSE "low_effective"
    BY DEF Concluded, Effective, LowEffective
  <2> QED BY <2>1, <2>2 DEF Conclusion
<1>2. ASSUME NEW j \in 1 .. 7 PROVE Matrix[2][j] = "R" \/ Conclusion(Matrix[2][j]) = Concluded(2, j)
  <2>1. Matrix[2] = <<"A+", "A+", "A",  "B",  "B-", "C",  "C">> BY DEF Matrix
  <2>2. Concluded(2, j) = IF j <= 4 THEN "effective" ELSE "low_effective"
    BY DEF Concluded, Effective, LowEffective
  <2> QED BY <2>1, <2>2 DEF Conclusion
<1>3. ASSUME NEW j \in 1 .. 7 PROVE Matrix[3][j] = "R" \/ Conclusion(Matrix[3][j]) = Concluded(3, j)
  <2>1. Matrix[3] = <<"A",  "A",  "A",  "B",  "B-", "C",  "D">> BY DEF Matrix
  <2>2. Concluded(3, j) = IF j <= 4 THEN "effective" ELSE IF j <= 6 THEN "low_effective" ELSE "invalid"
    BY DEF Concluded, Effective, LowEffective
  <2> QED BY <2>1, <2>2 DEF Conclusion
<1>4. ASSUME NEW j \in 1 .. 7 PROVE Matrix[4][j] = "R" \/ Conclusion(Matrix[4][j]) = Concluded(4, j)
  <2>1. Matrix[4] = <<"R",  "R",  "B",  "B-", "C",  "C",  "D">> BY DEF Matrix
  <2>2. Concluded(4, j) = IF j <= 3 THEN "effective" ELSE IF j <= 6 THEN "low_effective" ELSE "invalid"
    BY DEF Concluded, Effective, LowEffective
  <2> QED BY <2>1, <2>2 DEF Conclusion
<1>5. ASSUME NEW i \in 5 .. 6, NEW j \in 1 .. 7
      PROVE Matrix[i][j] = "R" \/ Conclusion(Matrix[i][j]) = Concluded(i, j)
  <2>1. Matrix[i] = <<"R",  "R",  "R",  "R",  "C",  "D",  "D">> BY DEF Matrix
  <2>2. Concluded(i, j) = IF j <= 5 THEN IF j <= 0 THEN "effective" ELSE "low_effective" ELSE "invalid"
    BY DEF Concluded, Effective, LowEffective
  <2> QED BY <2>1, <2>2 DEF Conclusion
<1> QED BY <1>1, <1>2, <1>3, <1>4, <1>5

\* A lower row and a later column never conclude better.
LEMMA MatrixIsMonotone ==
  ASSUME NEW x \in 1 .. 6, NEW y \in 1 .. 7, NEW i \in 1 .. x, NEW j \in 1 .. y
  PROVE  Standing[Concluded(i, j)] >= Standing[Concluded(x, y)]
<1>1. /\ Standing["effective"] = 3 /\ Standing["low_effective"] = 2 /\ Standing["invalid"] = 1
  BY DEF Standing
<1>2. Effective[i] >= Effective[x] /\ LowEffective[i] >= LowEffective[x]
      /\ Effective[i] \in 0 .. 7 /\ Effective[x] \in 0 .. 7 /\ LowEffective[i] \in 0 .. 7 /\ LowEffective[x] \in 0 .. 7
  BY DEF Effective, LowEffective
<1> QED BY <1>1, <1>2 DEF Concluded

\* The conclusion of the matrix follows the ratings.
LEMMA ConclusionFollows == RatedOK => ConclusionFollowsRatings
<1> SUFFICES ASSUME RatedOK, outcome # Null, outcome.by = "system" PROVE ConclusionFollowsRatings
  BY DEF ConclusionFollowsRatings
<1> DEFINE x == ContentRank(verdict.rating)
           y == Rank(rating)
<1>1. verdict.rating \in ContentRatings /\ rating \notin {Null, "insufficient"}
      /\ Comprehensive(verdict.rating, rating) # "R"
      /\ outcome.conclusion = Conclusion(Comprehensive(verdict.rating, rating))
  BY DEF RatedOK, ContentRatings
<1>2. rating \in DataRatingSet
  <2>1. /\ figures.metrics \in Figures /\ figures.benchmark \in Benchmarks
        /\ Sufficient(figures.metrics, figures.benchmark)
        /\ rating = DataRating(figures.metrics, figures.benchmark)
    BY <1>1 DEF RatedOK
  <2> QED BY <2>1, RatingOfSnapshot DEF Worst
<1>3. x \in 1 .. 6 /\ (verdict.rating \in {"C", "D"} => x \in 5 .. 6) BY <1>1, Levels DEF ContentRank
<1>4. y \in 1 .. 7 BY <1>2, Ranks
<1>5. outcome.conclusion = Concluded(x, y)
  BY <1>1, <1>3, <1>4, RowsConclude DEF Comprehensive
<1> HIDE DEF x, y
<1>6. outcome.conclusion = "effective" => verdict.rating \notin {"C", "D"}
  BY <1>3, <1>4, <1>5 DEF Concluded, Effective, LowEffective
<1>7. ASSUME NEW c \in 1 .. 6, NEW d \in 1 .. 7, 7 - c <= x, d <= y,
             Comprehensive(Ratings[c], DataRatings[d]) # "R"
      PROVE  Standing[Conclusion(Comprehensive(Ratings[c], DataRatings[d]))] >= Standing[outcome.conclusion]
  <2>1. ContentRank(Ratings[c]) = 7 - c /\ Rank(DataRatings[d]) = d BY Levels, Ranks DEF ContentRank
  <2>2. 7 - c \in 1 .. x /\ 7 - c \in 1 .. 6 /\ d \in 1 .. y BY <1>3, <1>4, <1>7
  <2>3. Conclusion(Comprehensive(Ratings[c], DataRatings[d])) = Concluded(7 - c, d)
    BY <1>7, <2>1, <2>2, RowsConclude DEF Comprehensive
  <2> QED BY <1>3, <1>4, <1>5, <2>2, <2>3, MatrixIsMonotone
<1> QED BY <1>6, <1>7 DEF ConclusionFollowsRatings, x, y

-----------------------------------------------------------------------------
(* The older way.                                                          *)

\* The data of a boundary that lets something be suggested is not missing, and a
\* content of the worst grade leads to a manual confirmation or to "invalid".
LEMMA BoundaryTables ==
  ASSUME NEW c \in OldGrades, NEW d \in OldGrades \cup {Null}
  PROVE  /\ Recommendable(Boundary(c, d)) = AllowedGrades(Boundary(c, d))
         /\ Recommendable(Boundary(c, d)) \subseteq {"effective", "low_effective", "invalid"}
         /\ Recommendable(Boundary(c, d)) # {} => Boundary(c, d) # "pending_data"
         /\ c = "D" => \/ Boundary(c, d) = "require_manual_confirmation"
                       \/ AllowedGrades(Boundary(c, d)) \subseteq {"invalid"}
<1>1. GradeGroup(c) \in {"high", "mid", "low"} /\ (c = "D" => GradeGroup(c) = "low")
  BY DEF GradeGroup, OldGrades
<1>2. d # Null => GradeGroup(d) \in {"high", "mid", "low"} BY DEF GradeGroup
<1>3. Boundary(c, d) \in {"pending_data", "allow_final_effective", "allow_final_effective_or_low_effective",
        "allow_final_low_effective_or_invalid", "require_manual_confirmation", "require_final_invalid"}
  BY <1>1, <1>2 DEF Boundary
<1>4. c = "D" => Boundary(c, d) \in {"pending_data", "require_manual_confirmation", "require_final_invalid"}
  BY <1>1, <1>2 DEF Boundary
<1> HIDE DEF Boundary
<1> QED BY <1>3, <1>4 DEF Recommendable, AllowedGrades

\* Every suggestion can be confirmed.
LEMMA SuggestionConfirmed == OldOK => SuggestionCanBeConfirmed
<1> SUFFICES ASSUME OldOK, old.recommended # Null PROVE SuggestionCanBeConfirmed
  BY DEF SuggestionCanBeConfirmed
<1>1. /\ old.boundary # Null /\ old.recommended \in Recommendable(old.boundary)
      /\ old.risky => old.content = "D"
      /\ old.confirmed # Null => old.confirmed \in AllowedGrades(old.boundary)
  BY DEF OldOK
<1>2. PICK d \in OldGrades \cup {Null} : old.boundary = Boundary(old.content, d) BY <1>1 DEF OldOK
<1>3. old.content \in OldGrades
  <2>1. old.content \in OldGrades \cup {Null} BY DEF OldOK, OldRows
  <2>2. old.content # Null BY <1>1 DEF OldOK
  <2> QED BY <2>1, <2>2
<1> DEFINE boundary == old.boundary
<1>4. /\ Recommendable(boundary) = AllowedGrades(boundary)
      /\ Recommendable(boundary) \subseteq {"effective", "low_effective", "invalid"}
      /\ Recommendable(boundary) # {} => boundary # "pending_data"
      /\ old.content = "D" => \/ boundary = "require_manual_confirmation"
                              \/ AllowedGrades(boundary) \subseteq {"invalid"}
  BY <1>2, <1>3, BoundaryTables
<1>5. \E c \in Choices : /\ c.grade = old.recommended /\ ~c.reasoned /\ ~c.performance
                         /\ ValidConfirmation(c, old.recommended, boundary)
  <2> DEFINE c == [grade |-> old.recommended, reasoned |-> FALSE, commented |-> TRUE, performance |-> FALSE]
  <2>1. old.recommended \in {FinalGrades[i] : i \in 1 .. 3} BY <1>1, <1>4 DEF FinalGrades
  <2>2. c \in Choices BY <2>1 DEF Choices
  <2>3. ValidConfirmation(c, old.recommended, boundary) BY <1>1, <1>4 DEF ValidConfirmation
  <2> QED BY <2>2, <2>3
<1>6. old.confirmed # Null => old.confirmed \in Recommendable(boundary) BY <1>1, <1>4
<1>7. ASSUME old.risky, old.confirmed \in {"effective", "low_effective"}
      PROVE  boundary = "require_manual_confirmation"
  <2>1. old.confirmed \in {FinalGrades[i] : i \in 1 .. 3} BY <1>7 DEF FinalGrades
  <2>2. old.confirmed # Null BY <2>1, AssessmentAssumption
  <2> QED BY <1>1, <1>4, <1>7, <2>2
<1> QED BY <1>1, <1>4, <1>5, <1>6, <1>7 DEF SuggestionCanBeConfirmed

\* The sum of the weighted scores so far.
Part(s) == s.rating * OldWeight[s.dimension]
Summing(h, scores, n) == h = [i \in 0 .. n |-> IF i = 0 THEN 0 ELSE h[i - 1] + Part(scores[i])]

\* The scores are added one after the other.
LEMMA SummingExists ==
  ASSUME NEW scores, NEW last \in Nat
  PROVE  \E h : Summing(h, scores, last)
<1> DEFINE Step(r, i) == r + Part(scores[i])
           Row(h, n) == Summing(h, scores, n)
           Bad == {n \in Nat : ~\E h : Row(h, n)}
<1>1. Bad = {}
  <2> SUFFICES ASSUME Bad # {} PROVE FALSE OBVIOUS
  <2>1. PICK n \in Bad : \A m \in Bad : n <= m
    <3>1. Bad \in SUBSET Nat OBVIOUS
    <3> QED BY <3>1, LeastNumber
  <2>2. n # 0
    <3> DEFINE h == [i \in 0 .. 0 |-> 0]
    <3>1. Row(h, 0) BY DEF Summing
    <3> QED BY <2>1, <3>1
  <2>3. PICK h : Row(h, n - 1)
    <3>1. n - 1 \in Nat /\ ~(n <= n - 1) BY <2>1, <2>2
    <3>2. n - 1 \notin Bad BY <2>1, <3>1
    <3> QED BY <3>1, <3>2
  <2> DEFINE g == [i \in 0 .. n |-> IF i = n THEN Step(h[n - 1], n) ELSE h[i]]
  <2>4. \A i \in 0 .. n : g[i] = IF i = 0 THEN 0 ELSE Step(g[i - 1], i)
    <3> HIDE DEF Step
    <3> TAKE i \in 0 .. n
    <3>1. n \in Nat /\ n > 0 BY <2>1, <2>2
    <3>2. CASE i = n
      <4>1. g[i] = Step(h[n - 1], n) BY <3>1, <3>2
      <4>2. g[i - 1] = h[n - 1] BY <3>1, <3>2
      <4> QED BY <3>1, <3>2, <4>1, <4>2
    <3>3. CASE i # n
      <4>1. i \in 0 .. n - 1 /\ (i # 0 => i - 1 \in 0 .. n /\ i - 1 # n) BY <3>1, <3>3
      <4>2. h[i] = IF i = 0 THEN 0 ELSE Step(h[i - 1], i) BY <2>3, <4>1 DEF Summing, Step
      <4>3. g[i] = h[i] /\ (i # 0 => g[i - 1] = h[i - 1]) BY <3>3, <4>1
      <4> HIDE DEF g
      <4> QED BY <4>2, <4>3
    <3> QED BY <3>2, <3>3
  <2>5. Row(g, n)
    <3> DEFINE k == [i \in 0 .. n |-> IF i = 0 THEN 0 ELSE Step(g[i - 1], i)]
    <3>1. DOMAIN g = 0 .. n /\ DOMAIN k = 0 .. n /\ g = [i \in 0 .. n |-> g[i]] /\ \A i \in 0 .. n : k[i] = g[i] BY <2>4
    <3>2. g = k BY <3>1
    <3> QED BY <3>2 DEF Summing
  <2> QED BY <2>1, <2>5
<1> QED BY <1>1

\* The score of valid scores is a number.
LEMMA BaseIsNumber ==
  ASSUME NEW scores, ValidScores(scores), DOMAIN scores = 1 .. Len(scores)
  PROVE  OldBase(scores) \in Int
<1> DEFINE sum == CHOOSE h : Summing(h, scores, Len(scores))
           Bad == {n \in 0 .. 12 : sum[n] \notin Int}
<1>1. Len(scores) = 12 /\ DOMAIN scores = 1 .. 12 BY DEF ValidScores
<1>2. Summing(sum, scores, 12) BY <1>1, SummingExists
<1>3. OldBase(scores) = (2 * sum[12] + 5) \div 10 BY <1>1 DEF OldBase, Summing, Part
<1>4. \A i \in 1 .. 12 : Part(scores[i]) \in Int
  <2> TAKE i \in 1 .. 12
  <2>1. scores[i].rating \in 0 .. 5 BY <1>1 DEF ValidScores
  <2>2. scores[i].dimension \in OldDimensions BY <1>1 DEF ValidScores
  <2>3. OldWeight[scores[i].dimension] \in Int BY <2>2 DEF OldDimensions, OldWeight
  <2> QED BY <2>1, <2>3 DEF Part
<1> HIDE DEF sum
<1>5. Bad = {}
  <2> SUFFICES ASSUME Bad # {} PROVE FALSE OBVIOUS
  <2>1. PICK n \in Bad : \A m \in Bad : n <= m
    <3>1. Bad \in SUBSET Nat OBVIOUS
    <3> QED BY <3>1, LeastNumber
  <2>2. n # 0
    <3>1. sum[0] = 0 BY <1>2 DEF Summing
    <3> QED BY <2>1, <3>1
  <2>3. n \in 1 .. 12 /\ n - 1 \in 0 .. 12 /\ ~(n <= n - 1) BY <2>1, <2>2
  <2>4. sum[n - 1] \in Int BY <2>1, <2>3
  <2>5. sum[n] = sum[n - 1] + Part(scores[n])
    <3>1. \A i \in 0 .. 12 : sum[i] = IF i = 0 THEN 0 ELSE sum[i - 1] + Part(scores[i])
      BY <1>2, Zenon DEF Summing
    <3>2. n \in 0 .. 12 /\ n # 0 BY <2>2, <2>3
    <3> QED BY <3>1, <3>2, Zenon
  <2>6. Part(scores[n]) \in Int BY <1>4, <2>3
  <2>7. sum[n] \in Int BY <2>4, <2>5, <2>6
  <2> QED BY <2>1, <2>7
<1>6. sum[12] \in Int BY <1>5
<1> QED BY <1>3, <1>6

\* The grade of a number; below 60 it is the worst.
LEMMA GradesOfScores ==
  ASSUME NEW score \in Int
  PROVE  GradeForScore(score) \in OldGrades /\ (score <= 59 => GradeForScore(score) = "D")
BY DEF GradeForScore, OldGrades

\* Valid content has a grade, and with a high risk it is the worst.
LEMMA ContentGrades ==
  ASSUME NEW o, ValidScores(o.scores), DOMAIN o.scores = 1 .. Len(o.scores)
  PROVE  /\ OldGrade(o.scores, o.risks, o.type) \in OldGrades
         /\ "high" \in o.risks => OldGrade(o.scores, o.risks, o.type) = "D"
<1> DEFINE base == OldBase(o.scores)
           cap == OldCap(o.scores, o.risks, o.type)
           score == IF base <= cap THEN base ELSE cap
<1>1. base \in Int BY BaseIsNumber
<1>2. cap \in Int /\ ("high" \in o.risks => cap = 59) BY DEF OldCap
<1>3. OldGrade(o.scores, o.risks, o.type) = GradeForScore(score) BY DEF OldGrade
<1> HIDE DEF base, cap
<1>4. score \in Int /\ ("high" \in o.risks => score <= 59) BY <1>1, <1>2
<1> QED BY <1>3, <1>4, GradesOfScores

-----------------------------------------------------------------------------
(* Runs.                                                                   *)

\* The eight dimensions.
LEMMA EightDimensions ==
  Dimensions = {"opening_hook", "selling_point", "structure", "visual_quality",
                "pacing", "subtitle_audio", "platform_fit", "action_logic"}
BY DEF Dimensions, Weight

\* The anchors a run may give the dimensions.
Anchors == [Dimensions -> {0, 2, 4, 6, 8}]

\* What the weights make of anchors.
Weighted(a) ==
  20 * a["opening_hook"] + 20 * a["selling_point"] + 15 * a["structure"]
  + 15 * a["visual_quality"] + 10 * a["pacing"] + 10 * a["subtitle_audio"]
  + 5 * a["platform_fit"] + 5 * a["action_logic"]

\* The total is the weighted sum, rounded.
LEMMA TotalIsRounded ==
  ASSUME NEW a \in [Dimensions -> Int]
  PROVE  Weighted(a) \in Int /\ Total(a) = (10 * Weighted(a) + 4) \div 8 /\ Total(a) \in Int
<1>1. /\ a["opening_hook"] \in Int /\ a["selling_point"] \in Int /\ a["structure"] \in Int
      /\ a["visual_quality"] \in Int /\ a["pacing"] \in Int /\ a["subtitle_audio"] \in Int
      /\ a["platform_fit"] \in Int /\ a["action_logic"] \in Int
  BY EightDimensions
<1>2. Weighted(a) \in Int BY <1>1 DEF Weighted
<1>3. Total(a) = (10 * Weighted(a) + 4) \div 8 BY DEF Total, Weighted
<1>4. 10 * Weighted(a) + 4 \in Int BY <1>2
<1>5. \A k \in Int : k \div 8 \in Int OBVIOUS
<1> QED BY <1>2, <1>3, <1>4, <1>5

\* Half of two even anchors is exact, and what they weigh is half of what they
\* weigh together.
LEMMA MeansAreExact ==
  ASSUME NEW a \in Anchors, NEW b \in Anchors, NEW m,
         m = [d \in Dimensions |-> (a[d] + b[d]) \div 2]
  PROVE  /\ m \in [Dimensions -> Int] /\ \A d \in Dimensions : 2 * m[d] = a[d] + b[d]
         /\ 2 * Weighted(m) = Weighted(a) + Weighted(b)
<1>1. \A d \in Dimensions : a[d] \in {0, 2, 4, 6, 8} /\ b[d] \in {0, 2, 4, 6, 8} BY DEF Anchors
<1>2. ASSUME NEW x \in {0, 2, 4, 6, 8}, NEW y \in {0, 2, 4, 6, 8}
      PROVE  (x + y) \div 2 \in Int /\ 2 * ((x + y) \div 2) = x + y
  OBVIOUS
<1>3. \A d \in Dimensions : m[d] \in Int /\ 2 * m[d] = a[d] + b[d] BY <1>1, <1>2
<1>4. m \in [Dimensions -> Int] BY <1>3
<1> DEFINE Half(d) == m[d] \in Int /\ a[d] \in Int /\ b[d] \in Int /\ 2 * m[d] = a[d] + b[d]
<1>5. \A d \in Dimensions : Half(d) BY <1>1, <1>3
<1>6. /\ Half("opening_hook") /\ Half("selling_point") /\ Half("structure") /\ Half("visual_quality")
      /\ Half("pacing") /\ Half("subtitle_audio") /\ Half("platform_fit") /\ Half("action_logic")
  BY <1>5, EightDimensions
<1>7. 2 * Weighted(m) = Weighted(a) + Weighted(b) BY <1>6 DEF Weighted
<1> QED BY <1>3, <1>4, <1>7

\* Anchors half way between those of two runs of one rating have that rating.
LEMMA MeanKeepsRating ==
  ASSUME NEW a \in Anchors, NEW b \in Anchors, NEW m,
         m = [d \in Dimensions |-> (a[d] + b[d]) \div 2],
         RatingOf(Total(a)) = RatingOf(Total(b))
  PROVE  RatingOf(Total(m)) = RatingOf(Total(a))
<1> DEFINE p == Weighted(a)
           q == Weighted(b)
           r == Weighted(m)
<1>1. a \in [Dimensions -> Int] /\ b \in [Dimensions -> Int] BY DEF Anchors
<1>2. m \in [Dimensions -> Int] /\ 2 * r = p + q BY MeansAreExact
<1>3. /\ p \in Int /\ q \in Int /\ r \in Int
      /\ Total(a) = (10 * p + 4) \div 8 /\ Total(b) = (10 * q + 4) \div 8 /\ Total(m) = (10 * r + 4) \div 8
      /\ Total(a) \in Int /\ Total(b) \in Int /\ Total(m) \in Int
  BY <1>1, <1>2, TotalIsRounded
<1> HIDE DEF p, q, r
<1>4. ASSUME NEW x \in Int, NEW y \in Int, x <= y PROVE (10 * x + 4) \div 8 <= (10 * y + 4) \div 8
  BY <1>4
<1>5. \/ Total(a) <= Total(m) /\ Total(m) <= Total(b)
      \/ Total(b) <= Total(m) /\ Total(m) <= Total(a)
  <2>1. CASE p <= q
    <3>1. p <= r /\ r <= q BY <1>2, <1>3, <2>1
    <3> QED BY <1>3, <1>4, <3>1
  <2>2. CASE q <= p
    <3>1. q <= r /\ r <= p BY <1>2, <1>3, <2>2
    <3> QED BY <1>3, <1>4, <3>1
  <2> QED BY <1>3, <2>1, <2>2
<1>6. /\ Level(RatingOf(Total(m))) = Level(RatingOf(Total(a)))
      /\ RatingOf(Total(m)) \in ContentRatings /\ RatingOf(Total(a)) \in ContentRatings
  BY <1>3, <1>5, RatingsMonotone, Levels
<1> QED BY <1>6, Levels

\* A run whose score and rating follow from its anchors.
RunOK(r) == r.anchors \in Anchors /\ r.score = Total(r.anchors) /\ r.score \in Int /\ r.rating = RatingOf(r.score)

\* A run has anchors of whole points, the score they make and its rating.
LEMMA RunsAreScored == \A n \in DOMAIN Run : RunOK(Run[n])
<1> SUFFICES ASSUME NEW n \in DOMAIN Run PROVE RunOK(Run[n]) OBVIOUS
<1> DEFINE o == Answers[n]
           anchors == [d \in Dimensions |-> 2 * Dim(o, d).anchor]
<1>1. ValidOutput(o) /\ Complete(o) /\ Run[n] = RunOf(o) BY DEF Run
<1> HIDE DEF o
<1>2. \A d \in Dimensions : Dim(o, d).anchor \in 0 .. 4
  <2> TAKE d \in Dimensions
  <2> DEFINE i == CHOOSE i \in 1 .. 8 : o.dimensions[i].dimension = d
  <2>1. i \in 1 .. 8
    <3>1. \E j \in 1 .. 8 : o.dimensions[j].dimension = d BY <1>1 DEF ValidOutput
    <3> QED BY <3>1
  <2>2. Dim(o, d) = o.dimensions[i] BY DEF Dim
  <2> HIDE DEF i
  <2>3. o.dimensions[i].status = "observed" /\ ValidDimension(o.dimensions[i])
    BY <1>1, <2>1 DEF ValidOutput, Complete
  <2> QED BY <2>2, <2>3 DEF ValidDimension
<1>3. anchors \in Anchors
  <2>1. \A k \in 0 .. 4 : 2 * k \in {0, 2, 4, 6, 8} OBVIOUS
  <2> QED BY <1>2, <2>1 DEF Anchors
<1>4. /\ Run[n].anchors = anchors /\ Run[n].score = Total(anchors)
      /\ Run[n].rating = RatingOf(Total(anchors))
  BY <1>1 DEF RunOf
<1> HIDE DEF anchors
<1>5. anchors \in [Dimensions -> Int] BY <1>3 DEF Anchors
<1>6. Total(anchors) \in Int BY <1>5, TotalIsRounded
<1> QED BY <1>3, <1>4, <1>6 DEF RunOK

\* Runs that are.
RunsOK(R) == DOMAIN R = 1 .. Len(R) /\ Len(R) \in Nat /\ \A i \in DOMAIN R : RunOK(R[i])

\* So have the runs of a group.
LEMMA GroupsAreScored ==
  ASSUME NEW numbers \in Seq(DOMAIN Run)
  PROVE  /\ RunsOK(Group(numbers)) /\ Len(Group(numbers)) = Len(numbers)
         /\ DOMAIN numbers = 1 .. Len(numbers) /\ Len(numbers) \in Nat
         /\ \A i \in 1 .. Len(numbers) : numbers[i] \in DOMAIN Run /\ Group(numbers)[i] = Run[numbers[i]]
<1> DEFINE R == Group(numbers)
           n == Len(numbers)
           S == {Run[k] : k \in DOMAIN Run}
<1>1. n \in Nat /\ DOMAIN numbers = 1 .. n /\ \A i \in 1 .. n : numbers[i] \in DOMAIN Run OBVIOUS
<1>2. R = [i \in 1 .. n |-> Run[numbers[i]]] BY <1>1 DEF Group
<1>3. R \in [1 .. n -> S] BY <1>1, <1>2
<1>4. R \in Seq(S) /\ Len(R) = n /\ DOMAIN R = 1 .. n BY <1>1, <1>3
<1>5. \A i \in 1 .. n : RunOK(R[i]) BY <1>1, <1>2, RunsAreScored
<1> QED BY <1>1, <1>2, <1>4, <1>5 DEF RunsOK

-----------------------------------------------------------------------------
(* What is adopted follows the runs.                                       *)

\* What is said of a verdict on the runs R.
Follows(R, v) ==
  /\ AtLeastTwo(Rated(R, v.rating))
  /\ Contradicted(R) \subseteq SoftFacts /\ ~ComplianceConflict(R)
  /\ \A d \in Dimensions :
       /\ \E r, q \in DOMAIN R : v.anchors[d] \in R[r].anchors[d] .. R[q].anchors[d]
       /\ Distance(R[Representative(R, v, d)].anchors[d], v.anchors[d]) <= 1

\* The run that is quoted exists and is one of the nearest.
LEMMA NearestIsQuoted ==
  ASSUME NEW R, RunsOK(R), Len(R) > 0, NEW v, v.score \in Int,
         NEW d \in Dimensions, v.anchors[d] \in Int
  PROVE  Representative(R, v, d) \in Sources(R, v, d)
<1> DEFINE Far(r) == Distance(R[r].anchors[d], v.anchors[d])
           Off(r) == Distance(R[r].score, v.score)
           S == Sources(R, v, d)
           Firsts == {r \in S : \A q \in S : Off(r) <= Off(q)}
<1>1. \A r \in DOMAIN R : Far(r) \in Nat /\ Off(r) \in Nat
  <2>1. \A x, y \in Int : Distance(x, y) \in Nat BY DEF Distance
  <2>2. \A r \in DOMAIN R : R[r].anchors \in Anchors /\ R[r].score \in Int BY DEF RunsOK, RunOK
  <2>3. \A r \in DOMAIN R : R[r].anchors[d] \in Int BY <2>2 DEF Anchors
  <2> QED BY <2>1, <2>2, <2>3
<1>2. DOMAIN R \in SUBSET Nat /\ 1 \in DOMAIN R BY DEF RunsOK
<1>3. S = {r \in DOMAIN R : \A q \in DOMAIN R : Far(r) <= Far(q)} BY DEF Sources
<1> HIDE DEF Far, Off, S
<1>4. S # {} /\ S \subseteq DOMAIN R
  <2> DEFINE all == {Far(r) : r \in DOMAIN R}
  <2>1. all \in SUBSET Nat /\ all # {} BY <1>1, <1>2
  <2>2. PICK k \in all : \A l \in all : k <= l BY <2>1, LeastNumber
  <2>3. PICK r \in DOMAIN R : Far(r) = k BY <2>2
  <2> QED BY <1>3, <2>2, <2>3
<1>5. Firsts # {}
  <2> DEFINE all == {Off(r) : r \in S}
  <2>1. all \in SUBSET Nat /\ all # {} BY <1>1, <1>4
  <2>2. PICK k \in all : \A l \in all : k <= l BY <2>1, LeastNumber
  <2>3. PICK r \in S : Off(r) = k BY <2>2
  <2> QED BY <2>2, <2>3
<1>6. PICK r \in Firsts : \A q \in Firsts : r <= q
  <2>1. Firsts \in SUBSET Nat BY <1>2, <1>4
  <2> QED BY <1>5, <2>1, LeastNumber
<1>7. \A q \in S : Off(r) < Off(q) \/ (Off(r) = Off(q) /\ r <= q)
  <2> TAKE q \in S
  <2>1. Off(r) \in Nat /\ Off(q) \in Nat /\ Off(r) <= Off(q) BY <1>1, <1>4, <1>6
  <2>2. CASE Off(r) = Off(q)
    <3>1. q \in Firsts BY <1>6, <2>2
    <3> QED BY <1>6, <2>2, <3>1
  <2>3. CASE Off(r) # Off(q) BY <2>1, <2>3
  <2> QED BY <2>2, <2>3
<1>8. Representative(R, v, d) =
        CHOOSE p \in S : \A q \in S : Off(p) < Off(q) \/ (Off(p) = Off(q) /\ p <= q)
  BY DEF Representative, Off, S
<1>9. r \in S BY <1>6
<1>10. \E p \in S : \A q \in S : Off(p) < Off(q) \/ (Off(p) = Off(q) /\ p <= q) BY <1>7, <1>9
<1>11. Representative(R, v, d) \in S BY <1>8, <1>10, Zenon
<1> QED BY <1>11 DEF S

\* Two runs that agree are followed by their mean.
LEMMA MeanFollows ==
  ASSUME NEW R, RunsOK(R), Len(R) = 2, ~Irreconcilable(R), Agreeing(R)
  PROVE  Follows(R, Adopt(Mean(R)))
<1> DEFINE v == Adopt(Mean(R))
           a == R[1].anchors
           b == R[2].anchors
           m == Mean(R)
<1>1. DOMAIN R = 1 .. 2 /\ RunOK(R[1]) /\ RunOK(R[2]) BY DEF RunsOK
<1>2. /\ a \in Anchors /\ b \in Anchors /\ R[1].rating = RatingOf(Total(a))
      /\ R[2].rating = RatingOf(Total(b)) /\ R[1].rating = R[2].rating
  BY <1>1 DEF RunOK, Agreeing
<1>3. m = [d \in Dimensions |-> (a[d] + b[d]) \div 2] BY DEF Mean
<1>4. v.anchors = m /\ v.score = Total(m) /\ v.rating = RatingOf(Total(m)) BY DEF Adopt
<1>5. m \in [Dimensions -> Int] /\ \A d \in Dimensions : 2 * m[d] = a[d] + b[d]
  BY <1>2, <1>3, MeansAreExact
<1>6. \A d \in Dimensions : a[d] - b[d] \in -2 .. 2 BY DEF Agreeing
<1>7. v.rating = RatingOf(Total(a))
  <2>1. RatingOf(Total(a)) = RatingOf(Total(b)) BY <1>2
  <2> HIDE DEF a, b, m, v
  <2>2. RatingOf(Total(m)) = RatingOf(Total(a)) BY <1>2, <1>3, <2>1, MeanKeepsRating
  <2> QED BY <1>4, <2>2
<1>8. v.score \in Int BY <1>4, <1>5, TotalIsRounded
<1>9. \A d \in Dimensions : a[d] \in Int /\ b[d] \in Int BY <1>2 DEF Anchors
<1>10. Contradicted(R) \subseteq SoftFacts /\ ~ComplianceConflict(R) BY DEF Irreconcilable
<1> HIDE DEF v, m
<1>11. AtLeastTwo(Rated(R, v.rating))
  <2>1. R[1].rating = v.rating /\ R[2].rating = v.rating BY <1>2, <1>7
  <2>2. 1 \in DOMAIN R /\ 2 \in DOMAIN R BY <1>1
  <2>3. 1 \in Rated(R, v.rating) /\ 2 \in Rated(R, v.rating) BY <2>1, <2>2 DEF Rated
  <2> QED BY <2>3 DEF AtLeastTwo
<1>12. ASSUME NEW d \in Dimensions
       PROVE  /\ \E r, q \in DOMAIN R : v.anchors[d] \in R[r].anchors[d] .. R[q].anchors[d]
              /\ Distance(R[Representative(R, v, d)].anchors[d], v.anchors[d]) <= 1
  <2> DEFINE x == a[d]
             y == b[d]
             z == m[d]
             r == Representative(R, v, d)
  <2>1. x \in Int /\ y \in Int /\ z \in Int /\ 2 * z = x + y /\ x - y \in -2 .. 2 /\ v.anchors[d] = z
    BY <1>4, <1>5, <1>6, <1>9
  <2>2. r \in Sources(R, v, d)
    <3>1. v.anchors[d] \in Int /\ Len(R) > 0 BY <2>1
    <3> QED BY <1>8, <3>1, NearestIsQuoted
  <2>3. r \in {1, 2} BY <1>1, <2>2 DEF Sources
  <2> HIDE DEF x, y, z, r
  <2>4. z \in x .. y \/ z \in y .. x BY <2>1
  <2>5. \E p, q \in DOMAIN R : v.anchors[d] \in R[p].anchors[d] .. R[q].anchors[d]
    BY <1>1, <2>1, <2>4 DEF x, y
  <2>6. Distance(x, z) <= 1 /\ Distance(y, z) <= 1 BY <2>1 DEF Distance
  <2>7. Distance(R[r].anchors[d], v.anchors[d]) <= 1 BY <2>1, <2>3, <2>6 DEF x, y
  <2> QED BY <2>5, <2>7 DEF r
<1> QED BY <1>10, <1>11, <1>12 DEF Follows, v, m

\* The median of three is the anchor that two of them hold.
LEMMA MedianIsHeld ==
  ASSUME NEW R, NEW d \in Dimensions, Twice(R, d)
  PROVE  /\ \E r \in DOMAIN R : Median(R)[d] = R[r].anchors[d]
         /\ AtLeastTwo(Holding(R, d, Median(R)[d]))
<1> DEFINE Held(r) == AtLeastTwo(Holding(R, d, R[r].anchors[d]))
           r == CHOOSE r \in DOMAIN R : Held(r)
<1>1. Median(R)[d] = R[r].anchors[d] BY DEF Median
<1>2. \E q \in DOMAIN R : Held(q) BY DEF Twice
<1>3. r \in DOMAIN R /\ Held(r) BY <1>2
<1> QED BY <1>1, <1>3

\* Three runs are followed by their median.
LEMMA MedianFollows ==
  ASSUME NEW R, RunsOK(R), Len(R) = 3, ~Irreconcilable(R), \A d \in Dimensions : Twice(R, d),
         AtLeastTwo(Rated(R, Adopt(Median(R)).rating))
  PROVE  Follows(R, Adopt(Median(R)))
<1> DEFINE v == Adopt(Median(R))
           m == Median(R)
<1>1. v.anchors = m /\ v.score = Total(m) BY DEF Adopt
<1>2. \A r \in DOMAIN R : R[r].anchors \in Anchors BY DEF RunsOK, RunOK
<1>3. \A r \in DOMAIN R, d \in Dimensions : R[r].anchors[d] \in Int BY <1>2 DEF Anchors
<1>4. \A d \in Dimensions : \E r \in DOMAIN R : m[d] = R[r].anchors[d] BY MedianIsHeld
<1>5. m \in [Dimensions -> Int]
  <2> DEFINE Held(d) == R[CHOOSE r \in DOMAIN R : AtLeastTwo(Holding(R, d, R[r].anchors[d]))].anchors[d]
  <2>1. m = [d \in Dimensions |-> Held(d)] BY DEF Median
  <2> HIDE DEF m, Held
  <2>2. \A d \in Dimensions : m[d] \in Int BY <1>3, <1>4
  <2>3. \A d \in Dimensions : Held(d) \in Int BY <2>1, <2>2
  <2> QED BY <2>1, <2>3
<1>6. v.score \in Int BY <1>1, <1>5, TotalIsRounded
<1>7. Contradicted(R) \subseteq SoftFacts /\ ~ComplianceConflict(R) BY DEF Irreconcilable
<1>8. ASSUME NEW d \in Dimensions
      PROVE  /\ \E r, q \in DOMAIN R : v.anchors[d] \in R[r].anchors[d] .. R[q].anchors[d]
             /\ Distance(R[Representative(R, v, d)].anchors[d], v.anchors[d]) <= 1
  <2> HIDE DEF v, m
  <2>1. PICK r \in DOMAIN R : m[d] = R[r].anchors[d] BY <1>4
  <2>2. v.anchors[d] = R[r].anchors[d] /\ R[r].anchors[d] \in Int BY <1>1, <1>3, <2>1
  <2>3. \E p, q \in DOMAIN R : v.anchors[d] \in R[p].anchors[d] .. R[q].anchors[d] BY <2>2
  <2> DEFINE s == Representative(R, v, d)
  <2>4. s \in Sources(R, v, d)
    <3>1. v.anchors[d] \in Int /\ Len(R) > 0 BY <2>2
    <3> QED BY <1>6, <3>1, NearestIsQuoted
  <2> HIDE DEF s
  <2>5. s \in DOMAIN R
        /\ Distance(R[s].anchors[d], v.anchors[d]) <= Distance(R[r].anchors[d], v.anchors[d])
    BY <2>4 DEF Sources
  <2>6. R[s].anchors[d] \in Int BY <1>3, <2>5
  <2>7. \A x, y \in Int : Distance(x, y) \in Nat /\ Distance(x, x) = 0 BY DEF Distance
  <2>8. Distance(R[r].anchors[d], v.anchors[d]) = 0 BY <2>2, <2>7
  <2>9. Distance(R[s].anchors[d], v.anchors[d]) \in Nat BY <2>2, <2>6, <2>7
  <2>10. Distance(R[s].anchors[d], v.anchors[d]) <= 1 BY <2>5, <2>8, <2>9
  <2> QED BY <2>3, <2>10 DEF s
<1> QED BY <1>7, <1>8 DEF Follows

\* What several runs decide: nothing, an adoption that follows them, or another run.
LEMMA Decisions ==
  ASSUME NEW R, RunsOK(R), Len(R) \in 2 .. 3
  PROVE  LET v == Decide(R) IN
         /\ v = Hold \/ (v = Further /\ Len(R) = 2) \/ \E m : v = Adopt(m)
         /\ v.action = "adopt" => Follows(R, v)
         /\ Len(R) = 2 => (v = Hold <=> Irreconcilable(R))
<1>1. /\ Hold.action = "hold" /\ Further.action = "further_run" /\ \A m : Adopt(m).action = "adopt"
  BY DEF Hold, Further, Adopt
<1>2. CASE Irreconcilable(R)
  <2>1. Decide(R) = Hold BY <1>2 DEF Decide
  <2> QED BY <1>1, <1>2, <2>1
<1>3. CASE ~Irreconcilable(R) /\ Len(R) = 2
  <2>1. Decide(R) = DecideDouble(R) BY <1>3 DEF Decide
  <2>2. CASE Contradicted(R) \cap SoftFacts # {} \/ ~Agreeing(R)
    <3>1. Decide(R) = Further BY <2>1, <2>2 DEF DecideDouble
    <3> QED BY <1>1, <1>3, <3>1
  <2>3. CASE ~(Contradicted(R) \cap SoftFacts # {} \/ ~Agreeing(R))
    <3>1. Decide(R) = Adopt(Mean(R)) BY <2>1, <2>3 DEF DecideDouble
    <3>2. Follows(R, Adopt(Mean(R))) BY <1>3, <2>3, MeanFollows
    <3> QED BY <1>1, <1>3, <3>1, <3>2
  <2> QED BY <2>2, <2>3
<1>4. CASE ~Irreconcilable(R) /\ Len(R) = 3
  <2>1. Decide(R) = DecideTriple(R) BY <1>4 DEF Decide
  <2> DEFINE Settled == /\ SoftMajority(R) /\ FactsAgree(R) /\ \A d \in Dimensions : Twice(R, d)
                        /\ AtLeastTwo(Rated(R, Adopt(Median(R)).rating))
  <2>2. CASE Settled
    <3>1. Decide(R) = Adopt(Median(R)) BY <2>1, <2>2 DEF DecideTriple
    <3>2. Follows(R, Adopt(Median(R))) BY <1>4, <2>2, MedianFollows
    <3> QED BY <1>1, <1>4, <3>1, <3>2
  <2>3. CASE ~Settled
    <3>1. Decide(R) = Hold BY <2>1, <2>3 DEF DecideTriple
    <3> QED BY <1>1, <1>4, <3>1
  <2> QED BY <2>2, <2>3
<1> QED BY <1>2, <1>3, <1>4

\* What one run decides.
LEMMA FirstDecisions ==
  ASSUME NEW r, NEW m, NEW pilots, NEW appeal, NEW history, NEW sampled, RunOK(r)
  PROVE  LET v == DecideFirst(r, m, pilots, appeal, history, sampled) IN
         v = Further \/ (v = Adopt(r.anchors) /\ \A b \in Boundaries : ~Near(r.score, b))
BY DEF DecideFirst, NeedsReview

\* A score that is near no boundary keeps its rating when it moves by two points.
LEMMA FarIsStable ==
  ASSUME NEW s \in Int, \A b \in Boundaries : ~Near(s, b), NEW t \in s - 20 .. s + 20
  PROVE  RatingOf(t) = RatingOf(s)
<1>1. /\ s - 600 \notin -20 .. 20 /\ s - 680 \notin -20 .. 20 /\ s - 740 \notin -20 .. 20
      /\ s - 820 \notin -20 .. 20 /\ s - 900 \notin -20 .. 20
  BY DEF Boundaries, Near
<1>2. t \in Int /\ s - 20 <= t /\ t <= s + 20 OBVIOUS
<1> QED BY <1>1, <1>2 DEF RatingOf

\* What two runs cannot settle is not settled by a third.
LEMMA ApartStaysApart ==
  ASSUME NEW R, NEW S, DOMAIN R \subseteq DOMAIN S, \A i \in DOMAIN R : S[i] = R[i], Irreconcilable(R)
  PROVE  Irreconcilable(S)
<1>1. ScoresApart(R) => ScoresApart(S) BY DEF ScoresApart
<1>2. RatingsApart(R) => RatingsApart(S) BY DEF RatingsApart
<1>3. ComplianceConflict(R) => ComplianceConflict(S) BY DEF ComplianceConflict
<1>4. \A f \in Facts, s \in Definite : Saying(R, f, s) \subseteq Saying(S, f, s) BY DEF Saying
<1>5. Contradicted(R) \subseteq Contradicted(S) BY <1>4 DEF Contradicted
<1> QED BY <1>1, <1>2, <1>3, <1>5 DEF Irreconcilable

-----------------------------------------------------------------------------
(* The order of the runs.                                                  *)

\* The runs S are the runs R in the order f.
Reordered(R, S, f) ==
  /\ DOMAIN S = DOMAIN R /\ f \in [DOMAIN R -> DOMAIN R]
  /\ \A i, j \in DOMAIN R : f[i] = f[j] => i = j
  /\ \A j \in DOMAIN R : \E i \in DOMAIN R : f[i] = j
  /\ \A i \in DOMAIN R : S[i] = R[f[i]]

\* As many runs have something in common in each order.
LEMMA AsMany ==
  ASSUME NEW R, NEW S, NEW f, Reordered(R, S, f), NEW A \in SUBSET DOMAIN R,
         NEW B, B = {i \in DOMAIN R : f[i] \in A}
  PROVE  (B # {} <=> A # {}) /\ (AtLeastTwo(B) <=> AtLeastTwo(A))
<1>1. \A i \in B : f[i] \in A OBVIOUS
<1>2. \A j \in A : \E i \in B : f[i] = j BY DEF Reordered
<1>3. \A i, j \in B : i # j => f[i] # f[j] BY DEF Reordered
<1>4. AtLeastTwo(B) => AtLeastTwo(A) BY <1>1, <1>3 DEF AtLeastTwo
<1>5. AtLeastTwo(A) => AtLeastTwo(B) BY <1>2 DEF AtLeastTwo
<1> QED BY <1>1, <1>2, <1>4, <1>5

\* What the runs contradict or agree on is the same in each order.
LEMMA FactsReordered ==
  ASSUME NEW R, NEW S, NEW f, Reordered(R, S, f)
  PROVE  /\ Contradicted(S) = Contradicted(R)
         /\ FactsAgree(S) <=> FactsAgree(R)
         /\ SoftMajority(S) <=> SoftMajority(R)
<1>1. ASSUME NEW k, NEW s
      PROVE  /\ Saying(S, k, s) # {} <=> Saying(R, k, s) # {}
             /\ AtLeastTwo(Saying(S, k, s)) <=> AtLeastTwo(Saying(R, k, s))
  <2>1. Saying(R, k, s) \in SUBSET DOMAIN R BY DEF Saying
  <2>2. Saying(S, k, s) = {i \in DOMAIN R : f[i] \in Saying(R, k, s)} BY DEF Saying, Reordered
  <2> QED BY <2>1, <2>2, AsMany
<1>2. Contradicted(S) = Contradicted(R) BY <1>1 DEF Contradicted
<1>3. FactsAgree(S) <=> FactsAgree(R) BY <1>1 DEF FactsAgree
<1>4. SoftMajority(S) <=> SoftMajority(R) BY <1>1, <1>2 DEF SoftMajority
<1> QED BY <1>2, <1>3, <1>4

\* So is what they cannot settle.
LEMMA ApartReordered ==
  ASSUME NEW R, NEW S, NEW f, Reordered(R, S, f)
  PROVE  Irreconcilable(S) <=> Irreconcilable(R)
<1>1. ScoresApart(S) <=> ScoresApart(R)
  <2>1. ASSUME ScoresApart(S) PROVE ScoresApart(R)
    <3>1. PICK i \in DOMAIN R, j \in DOMAIN R : S[i].score - S[j].score > 100
      BY <2>1 DEF ScoresApart, Reordered
    <3>2. f[i] \in DOMAIN R /\ f[j] \in DOMAIN R /\ S[i] = R[f[i]] /\ S[j] = R[f[j]]
      BY DEF Reordered
    <3> QED BY <3>1, <3>2 DEF ScoresApart
  <2>2. ASSUME ScoresApart(R) PROVE ScoresApart(S)
    <3>1. PICK k \in DOMAIN R, l \in DOMAIN R : R[k].score - R[l].score > 100
      BY <2>2 DEF ScoresApart
    <3>2. PICK i \in DOMAIN R : f[i] = k BY DEF Reordered
    <3>3. PICK j \in DOMAIN R : f[j] = l BY DEF Reordered
    <3>4. S[i] = R[k] /\ S[j] = R[l] /\ i \in DOMAIN S /\ j \in DOMAIN S BY <3>2, <3>3 DEF Reordered
    <3> QED BY <3>1, <3>4 DEF ScoresApart
  <2> QED BY <2>1, <2>2
<1>2. RatingsApart(S) <=> RatingsApart(R) BY DEF RatingsApart, Reordered
<1>3. ComplianceConflict(S) <=> ComplianceConflict(R) BY DEF ComplianceConflict, Reordered
<1> QED BY <1>1, <1>2, <1>3, FactsReordered DEF Irreconcilable

\* Two runs agree in each order, on the same mean.
LEMMA DoubleReordered ==
  ASSUME NEW R, NEW S, NEW f, Reordered(R, S, f), RunsOK(R), Len(R) = 2
  PROVE  (Agreeing(S) <=> Agreeing(R)) /\ Mean(S) = Mean(R)
<1>1. DOMAIN R = 1 .. 2 /\ RunOK(R[1]) /\ RunOK(R[2]) BY DEF RunsOK
<1>2. /\ f[1] \in 1 .. 2 /\ f[2] \in 1 .. 2 /\ f[1] # f[2]
      /\ S[1] = R[f[1]] /\ S[2] = R[f[2]]
  BY <1>1 DEF Reordered
<1>3. FactsAgree(S) <=> FactsAgree(R) BY FactsReordered
<1>4. CASE f[1] = 1
  <2>1. S[1] = R[1] /\ S[2] = R[2] BY <1>2, <1>4
  <2>2. Mean(S) = Mean(R) BY <2>1 DEF Mean
  <2> QED BY <1>3, <2>1, <2>2 DEF Agreeing
<1>5. CASE f[1] = 2
  <2>1. S[1] = R[2] /\ S[2] = R[1] BY <1>2, <1>5
  <2>2. \A d \in Dimensions : R[1].anchors[d] \in Int /\ R[2].anchors[d] \in Int
    BY <1>1 DEF RunOK, Anchors
  <2>3. R[1].score \in Int /\ R[2].score \in Int BY <1>1 DEF RunOK
  <2>4. \A d \in Dimensions :
          (S[1].anchors[d] + S[2].anchors[d]) \div 2 = (R[1].anchors[d] + R[2].anchors[d]) \div 2
    <3> TAKE d \in Dimensions
    <3>1. S[1].anchors[d] + S[2].anchors[d] = R[1].anchors[d] + R[2].anchors[d] BY <2>1, <2>2
    <3> QED BY <3>1
  <2>5. Mean(S) = Mean(R) BY <2>4 DEF Mean
  <2>6. \A d \in Dimensions :
          S[1].anchors[d] - S[2].anchors[d] \in -2 .. 2 <=> R[1].anchors[d] - R[2].anchors[d] \in -2 .. 2
    BY <2>1, <2>2
  <2>7. S[1].score - S[2].score \in -50 .. 50 <=> R[1].score - R[2].score \in -50 .. 50 BY <2>1, <2>3
  <2> QED BY <1>3, <2>1, <2>5, <2>6, <2>7 DEF Agreeing
<1> QED BY <1>2, <1>4, <1>5

\* Of three runs, two hold at most one anchor in common.
LEMMA HeldTwiceIsUnique ==
  ASSUME NEW R, DOMAIN R = 1 .. 3, NEW d, NEW a, NEW b,
         AtLeastTwo(Holding(R, d, a)), AtLeastTwo(Holding(R, d, b))
  PROVE  a = b
<1>1. PICK i \in Holding(R, d, a), j \in Holding(R, d, a) : i # j BY DEF AtLeastTwo
<1>2. PICK k \in Holding(R, d, b), l \in Holding(R, d, b) : k # l BY DEF AtLeastTwo
<1>3. i \in 1 .. 3 /\ j \in 1 .. 3 /\ k \in 1 .. 3 /\ l \in 1 .. 3 BY DEF Holding
<1>4. i = k \/ i = l \/ j = k \/ j = l BY <1>1, <1>2, <1>3
<1>5. R[i].anchors[d] = a /\ R[j].anchors[d] = a /\ R[k].anchors[d] = b /\ R[l].anchors[d] = b
  BY DEF Holding
<1> QED BY <1>4, <1>5

\* The median of three runs does not depend on their order.
LEMMA MedianReordered ==
  ASSUME NEW R, NEW S, NEW f, Reordered(R, S, f), DOMAIN R = 1 .. 3
  PROVE  /\ \A d \in Dimensions : Twice(S, d) <=> Twice(R, d)
         /\ (\A d \in Dimensions : Twice(R, d)) => Median(S) = Median(R)
<1>1. ASSUME NEW d, NEW a
      PROVE  AtLeastTwo(Holding(S, d, a)) <=> AtLeastTwo(Holding(R, d, a))
  <2>1. Holding(R, d, a) \in SUBSET DOMAIN R BY DEF Holding
  <2>2. Holding(S, d, a) = {i \in DOMAIN R : f[i] \in Holding(R, d, a)} BY DEF Holding, Reordered
  <2> QED BY <2>1, <2>2, AsMany
<1>2. \A d \in Dimensions : Twice(S, d) <=> Twice(R, d)
  <2> TAKE d \in Dimensions
  <2>1. \A i \in DOMAIN R : f[i] \in DOMAIN R /\ S[i].anchors[d] = R[f[i]].anchors[d] BY DEF Reordered
  <2>2. \A j \in DOMAIN R : \E i \in DOMAIN R : S[i].anchors[d] = R[j].anchors[d] BY DEF Reordered
  <2>3. DOMAIN S = DOMAIN R BY DEF Reordered
  <2> QED BY <1>1, <2>1, <2>2, <2>3 DEF Twice
<1>3. ASSUME \A d \in Dimensions : Twice(R, d)
      PROVE  Median(S) = Median(R)
  <2>1. \A d \in Dimensions : Median(S)[d] = Median(R)[d]
    <3> TAKE d \in Dimensions
    <3>1. AtLeastTwo(Holding(R, d, Median(R)[d])) BY <1>3, MedianIsHeld
    <3>2. AtLeastTwo(Holding(S, d, Median(S)[d])) BY <1>2, <1>3, MedianIsHeld
    <3>3. AtLeastTwo(Holding(R, d, Median(S)[d])) BY <1>1, <3>2
    <3> QED BY <3>1, <3>3, HeldTwiceIsUnique
  <2> DEFINE Held(Q, d) == Q[CHOOSE r \in DOMAIN Q : AtLeastTwo(Holding(Q, d, Q[r].anchors[d]))].anchors[d]
  <2>2. /\ Median(R) = [d \in Dimensions |-> Held(R, d)]
        /\ Median(S) = [d \in Dimensions |-> Held(S, d)]
    BY DEF Median
  <2> HIDE DEF Held
  <2> QED BY <2>1, <2>2
<1> QED BY <1>2, <1>3

\* The decision on several runs does not depend on their order.
LEMMA DecisionReordered ==
  ASSUME NEW R, NEW S, NEW f, Reordered(R, S, f), RunsOK(R), Len(R) \in 2 .. 3, Len(S) = Len(R)
  PROVE  Decide(S) = Decide(R)
<1>1. Irreconcilable(S) <=> Irreconcilable(R) BY ApartReordered
<1>2. CASE Len(R) = 2
  <2>1. /\ Contradicted(S) = Contradicted(R) /\ (Agreeing(S) <=> Agreeing(R)) /\ Mean(S) = Mean(R)
    BY <1>2, FactsReordered, DoubleReordered
  <2>2. DecideDouble(S) = DecideDouble(R) BY <2>1 DEF DecideDouble
  <2> QED BY <1>1, <1>2, <2>2 DEF Decide
<1>3. CASE Len(R) = 3
  <2>1. DOMAIN R = 1 .. 3 BY <1>3 DEF RunsOK
  <2>2. (SoftMajority(S) <=> SoftMajority(R)) /\ (FactsAgree(S) <=> FactsAgree(R)) BY FactsReordered
  <2>3. \A d \in Dimensions : Twice(S, d) <=> Twice(R, d) BY <2>1, MedianReordered
  <2>4. \A g : AtLeastTwo(Rated(S, g)) <=> AtLeastTwo(Rated(R, g))
    <3> TAKE g
    <3>1. Rated(R, g) \in SUBSET DOMAIN R BY DEF Rated
    <3>2. Rated(S, g) = {i \in DOMAIN R : f[i] \in Rated(R, g)} BY DEF Rated, Reordered
    <3> QED BY <3>1, <3>2, AsMany
  <2>5. DecideTriple(S) = DecideTriple(R)
    <3>1. CASE \A d \in Dimensions : Twice(R, d)
      <4>1. Median(S) = Median(R) BY <2>1, <3>1, MedianReordered
      <4> QED BY <2>2, <2>3, <2>4, <4>1 DEF DecideTriple
    <3>2. CASE ~\A d \in Dimensions : Twice(R, d) BY <2>3, <3>2 DEF DecideTriple
    <3> QED BY <3>1, <3>2
  <2>6. Len(R) # 2 /\ Len(S) # 2 BY <1>3
  <2> QED BY <1>1, <2>5, <2>6 DEF Decide
<1> QED BY <1>2, <1>3

\* A way to put two or three runs in order reaches each of them.
LEMMA OrdersReachAll ==
  ASSUME NEW n \in 2 .. 3, NEW f \in [1 .. n -> 1 .. n], \A i, j \in 1 .. n : f[i] = f[j] => i = j
  PROVE  \A j \in 1 .. n : \E i \in 1 .. n : f[i] = j
<1>1. CASE n = 2
  <2>1. f[1] \in 1 .. 2 /\ f[2] \in 1 .. 2 /\ f[1] # f[2] BY <1>1
  <2> QED BY <1>1, <2>1
<1>2. CASE n = 3
  <2>1. /\ f[1] \in 1 .. 3 /\ f[2] \in 1 .. 3 /\ f[3] \in 1 .. 3
        /\ f[1] # f[2] /\ f[1] # f[3] /\ f[2] # f[3]
    BY <1>2
  <2> DEFINE x == f[1]
             y == f[2]
             z == f[3]
  <2> HIDE DEF x, y, z
  <2>2. \A j \in 1 .. 3 : x = j \/ y = j \/ z = j
    <3>1. x \in 1 .. 3 /\ y \in 1 .. 3 /\ z \in 1 .. 3 /\ x # y /\ x # z /\ y # z BY <2>1 DEF x, y, z
    <3> QED BY <3>1
  <2> QED BY <1>2, <2>2 DEF x, y, z
<1> QED BY <1>1, <1>2

\* A group with one run more.
LEMMA OneMore ==
  ASSUME NEW D, NEW numbers \in Seq(D), NEW k \in D
  PROVE  /\ Append(numbers, k) \in Seq(D) /\ Len(Append(numbers, k)) = Len(numbers) + 1
         /\ \A i \in 1 .. Len(numbers) : Append(numbers, k)[i] = numbers[i]
OBVIOUS

-----------------------------------------------------------------------------
(* Adoptions.                                                              *)

\* The invariant says of an adoption what the engine said.
LEMMA AdoptionSound == GroupOK /\ RatedOK => AdoptionIsSound
<1> SUFFICES ASSUME GroupOK, RatedOK PROVE AdoptionIsSound OBVIOUS
<1> DEFINE R == Group(group)
           n == Len(group)
<1>1. /\ RunsOK(R) /\ Len(R) = n /\ DOMAIN group = 1 .. n /\ n \in Nat
      /\ \A i \in 1 .. n : group[i] \in DOMAIN Run /\ R[i] = Run[group[i]]
  BY GroupsAreScored DEF GroupOK
<1>2. n <= 3 /\ group \in Seq(DOMAIN Run) BY DEF GroupOK
<1>3. verdict.action = "adopt" /\ n # 0 => rating = Null /\ verdict = Progress(group)
  <2>1. rating # Null => n = 0 BY DEF RatedOK
  <2> QED BY <2>1 DEF GroupOK
<1>4. n # 1 => Progress(group) = Decide(R) BY DEF Progress
<1> HIDE DEF R, n
<1>5. ASSUME verdict.action = "adopt", n > 1 PROVE Follows(R, verdict)
  <2>1. n \in 2 .. 3 BY <1>1, <1>2, <1>5
  <2>2. verdict = Decide(R) BY <1>3, <1>4, <1>5, <2>1
  <2> QED BY <1>1, <1>5, <2>1, <2>2, Decisions
<1>6. AdoptedFollowsRuns BY <1>5 DEF AdoptedFollowsRuns, Follows, R, n
<1>7. ASSUME verdict.action = "adopt", n = 1
      PROVE  \A score \in verdict.score - 20 .. verdict.score + 20 : RatingOf(score) = verdict.rating
  <2> DEFINE r == Run[group[1]]
  <2>1. RunOK(r) /\ verdict = Progress(group) BY <1>1, <1>3, <1>7, RunsAreScored
  <2>2. verdict = DecideFirst(r, context.manifest, context.pilots, context.appeal,
                              context.history, context.sampled)
    BY <1>7, <2>1 DEF Progress, n
  <2>3. verdict # Further BY <1>7 DEF Further, Hold
  <2> HIDE DEF r
  <2>4. verdict = Adopt(r.anchors) /\ \A b \in Boundaries : ~Near(r.score, b)
    BY <2>1, <2>2, <2>3, FirstDecisions
  <2>5. verdict.score = r.score /\ verdict.rating = RatingOf(r.score) /\ r.score \in Int
    BY <2>1, <2>4 DEF RunOK, Adopt
  <2> QED BY <2>4, <2>5, FarIsStable
<1>8. AdoptedAloneIsStable BY <1>7 DEF AdoptedAloneIsStable, n
<1>9. ASSUME n = 2, Decide(R) = Hold, NEW k \in DOMAIN Run
      PROVE  Decide(Group(Append(group, k))) = Hold
  <2> DEFINE S == Group(Append(group, k))
  <2>1. Irreconcilable(R) BY <1>1, <1>9, Decisions
  <2>2. /\ Append(group, k) \in Seq(DOMAIN Run) /\ Len(Append(group, k)) = 3
        /\ \A i \in 1 .. 2 : Append(group, k)[i] = group[i]
    <3> DEFINE more == Append(group, k)
    <3>1. more \in Seq(DOMAIN Run) /\ Len(more) = n + 1 /\ \A i \in 1 .. n : more[i] = group[i]
      BY <1>2, <1>9, OneMore DEF n
    <3> HIDE DEF more
    <3>2. Len(more) = 3 /\ \A i \in 1 .. 2 : more[i] = group[i] BY <1>9, <3>1
    <3> QED BY <3>1, <3>2 DEF more
  <2>3. RunsOK(S) /\ Len(S) = 3 /\ \A i \in 1 .. 3 : S[i] = Run[Append(group, k)[i]]
    BY <2>2, GroupsAreScored
  <2> HIDE DEF S
  <2>4. DOMAIN R = 1 .. 2 /\ DOMAIN S = 1 .. 3 BY <1>1, <1>9, <2>3 DEF RunsOK
  <2>5. \A i \in 1 .. 2 : S[i] = R[i] BY <1>1, <1>9, <2>2, <2>3
  <2>6. Irreconcilable(S) BY <2>1, <2>4, <2>5, ApartStaysApart
  <2> QED BY <2>6 DEF Decide, S
<1>10. HoldIsFinal BY <1>9 DEF HoldIsFinal, R, n
<1>11. ASSUME n > 1, NEW f \in [DOMAIN group -> DOMAIN group],
              \A i, j \in DOMAIN group : f[i] = f[j] => i = j
       PROVE  Decide(Group([i \in DOMAIN group |-> group[f[i]]])) = Decide(R)
  <2> DEFINE other == [i \in DOMAIN group |-> group[f[i]]]
             S == Group(other)
  <2>1. n \in 2 .. 3 /\ f \in [1 .. n -> 1 .. n] BY <1>1, <1>2, <1>11
  <2>2. other \in [1 .. n -> DOMAIN Run] BY <1>1, <2>1
  <2>3. other \in Seq(DOMAIN Run) /\ Len(other) = n /\ \A i \in 1 .. n : other[i] = group[f[i]]
    BY <1>1, <2>2
  <2> HIDE DEF other
  <2>4. RunsOK(S) /\ Len(S) = n /\ \A i \in 1 .. n : S[i] = Run[other[i]] BY <2>3, GroupsAreScored
  <2> HIDE DEF S
  <2>5. \A i \in 1 .. n : S[i] = R[f[i]] BY <1>1, <2>1, <2>3, <2>4
  <2>6. \A j \in 1 .. n : \E i \in 1 .. n : f[i] = j BY <1>1, <1>11, <2>1, OrdersReachAll
  <2>7. DOMAIN R = 1 .. n /\ DOMAIN S = 1 .. n BY <1>1, <2>4 DEF RunsOK
  <2>8. Reordered(R, S, f) BY <1>1, <1>11, <2>1, <2>5, <2>6, <2>7 DEF Reordered
  <2> QED BY <1>1, <2>1, <2>4, <2>8, DecisionReordered DEF S, other
<1>12. OrderIsIrrelevant BY <1>11 DEF OrderIsIrrelevant, R, n
<1> QED BY <1>6, <1>8, <1>10, <1>12 DEF AdoptionIsSound

-----------------------------------------------------------------------------
(* The invariant.                                                          *)

\* It holds at first.
LEMMA AssessmentStarts == AssessmentInit => AssessmentInv
<1> SUFFICES ASSUME AssessmentInit PROVE AssessmentInv OBVIOUS
<1> USE DEF AssessmentInit
<1>1. GroupOK
  <2>1. group \in Seq(DOMAIN Run) /\ Len(group) = 0 OBVIOUS
  <2>2. verdict.action # "adopt" BY DEF Further
  <2> QED BY <2>1, <2>2 DEF GroupOK
<1>2. RatedOK BY DEF RatedOK
<1>3. OldOK
  <2> DEFINE Unjudged == [content |-> Null, risky |-> FALSE, boundary |-> Null,
                          recommended |-> Null, confirmed |-> Null]
             B == {Boundary(c, d) : c \in OldGrades, d \in OldGrades \cup {Null}}
             G == {FinalGrades[i] : i \in 1 .. 3}
  <2>1. OldRows = [content : OldGrades \cup {Null}, risky : BOOLEAN, boundary : B \cup {Null},
                   recommended : G \cup {Null}, confirmed : G \cup {Null}]
    BY DEF OldRows
  <2> HIDE DEF B, G
  <2>2. old = Unjudged OBVIOUS
  <2>3. old \in OldRows BY <2>1, <2>2
  <2> QED BY <2>3 DEF OldOK
<1> QED BY <1>1, <1>2, <1>3 DEF AssessmentInv

\* A further run is asked for after two at most.
LEMMA ThirdIsLast ==
  ASSUME NEW numbers \in Seq(DOMAIN Run), Len(numbers) \in 1 .. 3, Progress(numbers) = Further
  PROVE  Len(numbers) <= 2
<1> DEFINE R == Group(numbers)
<1>1. RunsOK(R) /\ Len(R) = Len(numbers) BY GroupsAreScored
<1>2. Len(numbers) = 3 => Progress(numbers) = Decide(R) BY DEF Progress
<1> HIDE DEF R
<1>3. ASSUME Len(numbers) = 3 PROVE FALSE
  <2>1. Len(R) \in 2 .. 3 /\ Len(R) # 2 BY <1>1, <1>3
  <2>2. Decide(R) = Hold \/ \E m : Decide(R) = Adopt(m) BY <1>1, <2>1, Decisions
  <2>3. Hold # Further /\ \A m : Adopt(m) # Further BY DEF Hold, Further, Adopt
  <2> QED BY <1>2, <1>3, <2>2, <2>3
<1> DEFINE n == Len(numbers)
<1>4. n \in 1 .. 3 OBVIOUS
<1>5. n # 3 BY <1>3
<1> HIDE DEF n
<1>6. n <= 2 BY <1>4, <1>5
<1> QED BY <1>6 DEF n

\* An adoption has one of the six ratings.
LEMMA AdoptionIsRated ==
  ASSUME NEW numbers \in Seq(DOMAIN Run), Len(numbers) \in 1 .. 3, Progress(numbers).action = "adopt"
  PROVE  (\E m : Progress(numbers) = Adopt(m)) /\ Progress(numbers).rating \in ContentRatings
<1> DEFINE R == Group(numbers)
           v == Progress(numbers)
<1>1. /\ RunsOK(R) /\ Len(R) = Len(numbers) /\ numbers[1] \in DOMAIN Run BY GroupsAreScored
<1>2. v # Hold /\ v # Further BY DEF Hold, Further
<1>3. \A r : RunOK(r) => RatingOf(r.score) \in ContentRatings /\ r.rating \in ContentRatings
  BY RatingsMonotone DEF RunOK
<1>4. CASE Len(numbers) = 1
  <2> DEFINE r == Run[numbers[1]]
  <2>1. v = DecideFirst(r, context.manifest, context.pilots, context.appeal, context.history, context.sampled)
    BY <1>4 DEF Progress
  <2>2. RunOK(r) BY <1>1, RunsAreScored
  <2> HIDE DEF r, v
  <2>3. v = Adopt(r.anchors) BY <1>2, <2>1, <2>2, FirstDecisions
  <2>4. v.rating = RatingOf(r.score) BY <2>2, <2>3 DEF Adopt, RunOK
  <2> QED BY <1>3, <2>2, <2>3, <2>4 DEF v
<1>5. CASE Len(numbers) # 1
  <2>1. v = Decide(R) BY <1>5 DEF Progress
  <2>2. v.action = "adopt" OBVIOUS
  <2> HIDE DEF R, v
  <2>3. Len(R) \in 2 .. 3 BY <1>1, <1>5
  <2>4. \E m : v = Adopt(m) BY <1>1, <1>2, <2>1, <2>3, Decisions
  <2>5. Follows(R, v) BY <1>1, <2>1, <2>2, <2>3, Decisions
  <2>6. \E r \in DOMAIN R : R[r].rating = v.rating BY <2>5 DEF Follows, AtLeastTwo, Rated
  <2>7. v.rating \in ContentRatings BY <1>1, <1>3, <2>6 DEF RunsOK
  <2> QED BY <2>4, <2>7 DEF v
<1> QED BY <1>4, <1>5

\* The next run of a group, valid or not.
LEMMA EvaluateKeeps ==
  ASSUME AssessmentInv, NEW k \in DOMAIN Answers, Evaluate(k)
  PROVE  AssessmentInv'
<1> USE DEF Evaluate
<1>1. /\ group \in Seq(DOMAIN Run) /\ Len(group) <= 2 /\ rating = Null /\ outcome = Null
  BY DEF AssessmentInv, GroupOK, RatedOK
<1>2. OldOK' BY DEF AssessmentInv, OldOK, OldRows
<1>3. RatedOK' BY <1>1 DEF RatedOK
<1>4. GroupOK'
  <2>1. CASE group' = group /\ (verdict' = Hold \/ verdict' = [Hold EXCEPT !.action = "fail"])
    <3>1. verdict'.action # "adopt" /\ verdict' # Further BY <2>1 DEF Hold, Further
    <3> QED BY <1>1, <2>1, <3>1 DEF GroupOK
  <2>2. CASE /\ ValidOutput(Answers[k]) /\ Complete(Answers[k])
             /\ group' = Append(group, k) /\ verdict' = Progress(group')
    <3>1. k \in DOMAIN Run BY <2>2 DEF Run
    <3>2. group' \in Seq(DOMAIN Run) /\ Len(group') = Len(group) + 1 BY <1>1, <2>2, <3>1
    <3>3. Len(group') \in 1 .. 3 /\ group' # <<>> BY <1>1, <3>2
    <3>4. verdict' = Progress(group)' BY <2>2 DEF Progress
    <3>5. verdict' = Further => Len(group') <= 2 BY <2>2, <3>2, <3>3, ThirdIsLast
    <3>6. rating' = Null BY <1>1
    <3> QED BY <3>2, <3>3, <3>4, <3>5, <3>6 DEF GroupOK
  <2> QED BY <2>1, <2>2
<1> QED BY <1>2, <1>3, <1>4 DEF AssessmentInv

\* The data is rated.
LEMMA RateKeeps ==
  ASSUME AssessmentInv, NEW x \in Figures, NEW b \in Benchmarks, Rate(x, b)
  PROVE  AssessmentInv'
<1> USE DEF Rate
<1>1. /\ group \in Seq(DOMAIN Run) /\ Len(group) \in 1 .. 3
      /\ verdict = Progress(group) /\ Progress(group).action = "adopt" /\ outcome = Null
  <2>1. group \in Seq(DOMAIN Run) /\ Len(group) <= 3 /\ group # <<>> /\ verdict = Progress(group)
        /\ outcome = Null
    BY DEF AssessmentInv, GroupOK, RatedOK
  <2> DEFINE n == Len(group)
  <2>2. n # 0 /\ n \in Nat /\ n <= 3 BY <2>1, EmptySeq
  <2> HIDE DEF n
  <2>3. n \in 1 .. 3 BY <2>2
  <2> QED BY <2>1, <2>3 DEF n
<1>2. PICK m : verdict = Adopt(m) BY <1>1, AdoptionIsRated
<1>3. verdict.rating \in ContentRatings BY <1>1, AdoptionIsRated
<1>4. verdict'.action = "adopt" /\ verdict'.rating = verdict.rating BY <1>2 DEF Adopt
<1>5. OldOK' BY DEF AssessmentInv, OldOK, OldRows
<1>6. figures'.metrics = x /\ figures'.benchmark = b OBVIOUS
<1>7. rating' # Null
  <2>1. Sufficient(x, b) => DataRating(x, b) \in DataRatingSet BY RatingOfSnapshot DEF Worst
  <2>2. Null # "insufficient" /\ Null \notin DataRatingSet BY AssessmentAssumption DEF DataRatingSet
  <2> QED BY <2>1, <2>2
<1>8. RatedOK' BY <1>1, <1>3, <1>4, <1>6 DEF RatedOK, ContentRatings
<1>9. GroupOK'
  <2>1. group' = <<>> /\ group' \in Seq(DOMAIN Run) /\ Len(group') = 0 OBVIOUS
  <2>2. verdict' # Further BY <1>4 DEF Further, Hold
  <2> QED BY <1>7, <2>1, <2>2 DEF GroupOK
<1> QED BY <1>5, <1>8, <1>9 DEF AssessmentInv

\* The matrix concludes, or an administrator.
LEMMA ConcludeKeeps ==
  ASSUME AssessmentInv, NEW result, Conclude(result)
  PROVE  AssessmentInv'
<1> USE DEF Conclude
<1>1. GroupOK'
  <2>1. (verdict' = verdict /\ group' = group /\ rating' = rating) /\ (Progress(group))' = Progress(group)
    BY DEF Progress
  <2> QED BY <2>1 DEF AssessmentInv, GroupOK
<1>2. OldOK' BY DEF AssessmentInv, OldOK, OldRows
<1>3. RatedOK'
  <2> DEFINE r == Comprehensive(verdict.rating, rating)
             by == IF r = "R" THEN "administrator" ELSE "system"
  <2>1. outcome' = [conclusion |-> Conclusion(result), by |-> by] OBVIOUS
  <2>2. r # "R" => result = r BY DEF Outcomes
  <2>3. outcome'.by = "system" => r # "R" /\ outcome'.conclusion = Conclusion(r) BY <2>1, <2>2
  <2>4. UNCHANGED <<group, verdict, figures, rating>> /\ rating \notin {Null, "insufficient"} OBVIOUS
  <2> HIDE DEF Conclude
  <2> QED BY <2>3, <2>4 DEF AssessmentInv, RatedOK
<1> QED BY <1>1, <1>2, <1>3 DEF AssessmentInv

\* The older way leaves V1.1 alone.
LEMMA OldWayApart ==
  ASSUME AssessmentInv, UNCHANGED <<context, group, verdict, figures, rating, outcome>>
  PROVE  GroupOK' /\ RatedOK'
<1>1. Progress(group)' = Progress(group) BY DEF Progress
<1>2. GroupOK' BY <1>1 DEF AssessmentInv, GroupOK
<1>3. RatedOK' BY DEF AssessmentInv, RatedOK
<1> QED BY <1>2, <1>3

\* A boundary is found for every content and every data.
BoundaryNames == {Boundary(c, d) : c \in OldGrades, d \in OldGrades \cup {Null}}

\* The row x with content graded g, of high risk or not.
Risky(x, g) == [x EXCEPT !.content = g, !.risky = TRUE]
Harmless(x, g) == [x EXCEPT !.content = g, !.risky = FALSE]

\* The content is graded.
LEMMA RowGraded ==
  ASSUME NEW x \in OldRows, NEW g \in OldGrades, NEW y, y = Risky(x, g) \/ y = Harmless(x, g)
  PROVE  /\ y \in OldRows /\ y.content = g
         /\ y.boundary = x.boundary /\ y.recommended = x.recommended /\ y.confirmed = x.confirmed
         /\ y = Harmless(x, g) => ~y.risky
<1> DEFINE B == {Boundary(c, d) : c \in OldGrades, d \in OldGrades \cup {Null}}
           G == {FinalGrades[i] : i \in 1 .. 3}
<1>1. OldRows = [content : OldGrades \cup {Null}, risky : BOOLEAN, boundary : B \cup {Null},
                 recommended : G \cup {Null}, confirmed : G \cup {Null}]
  BY DEF OldRows
<1> HIDE DEF B, G
<1>2. y \in OldRows BY <1>1 DEF Risky, Harmless
<1>3. /\ y.content = g
      /\ y.boundary = x.boundary /\ y.recommended = x.recommended /\ y.confirmed = x.confirmed
  BY <1>1 DEF Risky, Harmless
<1>4. y = Harmless(x, g) => ~y.risky BY <1>1 DEF Harmless
<1> QED BY <1>2, <1>3, <1>4

\* The older content evaluation.
LEMMA OldEvaluateKeeps ==
  ASSUME AssessmentInv, NEW o \in OldAnswers, OldEvaluate(o)
  PROVE  AssessmentInv'
<1> DEFINE g == OldGrade(o.scores, o.risks, o.type)
<1>1. GroupOK' /\ RatedOK' BY OldWayApart DEF OldEvaluate
<1>2. g \in OldGrades /\ ("high" \in o.risks => g = "D") BY AssessmentAssumption, ContentGrades DEF OldEvaluate
<1>3. old \in OldRows /\ old.boundary = Null /\ old.recommended = Null /\ old.confirmed = Null
  BY DEF AssessmentInv, OldOK, OldEvaluate
<1>4. old' = [old EXCEPT !.content = g, !.risky = "high" \in o.risks] BY DEF OldEvaluate
<1> HIDE DEF g
<1>5. ASSUME "high" \in o.risks PROVE OldOK'
  <2>1. old' = [old EXCEPT !.content = g, !.risky = TRUE] BY <1>4, <1>5
  <2>2. /\ old' \in OldRows /\ old'.content = g /\ old'.boundary = Null
        /\ old'.recommended = Null /\ old'.confirmed = Null
    <3>2. old \in OldRows /\ g \in OldGrades BY <1>2, <1>3
    <3> DEFINE x == old
               y == old'
    <3>3. x \in OldRows /\ y = Risky(x, g) BY <2>1, <3>2 DEF Risky
    <3> HIDE DEF x, y
    <3>4. /\ y \in OldRows /\ y.content = g /\ y.boundary = x.boundary
          /\ y.recommended = x.recommended /\ y.confirmed = x.confirmed
      BY <3>2, <3>3, RowGraded
    <3> QED BY <1>3, <3>4 DEF x, y
  <2> QED BY <1>2, <1>5, <2>2 DEF OldOK
<1>6. ASSUME "high" \notin o.risks PROVE OldOK'
  <2>1. ("high" \in o.risks) = FALSE BY <1>6
  <2>2. old' = [old EXCEPT !.content = g, !.risky = FALSE] BY <1>4, <2>1, Zenon
  <2>3. /\ old' \in OldRows /\ old'.content = g /\ old'.boundary = Null
        /\ old'.recommended = Null /\ old'.confirmed = Null /\ ~old'.risky
    <3>2. old \in OldRows /\ g \in OldGrades BY <1>2, <1>3
    <3> DEFINE x == old
               y == old'
    <3>3. x \in OldRows /\ y = Harmless(x, g) BY <2>2, <3>2 DEF Harmless
    <3> HIDE DEF x, y
    <3>4. /\ y \in OldRows /\ y.content = g /\ y.boundary = x.boundary
          /\ y.recommended = x.recommended /\ y.confirmed = x.confirmed
          /\ ~y.risky
      BY <3>2, <3>3, RowGraded
    <3> QED BY <1>3, <3>4 DEF x, y
  <2> QED BY <2>3 DEF OldOK
<1>7. OldOK' BY <1>5, <1>6
<1> QED BY <1>1, <1>7 DEF AssessmentInv

\* The result evaluation and the rule engine.
LEMMA OldReviewKeeps ==
  ASSUME AssessmentInv, NEW o \in Reviews, OldReview(o)
  PROVE  AssessmentInv'
<1> USE DEF OldReview
<1>1. GroupOK' /\ RatedOK' BY OldWayApart
<1>2. o.grade \in OldGrades \cup {Null}
  <2>1. o.grade = Null \/ (o.score # Null /\ o.grade = GradeForScore(o.score)) BY DEF ValidReview
  <2>2. o.score \in Int \cup {Null} BY AssessmentAssumption
  <2> QED BY <2>1, <2>2, GradesOfScores
<1>3. /\ old \in OldRows /\ old.boundary = Null /\ old.recommended = Null /\ old.confirmed = Null
      /\ old.content # Null /\ (old.risky => old.content = "D")
  BY DEF AssessmentInv, OldOK
<1>4. old.content \in OldGrades BY <1>3 DEF OldRows
<1>5. Boundary(old.content, o.grade) \in BoundaryNames BY <1>2, <1>4 DEF BoundaryNames
<1>6. /\ old' \in OldRows /\ old'.content = old.content /\ old'.risky = old.risky
      /\ old'.boundary = Boundary(old.content, o.grade)
      /\ old'.recommended = Null /\ old'.confirmed = Null
  BY <1>3, <1>5 DEF OldRows, BoundaryNames
<1>7. OldOK' BY <1>2, <1>3, <1>6 DEF OldOK
<1> QED BY <1>1, <1>7 DEF AssessmentInv

\* What a boundary lets a person suggest are grades.
LEMMA GradesAreSuggested ==
  ASSUME OldOK, old.boundary # Null
  PROVE  /\ Recommendable(old.boundary) = AllowedGrades(old.boundary)
         /\ Recommendable(old.boundary) \subseteq {FinalGrades[i] : i \in 1 .. 3}
<1>1. PICK d \in OldGrades \cup {Null} : old.boundary = Boundary(old.content, d) BY DEF OldOK
<1>2. old.content \in OldGrades BY DEF OldOK, OldRows
<1>3. {FinalGrades[i] : i \in 1 .. 3} = {"effective", "low_effective", "invalid"} BY DEF FinalGrades
<1> QED BY <1>1, <1>2, <1>3, BoundaryTables

\* The final evaluation.
LEMMA OldRecommendKeeps ==
  ASSUME AssessmentInv, NEW o \in Suggestions, OldRecommend(o)
  PROVE  AssessmentInv'
<1> USE DEF OldRecommend
<1>1. GroupOK' /\ RatedOK' BY OldWayApart
<1>2. o.grade \in Recommendable(old.boundary) BY DEF ValidRecommendation
<1>3. OldOK /\ old.boundary # Null BY DEF AssessmentInv
<1>4. o.grade \in {FinalGrades[i] : i \in 1 .. 3} BY <1>2, <1>3, GradesAreSuggested
<1>5. old \in OldRows /\ old.recommended = Null /\ old.confirmed = Null BY <1>3 DEF OldOK
<1>6. /\ old' \in OldRows /\ old'.content = old.content /\ old'.risky = old.risky
      /\ old'.boundary = old.boundary /\ old'.recommended = o.grade /\ old'.confirmed = Null
  BY <1>4, <1>5 DEF OldRows
<1>7. OldOK' BY <1>2, <1>3, <1>6 DEF OldOK
<1> QED BY <1>1, <1>7 DEF AssessmentInv

\* The confirmation.
LEMMA OldConfirmKeeps ==
  ASSUME AssessmentInv, NEW c \in Choices, OldConfirm(c)
  PROVE  AssessmentInv'
<1> USE DEF OldConfirm
<1>1. GroupOK' /\ RatedOK' BY OldWayApart
<1>2. c.grade \in AllowedGrades(old.boundary) BY DEF ValidConfirmation
<1>3. OldOK /\ old.recommended # Null BY DEF AssessmentInv
<1>4. c.grade \in {FinalGrades[i] : i \in 1 .. 3} BY DEF Choices
<1>5. old \in OldRows BY <1>3 DEF OldOK
<1>6. /\ old' \in OldRows /\ old'.content = old.content /\ old'.risky = old.risky
      /\ old'.boundary = old.boundary /\ old'.recommended = old.recommended
      /\ old'.confirmed = c.grade
  BY <1>4, <1>5 DEF OldRows
<1>7. OldOK' BY <1>2, <1>3, <1>6 DEF OldOK
<1> QED BY <1>1, <1>7 DEF AssessmentInv

\* What the engines decide and conclude, and the older way beside them, is always as
\* the invariant says.
THEOREM AssessmentInvariant == AssessmentSpec => []AssessmentInv
<1>1. AssessmentInit => AssessmentInv BY AssessmentStarts
<1>2. AssessmentInv /\ [AssessmentNext]_assessmentVars => AssessmentInv'
  <2> SUFFICES ASSUME AssessmentInv, [AssessmentNext]_assessmentVars PROVE AssessmentInv' OBVIOUS
  <2>1. ASSUME NEW k \in DOMAIN Answers, Evaluate(k) PROVE AssessmentInv' BY <2>1, EvaluateKeeps
  <2>2. ASSUME NEW x \in Figures, NEW b \in Benchmarks, Rate(x, b) PROVE AssessmentInv' BY <2>2, RateKeeps
  <2>3. ASSUME NEW i \in 1 .. 7, Conclude(DataRatings[i]) PROVE AssessmentInv' BY <2>3, ConcludeKeeps
  <2>4. ASSUME NEW o \in OldAnswers, OldEvaluate(o) PROVE AssessmentInv' BY <2>4, OldEvaluateKeeps
  <2>5. ASSUME NEW o \in Reviews, OldReview(o) PROVE AssessmentInv' BY <2>5, OldReviewKeeps
  <2>6. ASSUME NEW o \in Suggestions, OldRecommend(o) PROVE AssessmentInv' BY <2>6, OldRecommendKeeps
  <2>7. ASSUME NEW c \in Choices, OldConfirm(c) PROVE AssessmentInv' BY <2>7, OldConfirmKeeps
  <2>8. CASE UNCHANGED assessmentVars
    <3>1. UNCHANGED <<context, group, verdict, figures, rating, outcome>> /\ UNCHANGED old
      BY <2>8 DEF assessmentVars
    <3>2. GroupOK' /\ RatedOK' BY <3>1, OldWayApart
    <3>3. OldOK' BY <3>1 DEF AssessmentInv, OldOK, OldRows
    <3> QED BY <3>2, <3>3 DEF AssessmentInv
  <2> QED BY <2>1, <2>2, <2>3, <2>4, <2>5, <2>6, <2>7, <2>8 DEF AssessmentNext
<1> QED BY <1>1, <1>2, PTL DEF AssessmentSpec

\* Nothing is adopted against the runs, alone where another run could rate it
\* differently, or by the order in which the runs ended; and a hold is final.
THEOREM AdoptionsAreSound == AssessmentSpec => []AdoptionIsSound
<1>1. AssessmentInv => AdoptionIsSound BY AdoptionSound DEF AssessmentInv
<1> QED BY <1>1, AssessmentInvariant, PTL

\* Ratings follow the figures, conclusions the ratings, and every suggestion can be
\* confirmed.
THEOREM RatingsAlwaysAgree == AssessmentSpec => []RatingsAgree
<1>1. AssessmentInv => RatingsAgree
  BY RatingFollows, ConclusionFollows, SuggestionConfirmed DEF AssessmentInv, RatingsAgree
<1> QED BY <1>1, AssessmentInvariant, PTL
=============================================================================
