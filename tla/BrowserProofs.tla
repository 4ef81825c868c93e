--------------------------- MODULE BrowserProofs ----------------------------
(***************************************************************************)
(* Proofs about what the browser shows: the ranges of a file and the       *)
(* player (Playback), the tab with a panel (DetailPage), lists that are    *)
(* read page by page (Listings), and forms with unsaved changes            *)
(* (UnsavedChanges).                                                       *)
(***************************************************************************)
EXTENDS Playback, DetailPage, Listings, UnsavedChanges,
        SequenceTheorems, WellFoundedInduction, FiniteSetTheorems, TLAPS

-----------------------------------------------------------------------------
(* Ranges of a file.                                                       *)

LastBytes(n, size) == {b \in 0 .. size - 1 : b >= size - n}

\* The last bytes of a file.
LEMMA SuffixIsExact ==
  ASSUME NEW size \in Nat \ {0}, NEW n \in Nat \ {0}, n # Huge
  PROVE  \E s, e \in Int : /\ Suffix(n, size) = Part(s, e)
                           /\ s .. e = LastBytes(n, size) /\ LastBytes(n, size) # {}
<1> DEFINE s == IF n >= size THEN 0 ELSE size - n
<1>1. s \in Nat /\ s <= size - 1 OBVIOUS
<1>2. Suffix(n, size) = Part(s, size - 1) BY DEF Suffix
<1>3. s .. size - 1 = LastBytes(n, size) BY <1>1 DEF LastBytes
<1>4. size - 1 \in LastBytes(n, size) BY <1>1 DEF LastBytes
<1> HIDE DEF s
<1> QED BY <1>1, <1>2, <1>3, <1>4

\* A range with a first byte.
LEMMA SingleIsExact ==
  ASSUME NEW size \in Nat \ {0}, NEW first \in Nat \cup {Huge}, NEW last \in Nat \cup {Huge, Absent},
         PlaybackAssumption
  PROVE  LET a == SingleRange([first |-> first, last |-> last], size)
             W == {b \in 0 .. size - 1 : b >= first /\ (last # Absent => b <= last)}
         IN  IF Huge \notin {first, last} /\ (last # Absent => first <= last) /\ W # {}
             THEN a.status = 206 /\ a.start .. a.end = W
             ELSE a = Refused
<1> DEFINE r == [first |-> first, last |-> last]
           z == IF last = Absent THEN size - 1 ELSE last
           W == {b \in 0 .. size - 1 : b >= first /\ (last # Absent => b <= last)}
<1>1. Absent \notin Int /\ Huge \notin Int /\ Absent # Huge BY DEF PlaybackAssumption
<1>2. SingleRange(r, size) = IF first = Huge \/ z = Huge \/ first >= size \/ z < first THEN Refused
                             ELSE Part(first, Smaller(z, size - 1))
  BY DEF SingleRange
<1>3. CASE Huge \in {first, last} BY <1>1, <1>2, <1>3
<1>4. CASE Huge \notin {first, last}
  <2>1. first \in Nat /\ z \in Nat BY <1>1, <1>4
  <2>2. CASE first >= size \/ z < first
    <3>1. SingleRange(r, size) = Refused BY <1>2, <2>2
    <3>2. ASSUME last # Absent => first <= last, NEW b \in W PROVE FALSE
      BY <1>1, <2>1, <2>2, <3>2
    <3> QED BY <3>1, <3>2
  <2>3. CASE ~(first >= size \/ z < first)
    <3> DEFINE e == Smaller(z, size - 1)
    <3>1. SingleRange(r, size) = Part(first, e) BY <1>1, <1>2, <1>4, <2>1, <2>3
    <3>2. e \in Nat /\ first .. e = W
      <4>1. e \in Nat /\ \A b \in Nat : b <= e <=> b <= z /\ b <= size - 1 BY <2>1 DEF Smaller
      <4>2. \A b \in 0 .. size - 1 : b <= z <=> (last # Absent => b <= last) OBVIOUS
      <4> HIDE DEF e, z
      <4>3. \A b \in Int : b \in first .. e <=> b \in 0 .. size - 1 /\ b >= first /\ b <= z
        BY <2>1, <4>1
      <4> QED BY <4>1, <4>2, <4>3
    <3>3. first \in W BY <1>1, <2>1, <2>3
    <3>4. last # Absent => first <= last BY <2>3
    <3> QED BY <1>4, <3>1, <3>2, <3>3, <3>4 DEF Part
  <2> QED BY <2>2, <2>3
<1> QED BY <1>3, <1>4

\* Every answer is exact.
LEMMA AnswerIsExact ==
  ASSUME PlaybackAssumption, PlaybackOK
  PROVE  RangeIsExact
<1> DEFINE r == served.range
           size == served.size
           a == served.answer
<1>1. /\ r \in Ranges /\ size \in 0 .. MaxSize /\ a = Respond(r, size)
      /\ MaxSize \in Nat /\ Absent # Other /\ Absent \notin Int /\ Huge \notin Int /\ Absent # Huge
      /\ {Absent, Other} \cap [first : Numbers, last : Numbers] = {}
  BY DEF PlaybackOK, PlaybackAssumption
<1> HIDE DEF r, size, a
<1>2. CASE r = Absent BY <1>1, <1>2 DEF RangeIsExact, Respond, r, size, a
<1>3. CASE r = Other BY <1>1, <1>3 DEF RangeIsExact, Respond, Understood, r, size, a
<1>4. CASE r \in [first : Numbers, last : Numbers]
  <2>1. r # Absent /\ r # Other BY <1>1, <1>4
  <2>2. /\ r = [first |-> r.first, last |-> r.last] /\ size \in Nat
        /\ r.first \in Nat \cup {Huge, Absent} /\ r.last \in Nat \cup {Huge, Absent}
    BY <1>1, <1>4 DEF Numbers
  <2> SUFFICES IF Understood(r) /\ Wanted(r, size) # {}
               THEN a.status = 206 /\ a.start .. a.end = Wanted(r, size)
               ELSE a = Refused
    BY <2>1 DEF RangeIsExact, r, size, a
  <2>3. CASE size = 0
    <3>1. a = Refused BY <1>1, <2>1, <2>3 DEF Respond
    <3>2. Wanted(r, size) = {} BY <2>3 DEF Wanted
    <3> QED BY <3>1, <3>2
  <2>4. CASE size # 0 /\ r.first # Absent
    <3>1. a = SingleRange([first |-> r.first, last |-> r.last], size)
      BY <1>1, <2>1, <2>2, <2>4, Zenon DEF Respond
    <3>2. Wanted(r, size) = {b \in 0 .. size - 1 : b >= r.first /\ (r.last # Absent => b <= r.last)}
      BY <2>4 DEF Wanted
    <3>3. Understood(r) <=> Huge \notin {r.first, r.last} /\ (r.last # Absent => r.first <= r.last)
      BY <2>1, <2>4 DEF Understood
    <3>4. size \in Nat \ {0} /\ r.first \in Nat \cup {Huge} BY <2>2, <2>4
    <3> QED BY <2>2, <3>1, <3>2, <3>3, <3>4, SingleIsExact DEF PlaybackAssumption
  <2>5. CASE size # 0 /\ r.first = Absent /\ r.last # Absent
    <3>1. a = Suffix(r.last, size) BY <1>1, <2>1, <2>5 DEF Respond
    <3>2. Wanted(r, size) = LastBytes(r.last, size) BY <2>5 DEF Wanted, LastBytes
    <3>3. Understood(r) <=> r.last # Huge BY <1>1, <2>1, <2>5 DEF Understood
    <3>4. size \in Nat \ {0} /\ r.last \in Nat \cup {Huge} BY <2>2, <2>5
    <3>5. r.last = 0 => Wanted(r, size) = {} BY <3>2, <3>4 DEF LastBytes
    <3>6. CASE r.last \in {Huge, 0} BY <3>1, <3>3, <3>5, <3>6 DEF Suffix
    <3>7. CASE r.last \notin {Huge, 0}
      <4>1. PICK s, e \in Int : /\ Suffix(r.last, size) = Part(s, e)
                               /\ s .. e = LastBytes(r.last, size) /\ LastBytes(r.last, size) # {}
        BY <3>4, <3>7, SuffixIsExact
      <4> QED BY <3>1, <3>2, <3>3, <3>7, <4>1 DEF Part
    <3> QED BY <3>6, <3>7
  <2>6. CASE size # 0 /\ r.first = Absent /\ r.last = Absent
    BY <1>1, <2>1, <2>6 DEF Respond, Understood
  <2> QED BY <2>3, <2>4, <2>5, <2>6
<1> QED BY <1>1, <1>2, <1>3, <1>4 DEF Ranges

-----------------------------------------------------------------------------
(* The player.                                                             *)

\* A request ends, with or without a source: the others are as they were.
LEMMA RequestEnds ==
  ASSUME PlaybackInv, UNCHANGED served, NEW q \in 1 .. MaxRequests, Waiting(player, q),
         \/ \E b \in BOOLEAN : Take(q, b)
         \/ LoadFails(q)
  PROVE  PlaybackInv'
<1> USE DEF PlaybackInv, PlaybackOK, PlayerIsSound, Waiting, FreshPlayer
<1>1. ASSUME NEW b \in BOOLEAN, Take(q, b), Usable(q) PROVE PlaybackInv'
  <2>1. player.mounted /\ q = player.request BY <1>1 DEF Usable
  <2>2. /\ DOMAIN player' = DOMAIN player /\ player'.mounted /\ player'.request = q
        /\ player'.phase = [player.phase EXCEPT ![q] = "done"] /\ player'.aborted = player.aborted
        /\ player'.loading = FALSE /\ player'.source = q /\ player'.broken = FALSE
        /\ player'.blob = (IF b THEN q ELSE 0)
        /\ player'.urls = (player.urls \ {player.blob}) \cup (IF b THEN {q} ELSE {})
    BY <1>1, <2>1 DEF Take, Playing, Show, Over
  <2>3. /\ player'.phase \in [1 .. MaxRequests -> {"none", "address", "file", "done"}]
        /\ player'.phase[q] = "done" /\ \A z \in 1 .. MaxRequests \ {q} : player'.phase[z] = player.phase[z]
    <3>1. player.phase \in [1 .. MaxRequests -> {"none", "address", "file", "done"}] OBVIOUS
    <3>2. player'.phase = [player.phase EXCEPT ![q] = "done"] BY <2>2
    <3> QED BY ONLY <3>1, <3>2, q \in 1 .. MaxRequests
  <2>4. player'.urls = (IF b THEN {q} ELSE {}) BY <2>1, <2>2
  <2>5. \A z \in 1 .. MaxRequests : Waiting(player', z) => z \in player'.aborted \cup {player'.request}
    BY <2>1, <2>2, <2>3
  <2>6. PlaybackOK' BY <2>1, <2>2, <2>3, <2>5
  <2>7. PlayerIsSound' BY <2>2, <2>3, <2>4, q # 0
  <2> QED BY <2>6, <2>7
<1>2. ASSUME NEW b \in BOOLEAN, Take(q, b), ~Usable(q) PROVE PlaybackInv'
  BY <1>2 DEF Take, Playing, Over
<1>3. ASSUME LoadFails(q) PROVE PlaybackInv'
  BY <1>3 DEF LoadFails, Playing, Over
<1> QED BY <1>1, <1>2, <1>3

\* The page makes a new request, for the user or by itself.
LEMMA RequestStarts ==
  ASSUME PlaybackAssumption, PlaybackInv, UNCHANGED served, MediaError \/ Retry
  PROVE  PlaybackInv'
<1> USE DEF PlaybackInv, PlaybackOK, PlayerIsSound, Waiting, FreshPlayer
<1>0. MaxRequests \in Nat BY DEF PlaybackAssumption
<1> DEFINE Starts ==
      /\ DOMAIN player' = DOMAIN player /\ player'.mounted /\ player'.request = player.request + 1
      /\ player'.phase = [player.phase EXCEPT ![player.request + 1] = "address"]
      /\ player'.aborted = player.aborted \cup {player.request}
      /\ player'.loading = TRUE /\ player'.source = player.source
      /\ player'.blob = player.blob /\ player'.urls = player.urls
<1>3. ASSUME Starts, player.mounted, player.request < MaxRequests PROVE PlaybackInv'
  <2>1. player.request + 1 \in 1 .. MaxRequests BY <1>0, <1>3
  <2>2. /\ player'.phase \in [1 .. MaxRequests -> {"none", "address", "file", "done"}]
        /\ player'.phase[player'.request] = "address"
        /\ \A z \in 1 .. MaxRequests \ {player'.request} : player'.phase[z] = player.phase[z]
    BY <1>3, <2>1
  <2>3. \A z \in 1 .. MaxRequests : Waiting(player', z) => z \in player'.aborted \cup {player'.request}
    BY <1>3, <2>1, <2>2
  <2>4. PlaybackOK'
    <3>1. /\ served'.range \in Ranges /\ served'.size \in 0 .. MaxSize
          /\ served'.answer = Respond(served'.range, served'.size)
      OBVIOUS
    <3>2. /\ DOMAIN player' = DOMAIN FreshPlayer /\ player'.mounted = TRUE /\ player'.loading \in BOOLEAN
          /\ player'.request \in 1 .. MaxRequests
      BY <1>3, <2>1
    <3> QED BY <2>2, <2>3, <3>1, <3>2
  <2>5. PlayerIsSound' BY <1>3, <2>1, <2>2
  <2> QED BY <2>4, <2>5
<1>1. CASE Retry
  <2>1. Starts BY <1>1 DEF Retry, Playing, LoadVideo
  <2> QED BY <1>1, <1>3, <2>1 DEF Retry
<1>2. CASE MediaError
  <2>1. CASE player.loading BY <1>2, <2>1 DEF MediaError, Playing
  <2>2. CASE ~player.loading /\ player.retries < 1
    <3>1. Starts BY <1>2, <2>2 DEF MediaError, Playing, LoadVideo
    <3> QED BY <1>2, <1>3, <3>1 DEF MediaError
  <2>3. CASE ~player.loading /\ ~(player.retries < 1)
    BY <1>2, <2>3 DEF MediaError, Playing
  <2> QED BY <2>1, <2>2, <2>3
<1> QED BY <1>1, <1>2

\* Every step keeps the invariant.
LEMMA PlaybackInvStep ==
  ASSUME PlaybackAssumption, PlaybackInv, [PlaybackNext]_playbackVars
  PROVE  PlaybackInv'
<1>1. CASE UNCHANGED playbackVars
  BY <1>1 DEF playbackVars, PlaybackInv, PlaybackOK, PlayerIsSound, Waiting
<1>2. CASE RangesNext /\ UNCHANGED player
  <2>1. PICK r \in Ranges, size \in 0 .. MaxSize : Stream(r, size) BY <1>2 DEF RangesNext
  <2>2. served' = [size |-> size, range |-> r, answer |-> Respond(r, size)] BY <2>1 DEF Stream
  <2> QED BY <1>2, <2>2 DEF PlaybackInv, PlaybackOK, PlayerIsSound, Waiting
<1>3. CASE PlayerNext /\ UNCHANGED served
  <2>1. ASSUME NEW q \in 1 .. MaxRequests, Address(q) \/ File(q) \/ LoadFails(q) PROVE PlaybackInv'
    BY <1>3, <2>1, RequestEnds DEF Address, File, LoadFails, Waiting
  <2>2. ASSUME NEW q \in 1 .. MaxRequests, NoAddress(q) \/ Timeout(q) PROVE PlaybackInv'
    <3> USE DEF PlaybackInv, PlaybackOK, PlayerIsSound, Waiting, FreshPlayer
    <3>1. CASE NoAddress(q) BY <1>3, <3>1 DEF NoAddress, Playing
    <3>2. CASE Timeout(q) BY <1>3, <3>2 DEF Timeout, Playing
    <3> QED BY <2>2, <3>1, <3>2
  <2>3. CASE MediaError \/ Retry BY <1>3, <2>3, RequestStarts
  <2>4. CASE LeavePage
    BY <1>3, <2>4 DEF LeavePage, Playing, PlaybackInv, PlaybackOK, PlayerIsSound, Waiting, FreshPlayer
  <2> QED BY <1>3, <2>1, <2>2, <2>3, <2>4 DEF PlayerNext
<1> QED BY <1>1, <1>2, <1>3 DEF PlaybackNext

\* Every range of a file of any size is answered with exactly the bytes it asks for, or
\* refused.  However many requests the player makes, and whichever of them are late,
\* fail or are given up, it loads, shows a source that plays, or offers to load again,
\* and holds exactly the blob it shows.
THEOREM PlaybackSound == PlaybackSpec => []PlaybackIsSound
<1>1. PlaybackInit => PlaybackInv
  BY PlaybackAssumption DEF PlaybackAssumption, PlaybackInit, PlaybackInv, PlaybackOK, PlayerIsSound,
     FreshPlayer, Waiting, Ranges
<1>2. PlaybackInv /\ [PlaybackNext]_playbackVars => PlaybackInv'
  BY PlaybackInvStep, PlaybackAssumption
<1>3. PlaybackInv => PlaybackIsSound
  BY AnswerIsExact, PlaybackAssumption DEF PlaybackInv, PlaybackIsSound
<1> QED BY <1>1, <1>2, <1>3, PTL DEF PlaybackSpec

-----------------------------------------------------------------------------
(* What happens to the evaluations that a panel shows.                     *)

\* Evaluations are added at the end, and one that has ended stays as it ended.
Kept(s, t) ==
  /\ Len(s) <= Len(t)
  /\ \A i \in 1 .. Len(s) : s[i].status \in Ends => t[i].status = s[i].status

\* A running evaluation is added.
LEMMA KeptWhenAdded ==
  ASSUME NEW R, NEW s \in Seq(R), NEW row \in R
  PROVE  /\ Append(s, row) \in Seq(R) /\ Kept(s, Append(s, row))
         /\ Len(Append(s, row)) = Len(s) + 1
BY AppendProperties DEF Kept

\* One that runs ends, or one changes in something else than its status.
LEMMA KeptWhenChanged ==
  ASSUME NEW R, NEW s \in Seq(R), NEW k \in 1 .. Len(s), NEW row \in R,
         s[k].status \in Ends => row.status = s[k].status
  PROVE  [s EXCEPT ![k] = row] \in Seq(R) /\ Kept(s, [s EXCEPT ![k] = row])
BY ExceptSeq DEF Kept

\* The result evaluation, and the metrics and rule results before and after it.
LEMMA ReviewsAreKept ==
  ASSUME RowsOK,
         SubmitMetrics \/ TriggerReview \/ FailReview \/ ExecuteRules \/ \E s \in BOOLEAN : CompleteReview(s)
  PROVE  /\ RowsOK' /\ Kept(reviews, reviews')
         /\ TriggerReview => Len(reviews') = Len(reviews) + 1
<1>1. /\ metrics \in Nat /\ reviews \in Seq(ReviewRows) /\ rules \in Seq(RuleRows) /\ finals \in Seq(FinalRows)
  BY DEF RowsOK
<1> DEFINE k == Len(reviews)
<1>2. CASE SubmitMetrics BY <1>1, <1>2 DEF SubmitMetrics, TriggerReview, RowsOK, Kept
<1>3. CASE TriggerReview
  <2> DEFINE row == [metric |-> metrics, status |-> "running", sufficient |-> FALSE]
  <2>1. row \in ReviewRows BY <1>1 DEF ReviewRows, Runs
  <2>2. reviews' = Append(reviews, row) /\ UNCHANGED <<metrics, rules, finals>>
    BY <1>3 DEF TriggerReview
  <2> HIDE DEF row
  <2> QED BY <1>1, <2>1, <2>2, KeptWhenAdded DEF RowsOK
<1>4. ASSUME NEW row \in ReviewRows, Running(reviews), row.status \in Ends,
             reviews' = [reviews EXCEPT ![k] = row], UNCHANGED <<metrics, rules, finals>>
      PROVE  RowsOK' /\ Kept(reviews, reviews')
  <2>1. k \in 1 .. Len(reviews) /\ reviews[k].status \notin Ends
    BY <1>1, <1>4 DEF Running, Latest, Ends
  <2> HIDE DEF k
  <2> QED BY <1>1, <1>4, <2>1, KeptWhenChanged DEF RowsOK
<1>5. CASE FailReview
  <2> DEFINE row == [reviews[k] EXCEPT !.status = "failed"]
  <2>1. k \in 1 .. Len(reviews) /\ Running(reviews) BY <1>1, <1>5 DEF FailReview, Running
  <2>2. reviews' = [reviews EXCEPT ![k] = row] /\ UNCHANGED <<metrics, rules, finals>>
    BY <1>1, <1>5, <2>1 DEF FailReview
  <2>5. reviews[k] \in ReviewRows BY <1>1, <2>1, ElementOfSeq
  <2> HIDE DEF k
  <2>3. row \in ReviewRows /\ row.status \in Ends BY <2>5 DEF ReviewRows, Runs, Ends
  <2> USE DEF k
  <2>4. ~TriggerReview
    BY <1>1, <1>5, <2>1 DEF FailReview, TriggerReview, CanReview
  <2> QED BY <1>4, <2>1, <2>2, <2>3, <2>4
<1>6. ASSUME NEW s \in BOOLEAN, CompleteReview(s)
      PROVE  RowsOK' /\ Kept(reviews, reviews') /\ ~TriggerReview
  <2> DEFINE row == [reviews[k] EXCEPT !.status = "succeeded", !.sufficient = s]
  <2>1. k \in 1 .. Len(reviews) /\ Running(reviews) BY <1>1, <1>6 DEF CompleteReview, Running
  <2>2. reviews' = [reviews EXCEPT ![k] = row] /\ UNCHANGED <<metrics, rules, finals>>
    BY <1>1, <1>6, <2>1 DEF CompleteReview
  <2>5. reviews[k] \in ReviewRows BY <1>1, <2>1, ElementOfSeq
  <2> HIDE DEF k
  <2>3. row \in ReviewRows /\ row.status \in Ends BY <2>5 DEF ReviewRows, Runs, Ends
  <2> USE DEF k
  <2>4. ~TriggerReview
    BY <1>1, <1>6, <2>1 DEF CompleteReview, TriggerReview, CanReview
  <2> QED BY <1>4, <2>1, <2>2, <2>3, <2>4
<1>7. CASE ExecuteRules
  <2> DEFINE row == [review |-> Len(reviews), sufficient |-> Latest(reviews).sufficient]
  <2>5. k \in 1 .. k BY <1>1, <1>7 DEF ExecuteRules, CanExecute
  <2>6. reviews[k] \in ReviewRows BY <1>1, <2>5, ElementOfSeq
  <2>1. row \in RuleRows BY <1>1, <2>6 DEF RuleRows, ReviewRows, Latest
  <2>2. rules' = Append(rules, row) /\ UNCHANGED <<metrics, reviews, finals>> BY <1>7 DEF ExecuteRules
  <2> HIDE DEF row
  <2>3. rules' \in Seq(RuleRows) BY <1>1, <2>1, <2>2, KeptWhenAdded
  <2>4. ~TriggerReview BY <1>7 DEF ExecuteRules, CanExecute, TriggerReview, CanReview
  <2> QED BY <1>1, <2>2, <2>3, <2>4 DEF RowsOK, Kept
<1> QED BY <1>2, <1>3, <1>5, <1>6, <1>7

\* The final evaluation and its confirmation.
LEMMA FinalsAreKept ==
  ASSUME RowsOK,
         \/ TriggerFinal \/ FailFinal \/ CompleteFinal
         \/ \E f \in DOMAIN finals, g \in Grades : Confirm(f, g)
  PROVE  /\ RowsOK' /\ Kept(finals, finals')
         /\ TriggerFinal => Len(finals') = Len(finals) + 1
<1>1. /\ metrics \in Nat /\ reviews \in Seq(ReviewRows) /\ rules \in Seq(RuleRows) /\ finals \in Seq(FinalRows)
  BY DEF RowsOK
<1> DEFINE k == Len(finals)
<1>2. CASE TriggerFinal
  <2> DEFINE row == [rule |-> Len(rules), status |-> "running", grade |-> "none", case |-> FALSE]
  <2>1. row \in FinalRows BY <1>1 DEF FinalRows, Runs
  <2>2. finals' = Append(finals, row) /\ UNCHANGED <<metrics, reviews, rules>>
    BY <1>2 DEF TriggerFinal
  <2> HIDE DEF row
  <2> QED BY <1>1, <2>1, <2>2, KeptWhenAdded DEF RowsOK
<1>3. ASSUME NEW i \in 1 .. k, NEW row \in FinalRows,
             finals[i].status \in Ends => row.status = finals[i].status,
             finals' = [finals EXCEPT ![i] = row], UNCHANGED <<metrics, reviews, rules>>
      PROVE  RowsOK' /\ Kept(finals, finals')
  BY <1>1, <1>3, KeptWhenChanged DEF RowsOK
<1>4. ASSUME NEW i \in 1 .. k, NEW row \in FinalRows, finals' = [finals EXCEPT ![i] = row]
      PROVE  ~TriggerFinal
  <2>1. Len(finals') = k BY <1>1, <1>4, ExceptSeq
  <2>2. TriggerFinal => Len(finals') = k + 1 BY <1>1, AppendProperties DEF TriggerFinal
  <2> QED BY <1>1, <2>1, <2>2
<1>5. CASE FailFinal
  <2> DEFINE row == [finals[k] EXCEPT !.status = "failed"]
  <2>1. k \in 1 .. k /\ finals[k].status = "running" BY <1>1, <1>5 DEF FailFinal, Running, Latest
  <2>2. finals' = [finals EXCEPT ![k] = row] /\ UNCHANGED <<metrics, reviews, rules>>
    BY <1>1, <1>5, <2>1 DEF FailFinal
  <2>4. finals[k] \in FinalRows BY <1>1, <2>1, ElementOfSeq
  <2> HIDE DEF k
  <2>3. row \in FinalRows /\ finals[k].status \notin Ends BY <2>1, <2>4 DEF FinalRows, Runs, Ends
  <2> USE DEF k
  <2> HIDE DEF row
  <2> QED BY <1>3, <1>4, <2>1, <2>2, <2>3
<1>6. CASE CompleteFinal
  <2> DEFINE row == [finals[k] EXCEPT !.status = "succeeded"]
  <2>1. k \in 1 .. k /\ finals[k].status = "running" BY <1>1, <1>6 DEF CompleteFinal, Running, Latest
  <2>2. finals' = [finals EXCEPT ![k] = row] /\ UNCHANGED <<metrics, reviews, rules>>
    BY <1>1, <1>6, <2>1 DEF CompleteFinal
  <2>4. finals[k] \in FinalRows BY <1>1, <2>1, ElementOfSeq
  <2> HIDE DEF k
  <2>3. row \in FinalRows /\ finals[k].status \notin Ends BY <2>1, <2>4 DEF FinalRows, Runs, Ends
  <2> USE DEF k
  <2> HIDE DEF row
  <2> QED BY <1>3, <1>4, <2>1, <2>2, <2>3
<1>7. CASE \E f \in DOMAIN finals, g \in Grades : Confirm(f, g)
  <2>1. PICK f \in DOMAIN finals, g \in Grades : Confirm(f, g) BY <1>7
  <2> DEFINE row == [finals[f] EXCEPT !.grade = g]
  <2>2. f \in 1 .. k BY <1>1
  <2>3. finals' = [finals EXCEPT ![f] = row] /\ UNCHANGED <<metrics, reviews, rules>>
    BY <1>1, <2>1, <2>2 DEF Confirm
  <2>5. finals[f] \in FinalRows BY <1>1, <2>2, ElementOfSeq
  <2>4. row \in FinalRows /\ row.status = finals[f].status BY <2>5 DEF FinalRows
  <2> HIDE DEF row
  <2> QED BY <1>3, <1>4, <2>2, <2>3, <2>4
<1> QED BY <1>2, <1>5, <1>6, <1>7

-----------------------------------------------------------------------------
(* The tab.                                                                *)

TabFields == DOMAIN Opened("review")

\* What the invariant says of a tab, of one that is about to be, too.
Sound(t) ==
  /\ DOMAIN t = TabFields /\ t.stage = tab.stage
  /\ t.tracked \in Places /\ t.started \in Places /\ t.late \subseteq Places \ {0}
  /\ Tells(t.shown.id, t.shown.status)
  /\ t.source \in {Blank, Due} \/ Tells(t.source.id, t.source.status)
  /\ t.pinned # 0 => t.shown.id = t.pinned
  /\ t.tracked \in {0, t.pinned} /\ (t.ticking => t.tracked # 0)

\* A tab that tells the truth holds what the invariant says.
LEMMA TabIsSound ==
  ASSUME PageInv
  PROVE  /\ Sound(tab) /\ tab.stage \in {"review", "final"}
         /\ Len(Evaluations) \in Nat /\ 0 \in Places /\ Tells(0, "none")
<1>1. tab.stage \in {"review", "final"} BY DEF PageInv, TabOK
<1>2. reviews \in Seq(ReviewRows) /\ finals \in Seq(FinalRows) BY DEF PageInv, RowsOK
<1>3. Len(Evaluations) \in Nat BY <1>2 DEF Evaluations
<1>4. 0 \in Places /\ Tells(0, "none") BY <1>3 DEF Places, Tells, Ends
<1>5. Sound(tab) BY DEF PageInv, TabOK, PanelTellsTheTruth, Sound, TabFields
<1> QED BY <1>1, <1>3, <1>4, <1>5

\* What was true of an evaluation stays true.
LEMMA TruthStays ==
  ASSUME PageInv, RowsOK', tab'.stage = tab.stage, Kept(Evaluations, Evaluations')
  PROVE  /\ Places \subseteq Places'
         /\ \A i, s : Tells(i, s) => Tells(i, s)'
<1>1. Len(Evaluations) \in Nat BY TabIsSound
<1>2. Len(Evaluations') \in Nat BY DEF RowsOK, Evaluations
<1>3. Len(Evaluations) <= Len(Evaluations') BY DEF Kept
<1>4. Places \subseteq Places' BY <1>1, <1>2, <1>3 DEF Places
<1>5. ASSUME NEW i, NEW s, Tells(i, s) PROVE Tells(i, s)'
  <2>1. i \in Places /\ (i = 0 => s = "none") /\ (s \in Ends => Evaluations[i].status = s)
    BY <1>5 DEF Tells
  <2>2. s \in Ends => i \in 1 .. Len(Evaluations) BY <1>1, <2>1 DEF Places, Ends
  <2>3. s \in Ends => Evaluations'[i].status = s BY <2>1, <2>2 DEF Kept
  <2> QED BY <1>4, <2>1, <2>3 DEF Tells
<1> QED BY <1>4, <1>5

\* Whatever the tab becomes is sound when it is so beforehand, and what was so stays so.
LEMMA SoundStays ==
  ASSUME PageInv, RowsOK', NEW t, Sound(t), tab' = t, Kept(Evaluations, Evaluations')
  PROVE  PageInv'
<1>1. tab'.stage = tab.stage /\ tab'.stage \in {"review", "final"} BY TabIsSound DEF Sound
<1>2. Places \subseteq Places' /\ \A i, s : Tells(i, s) => Tells(i, s)' BY <1>1, TruthStays
<1>3. TabOK'
  BY <1>1, <1>2 DEF TabOK, Sound, TabFields, Opened, Due
<1>4. PanelTellsTheTruth'
  <2>1. Tells(t.shown.id, t.shown.status)' BY <1>2, <1>3 DEF TabOK
  <2>2. tab'.shown.status \in Ends => Evaluations'[tab'.shown.id].status = tab'.shown.status
    BY <1>3 DEF TabOK, Tells
  <2> QED BY <2>2 DEF PanelTellsTheTruth, Sound, Ends
<1> QED BY <1>3, <1>4 DEF PageInv

\* What the tab does by itself.
LEMMA SoundBecomes ==
  ASSUME PageInv, NEW t, Sound(t), Becomes(t)
  PROVE  PageInv'
<1>1. UNCHANGED <<metrics, reviews, rules, finals>> /\ tab' = t BY DEF Becomes, pipelineVars
<1>2. RowsOK' BY <1>1 DEF PageInv, RowsOK
<1>3. Evaluations' = Evaluations BY <1>1 DEF Evaluations, Sound
<1>4. Kept(Evaluations, Evaluations') BY <1>3, TabIsSound DEF Kept
<1> QED BY <1>1, <1>2, <1>4, SoundStays

\* The detail of the video, asked for, read, lost and delivered.
LEMMA DetailStep ==
  ASSUME PageInv, \/ Reload \/ ReadDetail \/ LoseDetail
                  \/ \E d \in tab.answers : DeliverDetail(d)
  PROVE  PageInv'
<1>1. Sound(tab) /\ 0 \in Places /\ Tells(0, "none") BY TabIsSound
<1>2. CASE Reload
  <2>1. Sound(Opened(tab.stage)) BY <1>1 DEF Sound, Opened, TabFields
  <2> QED BY <1>2, <2>1, SoundBecomes DEF Reload
<1>3. CASE ReadDetail
  <2> DEFINE t == [tab EXCEPT !.unread = @ - 1,
                     !.answers = @ \cup {[status |-> status, offers |-> Offered(Viewer), metric |-> metrics]}]
  <2>1. Sound(t) BY <1>1 DEF Sound, TabFields, Opened
  <2>2. Becomes(t) BY <1>3 DEF ReadDetail
  <2> QED BY <2>1, <2>2, SoundBecomes
<1>4. CASE LoseDetail
  <2> DEFINE t == [tab EXCEPT !.unread = @ - 1]
  <2>1. Sound(t) BY <1>1 DEF Sound, TabFields, Opened
  <2>2. Becomes(t) BY <1>4 DEF LoseDetail
  <2> QED BY <2>1, <2>2, SoundBecomes
<1>5. ASSUME NEW d \in tab.answers, DeliverDetail(d) PROVE PageInv'
  <2> DEFINE again == /\ tab.stage = "review" /\ tab.detail # Blank
                      /\ d.metric # tab.detail.metric /\ tab.tracked # 0
             t == [tab EXCEPT !.answers = @ \ {d}, !.detail = d,
                     !.source = IF EvidenceKey(d) # EvidenceKey(tab.detail) THEN Due ELSE @,
                     !.ticking = @ \/ again, !.paused = @ /\ ~again]
  <2>1. again => tab.tracked # 0 OBVIOUS
  <2> HIDE DEF again
  <2>2. Sound(t) BY <1>1, <2>1 DEF Sound, TabFields, Opened
  <2>3. Becomes(t) BY <1>5 DEF DeliverDetail, again
  <2> HIDE DEF t
  <2> QED BY <2>2, <2>3, SoundBecomes
<1> QED BY <1>2, <1>3, <1>4, <1>5

\* The source of the panel, read, lost and delivered.
LEMMA SourceStep ==
  ASSUME PageInv, ReadSource \/ LoseSource \/ DeliverSource
  PROVE  PageInv'
<1>1. Sound(tab) /\ Len(Evaluations) \in Nat BY TabIsSound
<1>2. CASE ReadSource
  <2> DEFINE s == [read |-> TRUE, origin |-> NewestSource, id |-> Len(Evaluations),
                   status |-> IF Evaluations = <<>> THEN "none" ELSE Latest(Evaluations).status]
             t == [tab EXCEPT !.source = s]
  <2>1. Len(Evaluations) = 0 <=> Evaluations = <<>>
    BY EmptySeq DEF PageInv, RowsOK, Evaluations
  <2>2. Tells(s.id, s.status) BY <1>1, <2>1 DEF Tells, Places, Latest, Ends
  <2> HIDE DEF s
  <2>3. Sound(t) BY <1>1, <2>2 DEF Sound, TabFields, Opened
  <2>4. Becomes(t) BY <1>2 DEF ReadSource, s
  <2> QED BY <2>3, <2>4, SoundBecomes
<1>3. CASE LoseSource
  <2> DEFINE t == [tab EXCEPT !.source = Blank]
  <2>1. Sound(t) BY <1>1 DEF Sound, TabFields, Opened
  <2>2. Becomes(t) BY <1>3 DEF LoseSource
  <2> QED BY <2>1, <2>2, SoundBecomes
<1>4. CASE DeliverSource
  <2> DEFINE s == tab.source
             z == [id |-> s.id, status |-> s.status]
             o == IF tab.stage = "review" THEN TakeMetric(s) ELSE TakeRule(s)
             t == [tab EXCEPT !.source = Blank, !.origin = o,
                     !.shown = IF ShouldApply(s.id) THEN z ELSE @]
  <2>1. s # Blank /\ s.read BY <1>4 DEF DeliverSource
  <2>2. Tells(s.id, s.status) BY <1>1, <2>1 DEF Sound, Due
  <2> HIDE DEF o
  <2>3. Sound(t) BY <1>1, <2>2 DEF Sound, TabFields, Opened, ShouldApply
  <2>4. CASE tab.pinned = 0 /\ s.status = "running"
    <3>1. s.id # 0 /\ s.id \in Places BY <2>2, <2>4 DEF Tells
    <3>2. t.shown = z BY <1>1, <2>4 DEF Sound, TabFields, Opened, ShouldApply
    <3>3. Sound(Tracking(t, s.id)) BY <2>3, <3>1, <3>2 DEF Sound, TabFields, Opened, Tracking
    <3>4. Becomes(Tracking(t, s.id)) BY <1>4, <2>4 DEF DeliverSource, o
    <3> HIDE DEF t, s
    <3> QED BY <3>3, <3>4, SoundBecomes
  <2>5. CASE ~(tab.pinned = 0 /\ s.status = "running")
    <3>1. Becomes(t) BY <1>4, <2>5 DEF DeliverSource, o
    <3> HIDE DEF t, s
    <3> QED BY <2>3, <3>1, SoundBecomes
  <2> QED BY <2>4, <2>5
<1> QED BY <1>2, <1>3, <1>4

\* The questions about the job, and the fetch when it has ended.
LEMMA PollStep ==
  ASSUME PageInv, \/ PollEnd \/ PollPause \/ PollAgain
                  \/ \E id \in tab.late : FetchReview(id) \/ FetchFinal(id) \/ FailFetch(id)
  PROVE  PageInv'
<1>1. Sound(tab) /\ 0 \in Places BY TabIsSound
<1>2. CASE PollEnd
  <2> DEFINE t == [tab EXCEPT !.ticking = FALSE, !.late = @ \cup {tab.tracked}]
  <2>1. Sound(t) BY <1>1, <1>2 DEF Sound, TabFields, Opened, PollEnd
  <2>2. Becomes(t) BY <1>2 DEF PollEnd
  <2> QED BY <2>1, <2>2, SoundBecomes
<1>3. CASE PollPause
  <2> DEFINE t == [tab EXCEPT !.ticking = FALSE, !.paused = TRUE]
  <2>1. Sound(t) BY <1>1 DEF Sound, TabFields, Opened
  <2>2. Becomes(t) BY <1>3 DEF PollPause
  <2> QED BY <2>1, <2>2, SoundBecomes
<1>4. CASE PollAgain
  <2> DEFINE t == [tab EXCEPT !.ticking = TRUE, !.paused = FALSE]
  <2>1. Sound(t) BY <1>1, <1>4 DEF Sound, TabFields, Opened, PollAgain
  <2>2. Becomes(t) BY <1>4 DEF PollAgain
  <2> QED BY <2>1, <2>2, SoundBecomes
<1>5. ASSUME NEW id \in tab.late, NEW st, Fetched(id, st), st = Evaluations[id].status PROVE PageInv'
  <2> DEFINE z == [id |-> id, status |-> st]
             t == [tab EXCEPT !.late = @ \ {id}, !.tracked = 0, !.ticking = FALSE, !.unread = Asked,
                     !.shown = IF id = tab.pinned THEN z ELSE @]
  <2>1. Tells(id, st) BY <1>1, <1>5 DEF Sound, Tells
  <2>2. Sound(t) BY <1>1, <2>1 DEF Sound, TabFields, Opened
  <2>3. Becomes(t) BY <1>5 DEF Fetched
  <2> QED BY <2>2, <2>3, SoundBecomes
<1>6. ASSUME NEW id \in tab.late, FetchReview(id) \/ FetchFinal(id) PROVE PageInv'
  BY <1>5, <1>6 DEF FetchReview, FetchFinal, Evaluations
<1>7. ASSUME NEW id \in tab.late, FailFetch(id) PROVE PageInv'
  <2> DEFINE t == [tab EXCEPT !.late = @ \ {id}, !.paused = TRUE]
  <2>1. Sound(t) BY <1>1 DEF Sound, TabFields, Opened
  <2>2. Becomes(t) BY <1>7 DEF FailFetch
  <2> QED BY <2>1, <2>2, SoundBecomes
<1> QED BY <1>2, <1>3, <1>4, <1>6, <1>7

\* The trigger of the panel: asked, refused, and its answer delivered or lost.
LEMMA AskStep ==
  ASSUME PageInv, \/ AskForReview \/ AskForFinal \/ DeliverTrigger \/ LoseTrigger
                  \/ \E can \in BOOLEAN : Refuse(can)
  PROVE  PageInv'
<1>1. Sound(tab) /\ 0 \in Places BY TabIsSound
<1>2. CASE AskForReview
  <2>1. CASE tab.origin = tab.detail.metric
    <3> DEFINE t == [tab EXCEPT !.sent = tab.origin]
    <3>1. Sound(t) BY <1>1 DEF Sound, TabFields, Opened
    <3>2. Becomes(t) BY <1>2, <2>1 DEF AskForReview
    <3> QED BY <3>1, <3>2, SoundBecomes
  <2>2. CASE tab.origin # tab.detail.metric
    <3> DEFINE t == [tab EXCEPT !.source = Due]
    <3>1. Sound(t) BY <1>1 DEF Sound, TabFields, Opened
    <3>2. Becomes(t) BY <1>2, <2>2 DEF AskForReview
    <3> QED BY <3>1, <3>2, SoundBecomes
  <2> QED BY <2>1, <2>2
<1>3. CASE AskForFinal
  <2> DEFINE t == [tab EXCEPT !.sent = tab.origin]
  <2>1. Sound(t) BY <1>1 DEF Sound, TabFields, Opened
  <2>2. Becomes(t) BY <1>3 DEF AskForFinal
  <2> QED BY <2>1, <2>2, SoundBecomes
<1>4. CASE DeliverTrigger
  <2> DEFINE t == Tracking([tab EXCEPT !.started = 0, !.unread = Asked,
                              !.shown = [id |-> tab.started, status |-> "running"]], tab.started)
  <2>1. tab.started # 0 /\ tab.started \in Places BY <1>1, <1>4 DEF DeliverTrigger, Sound
  <2>2. Tells(tab.started, "running") BY <2>1 DEF Tells, Ends
  <2>3. Sound(t) BY <1>1, <2>1, <2>2 DEF Sound, TabFields, Opened, Tracking
  <2>4. Becomes(t) BY <1>4 DEF DeliverTrigger
  <2> HIDE DEF t
  <2> QED BY <2>3, <2>4, SoundBecomes
<1>5. CASE LoseTrigger
  <2> DEFINE t == [tab EXCEPT !.started = 0]
  <2>1. Sound(t) BY <1>1 DEF Sound, TabFields, Opened
  <2>2. Becomes(t) BY <1>5 DEF LoseTrigger
  <2> QED BY <2>1, <2>2, SoundBecomes
<1>6. ASSUME NEW can \in BOOLEAN, Refuse(can) PROVE PageInv'
  <2> DEFINE t == [tab EXCEPT !.sent = 0]
  <2>1. Sound(t) BY <1>1 DEF Sound, TabFields, Opened
  <2>2. Becomes(t) BY <1>6 DEF Refuse
  <2> QED BY <2>1, <2>2, SoundBecomes
<1> QED BY <1>2, <1>3, <1>4, <1>5, <1>6

\* The server takes the trigger, or refuses it.
LEMMA ServeStep ==
  ASSUME PageInv, ServeReview \/ ServeFinal
  PROVE  PageInv'
<1>1. Sound(tab) /\ 0 \in Places /\ Len(Evaluations) \in Nat /\ RowsOK
  BY TabIsSound DEF PageInv
<1> DEFINE t(n) == [tab EXCEPT !.sent = 0, !.started = n]
<1>2. ASSUME RowsOK', tab' = t(Len(Evaluations) + 1), Kept(Evaluations, Evaluations'),
             Len(Evaluations') = Len(Evaluations) + 1
      PROVE  PageInv'
  <2>1. tab'.stage = tab.stage BY <1>1, <1>2 DEF Sound, TabFields, Opened
  <2>2. Places \subseteq Places' /\ \A i, s : Tells(i, s) => Tells(i, s)' BY <1>2, <2>1, TruthStays
  <2>3. Len(Evaluations) + 1 \in Places' BY <1>1, <1>2 DEF Places
  <2>4. TabOK'
    BY <1>1, <1>2, <2>2, <2>3, TabIsSound DEF TabOK, Sound, TabFields, Opened, Due
  <2>5. /\ tab'.shown = tab.shown /\ tab'.pinned = tab.pinned /\ tab'.tracked = tab.tracked
        /\ tab'.ticking = tab.ticking
    BY <1>1, <1>2 DEF Sound, TabFields, Opened
  <2>6. tab'.shown.status \in Ends => Evaluations'[tab'.shown.id].status = tab'.shown.status
    BY <2>4 DEF TabOK, Tells
  <2>7. PanelTellsTheTruth' BY <1>1, <2>5, <2>6 DEF PanelTellsTheTruth, Sound, Ends
  <2> QED BY <1>2, <2>4, <2>7 DEF PageInv
<1>3. CASE ServeReview
  <2>1. CASE Refuse(CanReview)
    <3>1. CanReview \in BOOLEAN BY DEF CanReview
    <3> QED BY <2>1, <3>1, AskStep
  <2>2. CASE TriggerReview /\ tab' = [tab EXCEPT !.sent = 0, !.started = Len(reviews')]
    <3>1. RowsOK' /\ Kept(reviews, reviews') /\ Len(reviews') = Len(reviews) + 1
      BY <1>1, <2>2, ReviewsAreKept
    <3>2. Evaluations = reviews /\ Evaluations' = reviews'
      BY <1>1, <1>3, <2>2 DEF ServeReview, Evaluations, Sound, TabFields, Opened
    <3> QED BY <1>2, <2>2, <3>1, <3>2
  <2> QED BY <1>3, <2>1, <2>2 DEF ServeReview
<1>4. CASE ServeFinal
  <2>1. CASE Refuse(CanEvaluate)
    <3>1. CanEvaluate \in BOOLEAN BY DEF CanEvaluate
    <3> QED BY <2>1, <3>1, AskStep
  <2>2. CASE TriggerFinal /\ tab' = [tab EXCEPT !.sent = 0, !.started = Len(finals')]
    <3>1. RowsOK' /\ Kept(finals, finals') /\ Len(finals') = Len(finals) + 1
      BY <1>1, <2>2, FinalsAreKept
    <3>2. Evaluations = finals /\ Evaluations' = finals'
      BY <1>1, <1>4, <2>2 DEF ServeFinal, Evaluations, Sound, TabFields, Opened
    <3> QED BY <1>2, <2>2, <3>1, <3>2
  <2> QED BY <1>4, <2>1, <2>2 DEF ServeFinal
<1> QED BY <1>3, <1>4

\* Other people and the worker.
LEMMA OthersStep ==
  ASSUME PageInv, Others
  PROVE  PageInv'
<1>1. UNCHANGED tab /\ Sound(tab) /\ RowsOK BY TabIsSound DEF Others, PageInv
<1>2. RowsOK' /\ Kept(Evaluations, Evaluations')
  <2>1. CASE tab.stage = "review"
    <3>1. RowsOK' /\ Kept(reviews, reviews') BY <1>1, <2>1, ReviewsAreKept DEF Others
    <3> QED BY <1>1, <2>1, <3>1 DEF Evaluations
  <2>2. CASE tab.stage = "final"
    <3>1. RowsOK' /\ Kept(finals, finals') BY <1>1, <2>2, FinalsAreKept DEF Others
    <3> QED BY <1>1, <2>2, <3>1 DEF Evaluations
  <2> QED BY <2>1, <2>2, TabIsSound
<1> QED BY <1>1, <1>2, SoundStays

\* A tab that follows an evaluation shows no other one and asks about no other one, and
\* an end that it shows is the end the evaluation had: with any number of evaluations,
\* of answers under way in whatever order, of tabs opened again and of other people.
THEOREM PanelsTellTheTruth == PageSpec => []PanelTellsTheTruth
<1>1. PageInit => PageInv
  <2> SUFFICES ASSUME PageInit PROVE PageInv OBVIOUS
  <2>1. RowsOK
    <3>1. CASE Ruled
      <4>1. [metric |-> 1, status |-> "succeeded", sufficient |-> TRUE] \in ReviewRows
            /\ [review |-> 1, sufficient |-> TRUE] \in RuleRows
        BY DEF ReviewRows, RuleRows, Runs
      <4> QED BY <3>1, <4>1 DEF Ruled, RowsOK
    <3>2. CASE PipelineInit BY <3>2 DEF PipelineInit, RowsOK
    <3> QED BY <3>1, <3>2 DEF PageInit
  <2>2. tab \in {Opened("review"), Opened("final")} BY DEF PageInit
  <2>3. Len(Evaluations) \in Nat BY <2>1 DEF RowsOK, Evaluations
  <2>4. TabOK BY <2>2, <2>3 DEF TabOK, Opened, Tells, Places, Ends
  <2>5. PanelTellsTheTruth BY <2>2 DEF PanelTellsTheTruth, Opened
  <2> QED BY <2>1, <2>4, <2>5 DEF PageInv
<1>2. PageInv /\ [PageNext]_<<pipelineVars, tab>> => PageInv'
  <2> SUFFICES ASSUME PageInv, [PageNext]_<<pipelineVars, tab>> PROVE PageInv' OBVIOUS
  <2>1. CASE UNCHANGED <<pipelineVars, tab>>
    BY <2>1, TabIsSound, SoundBecomes DEF Becomes
  <2>2. CASE PageNext
    BY <2>2, DetailStep, SourceStep, PollStep, AskStep, ServeStep, OthersStep DEF PageNext
  <2> QED BY <2>1, <2>2
<1>3. PageInv => PanelTellsTheTruth BY DEF PageInv
<1> QED BY <1>1, <1>2, <1>3, PTL DEF PageSpec

-----------------------------------------------------------------------------
(* Rows in order.                                                          *)

\* Two rows stand one behind the other.
LEMMA RowsAreOrdered ==
  ASSUME listing.time \in [Rows -> Nat]
  PROVE  /\ \A r, s \in Rows : r = s \/ Behind(r, s) \/ Behind(s, r)
         /\ \A r, s \in Rows : Behind(r, s) => r # s /\ ~Behind(s, r)
         /\ \A r, s, z \in Rows : Behind(r, s) /\ Behind(s, z) => Behind(r, z)
         /\ \A r, c \in Rows : Behind(r, c) <=> Beyond(r, listing.time[c], c)
<1>1. \A r \in Rows : r \in Nat /\ listing.time[r] \in Nat BY ListingsAssumption
<1> QED BY <1>1 DEF Behind, Beyond

\* The library's operators count as the theorems about finite sets do.
LEMMA SameNumber == \A S : Seqs!Cardinality(S) = Cardinality(S)
BY DEF Seqs!Cardinality, Cardinality

InOrder(s) == \A i, j \in DOMAIN s : i < j => ~Behind(s[i], s[j])

\* Finitely many rows can be put in order: the place of a row is the number of rows that
\* do not stand behind it.
LEMMA OrderExists ==
  ASSUME listing.time \in [Rows -> Nat], NEW S \in SUBSET Rows, IsFiniteSet(S)
  PROVE  \E s \in Seqs!SetToSeqs(S) : InOrder(s)
<1> DEFINE n == Cardinality(S)
           Before(r) == {s \in S : s = r \/ Behind(r, s)}
           rank == [r \in S |-> Cardinality(Before(r))]
<1>1. n \in Nat /\ IsFiniteSet(1 .. n) /\ Cardinality(1 .. n) = n
  <2>1. n \in Nat BY FS_CardinalityType
  <2> QED BY <2>1, FS_Interval
<1>2. \A r \in S : IsFiniteSet(Before(r)) /\ Cardinality(Before(r)) \in 1 .. n
  <2> SUFFICES ASSUME NEW r \in S
               PROVE  IsFiniteSet(Before(r)) /\ Cardinality(Before(r)) \in 1 .. n
    OBVIOUS
  <2>1. Before(r) \in SUBSET S /\ r \in Before(r) OBVIOUS
  <2> HIDE DEF Before
  <2>2. IsFiniteSet(Before(r)) /\ Cardinality(Before(r)) <= n BY <2>1, FS_Subset
  <2>3. Cardinality(Before(r)) \in Nat /\ Cardinality(Before(r)) # 0
    BY <2>1, <2>2, FS_CardinalityType, FS_EmptySet
  <2> QED BY <1>1, <2>2, <2>3
<1>3. ASSUME NEW r \in S, NEW s \in S, Behind(r, s) PROVE rank[s] < rank[r]
  <2>1. Before(s) \in SUBSET Before(r) /\ r \in Before(r) /\ r \notin Before(s)
    BY <1>3, RowsAreOrdered
  <2>2. rank[s] = Cardinality(Before(s)) /\ rank[r] = Cardinality(Before(r)) OBVIOUS
  <2> HIDE DEF Before, rank
  <2>3. Cardinality(Before(s)) <= Cardinality(Before(r)) /\ Cardinality(Before(s)) # Cardinality(Before(r))
    BY <1>2, <2>1, FS_Subset
  <2> QED BY <1>1, <1>2, <2>2, <2>3
<1>4. rank \in [S -> 1 .. n] BY <1>2
<1>5. \A r, s \in S : rank[r] = rank[s] => r = s
  <2> SUFFICES ASSUME NEW r \in S, NEW s \in S, rank[r] = rank[s], r # s PROVE FALSE OBVIOUS
  <2>1. Behind(r, s) \/ Behind(s, r) BY RowsAreOrdered
  <2>2. rank[r] \in Nat /\ rank[s] \in Nat BY <1>4, <1>1
  <2> HIDE DEF rank
  <2> QED BY <1>3, <2>1, <2>2
<1> HIDE DEF rank, n
<1>6. \A k \in 1 .. n : \E r \in S : rank[r] = k
  <2>1. rank \in Injection(S, 1 .. n) BY <1>4, <1>5 DEF Injection, IsInjective
  <2>2. rank \in Surjection(S, 1 .. n) BY <1>1, <2>1, FS_Injection DEF n
  <2> QED BY <2>2 DEF Surjection
<1> DEFINE order == [k \in 1 .. n |-> CHOOSE r \in S : rank[r] = k]
<1>7. \A k \in 1 .. n : order[k] \in S /\ rank[order[k]] = k BY <1>6
<1>8. order \in [1 .. n -> S] BY <1>6
<1> HIDE DEF order
<1>9. order \in Seqs!SetToSeqs(S) BY <1>7, <1>8, SameNumber DEF Seqs!SetToSeqs, n
<1>10. InOrder(order)
  <2> SUFFICES ASSUME NEW i \in 1 .. n, NEW j \in 1 .. n, i < j, Behind(order[i], order[j])
               PROVE  FALSE
    BY <1>8 DEF InOrder
  <2>1. rank[order[j]] < rank[order[i]] BY <1>3, <1>7
  <2> QED BY <1>1, <1>7, <2>1
<1> QED BY <1>9, <1>10

\* What a page has: the first rows of the list behind the cursor, in order, and behind
\* its last row all the others, if there are any.
LEMMA PageFacts ==
  ASSUME ListOK, NEW c \in {0} \cup Rows
  PROVE  LET a == PageAfter(c)
             S == {r \in InList : c # 0 => Behind(r, c)}
             p == Seqs!ToSet(a.page)
         IN  /\ a.page \in Seq(Rows) /\ a.more \in BOOLEAN /\ Seqs!IsInjective(a.page)
             /\ p \subseteq S /\ (a.more => a.page # <<>>)
             /\ \A r \in S \ p : a.more /\ Behind(r, Seqs!Last(a.page))
             /\ \A r \in p : r = Seqs!Last(a.page) \/ Behind(Seqs!Last(a.page), r)
             /\ \A r \in p : r = Head(a.page) \/ Behind(r, Head(a.page))
<1> DEFINE S == {r \in InList : c # 0 => Behind(r, c)}
           all == CHOOSE s \in Seqs!SetToSeqs(S) :
                    \A i, j \in DOMAIN s : i < j => ~Behind(s[i], s[j])
           len == IF Len(all) < PageSize THEN Len(all) ELSE PageSize
           page == SubSeq(all, 1, len)
           more == Len(all) > PageSize
<1>1. S \subseteq Created /\ S \subseteq Rows /\ listing.time \in [Rows -> Nat]
  BY DEF InList, Created, ListOK, ListFields
<1>2. IsFiniteSet(S) BY <1>1, FS_Subset DEF ListOK, ListFields
<1> HIDE DEF S
<1>3. all \in Seqs!SetToSeqs(S) /\ InOrder(all) BY <1>1, <1>2, OrderExists DEF InOrder
<1> HIDE DEF all
<1>4. /\ all \in [1 .. Cardinality(S) -> S] /\ Cardinality(S) \in Nat
      /\ \A r \in S : \E k \in 1 .. Cardinality(S) : all[k] = r
      /\ \A i, j \in 1 .. Cardinality(S) : i # j => all[i] # all[j]
  <2>1. /\ Cardinality(S) \in Nat /\ IsFiniteSet(1 .. Cardinality(S))
        /\ Cardinality(1 .. Cardinality(S)) = Cardinality(S)
    <3>1. Cardinality(S) \in Nat BY <1>2, FS_CardinalityType
    <3> QED BY <3>1, FS_Interval
  <2>2. /\ all \in [1 .. Cardinality(S) -> S]
        /\ \A i, j \in 1 .. Cardinality(S) : i # j => all[i] # all[j]
    BY <1>3, SameNumber DEF Seqs!SetToSeqs
  <2>3. all \in Injection(1 .. Cardinality(S), S) BY <2>2 DEF Injection, IsInjective
  <2>4. all \in Surjection(1 .. Cardinality(S), S) BY <1>2, <2>1, <2>3, FS_Injection
  <2> QED BY <2>1, <2>2, <2>4 DEF Surjection
<1> DEFINE n == Cardinality(S)
<1> HIDE DEF n
<1>5. all \in Seq(Rows) /\ Len(all) = n /\ n \in Nat /\ DOMAIN all = 1 .. n
  <2>1. all \in [1 .. n -> Rows] /\ n \in Nat BY <1>1, <1>4 DEF n
  <2> QED BY <2>1
<1>6. \A i, j \in 1 .. n : i < j => Behind(all[j], all[i])
  <2> SUFFICES ASSUME NEW i \in 1 .. n, NEW j \in 1 .. n, i < j PROVE Behind(all[j], all[i]) OBVIOUS
  <2>1. all[i] # all[j] /\ all[i] \in Rows /\ all[j] \in Rows BY <1>1, <1>4, <1>5 DEF n
  <2>2. ~Behind(all[i], all[j]) BY <1>3, <1>5 DEF InOrder
  <2> QED BY <1>1, <2>1, <2>2, RowsAreOrdered
<1>7. /\ len \in 0 .. n /\ len <= PageSize /\ PageSize \in Nat \ {0} /\ more \in BOOLEAN
      /\ (more => len = PageSize /\ len # 0) /\ (~more => len = n)
  BY <1>5, ListingsAssumption
<1> HIDE DEF len, more
<1>8. /\ page \in Seq(Rows) /\ Len(page) = len /\ DOMAIN page = 1 .. len
      /\ \A k \in 1 .. len : page[k] = all[k]
  BY <1>5, <1>7
<1> HIDE DEF page
<1>9. Seqs!ToSet(page) = {all[k] : k \in 1 .. len} BY <1>8 DEF Seqs!ToSet
<1>10. Seqs!ToSet(page) \subseteq S BY <1>4, <1>7, <1>9 DEF n
<1>11. Seqs!IsInjective(page) BY <1>4, <1>7, <1>8 DEF Seqs!IsInjective, n
<1>12. len # 0 => page # <<>> /\ Seqs!Last(page) = all[len] /\ Head(page) = all[1]
  BY <1>7, <1>8 DEF Seqs!Last
<1>13. \A r \in S \ Seqs!ToSet(page) : more /\ Behind(r, Seqs!Last(page))
  <2> SUFFICES ASSUME NEW r \in S, r \notin Seqs!ToSet(page)
               PROVE  more /\ Behind(r, Seqs!Last(page))
    OBVIOUS
  <2>1. PICK k \in 1 .. n : all[k] = r BY <1>4 DEF n
  <2>2. k \notin 1 .. len BY <1>9, <2>1
  <2>3. more BY <1>5, <1>7, <2>2
  <2>4. len \in 1 .. n /\ len < k BY <1>5, <1>7, <2>2, <2>3
  <2> QED BY <1>6, <1>12, <2>1, <2>3, <2>4
<1>14. \A r \in Seqs!ToSet(page) :
         /\ r = Seqs!Last(page) \/ Behind(Seqs!Last(page), r)
         /\ r = Head(page) \/ Behind(r, Head(page))
  <2> SUFFICES ASSUME NEW k \in 1 .. len
               PROVE  /\ all[k] = Seqs!Last(page) \/ Behind(Seqs!Last(page), all[k])
                      /\ all[k] = Head(page) \/ Behind(all[k], Head(page))
    BY <1>9
  <2>1. len \in 1 .. n /\ 1 \in 1 .. n /\ k \in 1 .. n /\ len # 0 BY <1>5, <1>7
  <2>2. k = len \/ k < len BY <1>7
  <2>3. k = 1 \/ 1 < k BY <1>7
  <2> QED BY <1>6, <1>12, <2>1, <2>2, <2>3
<1>15. PageAfter(c) = [page |-> page, more |-> more]
  BY DEF PageAfter, S, all, len, page, more
<1> QED BY <1>7, <1>8, <1>10, <1>11, <1>12, <1>13, <1>14, <1>15 DEF S

\* Lists put together.
LEMMA ListsJoined ==
  ASSUME NEW R, NEW s \in Seq(R), NEW t \in Seq(R)
  PROVE  /\ s \o t \in Seq(R) /\ Seqs!ToSet(s \o t) = Seqs!ToSet(s) \cup Seqs!ToSet(t)
         /\ s # <<>> => s \o t # <<>> /\ Head(s \o t) = Head(s)
         /\ s = <<>> => s \o t = t
         /\ Seqs!IsInjective(s) /\ Seqs!IsInjective(t) /\ Seqs!ToSet(s) \cap Seqs!ToSet(t) = {}
              => Seqs!IsInjective(s \o t)
<1> DEFINE u == s \o t
           m == Len(s)
           n == Len(t)
<1>1. /\ m \in Nat /\ n \in Nat /\ u \in Seq(R) /\ Len(u) = m + n
      /\ DOMAIN s = 1 .. m /\ DOMAIN t = 1 .. n /\ DOMAIN u = 1 .. (m + n)
      /\ \A k \in 1 .. m : u[k] = s[k]
      /\ \A k \in 1 .. n : u[m + k] = t[k]
  OBVIOUS
<1>2. s # <<>> => u # <<>> /\ Head(u) = Head(s) OBVIOUS
<1>3. s = <<>> => u = t OBVIOUS
<1> HIDE DEF u, m, n
<1>4. \A k \in 1 .. (m + n) : k \in 1 .. m \/ (k - m \in 1 .. n /\ u[k] = t[k - m])
  <2> SUFFICES ASSUME NEW k \in 1 .. (m + n), k \notin 1 .. m
               PROVE  k - m \in 1 .. n /\ u[k] = t[k - m]
    OBVIOUS
  <2>1. k - m \in 1 .. n /\ m + (k - m) = k BY <1>1
  <2> QED BY <1>1, <2>1
<1>5. Seqs!ToSet(u) = Seqs!ToSet(s) \cup Seqs!ToSet(t)
  <2>1. \A k \in 1 .. m : k \in 1 .. (m + n) BY <1>1
  <2>2. \A k \in 1 .. n : m + k \in 1 .. (m + n) BY <1>1
  <2>3. \A k \in 1 .. m : s[k] \in Seqs!ToSet(u) BY <1>1, <2>1 DEF Seqs!ToSet
  <2>4. \A k \in 1 .. n : t[k] \in Seqs!ToSet(u) BY <1>1, <2>2 DEF Seqs!ToSet
  <2>5. \A k \in 1 .. (m + n) : u[k] \in Seqs!ToSet(s) \cup Seqs!ToSet(t)
    BY <1>1, <1>4 DEF Seqs!ToSet
  <2>6. Seqs!ToSet(u) \subseteq Seqs!ToSet(s) \cup Seqs!ToSet(t) BY <1>1, <2>5 DEF Seqs!ToSet
  <2>7. Seqs!ToSet(s) \subseteq Seqs!ToSet(u) /\ Seqs!ToSet(t) \subseteq Seqs!ToSet(u)
    BY <1>1, <2>3, <2>4 DEF Seqs!ToSet
  <2> QED BY <2>6, <2>7
<1>6. ASSUME Seqs!IsInjective(s), Seqs!IsInjective(t), Seqs!ToSet(s) \cap Seqs!ToSet(t) = {}
      PROVE  Seqs!IsInjective(u)
  <2> SUFFICES ASSUME NEW i \in 1 .. (m + n), NEW j \in 1 .. (m + n), u[i] = u[j] PROVE i = j
    BY <1>1 DEF Seqs!IsInjective
  <2>1. \A k \in 1 .. m : s[k] \in Seqs!ToSet(s) BY <1>1 DEF Seqs!ToSet
  <2>2. \A k \in 1 .. n : t[k] \in Seqs!ToSet(t) BY <1>1 DEF Seqs!ToSet
  <2>3. CASE i \in 1 .. m /\ j \in 1 .. m BY <1>1, <1>6, <2>3 DEF Seqs!IsInjective
  <2>4. CASE i \notin 1 .. m /\ j \notin 1 .. m
    <3>1. t[i - m] = t[j - m] /\ i - m \in 1 .. n /\ j - m \in 1 .. n BY <1>4, <2>4
    <3>2. i - m = j - m BY <1>1, <1>6, <3>1 DEF Seqs!IsInjective
    <3> QED BY <1>1, <3>2
  <2>5. CASE i \in 1 .. m /\ j \notin 1 .. m
    <3>1. s[i] = t[j - m] /\ j - m \in 1 .. n BY <1>1, <1>4, <2>5
    <3> QED BY <1>6, <2>1, <2>2, <2>5, <3>1
  <2>6. CASE i \notin 1 .. m /\ j \in 1 .. m
    <3>1. s[j] = t[i - m] /\ i - m \in 1 .. n BY <1>1, <1>4, <2>6
    <3> QED BY <1>6, <2>1, <2>2, <2>6, <3>1
  <2> QED BY <2>3, <2>4, <2>5, <2>6
<1> QED BY <1>1, <1>2, <1>3, <1>5, <1>6 DEF u

-----------------------------------------------------------------------------
(* Rows change.                                                            *)

\* What a change of the rows leaves alone: times only grow, rows that are expected keep
\* theirs, in a history all do.
Changed(X) ==
  /\ Created \subseteq Created' /\ InList \ X \subseteq InList'
  /\ \A r \in Rows : listing.time[r] <= listing'.time[r]
  /\ \A r \in InList \ X : listing'.time[r] = listing.time[r]
  /\ listing'.steady = listing.steady \ X
  /\ listing'.asked = {[q EXCEPT !.steady = q.steady \ X] : q \in listing.asked}
  /\ listing.kind = "history" => \A r \in Created : listing'.time[r] = listing.time[r]
  /\ listing'.shown = listing.shown /\ listing'.cursor = listing.cursor /\ listing'.at = listing.at
  /\ listing'.newest = listing.newest /\ listing'.jumped = listing.jumped
  /\ listing'.kind = listing.kind /\ listing'.lost = listing.lost

\* Places and rows beyond them, after a change.
LEMMA PlacesStay ==
  ASSUME ListOK, ListOK', NEW X, Changed(X)
  PROVE  /\ \A c, t : PlaceOK(c, t) /\ t \in Nat => PlaceOK(c, t)'
         /\ \A r \in Rows : \A t \in Nat : \A c : Beyond(r, t, c)' => Beyond(r, t, c)
         /\ \A r \in InList \ X : \A t, c : Beyond(r, t, c) => Beyond(r, t, c)'
         /\ listing.kind = "history" => \A r, c \in Created : Behind(r, c) => Behind(r, c)'
<1>1. \A r \in Rows : listing.time[r] \in Nat /\ listing'.time[r] \in Nat
  BY DEF ListOK, ListFields
<1>2. \A c, t : PlaceOK(c, t) /\ t \in Nat => PlaceOK(c, t)'
  <2> SUFFICES ASSUME NEW c, NEW t \in Nat, PlaceOK(c, t) PROVE PlaceOK(c, t)' OBVIOUS
  <2>1. c \in Created /\ c \in Created' /\ c \in Rows BY DEF PlaceOK, Changed, Created
  <2> QED BY <1>1, <2>1 DEF PlaceOK, Changed
<1>3. \A r \in Rows : \A t \in Nat : \A c : Beyond(r, t, c)' => Beyond(r, t, c)
  BY <1>1 DEF Beyond, Changed
<1>4. \A r \in InList \ X : \A t, c : Beyond(r, t, c) => Beyond(r, t, c)'
  BY DEF Beyond, Changed
<1>5. listing.kind = "history" => \A r, c \in Created : Behind(r, c) => Behind(r, c)'
  BY DEF Behind, Changed
<1> QED BY <1>2, <1>3, <1>4, <1>5

\* What the reader has stays right.
LEMMA ReaderStays ==
  ASSUME ListingsInv, ListOK', NEW X, Changed(X)
  PROVE  ReaderOK'
<1>1. /\ Created \subseteq Created' /\ listing'.shown = listing.shown /\ listing'.cursor = listing.cursor
      /\ listing'.at = listing.at /\ listing'.newest = listing.newest
      /\ listing'.jumped = listing.jumped /\ listing'.steady = listing.steady \ X
      /\ listing'.lost = listing.lost
      /\ listing.at \in Nat /\ InList \ X \subseteq InList' /\ Created \subseteq Rows
  BY DEF Changed, ListingsInv, ListOK, ListFields, Created
<1>2. /\ PlaceOK(listing.cursor, listing.at) => PlaceOK(listing.cursor, listing.at)'
      /\ \A r \in Rows : Beyond(r, listing.at, listing.cursor)' => Beyond(r, listing.at, listing.cursor)
      /\ \A r \in InList \ X :
           Beyond(r, listing.at, listing.cursor) => Beyond(r, listing.at, listing.cursor)'
  <2>1. ListOK /\ \A r \in InList : r \in Rows BY DEF ListingsInv, InList
  <2>2. PlaceOK(listing.cursor, listing.at) => PlaceOK(listing.cursor, listing.at)'
    BY <1>1, <2>1, PlacesStay DEF PlaceOK
  <2>3. \A r \in Rows : Beyond(r, listing.at, listing.cursor)' => Beyond(r, listing.at, listing.cursor)
    BY <1>1, <2>1, PlacesStay DEF Beyond
  <2>4. \A r \in InList \ X :
          Beyond(r, listing.at, listing.cursor) => Beyond(r, listing.at, listing.cursor)'
    BY SMTT(30), <1>1, <2>1, PlacesStay DEF Beyond
  <2> QED BY <2>2, <2>3, <2>4
<1> QED BY <1>1, <1>2 DEF ListingsInv, ReaderOK

\* So does the page under way.
LEMMA AnswersStay ==
  ASSUME ListingsInv, ListOK', NEW X, Changed(X), NEW z \in listing'.asked
  PROVE  AnswerOK(z)'
<1>1. PICK q \in listing.asked : z = [q EXCEPT !.steady = q.steady \ X] BY DEF Changed
<1>2. q \in Requested /\ AnswerOK(q) BY DEF ListingsInv, ListOK, ListFields
<1>3. /\ z.after = q.after /\ z.read = q.read /\ z.page = q.page /\ z.more = q.more
      /\ z.at = q.at /\ z.jumped = q.jumped /\ z.steady = q.steady \ X
      /\ q.at \in Nat /\ q.page \in Seq(Rows)
  BY <1>1, <1>2 DEF Requested
<1>4. /\ Created \subseteq Created' /\ listing'.shown = listing.shown /\ listing'.cursor = listing.cursor
      /\ listing'.at = listing.at /\ listing'.kind = listing.kind
      /\ listing'.jumped = listing.jumped /\ listing'.steady = listing.steady \ X
      /\ InList \ X \subseteq InList' /\ Created \subseteq Rows
  BY DEF Changed, Created
<1> DEFINE p == Seqs!ToSet(q.page)
           last == Seqs!Last(q.page)
<1>5. /\ PlaceOK(last, q.at) => PlaceOK(last, q.at)'
      /\ \A r \in Rows : Beyond(r, q.at, last)' => Beyond(r, q.at, last)
      /\ \A r \in InList \ X : Beyond(r, q.at, last) => Beyond(r, q.at, last)'
  BY <1>3, PlacesStay DEF ListingsInv
<1>6. Expected(z)' = Expected(q) \ X /\ Expected(q) \subseteq InList
  BY <1>2, <1>3, <1>4 DEF Expected, AnswerOK, ListingsInv, ReaderOK
<1>7. q.steady \ X \subseteq InList' BY <1>2, <1>4 DEF AnswerOK
<1>8. ASSUME q.read, listing.kind = "history", NEW r \in p
      PROVE  (IF q.after # 0 THEN Behind(r, q.after)
              ELSE r = Head(q.page) \/ Behind(r, Head(q.page)))'
  <2>1. p \subseteq Created BY <1>2, <1>8 DEF AnswerOK
  <2>2. q.after # 0 => q.after \in Created
    BY <1>2 DEF AnswerOK, ListingsInv, ReaderOK, PlaceOK
  <2>3. Head(q.page) \in Created
    <3>1. q.page # <<>> /\ 1 \in DOMAIN q.page /\ Head(q.page) = q.page[1]
      <4>1. PICK k \in DOMAIN q.page : r = q.page[k] BY <1>8 DEF Seqs!ToSet
      <4> QED BY <1>3, <4>1
    <3> QED BY <2>1, <3>1 DEF Seqs!ToSet
  <2>4. \A a, c \in Created : Behind(a, c) => Behind(a, c)'
    BY <1>8, PlacesStay DEF ListingsInv
  <2>5. IF q.after # 0 THEN Behind(r, q.after) ELSE r = Head(q.page) \/ Behind(r, Head(q.page))
    BY <1>2, <1>8 DEF AnswerOK
  <2> QED BY <1>8, <2>1, <2>2, <2>3, <2>4, <2>5
<1> QED BY <1>2, <1>3, <1>4, <1>5, <1>6, <1>7, <1>8 DEF AnswerOK

\* Fewer rows are expected of pages under way.
LEMMA AskedLess ==
  /\ \A q \in Requested : \A X : [q EXCEPT !.steady = q.steady \ X] \in Requested
  /\ \A q \in Requested : [q EXCEPT !.steady = q.steady \ {}] = q
BY DEF Requested

\* Time passes, a row is created, an example is marked.
LEMMA RowsStep ==
  ASSUME ListingsInv, \/ Tick
                      \/ \E r \in Rows : Create(r) \/ \E b \in BOOLEAN : Mark(r, b)
  PROVE  ListingsInv'
<1>1. ListOK BY DEF ListingsInv
<1>2. listing.asked = {[q EXCEPT !.steady = q.steady \ {}] : q \in listing.asked}
  <2>1. \A q \in listing.asked : [q EXCEPT !.steady = q.steady \ {}] = q
    BY <1>1, AskedLess DEF ListOK, ListFields
  <2> QED BY <2>1
<1>3. \A X : {[q EXCEPT !.steady = q.steady \ X] : q \in listing.asked} \in SUBSET Requested
  <2>1. \A X : \A q \in listing.asked : [q EXCEPT !.steady = q.steady \ X] \in Requested
    BY <1>1, AskedLess DEF ListOK, ListFields
  <2> QED BY <2>1
<1>4. PICK X : ListOK' /\ Changed(X)
  <2>1. CASE Tick
    <3>1. listing' = [listing EXCEPT !.clock = @ + 1] BY <2>1 DEF Tick, Become
    <3>2. Created' = Created /\ InList' = InList BY <1>1, <3>1 DEF Created, InList, ListOK, ListFields
    <3>3. ListOK'
      <4> DEFINE k == listing.clock + 1
      <4>0. k \in Nat \ {0} BY <1>1 DEF ListOK, ListFields
      <4> HIDE DEF k
      <4>1. listing' \in ListFields /\ listing'.clock = k
            /\ listing'.time = listing.time /\ listing'.kind = listing.kind /\ listing'.out = listing.out
        BY <1>1, <3>1, <4>0 DEF ListOK, ListFields, k
      <4>2. \A r \in Rows : listing.time[r] <= listing.clock + 1
        BY <1>1 DEF ListOK, ListFields
      <4> QED BY <1>1, <3>2, <4>1, <4>2 DEF ListOK, k
    <3>5. Changed({}) BY <1>1, <1>2, <3>1, <3>2 DEF Changed, ListOK, ListFields
    <3> QED BY <3>3, <3>5
  <2>2. ASSUME NEW r \in Rows, Create(r) PROVE ListOK' /\ Changed({})
    <3>1. PICK t \in {listing.clock - 1, listing.clock} \ {0} : listing' = [listing EXCEPT !.time[r] = t]
      BY <2>2 DEF Create, Become
    <3>2. t \in Nat \ {0} /\ t <= listing.clock /\ listing.time[r] = 0
      BY <1>1, <2>2 DEF ListOK, ListFields, Create
    <3>3. listing'.time = [listing.time EXCEPT ![r] = t] BY <1>1, <3>1 DEF ListOK, ListFields
    <3>4. Created' = Created \cup {r} /\ r \notin Created
      BY <1>1, <3>2, <3>3 DEF Created, ListOK, ListFields
    <3>5. InList \subseteq InList' /\ r \notin InList
      BY <1>1, <3>1, <3>2, <3>3 DEF InList, ListOK, ListFields
    <3>6. IsFiniteSet(Created') BY <1>1, <3>4, FS_AddElement DEF ListOK, ListFields
    <3>7. ListOK' BY <1>1, <3>1, <3>2, <3>3, <3>6 DEF ListOK, ListFields
    <3>9. Changed({}) BY <1>1, <3>1, <3>2, <3>3, <3>4, <3>5, <1>2 DEF Changed, ListOK, ListFields
    <3> QED BY <3>7, <3>9
  <2>3. ASSUME NEW r \in Rows, NEW b \in BOOLEAN, Mark(r, b) PROVE ListOK' /\ Changed({r})
    <3> DEFINE o == IF b THEN listing.out \ {r} ELSE listing.out \cup {r}
               z == {[q EXCEPT !.steady = q.steady \ {r}] : q \in listing.asked}
    <3>1. listing' = [listing EXCEPT !.time[r] = listing.clock, !.steady = @ \ {r}, !.asked = z, !.out = o]
          /\ listing.kind = "cases" /\ listing.time[r] > 0
      BY <2>3 DEF Mark, Become
    <3>2. z \in SUBSET Requested /\ o \in SUBSET Rows BY <1>1, <1>3 DEF ListOK, ListFields
    <3>3. /\ listing'.time = [listing.time EXCEPT ![r] = listing.clock]
          /\ listing'.asked = z /\ listing'.out = o /\ listing'.steady = listing.steady \ {r}
          /\ listing'.clock = listing.clock /\ listing'.kind = "cases"
          /\ listing.clock \in Nat /\ listing.clock >= listing.time[r]
      BY <1>1, <3>1 DEF ListOK, ListFields
    <3>4. Created' = Created BY <1>1, <3>1, <3>3 DEF Created, ListOK, ListFields
    <3>5. InList \ {r} \subseteq InList' BY <1>1, <3>3 DEF InList, ListOK, ListFields
    <3>6. ListOK'
      <4> HIDE DEF z, o
      <4>1. listing' \in ListFields
        BY <1>1, <3>1, <3>2 DEF ListOK, ListFields
      <4> QED BY <1>1, <3>3, <3>4, <4>1 DEF ListOK, ListFields
    <3>7. Changed({r})
      <4> HIDE DEF o
      <4>1. /\ listing'.shown = listing.shown /\ listing'.cursor = listing.cursor
            /\ listing'.at = listing.at /\ listing'.newest = listing.newest
            /\ listing'.jumped = listing.jumped /\ listing'.kind = listing.kind
            /\ listing'.lost = listing.lost
        BY <1>1, <3>1 DEF ListOK, ListFields
      <4>2. /\ \A x \in Rows : listing.time[x] <= listing'.time[x]
            /\ \A x \in InList \ {r} : listing'.time[x] = listing.time[x]
        BY <1>1, <3>3 DEF ListOK, ListFields, InList
      <4> QED BY <3>1, <3>3, <3>4, <3>5, <4>1, <4>2 DEF Changed
    <3> QED BY <3>6, <3>7
  <2> QED BY <2>1, <2>2, <2>3
<1> QED BY <1>4, ReaderStays, AnswersStay DEF ListingsInv

-----------------------------------------------------------------------------
(* Reading.                                                                *)

\* Nothing of the rows changes.
LEMMA RowsUntouched ==
  ASSUME ListOK, listing'.time = listing.time, listing'.out = listing.out, listing'.kind = listing.kind
  PROVE  /\ Created' = Created /\ InList' = InList /\ NewestRow' = NewestRow
         /\ \A c, t : PlaceOK(c, t)' <=> PlaceOK(c, t)
         /\ \A r, t, c : Beyond(r, t, c)' <=> Beyond(r, t, c)
         /\ \A r, c : Behind(r, c)' <=> Behind(r, c)
BY DEF Created, InList, NewestRow, PlaceOK, Beyond, Behind

\* The last and the first row of a list are among its rows.
LEMMA EndsOfList ==
  ASSUME NEW R, NEW s \in Seq(R), s # <<>>
  PROVE  Seqs!Last(s) \in Seqs!ToSet(s) /\ Head(s) \in Seqs!ToSet(s)
<1>1. Len(s) \in DOMAIN s /\ 1 \in DOMAIN s /\ Head(s) = s[1] OBVIOUS
<1> QED BY <1>1 DEF Seqs!Last, Seqs!ToSet

\* A page is asked for, or its answer is lost.
LEMMA AskPageStep ==
  ASSUME ListingsInv, \/ \E c \in {0} \cup Rows : AskPage(c)
                      \/ \E q \in listing.asked : Lose(q)
  PROVE  ListingsInv'
<1>1. ListOK /\ ReaderOK BY DEF ListingsInv
<1>2. ASSUME NEW A \in SUBSET Requested, NEW n \in Nat,
             listing' = [listing EXCEPT !.pages = n, !.asked = A]
      PROVE  /\ ListOK' /\ ReaderOK' /\ listing'.asked = A /\ listing'.cursor = listing.cursor
             /\ InList' = InList
  <2>1. /\ listing' \in ListFields /\ listing'.asked = A
        /\ listing'.time = listing.time /\ listing'.out = listing.out /\ listing'.kind = listing.kind
        /\ listing'.clock = listing.clock /\ listing'.shown = listing.shown
        /\ listing'.cursor = listing.cursor /\ listing'.at = listing.at
        /\ listing'.newest = listing.newest /\ listing'.steady = listing.steady
        /\ listing'.jumped = listing.jumped /\ listing'.lost = listing.lost
    BY <1>1, <1>2 DEF ListOK, ListFields
  <2>2. /\ Created' = Created /\ InList' = InList
        /\ \A c, t : PlaceOK(c, t)' <=> PlaceOK(c, t)
        /\ \A r, t, c : Beyond(r, t, c)' <=> Beyond(r, t, c)
    BY <1>1, <2>1, RowsUntouched
  <2> QED BY <1>1, <2>1, <2>2 DEF ListOK, ReaderOK
<1>3. ASSUME NEW c \in {0} \cup Rows, AskPage(c) PROVE ListingsInv'
  <2> DEFINE q == [after |-> c, read |-> FALSE, page |-> <<>>, more |-> FALSE,
                   at |-> 0, steady |-> {}, jumped |-> FALSE]
  <2>1. q \in Requested /\ q.after = c /\ q.read = FALSE /\ q.steady = {} BY DEF Requested
  <2>2. listing' = [listing EXCEPT !.pages = @ + 1, !.asked = {q}] BY <1>3 DEF AskPage, Become
  <2> HIDE DEF q
  <2>3. listing.pages + 1 \in Nat BY <1>1 DEF ListOK, ListFields
  <2>4. ListOK' /\ ReaderOK' /\ listing'.asked = {q} /\ listing'.cursor = listing.cursor
    BY <1>2, <2>1, <2>2, <2>3
  <2>5. c \in {0, listing.cursor} BY <1>3 DEF AskPage
  <2>6. AnswerOK(q)' BY <2>1, <2>4, <2>5 DEF AnswerOK
  <2> QED BY <2>4, <2>6 DEF ListingsInv
<1>4. ASSUME NEW q \in listing.asked, Lose(q) PROVE ListingsInv'
  <2>1. listing' = [listing EXCEPT !.pages = listing.pages, !.asked = {}] /\ listing.pages \in Nat
    BY <1>1, <1>4 DEF Lose, Become, ListOK, ListFields
  <2> QED BY <1>2, <2>1 DEF ListingsInv
<1> QED BY <1>3, <1>4

\* A page of the library is lost beside the cases of V1.1.
LEMMA LoseHalfStep ==
  ASSUME ListingsInv, NEW q \in listing.asked, LoseHalf(q)
  PROVE  ListingsInv'
<1> DEFINE shown == IF q.after = 0 THEN <<>> ELSE listing.shown
           newest == IF q.after = 0 THEN {} ELSE listing.newest
<1>1. ListOK /\ ReaderOK BY DEF ListingsInv
<1>2. listing' = [listing EXCEPT !.asked = {}, !.cursor = 0, !.at = 0, !.lost = TRUE,
                    !.shown = shown, !.newest = newest]
  BY DEF LoseHalf, Become
<1>3. /\ shown \in Seq(Rows) /\ Seqs!ToSet(shown) \subseteq Created /\ newest \subseteq Rows
      /\ newest \subseteq (IF shown = <<>> THEN {} ELSE {Head(shown)})
      /\ ~listing.jumped => Seqs!IsInjective(shown)
  BY <1>1 DEF ListOK, ListFields, ReaderOK, Seqs!ToSet, Seqs!IsInjective
<1> HIDE DEF shown, newest
<1>4. /\ listing' \in ListFields /\ listing'.asked = {} /\ listing'.cursor = 0 /\ listing'.lost = TRUE
      /\ listing'.time = listing.time /\ listing'.out = listing.out /\ listing'.kind = listing.kind
      /\ listing'.clock = listing.clock /\ listing'.shown = shown /\ listing'.newest = newest
      /\ listing'.steady = listing.steady /\ listing'.jumped = listing.jumped
  BY <1>1, <1>2, <1>3 DEF ListOK, ListFields
<1>5. Created' = Created /\ InList' = InList BY <1>1, <1>4, RowsUntouched
<1>6. ListOK' /\ ReaderOK' BY <1>1, <1>3, <1>4, <1>5 DEF ListOK, ReaderOK
<1> QED BY <1>4, <1>6 DEF ListingsInv

\* The query of a page.
LEMMA ReadPageStep ==
  ASSUME ListingsInv, NEW q \in listing.asked, ReadPage(q)
  PROVE  ListingsInv'
<1> DEFINE a == PageAfter(q.after)
           at == IF a.more THEN listing.time[Seqs!Last(a.page)] ELSE 0
           jumped == q.after # 0 /\ listing.time[q.after] # listing.at
           S == {r \in InList : q.after # 0 => Behind(r, q.after)}
           p == Seqs!ToSet(a.page)
           last == Seqs!Last(a.page)
<1>1. ListOK /\ ReaderOK /\ AnswerOK(q) /\ q \in Requested
  BY DEF ListingsInv, ListOK, ListFields
<1>2. listing' = [listing EXCEPT !.asked =
                    {[q EXCEPT !.page = a.page, !.more = a.more, !.read = TRUE, !.steady = InList,
                               !.at = at, !.jumped = jumped]}]
  BY DEF ReadPage, Become
<1>3. q.after \in {0} \cup Rows /\ q.after \in {0, listing.cursor} BY <1>1 DEF Requested, AnswerOK
<1>4. /\ a.page \in Seq(Rows) /\ a.more \in BOOLEAN /\ Seqs!IsInjective(a.page)
      /\ p \subseteq S /\ (a.more => a.page # <<>>)
      /\ \A r \in S \ p : a.more /\ Behind(r, last)
      /\ \A r \in p : r = last \/ Behind(last, r)
      /\ \A r \in p : r = Head(a.page) \/ Behind(r, Head(a.page))
  BY <1>1, <1>3, PageFacts
<1> HIDE DEF a
<1>5. /\ S \subseteq InList /\ InList \subseteq Created /\ InList \subseteq Rows
      /\ \A r \in Rows : listing.time[r] \in Nat /\ r \in Nat \ {0}
  BY <1>1, ListingsAssumption DEF InList, Created, ListOK, ListFields
<1>6. a.more => last \in p /\ at = listing.time[last] BY <1>4, EndsOfList
<1>7. at \in Nat BY <1>4, <1>5, <1>6
<1> HIDE DEF at
<1>8. jumped \in BOOLEAN OBVIOUS
<1> HIDE DEF jumped
<1>9. PICK z \in Requested :
      /\ listing' = [listing EXCEPT !.asked = {z}] /\ z.after = q.after /\ z.page = a.page /\ z.more = a.more /\ z.read = TRUE
      /\ z.steady = InList /\ z.at = at /\ z.jumped = jumped
  <2> DEFINE y == [q EXCEPT !.page = a.page, !.more = a.more, !.read = TRUE, !.steady = InList,
                            !.at = at, !.jumped = jumped]
  <2>1. /\ y \in Requested /\ y.after = q.after /\ y.page = a.page /\ y.more = a.more /\ y.read = TRUE
        /\ y.steady = InList /\ y.at = at /\ y.jumped = jumped
    BY <1>1, <1>4, <1>5, <1>7, <1>8 DEF Requested
  <2>2. listing' = [listing EXCEPT !.asked = {y}] BY <1>2
  <2> HIDE DEF y
  <2> QED BY <2>1, <2>2
<1>10. /\ listing' \in ListFields /\ listing'.asked = {z}
       /\ listing'.time = listing.time /\ listing'.out = listing.out /\ listing'.kind = listing.kind
       /\ listing'.clock = listing.clock /\ listing'.shown = listing.shown
       /\ listing'.cursor = listing.cursor /\ listing'.at = listing.at
       /\ listing'.newest = listing.newest /\ listing'.steady = listing.steady
       /\ listing'.jumped = listing.jumped /\ listing'.lost = listing.lost
  BY <1>1, <1>9 DEF ListOK, ListFields
<1>11. /\ Created' = Created /\ InList' = InList
       /\ \A c, t : PlaceOK(c, t)' <=> PlaceOK(c, t)
       /\ \A r, t, c : Beyond(r, t, c)' <=> Beyond(r, t, c)
       /\ \A r, c : Behind(r, c)' <=> Behind(r, c)
  BY <1>1, <1>10, RowsUntouched
<1>12. ListOK' /\ ReaderOK' BY <1>1, <1>10, <1>11 DEF ListOK, ReaderOK
<1>13. a.more => PlaceOK(last, at) /\ \A r \in p : ~Beyond(r, at, last)
  <2> SUFFICES ASSUME a.more PROVE PlaceOK(last, at) /\ \A r \in p : ~Beyond(r, at, last) OBVIOUS
  <2>1. last \in Created /\ at = listing.time[last] /\ last \in Rows BY <1>4, <1>5, <1>6
  <2>2. \A r \in p : ~Behind(r, last)
    <3>1. \A r \in p : r \in Rows BY <1>4, <1>5
    <3> QED BY <1>1, <1>4, <2>1, <3>1, RowsAreOrdered DEF ListOK, ListFields
  <2> QED BY <1>5, <2>1, <2>2 DEF PlaceOK, Beyond, Behind
<1>14. \A r \in S \ p : a.more /\ Beyond(r, at, last)
  BY <1>4, <1>6 DEF Behind, Beyond
<1>15. ASSUME q.after # 0
       PROVE  /\ \A r \in listing.steady \ Seqs!ToSet(listing.shown) : r \in S
              /\ ~listing.jumped /\ ~jumped =>
                   /\ p \cap Seqs!ToSet(listing.shown) = {}
                   /\ a.more => at < listing.at \/ (at = listing.at /\ last < listing.cursor)
  <2>1. /\ q.after = listing.cursor /\ PlaceOK(listing.cursor, listing.at)
        /\ listing.cursor \in Rows /\ listing.at \in Nat
    BY <1>1, <1>3, <1>15 DEF ReaderOK, ListOK, ListFields
  <2>2. listing.steady \subseteq InList BY <1>1 DEF ReaderOK
  <2>3. \A r \in listing.steady \ Seqs!ToSet(listing.shown) : Behind(r, q.after)
    <3> SUFFICES ASSUME NEW r \in listing.steady \ Seqs!ToSet(listing.shown) PROVE Behind(r, q.after)
      OBVIOUS
    <3>1. Beyond(r, listing.at, listing.cursor) /\ r \in Rows
      BY <1>1, <1>5, <1>15, <2>1, <2>2 DEF ReaderOK
    <3> QED BY <1>5, <2>1, <3>1 DEF Beyond, Behind, PlaceOK
  <2>4. ASSUME ~listing.jumped, ~jumped
        PROVE  /\ p \cap Seqs!ToSet(listing.shown) = {}
               /\ a.more => at < listing.at \/ (at = listing.at /\ last < listing.cursor)
    <3>1. listing.time[listing.cursor] = listing.at BY <1>15, <2>1, <2>4 DEF jumped
    <3>2. \A r \in p : Beyond(r, listing.at, listing.cursor)
      BY <1>4, <1>15, <2>1, <3>1 DEF Beyond, Behind
    <3>3. \A r \in Seqs!ToSet(listing.shown) : ~Beyond(r, listing.at, listing.cursor)
      BY <1>1, <1>15, <2>1, <2>4 DEF ReaderOK
    <3> QED BY <1>6, <3>2, <3>3 DEF Beyond
  <2> QED BY <2>2, <2>3, <2>4
<1>16. Expected(z)' \ p \subseteq S \ p
  <2>1. CASE q.after = 0 BY <1>9, <2>1 DEF Expected
  <2>2. CASE q.after # 0 BY <1>9, <1>10, <1>15, <2>2 DEF Expected
  <2> QED BY <2>1, <2>2
<1>17. listing.kind = "history" =>
         \A r \in p : IF q.after # 0 THEN Behind(r, q.after)
                      ELSE r = Head(a.page) \/ Behind(r, Head(a.page))
  BY <1>4
<1>18. p \subseteq Created' BY <1>4, <1>5, <1>11
<1> HIDE DEF S
<1>19. AnswerOK(z)'
  BY <1>3, <1>4, <1>9, <1>10, <1>11, <1>13, <1>14, <1>15, <1>16, <1>17, <1>18 DEF AnswerOK
<1> QED BY <1>10, <1>12, <1>19 DEF ListingsInv

\* The answer of a page.
LEMMA DeliverPageStep ==
  ASSUME ListingsInv, NEW q \in listing.asked, Deliver(q)
  PROVE  ListingsInv'
<1> DEFINE p == Seqs!ToSet(q.page)
           last == Seqs!Last(q.page)
           shown == IF q.after = 0 THEN q.page ELSE listing.shown \o q.page
           steady == IF q.after = 0 THEN q.steady ELSE listing.steady
           jumped == q.after # 0 /\ (listing.jumped \/ q.jumped)
           lost == q.after # 0 /\ listing.lost
           newest == IF q.after = 0 THEN Marks(q) ELSE listing.newest \cup Marks(q)
           cursor == IF q.more THEN last ELSE 0
<1>1. ListOK /\ ReaderOK /\ AnswerOK(q) /\ q \in Requested /\ q.read
  BY DEF ListingsInv, ListOK, ListFields, Deliver
<1>2. listing' = [listing EXCEPT !.asked = {}, !.at = q.at, !.shown = shown, !.steady = steady,
                    !.jumped = jumped, !.lost = lost, !.newest = newest, !.cursor = cursor]
  BY DEF Deliver, Become
<1>3. /\ q.page \in Seq(Rows) /\ listing.shown \in Seq(Rows) /\ q.more \in BOOLEAN /\ q.at \in Nat
      /\ \A r \in Rows : listing.time[r] \in Nat /\ r \in Nat \ {0}
      /\ Created \subseteq Rows /\ InList \subseteq Created
  BY <1>1, ListingsAssumption DEF ListOK, ListFields, Requested, Created, InList
<1>4. /\ q.after \in {0, listing.cursor} /\ q.steady \subseteq InList /\ listing.steady \subseteq InList
      /\ p \subseteq Created /\ Seqs!IsInjective(q.page)
      /\ Seqs!ToSet(listing.shown) \subseteq Created
      /\ \A r \in Expected(q) \ p : q.more /\ Beyond(r, q.at, last)
  BY <1>1 DEF AnswerOK, ReaderOK
<1>5. q.more => /\ q.page # <<>> /\ PlaceOK(last, q.at) /\ last \in p
                /\ \A r \in p : ~Beyond(r, q.at, last)
  BY <1>1, <1>3, EndsOfList DEF AnswerOK
<1>6. /\ shown \in Seq(Rows)
      /\ Seqs!ToSet(shown) = IF q.after = 0 THEN p ELSE Seqs!ToSet(listing.shown) \cup p
      /\ q.page # <<>> => shown # <<>>
  <2>1. CASE q.after = 0 BY <1>3, <2>1
  <2>2. CASE q.after # 0
    <3>1. shown = listing.shown \o q.page BY <2>2
    <3>2. q.page # <<>> => listing.shown \o q.page # <<>> BY <1>3
    <3>3. listing.shown \o q.page \in Seq(Rows)
          /\ Seqs!ToSet(listing.shown \o q.page) = Seqs!ToSet(listing.shown) \cup p
      BY <1>3, ListsJoined
    <3> QED BY <2>2, <3>1, <3>2, <3>3
  <2> QED BY <2>1, <2>2
<1>7. cursor \in {0} \cup Rows /\ (cursor # 0 => q.more /\ cursor = last)
      /\ (q.more => cursor = last /\ cursor # 0)
  BY <1>3, <1>4, <1>5
<1>8. Marks(q) \subseteq p /\ newest \subseteq Rows
  BY <1>1, <1>3, <1>4 DEF Marks, ListOK, ListFields
<1>9. ~jumped => /\ Seqs!IsInjective(shown)
                 /\ cursor # 0 => \A r \in Seqs!ToSet(shown) : ~Beyond(r, q.at, last)
  <2> SUFFICES ASSUME ~jumped
               PROVE  /\ Seqs!IsInjective(shown)
                      /\ cursor # 0 => \A r \in Seqs!ToSet(shown) : ~Beyond(r, q.at, last)
    OBVIOUS
  <2>1. CASE q.after = 0 BY <1>4, <1>5, <1>6, <1>7, <2>1
  <2>2. CASE q.after # 0
    <3>1. /\ p \cap Seqs!ToSet(listing.shown) = {} /\ Seqs!IsInjective(listing.shown)
          /\ q.more => q.at < listing.at \/ (q.at = listing.at /\ last < listing.cursor)
          /\ \A r \in Seqs!ToSet(listing.shown) : ~Beyond(r, listing.at, listing.cursor)
      BY <1>1, <1>4, <2>2 DEF AnswerOK, ReaderOK
    <3>2. Seqs!IsInjective(shown) BY <1>3, <1>4, <2>2, <3>1, ListsJoined
    <3>3. ASSUME q.more, NEW r \in Seqs!ToSet(listing.shown) PROVE ~Beyond(r, q.at, last)
      <4>1. /\ listing.time[r] \in Nat /\ r \in Nat /\ q.at \in Nat /\ listing.at \in Nat
            /\ last \in Nat /\ listing.cursor \in Nat
        <5>1. r \in Rows /\ last \in Rows BY <1>3, <1>4, <1>5, <3>3
        <5>2. listing.at \in Nat /\ listing.cursor \in {0} \cup Rows BY <1>1 DEF ListOK, ListFields
        <5> QED BY <1>3, <5>1, <5>2
      <4>2. ~Beyond(r, listing.at, listing.cursor) BY <3>1, <3>3
      <4>3. q.at < listing.at \/ (q.at = listing.at /\ last < listing.cursor) BY <3>1, <3>3
      <4> HIDE DEF last
      <4> QED BY <4>1, <4>2, <4>3 DEF Beyond
    <3> QED BY <1>5, <1>6, <1>7, <2>2, <3>2, <3>3
  <2> QED BY <2>1, <2>2
<1>10. ASSUME NEW r \in steady \ Seqs!ToSet(shown) PROVE cursor # 0 /\ Beyond(r, q.at, last)
  <2>1. r \in Expected(q) \ p BY <1>6, <1>10 DEF Expected
  <2> QED BY <1>4, <1>7, <2>1
<1>11. newest \subseteq (IF shown = <<>> THEN {} ELSE {Head(shown)})
  <2>1. ASSUME NEW n \in Marks(q)
        PROVE  q.after = 0 /\ n = Head(q.page) /\ q.page # <<>>
    <3>1. /\ listing.kind = "history" /\ n \in p /\ n \in InList
          /\ \A s \in InList \ {n} : Behind(s, n)
      BY <2>1 DEF Marks, NewestRow
    <3>2. q.page # <<>>
      BY <3>1 DEF Seqs!ToSet
    <3>3. \A s \in Created : s # n => Behind(s, n)
      BY <1>1, <3>1 DEF ListOK, InList, Created
    <3>4. \A s \in Created : ~Behind(n, s)
      <4>1. \A s \in Created : s \in Rows /\ n \in Rows BY <1>3, <3>1
      <4> QED BY <1>1, <3>3, <4>1, RowsAreOrdered DEF ListOK, ListFields
    <3>5. q.after = 0
      <4> SUFFICES ASSUME q.after # 0 PROVE FALSE OBVIOUS
      <4>1. Behind(n, q.after) BY <1>1, <3>1 DEF AnswerOK
      <4>2. q.after \in Created BY <1>1, <1>4 DEF ReaderOK, PlaceOK
      <4> QED BY <3>4, <4>1, <4>2
    <3>6. n = Head(q.page) \/ Behind(n, Head(q.page)) BY <1>1, <3>1, <3>5 DEF AnswerOK
    <3>7. Head(q.page) \in Created BY <1>3, <1>4, <3>2, EndsOfList
    <3> QED BY <3>2, <3>4, <3>5, <3>6, <3>7
  <2>2. CASE q.after = 0 BY <2>1, <2>2
  <2>3. CASE q.after # 0
    <3>1. newest = listing.newest BY <2>1, <2>3
    <3>2. listing.shown # <<>> /\ listing.newest \subseteq {Head(listing.shown)}
      BY <1>1, <1>4, <2>3 DEF ReaderOK
    <3>3. shown # <<>> /\ Head(shown) = Head(listing.shown)
      <4>1. shown = listing.shown \o q.page BY <2>3
      <4>2. listing.shown \in Seq(Rows) /\ q.page \in Seq(Rows) /\ listing.shown # <<>>
        BY <1>3, <3>2
      <4>3. listing.shown \o q.page # <<>> /\ Head(listing.shown \o q.page) = Head(listing.shown)
        BY ONLY <4>2, ListsJoined
      <4> QED BY <4>1, <4>3
    <3> QED BY <3>1, <3>2, <3>3
  <2> QED BY <2>2, <2>3
<1>12. steady \subseteq InList /\ jumped \in BOOLEAN /\ lost \in BOOLEAN /\ ~lost
  BY <1>1, <1>4 DEF ListOK, ListFields, Requested, ReaderOK
<1> HIDE DEF shown, steady, jumped, lost, newest, cursor
<1>13. /\ listing' \in ListFields /\ listing'.asked = {}
       /\ listing'.time = listing.time /\ listing'.out = listing.out /\ listing'.kind = listing.kind
       /\ listing'.clock = listing.clock /\ listing'.shown = shown
       /\ listing'.cursor = cursor /\ listing'.at = q.at
       /\ listing'.newest = newest /\ listing'.steady = steady /\ listing'.jumped = jumped
       /\ listing'.lost = lost
  <2>1. steady \subseteq Rows BY <1>3, <1>12
  <2> QED BY <1>1, <1>2, <1>3, <1>6, <1>7, <1>8, <1>12, <2>1 DEF ListOK, ListFields
<1>14. /\ Created' = Created /\ InList' = InList
       /\ \A c, t : PlaceOK(c, t)' <=> PlaceOK(c, t)
       /\ \A r, t, c : Beyond(r, t, c)' <=> Beyond(r, t, c)
  BY <1>1, <1>13, RowsUntouched
<1>15. ListOK' BY <1>1, <1>13, <1>14 DEF ListOK
<1>16. Seqs!ToSet(shown) \subseteq Created BY <1>4, <1>6
<1> HIDE DEF p, last
<1>17. ReaderOK'
  BY <1>5, <1>6, <1>7, <1>9, <1>10, <1>11, <1>12, <1>13, <1>14, <1>16 DEF ReaderOK
<1> QED BY <1>13, <1>15, <1>17 DEF ListingsInv

\* A reader misses no row that stayed where it was while he read, unless a page of the
\* library was lost beside the cases of V1.1, and sees none twice
\* unless the row behind which a page begins had moved, for any number of rows and of
\* pages of any size, and however rows are created and marked in between.
THEOREM ListingsAreWhole == ListingsSpec => []ListsAreWhole
<1>1. ListingsInit => ListingsInv
  <2> SUFFICES ASSUME ListingsInit PROVE ListingsInv OBVIOUS
  <2>1. PICK k \in {"history", "cases"} :
          listing = [kind |-> k, clock |-> 1, time |-> [r \in Rows |-> 0], out |-> {}, asked |-> {},
                     shown |-> <<>>, cursor |-> 0, at |-> 0, newest |-> {}, pages |-> 0,
                     steady |-> {}, jumped |-> FALSE, lost |-> FALSE]
    BY DEF ListingsInit
  <2>2. Created = {} BY <2>1 DEF Created
  <2>3. ListOK BY <2>1, <2>2, FS_EmptySet DEF ListOK, ListFields
  <2>4. Seqs!ToSet(listing.shown) = {} /\ Seqs!IsInjective(listing.shown)
    BY <2>1 DEF Seqs!ToSet, Seqs!IsInjective
  <2>5. ReaderOK BY <2>1, <2>4 DEF ReaderOK
  <2> QED BY <2>1, <2>3, <2>5 DEF ListingsInv
<1>2. ListingsInv /\ [ListingsNext]_listing => ListingsInv'
  <2> SUFFICES ASSUME ListingsInv, [ListingsNext]_listing PROVE ListingsInv' OBVIOUS
  <2>1. CASE UNCHANGED listing
    BY <2>1 DEF ListingsInv, ListOK, ReaderOK, AnswerOK, Created, InList, PlaceOK, Beyond, Behind, Expected
  <2>2. CASE ListingsNext
    BY <2>2, RowsStep, AskPageStep, ReadPageStep, DeliverPageStep, LoseHalfStep DEF ListingsNext
  <2> QED BY <2>1, <2>2
<1>3. ListingsInv => ListsAreWhole
  BY DEF ListingsInv, ReaderOK, ListsAreWhole, Finished
<1> QED BY <1>1, <1>2, <1>3, PTL DEF ListingsSpec

-----------------------------------------------------------------------------
(* Unsaved forms: questions.                                               *)

\* Of a set of numbers there is a least one.
LEMMA Least ==
  ASSUME NEW S \in SUBSET Nat, S # {}
  PROVE  \E x \in S : \A y \in S : x <= y
<1>1. PICK x \in S : \A y \in S : ~(<<y, x>> \in OpToRel(<, Nat))
  <2>1. S \subseteq Nat /\ S # {} OBVIOUS
  <2> QED BY <2>1, NatLessThanWellFounded, WFMin, Zenon
<1>2. ASSUME NEW y \in S PROVE x <= y
  <2>1. y \in Nat /\ x \in Nat OBVIOUS
  <2>2. ~(y < x) BY <1>1, <2>1 DEF OpToRel
  <2> QED BY <2>1, <2>2
<1> QED BY <1>2

\* A guard that a call runs through has a first place in it.
LEMMA FirstPlace ==
  ASSUME NEW gates \in Seq(Nat), NEW g \in Methods!ToSet(gates)
  PROVE  \E i \in DOMAIN gates : gates[i] = g /\ g \notin GatesBefore(gates, i)
<1> DEFINE S == {i \in DOMAIN gates : gates[i] = g}
<1>1. S \in SUBSET Nat /\ S # {} BY DEF Methods!ToSet
<1>2. PICK i \in S : \A j \in S : i <= j BY <1>1, Least
<1>3. ASSUME NEW j \in 1 .. i - 1 PROVE gates[j] # g BY <1>2
<1> QED BY <1>2, <1>3 DEF GatesBefore

\* What comes after a place of a list.
LEMMA AfterPlace ==
  ASSUME NEW method \in Seq(Nat), NEW i \in DOMAIN method
  PROVE  LET rest == SubSeq(method, i + 1, Len(method)) IN
         /\ rest \in Seq(Nat) /\ Len(rest) = Len(method) - i
         /\ \A j \in DOMAIN rest : rest[j] = method[i + j] /\ i + j \in DOMAIN method
<1> DEFINE n == Len(method)  rest == SubSeq(method, i + 1, n)
<1>1. n \in Nat /\ DOMAIN method = 1 .. n /\ i \in 1 .. n /\ \A x \in 1 .. n : method[x] \in Nat OBVIOUS
<1> HIDE DEF n
<1>2. i + 1 \in Int /\ n \in Int /\ \A x \in i + 1 .. n : method[x] \in Nat BY <1>1
<1>3. /\ rest \in Seq(Nat) /\ Len(rest) = IF i + 1 <= n THEN n - (i + 1) + 1 ELSE 0
      /\ \A x \in 1 .. n - (i + 1) + 1 : rest[x] = method[i + 1 + x - 1]
  BY <1>2, SubSeqProperties
<1> HIDE DEF rest
<1>4. Len(rest) = n - i /\ DOMAIN rest = 1 .. n - i /\ n - (i + 1) + 1 = n - i BY <1>1, <1>3
<1>5. ASSUME NEW j \in 1 .. n - i PROVE rest[j] = method[i + j] /\ i + j \in 1 .. n
  <2>1. i + 1 + j - 1 = i + j /\ i + j \in 1 .. n BY <1>1
  <2> QED BY <1>3, <1>4, <2>1
<1> QED BY <1>1, <1>3, <1>4, <1>5 DEF n, rest

\* Who is asked when a call runs through guards: nobody else, and, as long as everybody
\* says yes, everyone who was not told; the one who is told no has all before him agree.
LEMMA Consulted ==
  ASSUME NEW gates \in Seq(Nat), NEW yes, 0 \notin forms.leaving
  PROVE  LET c == Consult(yes, gates)
             G == Methods!ToSet(gates) \ forms.leaving
         IN  /\ c.asked \subseteq G /\ c.no \in Int /\ (c.no < 0 => 0 \in Methods!ToSet(gates))
             /\ c.no = 0 => /\ G \ {0} \subseteq c.asked \cap yes
                            /\ 0 \in G => 0 \in c.asked \/ Unasked \subseteq Methods!ToSet(gates)
             /\ G \ {0} # {} \/ (\E i \in DOMAIN gates : Asks(gates, i)) => c.asked # {}
             /\ c.no > 0 =>
                  \E n \in DOMAIN gates :
                    /\ gates[n] = c.no /\ c.no \in c.asked
                    /\ \A j \in 1 .. n - 1 : gates[j] \in forms.leaving \cup {0} \cup (c.asked \cap yes)
             /\ 0 \in c.asked =>
                  \E i \in DOMAIN gates : gates[i] = 0 /\ ~(Unasked \subseteq GatesBefore(gates, i))
<1> DEFINE c == Consult(yes, gates)
           G == Methods!ToSet(gates) \ forms.leaving
           asking == {i \in DOMAIN gates : Asks(gates, i)}
           noes == {i \in asking : gates[i] \notin yes}
           first == Methods!Min(noes)
<1>1. \A i \in DOMAIN gates : i \in Nat /\ gates[i] \in Nat /\ (i \in asking <=> Asks(gates, i)) OBVIOUS
<1>2. noes \subseteq asking /\ asking \subseteq DOMAIN gates OBVIOUS
<1>3. noes # {} => first \in noes /\ \A i \in noes : first <= i
  <2>1. noes \in SUBSET Nat BY <1>1, <1>2
  <2> QED BY <2>1, Least DEF Methods!Min
<1>4. /\ noes = {} => c.asked = {gates[i] : i \in asking} /\ c.no = 0
      /\ noes # {} => /\ c.asked = {gates[i] : i \in asking \cap 1 .. first}
                      /\ c.no = IF gates[first] = 0 THEN -1 ELSE gates[first]
  BY DEF Consult
<1>5. \A i \in asking : gates[i] \in G /\ gates[i] \notin GatesBefore(gates, i)
  BY <1>1, <1>2 DEF Asks, Methods!ToSet
<1>6. ASSUME NEW g \in G \ {0}
      PROVE  \E i \in asking : gates[i] = g /\ \A j \in DOMAIN gates : gates[j] = g => i <= j
  <2>1. PICK i \in DOMAIN gates : gates[i] = g /\ g \notin GatesBefore(gates, i) BY <1>6, FirstPlace
  <2>2. Asks(gates, i) BY <1>6, <2>1 DEF Asks
  <2>3. \A j \in DOMAIN gates : gates[j] = g => i <= j
    <3>1. \A j \in DOMAIN gates : j < i => j \in 1 .. i - 1 BY <1>1
    <3> QED BY <1>1, <2>1, <3>1 DEF GatesBefore
  <2> QED BY <2>1, <2>2, <2>3
<1> HIDE DEF c, asking, noes, first
<1>7. c.asked \subseteq G /\ c.no \in Int /\ (c.no < 0 => 0 \in Methods!ToSet(gates))
  <2>1. c.asked \subseteq G BY <1>4, <1>5
  <2>2. noes # {} => gates[first] \in Nat /\ first \in DOMAIN gates BY <1>1, <1>2, <1>3
  <2>3. c.no < 0 => noes # {} /\ gates[first] = 0 BY <1>4, <2>2
  <2> QED BY <1>4, <2>1, <2>2, <2>3 DEF Methods!ToSet
<1>8. c.no = 0 => noes = {}
  <2>1. noes # {} => gates[first] \in Nat BY <1>1, <1>2, <1>3
  <2> QED BY <1>4, <2>1
<1>9. ASSUME c.no = 0 PROVE G \ {0} \subseteq c.asked \cap yes
  BY <1>4, <1>6, <1>8, <1>9 DEF noes
<1>10. ASSUME c.no = 0, 0 \in G PROVE 0 \in c.asked \/ Unasked \subseteq Methods!ToSet(gates)
  <2>1. PICK i \in DOMAIN gates : gates[i] = 0 /\ 0 \notin GatesBefore(gates, i) BY <1>10, FirstPlace
  <2>2. GatesBefore(gates, i) \subseteq Methods!ToSet(gates) BY DEF GatesBefore, Methods!ToSet
  <2>3. CASE Unasked \subseteq GatesBefore(gates, i) BY <2>2, <2>3
  <2>4. CASE ~(Unasked \subseteq GatesBefore(gates, i))
    <3>1. i \in asking BY <1>1, <2>1, <2>4 DEF Asks
    <3> QED BY <1>4, <1>8, <1>10, <2>1, <3>1
  <2> QED BY <2>3, <2>4
<1>11. ASSUME G \ {0} # {} \/ (\E i \in DOMAIN gates : Asks(gates, i)) PROVE c.asked # {}
  <2>1. asking # {} BY <1>1, <1>6, <1>11
  <2>2. noes # {} => first \in asking \cap 1 .. first BY <1>1, <1>2, <1>3
  <2> QED BY <1>4, <2>1, <2>2
<1>12. ASSUME c.no > 0
       PROVE  \E n \in DOMAIN gates :
                /\ gates[n] = c.no /\ c.no \in c.asked
                /\ \A j \in 1 .. n - 1 : gates[j] \in forms.leaving \cup {0} \cup (c.asked \cap yes)
  <2>1. noes # {} /\ gates[first] = c.no BY <1>4, <1>12
  <2>2. first \in asking \cap 1 .. first /\ first \in DOMAIN gates BY <1>1, <1>2, <1>3, <2>1
  <2>3. c.no \in c.asked BY <1>4, <2>1, <2>2
  <2>4. ASSUME NEW j \in 1 .. first - 1, gates[j] \notin forms.leaving \cup {0}
        PROVE  gates[j] \in c.asked \cap yes
    <3>1. j \in DOMAIN gates /\ first \in Nat BY <1>1, <2>2
    <3>2. gates[j] \in G \ {0} BY <2>4, <3>1 DEF Methods!ToSet
    <3>3. PICK i \in asking : gates[i] = gates[j] /\ i <= j BY <1>6, <3>1, <3>2
    <3>4. i < first /\ i \in 1 .. first BY <1>1, <1>2, <3>1, <3>3
    <3>5. i \notin noes BY <1>1, <1>2, <1>3, <2>1, <3>1, <3>4
    <3> QED BY <1>4, <2>1, <3>3, <3>4, <3>5 DEF noes
  <2> QED BY <2>1, <2>2, <2>3, <2>4
<1>13. ASSUME 0 \in c.asked
       PROVE  \E i \in DOMAIN gates : gates[i] = 0 /\ ~(Unasked \subseteq GatesBefore(gates, i))
  <2>1. PICK i \in asking : gates[i] = 0 BY <1>4, <1>13
  <2> QED BY <1>1, <1>2, <2>1 DEF Asks
<1> QED BY <1>7, <1>9, <1>10, <1>11, <1>12, <1>13 DEF c

-----------------------------------------------------------------------------
(* Removing a guard.                                                       *)

\* What is left of a page when a guard is removed from it.
LEMMA GuardRemoved ==
  ASSUME NEW p \in Pages, GuardsOK(p), MethodsOK(p), NEW g \in Installed(p)
  PROVE  LET q == RemoveGuard(p, g)  n == Len(p.guards) IN
         /\ q \in Pages /\ GuardsOK(q) /\ MethodsOK(q)
         /\ \A k \in {"navigation", "hasRouter", "made", "form", "leaving", "origR", "origP", "straight", "last"} :
              q[k] = p[k]
         /\ Installed(q) = Installed(p) \ {g} /\ Len(q.guards) = n - 1
         /\ g = p.guards[n] => \A i \in 1 .. n - 1 : q.guards[i] = p.guards[i]
         /\ q.router = p.origR[g] /\ q.push \in {p.push, p.origP[g]}
         /\ p.push # <<>> /\ p.push[1] = g => q.push = p.origP[g]
<1> DEFINE n == Len(p.guards)
           place == CHOOSE i \in DOMAIN p.guards : p.guards[i] = g
           left == SubSeq(p.guards, 1, place - 1) \o SubSeq(p.guards, place + 1, n)
           q == [p EXCEPT !.guards = left, !.push = PutBack(p, g), !.router = p.origR[g]]
<1>1. RemoveGuard(p, g) = q BY DEF RemoveGuard, Methods!RemoveAt
<1>2. p.guards \in Seq(Nat) /\ n \in Nat /\ DOMAIN p.guards = 1 .. n BY DEF Pages
<1>3. place \in 1 .. n /\ p.guards[place] = g BY <1>2 DEF Installed, Methods!ToSet
<1> HIDE DEF place, n
<1>4. /\ left \in Seq(Nat) /\ Len(left) = n - 1
      /\ \A i \in 1 .. n - 1 : left[i] = IF i < place THEN p.guards[i] ELSE p.guards[i + 1]
  <2>1. /\ SubSeq(p.guards, 1, place - 1) \in Seq(Nat)
        /\ Len(SubSeq(p.guards, 1, place - 1)) = place - 1
        /\ \A i \in 1 .. place - 1 : SubSeq(p.guards, 1, place - 1)[i] = p.guards[i]
    BY <1>2, <1>3
  <2>2. /\ SubSeq(p.guards, place + 1, n) \in Seq(Nat)
        /\ Len(SubSeq(p.guards, place + 1, n)) = n - place
        /\ \A i \in 1 .. n - place : SubSeq(p.guards, place + 1, n)[i] = p.guards[place + i]
    BY <1>2, <1>3 DEF n
  <2> HIDE DEF left
  <2>3. left \in Seq(Nat) /\ Len(left) = n - 1 BY <1>2, <1>3, <2>1, <2>2 DEF left
  <2>4. ASSUME NEW i \in 1 .. n - 1
        PROVE  left[i] = IF i < place THEN p.guards[i] ELSE p.guards[i + 1]
    <3>1. CASE i < place
      <4>1. i \in 1 .. place - 1 BY <1>2, <1>3, <3>1
      <4> QED BY <2>1, <2>2, <3>1, <4>1 DEF left
    <3>2. CASE ~(i < place)
      <4>1. i - (place - 1) \in 1 .. n - place /\ place + (i - (place - 1)) = i + 1 /\ i > place - 1
        BY <1>2, <1>3, <3>2
      <4>2. left[i] = SubSeq(p.guards, place + 1, n)[i - (place - 1)]
        BY <1>2, <1>3, <2>1, <2>2, <4>1 DEF left
      <4> QED BY <2>2, <3>2, <4>1, <4>2
    <3> QED BY <3>1, <3>2
  <2> QED BY <2>3, <2>4
<1> HIDE DEF left
<1>5. \A i, j \in 1 .. n : i < j => p.guards[i] < p.guards[j] /\ p.guards[i] # p.guards[j]
  <2>1. \A i \in 1 .. n : p.guards[i] \in Nat BY <1>2
  <2>2. \A i, j \in DOMAIN p.guards : i < j => p.guards[i] < p.guards[j] BY DEF GuardsOK
  <2>3. ASSUME NEW i \in 1 .. n, NEW j \in 1 .. n, i < j
        PROVE  p.guards[i] < p.guards[j] /\ p.guards[i] # p.guards[j]
    <3>1. p.guards[i] < p.guards[j] BY <1>2, <2>2, <2>3
    <3>2. p.guards[i] \in Nat /\ p.guards[j] \in Nat BY <2>1
    <3> QED BY <3>1, <3>2
  <2> QED BY <2>3
<1>6. Installed(p) = {p.guards[i] : i \in 1 .. n} BY <1>2 DEF Installed, Methods!ToSet
<1>7. {left[i] : i \in 1 .. n - 1} = Installed(p) \ {g}
  <2>1. ASSUME NEW i \in 1 .. n - 1 PROVE left[i] \in Installed(p) \ {g}
    <3>1. i \in 1 .. n /\ i + 1 \in 1 .. n BY <1>2
    <3>2. CASE i < place BY <1>3, <1>4, <1>5, <1>6, <3>1, <3>2
    <3>3. CASE ~(i < place)
      <4>1. place < i + 1 /\ left[i] = p.guards[i + 1] BY <1>2, <1>3, <1>4, <3>3
      <4> QED BY <1>3, <1>5, <1>6, <3>1, <4>1
    <3> QED BY <3>2, <3>3
  <2>2. ASSUME NEW h \in Installed(p) \ {g} PROVE \E i \in 1 .. n - 1 : left[i] = h
    <3>1. PICK k \in 1 .. n : p.guards[k] = h BY <1>6
    <3>2. k # place BY <1>3, <3>1
    <3>3. CASE k < place
      <4>1. k \in 1 .. n - 1 BY <1>2, <1>3, <3>3
      <4> QED BY <1>4, <3>1, <3>3, <4>1
    <3>4. CASE k > place
      <4>1. k - 1 \in 1 .. n - 1 /\ ~(k - 1 < place) /\ (k - 1) + 1 = k BY <1>2, <1>3, <3>4
      <4> QED BY <1>4, <3>1, <4>1
    <3> QED BY <1>2, <1>3, <3>2, <3>3, <3>4
  <2> QED BY <2>1, <2>2
<1>8. g \in 1 .. p.made /\ p.made \in 0 .. MaxGuards /\ 1 .. p.made \subseteq 1 .. MaxGuards
  BY FormsAssumption DEF GuardsOK, Pages
<1>9. /\ p.origR[g] \in Seq(Nat) /\ p.origP[g] \in Seq(Nat) /\ p.push \in Seq(Nat)
      /\ PutBack(p, g) \in {p.push, p.origP[g]}
  BY <1>8 DEF PutBack, Pages
<1>10. /\ q \in Pages /\ q.guards = left /\ q.push = PutBack(p, g) /\ q.router = p.origR[g]
       /\ \A k \in {"navigation", "hasRouter", "made", "form", "leaving", "origR", "origP", "straight", "last"} :
            q[k] = p[k]
  BY <1>4, <1>9 DEF Pages
<1>0. /\ q.made = p.made /\ q.origR = p.origR /\ q.origP = p.origP /\ q.form = p.form
      /\ q.leaving = p.leaving /\ q.hasRouter = p.hasRouter /\ q.navigation = p.navigation
  BY DEF Pages
<1> HIDE DEF q
<1>11. Installed(q) = Installed(p) \ {g}
  <2>1. DOMAIN left = 1 .. n - 1 BY <1>2, <1>3, <1>4
  <2> QED BY <1>7, <1>10, <2>1 DEF Installed, Methods!ToSet
<1>12. GuardsOK(q)
  <2>1. ASSUME NEW i \in 1 .. n - 1, NEW j \in 1 .. n - 1, i < j PROVE left[i] < left[j]
    <3>1. /\ i \in 1 .. n /\ i + 1 \in 1 .. n /\ j \in 1 .. n /\ j + 1 \in 1 .. n
          /\ i < j + 1 /\ i + 1 < j + 1
      BY <1>2, <2>1
    <3>2. /\ left[i] = IF i < place THEN p.guards[i] ELSE p.guards[i + 1]
          /\ left[j] = IF j < place THEN p.guards[j] ELSE p.guards[j + 1]
      BY <1>4
    <3>3. i < place \/ ~(j < place) BY <1>2, <1>3, <2>1
    <3> QED BY <1>5, <2>1, <3>1, <3>2, <3>3
  <2>2. DOMAIN left = 1 .. n - 1 BY <1>2, <1>3, <1>4
  <2> QED BY <1>10, <1>11, <2>1, <2>2 DEF GuardsOK
<1>13. MethodsOK(q)
  <2>0. \A orig, method : Wraps(q, orig, method) <=> Wraps(p, orig, method) BY <1>0 DEF Wraps
  <2>1. Wraps(q, q.origR, q.router) /\ Wraps(q, q.origP, q.push)
    BY <1>0, <1>8, <1>9, <1>10, <2>0 DEF MethodsOK
  <2>2. \A h \in 1 .. q.made : Wraps(q, q.origR, q.origR[h]) /\ Wraps(q, q.origP, q.origP[h])
    BY <1>0, <2>0 DEF MethodsOK
  <2>3. /\ ~q.hasRouter => q.router = <<>> /\ \A h \in 1 .. q.made : q.origR[h] = <<>>
        /\ q.navigation => q.push = <<>> /\ \A h \in 1 .. q.made : q.origP[h] = <<>>
    BY <1>0, <1>8, <1>9, <1>10 DEF MethodsOK
  <2>4. ASSUME ~q.navigation PROVE Installed(q) \subseteq Methods!ToSet(q.push)
    <3>1. Installed(p) \subseteq Methods!ToSet(p.push) BY <1>0, <2>4 DEF MethodsOK
    <3>2. CASE p.push # <<>> /\ p.push[1] = g
      <4>0. 1 \in DOMAIN p.push /\ Head(p.push) = g BY <1>9, <3>2
      <4>1. q.push = p.origP[g] BY <1>10, <3>2, <4>0 DEF PutBack
      <4>2. p.origP[p.push[1]] = SubSeq(p.push, 1 + 1, Len(p.push)) BY <4>0 DEF MethodsOK, Wraps
      <4>3. ASSUME NEW h \in Installed(q) PROVE h \in Methods!ToSet(q.push)
        <5>1. PICK i \in DOMAIN p.push : p.push[i] = h BY <1>11, <3>1, <4>3 DEF Methods!ToSet
        <5>2. i # 1 BY <1>11, <3>2, <4>3, <5>1
        <5>3. /\ \A j \in DOMAIN q.push : q.push[j] = p.push[1 + j]
              /\ Len(q.push) = Len(p.push) - 1 /\ q.push \in Seq(Nat)
          <6>1. q.push = SubSeq(p.push, 1 + 1, Len(p.push)) BY <3>2, <4>1, <4>2
          <6>2. LET rest == SubSeq(p.push, 1 + 1, Len(p.push)) IN
                /\ rest \in Seq(Nat) /\ Len(rest) = Len(p.push) - 1
                /\ \A j \in DOMAIN rest : rest[j] = p.push[1 + j] /\ 1 + j \in DOMAIN p.push
            BY <1>9, <4>0, AfterPlace
          <6> QED BY <6>1, <6>2
        <5>4. i - 1 \in DOMAIN q.push /\ 1 + (i - 1) = i
          <6>1. p.push \in Seq(Nat) /\ i \in 1 .. Len(p.push) /\ Len(p.push) \in Nat BY <1>9
          <6> QED BY <5>2, <5>3, <6>1
        <5> QED BY <5>1, <5>3, <5>4 DEF Methods!ToSet
      <4> QED BY <4>3
    <3>3. CASE ~(p.push # <<>> /\ p.push[1] = g)
      BY <1>9, <1>10, <1>11, <3>1, <3>3 DEF PutBack
    <3> QED BY <3>2, <3>3
  <2> QED BY <2>1, <2>2, <2>3, <2>4 DEF MethodsOK
<1>14. ASSUME g = p.guards[n], NEW i \in 1 .. n - 1 PROVE left[i] = p.guards[i]
  <2>1. place = n BY <1>2, <1>3, <1>5, <1>14
  <2> QED BY <1>2, <1>4, <1>14, <2>1
<1>15. p.push # <<>> /\ p.push[1] = g => q.push = p.origP[g] BY <1>9, <1>10 DEF PutBack
<1> QED BY <1>1, <1>4, <1>9, <1>10, <1>11, <1>12, <1>13, <1>14, <1>15 DEF q, n

-----------------------------------------------------------------------------
(* The page is left.                                                       *)

KeptOnPage(p, q) ==
  \A k \in {"navigation", "hasRouter", "made", "leaving", "straight", "last"} : q[k] = p[k]

\* The methods of a page are original ones, or of guards that were told.
Told(p) ==
  /\ Methods!ToSet(p.push) \subseteq p.leaving /\ Methods!ToSet(p.router) \subseteq p.leaving
  /\ \A g \in Installed(p) : /\ Methods!ToSet(p.origP[g]) \subseteq p.leaving
                            /\ Methods!ToSet(p.origR[g]) \subseteq p.leaving

\* What is so after the forms up to f have gone from the page p.
GoneUpTo(p, q, f) ==
  /\ q \in Pages /\ GuardsOK(q) /\ MethodsOK(q) /\ KeptOnPage(p, q)
  /\ \A g \in Installed(q) : q.form[g] > f
  /\ Told(p) => Told(q)

\* One form goes.
LEMMA FormUnmounted ==
  ASSUME NEW p, NEW q, NEW f \in 0 .. LastForm, f > 0, GoneUpTo(p, q, f - 1)
  PROVE  GoneUpTo(p, UnmountForm(q, f), f)
<1> DEFINE Of == {g \in Installed(q) : q.form[g] = f}
           r == UnmountForm(q, f)
<1>1. \A g \in Installed(q) : q.form[g] \in Nat /\ q.form[g] >= f
  <2>1. \A g \in Installed(q) : q.form[g] \in Forms /\ q.form[g] > f - 1 BY DEF GoneUpTo, GuardsOK
  <2> QED BY <2>1, FormsAssumption DEF Forms
<1>2. CASE Of = {}
  <2>1. r = q BY <1>2 DEF UnmountForm
  <2> QED BY <1>1, <1>2, <2>1 DEF GoneUpTo
<1>3. CASE Of # {}
  <2>1. PICK g \in Of : r = RemoveGuard(q, g) BY <1>3 DEF UnmountForm
  <2>2. q \in Pages /\ GuardsOK(q) /\ MethodsOK(q) /\ g \in Installed(q) /\ q.form[g] = f BY <2>1 DEF GoneUpTo
  <2>3. /\ r \in Pages /\ GuardsOK(r) /\ MethodsOK(r)
        /\ \A k \in {"navigation", "hasRouter", "made", "form", "leaving", "origR", "origP", "straight", "last"} :
             r[k] = q[k]
        /\ Installed(r) = Installed(q) \ {g}
        /\ r.router = q.origR[g] /\ r.push \in {q.push, q.origP[g]}
    BY <2>1, <2>2, GuardRemoved
  <2>4. r.form = q.form /\ r.leaving = q.leaving /\ r.origR = q.origR /\ r.origP = q.origP BY <2>3
  <2>5. KeptOnPage(p, r) BY <2>3 DEF GoneUpTo, KeptOnPage
  <2>6. ASSUME NEW h \in Installed(r) PROVE r.form[h] > f
    <3>1. h \in Installed(q) /\ h # g BY <2>3
    <3>2. q.form[h] # f BY <2>2, <3>1 DEF GuardsOK
    <3> QED BY <1>1, <2>4, <3>1, <3>2
  <2>7. Told(q) => Told(r) BY <2>2, <2>3, <2>4 DEF Told
  <2> QED BY <2>3, <2>5, <2>6, <2>7 DEF GoneUpTo
<1> QED BY <1>2, <1>3

\* The forms go one after the other, each from the page that the one before it left.
LEMMA UnmountingExists ==
  ASSUME NEW p
  PROVE  \E h : h = [f \in 0 .. LastForm |-> IF f = 0 THEN p ELSE UnmountForm(h[f - 1], f)]
<1> DEFINE Row(h, n) == h = [f \in 0 .. n |-> IF f = 0 THEN p ELSE UnmountForm(h[f - 1], f)]
           Bad == {n \in Nat : ~\E h : Row(h, n)}
<1>1. Bad = {}
  <2> SUFFICES ASSUME Bad # {} PROVE FALSE OBVIOUS
  <2>1. PICK n \in Bad : \A m \in Bad : n <= m
    <3>1. Bad \in SUBSET Nat OBVIOUS
    <3> QED BY <3>1, Least
  <2>2. n # 0
    <3> DEFINE h == [f \in 0 .. 0 |-> p]
    <3>1. Row(h, 0) OBVIOUS
    <3> QED BY <2>1, <3>1
  <2>3. PICK h : Row(h, n - 1)
    <3>1. n - 1 \in Nat /\ ~(n <= n - 1) BY <2>1, <2>2
    <3>2. n - 1 \notin Bad BY <2>1, <3>1
    <3> QED BY <3>1, <3>2
  <2> DEFINE g == [f \in 0 .. n |-> IF f = n THEN UnmountForm(h[n - 1], n) ELSE h[f]]
  <2>4. \A f \in 0 .. n : g[f] = IF f = 0 THEN p ELSE UnmountForm(g[f - 1], f)
    <3> TAKE f \in 0 .. n
    <3>1. n \in Nat /\ n > 0 BY <2>1, <2>2
    <3>2. CASE f = n
      <4>1. g[f] = UnmountForm(h[n - 1], n) BY <3>1, <3>2
      <4>2. g[f - 1] = h[n - 1] BY <3>1, <3>2
      <4> QED BY <3>1, <3>2, <4>1, <4>2
    <3>3. CASE f # n
      <4>1. f \in 0 .. n - 1 /\ (f # 0 => f - 1 \in 0 .. n /\ f - 1 # n) BY <3>1, <3>3
      <4>2. h[f] = IF f = 0 THEN p ELSE UnmountForm(h[f - 1], f) BY <2>3, <4>1
      <4>3. g[f] = h[f] /\ (f # 0 => g[f - 1] = h[f - 1]) BY <3>3, <4>1
      <4> HIDE DEF g
      <4> QED BY <4>2, <4>3
    <3> QED BY <3>2, <3>3
  <2>5. Row(g, n)
    <3> DEFINE k == [f \in 0 .. n |-> IF f = 0 THEN p ELSE UnmountForm(g[f - 1], f)]
    <3>1. DOMAIN g = 0 .. n /\ DOMAIN k = 0 .. n /\ g = [f \in 0 .. n |-> g[f]] /\ \A f \in 0 .. n : k[f] = g[f] BY <2>4
    <3> QED BY <3>1
  <2> QED BY <2>1, <2>5
<1>2. LastForm \notin Bad /\ LastForm \in Nat BY <1>1, FormsAssumption
<1> QED BY <1>2

\* All forms go.
LEMMA FormsUnmounted ==
  ASSUME NEW p \in Pages, GuardsOK(p), MethodsOK(p)
  PROVE  LET q == UnmountForms(p) IN
         /\ q \in Pages /\ GuardsOK(q) /\ MethodsOK(q) /\ KeptOnPage(p, q)
         /\ q.guards = <<>> /\ (Told(p) => Told(q))
<1> DEFINE after == CHOOSE h : h = [f \in 0 .. LastForm |-> IF f = 0 THEN p ELSE UnmountForm(h[f - 1], f)]
           q == UnmountForms(p)
<1>1. after = [f \in 0 .. LastForm |-> IF f = 0 THEN p ELSE UnmountForm(after[f - 1], f)]
  BY UnmountingExists
<1>2. q = after[LastForm] BY DEF UnmountForms
<1> HIDE DEF after, q
<1> DEFINE Bad == {n \in 0 .. LastForm : ~GoneUpTo(p, after[n], n)}
<1>3. GoneUpTo(p, after[0], 0)
  <2>1. after[0] = p BY <1>1, FormsAssumption
  <2>2. \A g \in Installed(p) : p.form[g] > 0 BY DEF GuardsOK, Forms
  <2> QED BY <2>1, <2>2 DEF GoneUpTo, KeptOnPage
<1>4. Bad = {}
  <2> SUFFICES ASSUME Bad # {} PROVE FALSE OBVIOUS
  <2>1. PICK n \in Bad : \A m \in Bad : n <= m
    <3>1. Bad \in SUBSET Nat OBVIOUS
    <3> QED BY <3>1, Least
  <2>2. n # 0 BY <1>3, <2>1
  <2>3. n - 1 \in 0 .. LastForm /\ ~(n <= n - 1) /\ n \in 0 .. LastForm /\ n > 0
    BY <2>1, <2>2, FormsAssumption
  <2>4. GoneUpTo(p, after[n - 1], n - 1) BY <2>1, <2>3
  <2>5. after[n] = UnmountForm(after[n - 1], n) BY <1>1, <2>2, <2>3
  <2>6. GoneUpTo(p, after[n], n) BY <2>3, <2>4, <2>5, FormUnmounted
  <2> QED BY <2>1, <2>6
<1>5. GoneUpTo(p, q, LastForm)
  <2>1. LastForm \in 0 .. LastForm BY FormsAssumption
  <2> QED BY <1>2, <1>4, <2>1
<1>6. q.guards = <<>>
  <2>1. \A g \in Installed(q) : q.form[g] \in Forms /\ q.form[g] > LastForm
    BY <1>5 DEF GoneUpTo, GuardsOK
  <2>2. Installed(q) = {} BY <2>1, FormsAssumption DEF Forms
  <2>3. q.guards \in Seq(Nat) BY <1>5 DEF GoneUpTo, Pages
  <2>4. \A i \in DOMAIN q.guards : q.guards[i] \in Installed(q) BY DEF Installed, Methods!ToSet
  <2>5. Len(q.guards) \in Nat /\ DOMAIN q.guards = 1 .. Len(q.guards) BY <2>3
  <2>6. Len(q.guards) = 0
    <3>1. Len(q.guards) # 0 => 1 \in DOMAIN q.guards BY <2>5
    <3> QED BY <2>2, <2>4, <3>1
  <2> QED BY <2>3, <2>6
<1> QED BY <1>5, <1>6 DEF GoneUpTo, q
\* A stacked method runs through installed guards and told ones, and each of its guards
\* found a part of it.
LEMMA StackedGuards ==
  ASSUME NEW p \in Pages, NEW method \in Seq(Nat), Stacked(p, method)
  PROVE  /\ Methods!ToSet(method) \subseteq Installed(p) \cup p.leaving
         /\ Installed(p) \subseteq Methods!ToSet(method)
         /\ \A orig : Wraps(p, orig, method) =>
              \A g \in Installed(p) : Methods!ToSet(orig[g]) \subseteq Methods!ToSet(method)
<1> DEFINE n == Len(p.guards)
<1>1. /\ n \in Nat /\ DOMAIN p.guards = 1 .. n /\ DOMAIN method = 1 .. Len(method)
      /\ Len(method) \in Nat /\ n <= Len(method)
  BY DEF Pages, Stacked
<1>2. \A i \in DOMAIN method : IF i <= n THEN method[i] = p.guards[n + 1 - i] ELSE method[i] \in p.leaving
  BY DEF Stacked
<1> HIDE DEF n
<1>3. ASSUME NEW i \in DOMAIN method PROVE method[i] \in Installed(p) \cup p.leaving
  <2>1. CASE i <= n
    <3>1. n + 1 - i \in DOMAIN p.guards BY <1>1, <2>1
    <3> QED BY <1>2, <2>1, <3>1 DEF Installed, Methods!ToSet
  <2>2. CASE ~(i <= n) BY <1>2, <2>2
  <2> QED BY <2>1, <2>2
<1>4. ASSUME NEW g \in Installed(p) PROVE \E i \in DOMAIN method : method[i] = g
  <2>1. PICK j \in 1 .. n : p.guards[j] = g BY <1>1 DEF Installed, Methods!ToSet
  <2>2. n + 1 - j \in DOMAIN method /\ n + 1 - j <= n /\ n + 1 - (n + 1 - j) = j BY <1>1
  <2>3. method[n + 1 - j] = p.guards[n + 1 - (n + 1 - j)] BY <1>2, <2>2
  <2> QED BY <2>1, <2>2, <2>3
<1>5. ASSUME NEW orig, Wraps(p, orig, method), NEW g \in Installed(p)
      PROVE  Methods!ToSet(orig[g]) \subseteq Methods!ToSet(method)
  <2>1. PICK i \in DOMAIN method : method[i] = g BY <1>4
  <2>2. orig[g] = SubSeq(method, i + 1, Len(method)) BY <1>5, <2>1 DEF Wraps
  <2>3. ASSUME NEW j \in DOMAIN orig[g] PROVE \E k \in DOMAIN method : method[k] = orig[g][j]
    <3>1. orig[g][j] = method[i + j] /\ i + j \in DOMAIN method BY <2>2, AfterPlace
    <3> QED BY <3>1
  <2> QED BY <2>3 DEF Methods!ToSet
<1> QED BY <1>3, <1>4, <1>5 DEF Methods!ToSet

\* A page whose guards were all told, and whose forms were saved in order.
LEMMA AllTold ==
  ASSUME NEW p \in Pages, GuardsOK(p), MethodsOK(p), StackOK(p), p.straight,
         Installed(p) \subseteq p.leaving
  PROVE  Told(p)
<1>1. \A g \in Installed(p) : g \in 1 .. p.made BY DEF GuardsOK
<1>2. p.router \in Seq(Nat) /\ p.push \in Seq(Nat) BY DEF Pages
<1>3. Wraps(p, p.origR, p.router) /\ Wraps(p, p.origP, p.push) BY DEF MethodsOK
<1>4. /\ Methods!ToSet(p.router) \subseteq p.leaving
      /\ \A g \in Installed(p) : Methods!ToSet(p.origR[g]) \subseteq p.leaving
  <2>1. CASE p.hasRouter
    <3>1. Stacked(p, p.router) BY <2>1 DEF StackOK
    <3> QED BY <1>2, <1>3, <3>1, StackedGuards
  <2>2. CASE ~p.hasRouter
    <3>1. p.router = <<>> /\ \A g \in Installed(p) : p.origR[g] = <<>> BY <1>1, <2>2 DEF MethodsOK
    <3> QED BY <3>1 DEF Methods!ToSet
  <2> QED BY <2>1, <2>2
<1>5. /\ Methods!ToSet(p.push) \subseteq p.leaving
      /\ \A g \in Installed(p) : Methods!ToSet(p.origP[g]) \subseteq p.leaving
  <2>1. CASE ~p.navigation
    <3>1. Stacked(p, p.push) BY <2>1 DEF StackOK
    <3> QED BY <1>2, <1>3, <3>1, StackedGuards
  <2>2. CASE p.navigation
    <3>1. p.push = <<>> /\ \A g \in Installed(p) : p.origP[g] = <<>> BY <1>1, <2>2 DEF MethodsOK
    <3> QED BY <3>1 DEF Methods!ToSet
  <2> QED BY <2>1, <2>2
<1> QED BY <1>4, <1>5 DEF Told

\* A page after it was left, or after somebody said no: what was answered with yes is
\* kept, and if the forms go, the methods are left to guards that were told.
LEMMA PageLeft ==
  ASSUME forms \in Pages, GuardsOK(forms), MethodsOK(forms), StackOK(forms),
         NEW yes, NEW c, NEW document \in BOOLEAN, NEW torn \in BOOLEAN,
         c.asked \in SUBSET Nat,
         forms.straight /\ c.no = 0 /\ ~document => Unasked \subseteq c.asked \cap yes,
         Leave(yes, c, document, torn)
  PROVE  /\ forms' \in Pages /\ GuardsOK(forms') /\ MethodsOK(forms') /\ StackOK(forms')
         /\ forms'.last = [open |-> Unasked, asked |-> c.asked, left |-> c.no = 0, torn |-> torn]
         /\ forms'.straight => forms.straight \/ document
<1> DEFINE l == [open |-> Unasked, asked |-> c.asked, left |-> c.no = 0, torn |-> torn]
           told == [forms EXCEPT !.leaving = @ \cup ((c.asked \cap yes) \ {0}), !.last = l]
           fresh == [FreshPage(forms.navigation, forms.hasRouter) EXCEPT !.last = told.last]
<1>1. forms' = IF c.no # 0 THEN told ELSE IF document THEN fresh ELSE UnmountForms(told) BY DEF Leave
<1>2. l \in [open : SUBSET Nat, asked : SUBSET Nat, left : BOOLEAN, torn : BOOLEAN]
  <2>1. Unasked \subseteq Nat BY DEF Unasked, Installed, Methods!ToSet, Pages
  <2> QED BY <2>1
<1> HIDE DEF l
<1>3. /\ told \in Pages /\ told.last = l /\ told.leaving = forms.leaving \cup ((c.asked \cap yes) \ {0})
      /\ told.guards = forms.guards /\ told.made = forms.made /\ told.form = forms.form
      /\ told.origR = forms.origR /\ told.origP = forms.origP /\ told.router = forms.router
      /\ told.push = forms.push /\ told.straight = forms.straight
      /\ told.navigation = forms.navigation /\ told.hasRouter = forms.hasRouter
  BY <1>2 DEF Pages
<1>4. fresh \in Pages /\ fresh.last = l /\ fresh.guards = <<>> /\ fresh.router = <<>> /\ fresh.push = <<>>
      /\ fresh.made = 0 /\ fresh.leaving = {}
  <2>1. FreshPage(forms.navigation, forms.hasRouter) \in Pages
    <3>1. forms.navigation \in BOOLEAN /\ forms.hasRouter \in BOOLEAN BY DEF Pages
    <3>2. 0 \in 0 .. MaxGuards /\ <<>> \in Seq(Nat) BY FormsAssumption
    <3>3. /\ [g \in 1 .. MaxGuards |-> 0] \in [1 .. MaxGuards -> Nat]
          /\ [g \in 1 .. MaxGuards |-> <<>>] \in [1 .. MaxGuards -> Seq(Nat)]
      BY <3>2
    <3> QED BY <3>1, <3>2, <3>3 DEF FreshPage, Pages
  <2> QED BY <1>2, <1>3, <2>1 DEF FreshPage, Pages
<1>5. Installed(told) = Installed(forms) BY <1>3 DEF Installed
<1>6. GuardsOK(told) BY <1>3, <1>5 DEF GuardsOK
<1>7. MethodsOK(told)
  <2>1. \A orig, method : Wraps(told, orig, method) <=> Wraps(forms, orig, method) BY <1>3 DEF Wraps
  <2> QED BY <1>3, <1>5, <2>1 DEF MethodsOK
<1>8. StackOK(told)
  <2>1. \A method : Stacked(forms, method) => Stacked(told, method) BY <1>3 DEF Stacked
  <2> QED BY <1>3, <2>1 DEF StackOK
<1> HIDE DEF told, fresh
<1>9. CASE c.no # 0 BY <1>1, <1>3, <1>6, <1>7, <1>8, <1>9 DEF l
<1>10. CASE c.no = 0 /\ document
  <2>1. forms' = fresh BY <1>1, <1>10
  <2>2. Installed(fresh) = {} BY <1>4 DEF Installed, Methods!ToSet
  <2>3. GuardsOK(fresh) BY <1>4, <2>2 DEF GuardsOK
  <2>4. MethodsOK(fresh) BY <1>4, <2>2 DEF MethodsOK, Wraps
  <2>5. StackOK(fresh) BY <1>4 DEF StackOK, Stacked
  <2> QED BY <1>4, <1>10, <2>1, <2>3, <2>4, <2>5 DEF l
<1>11. CASE c.no = 0 /\ ~document
  <2> DEFINE q == UnmountForms(told)
  <2>1. /\ q \in Pages /\ GuardsOK(q) /\ MethodsOK(q) /\ KeptOnPage(told, q)
        /\ q.guards = <<>> /\ (Told(told) => Told(q))
    BY <1>3, <1>6, <1>7, FormsUnmounted
  <2> HIDE DEF q
  <2>2. /\ q.last = l /\ q.straight = forms.straight /\ q.leaving = told.leaving
        /\ q.navigation = forms.navigation /\ q.hasRouter = forms.hasRouter
    BY <1>3, <2>1 DEF KeptOnPage
  <2>3. StackOK(q)
    <3> SUFFICES ASSUME forms.straight PROVE (q.hasRouter => Stacked(q, q.router)) /\ (~q.navigation => Stacked(q, q.push))
      BY <2>2 DEF StackOK
    <3>1. Installed(forms) \subseteq told.leaving
      <4>1. 0 \notin Unasked BY DEF Unasked, GuardsOK
      <4> QED BY <1>3, <1>11, <4>1 DEF Unasked
    <3>2. Told(q) BY <1>3, <1>5, <1>6, <1>7, <1>8, <2>1, <3>1, AllTold
    <3>3. Len(q.guards) = 0 BY <2>1
    <3>4. q.router \in Seq(Nat) /\ q.push \in Seq(Nat) BY <2>1 DEF Pages
    <3>5. \A i \in DOMAIN q.router : i > 0 /\ q.router[i] \in q.leaving BY <3>2, <3>4 DEF Told, Methods!ToSet
    <3>6. \A i \in DOMAIN q.push : i > 0 /\ q.push[i] \in q.leaving BY <3>2, <3>4 DEF Told, Methods!ToSet
    <3> QED BY <3>3, <3>4, <3>5, <3>6 DEF Stacked
  <2> QED BY <1>1, <1>11, <2>1, <2>2, <2>3 DEF l, q
<1> QED BY <1>9, <1>10, <1>11
\* A form gets unsaved changes.
LEMMA FormInstalled ==
  ASSUME forms \in Pages, GuardsOK(forms), MethodsOK(forms), StackOK(forms),
         NEW f \in Forms, Install(f)
  PROVE  /\ forms' \in Pages /\ GuardsOK(forms') /\ MethodsOK(forms') /\ StackOK(forms')
         /\ forms'.last = forms.last /\ forms'.straight = forms.straight
<1> DEFINE g == forms.made + 1  n == Len(forms.guards)
<1>1. /\ g \in 1 .. MaxGuards /\ g \in Nat /\ f \in Nat /\ g - 1 \in Nat
      /\ \A h \in Installed(forms) : forms.form[h] # f
  BY FormsAssumption DEF Install, Pages, Forms
<1>2. /\ forms.guards \in Seq(Nat) /\ n \in Nat /\ DOMAIN forms.guards = 1 .. n
      /\ forms.router \in Seq(Nat) /\ forms.push \in Seq(Nat)
  BY DEF Pages
<1>3. /\ forms'.made = g /\ forms'.guards = Append(forms.guards, g)
      /\ forms'.form = [forms.form EXCEPT ![g] = f]
      /\ forms'.origR = [forms.origR EXCEPT ![g] = forms.router]
      /\ forms'.origP = [forms.origP EXCEPT ![g] = forms.push]
      /\ forms'.router = IF forms.hasRouter THEN <<g>> \o forms.router ELSE forms.router
      /\ forms'.push = IF forms.navigation THEN forms.push ELSE <<g>> \o forms.push
      /\ forms'.navigation = forms.navigation /\ forms'.hasRouter = forms.hasRouter
      /\ forms'.leaving = forms.leaving /\ forms'.straight = forms.straight /\ forms'.last = forms.last
  BY DEF Install, Pages
<1>4. forms' \in Pages
  <2>1. /\ Append(forms.guards, g) \in Seq(Nat) /\ <<g>> \o forms.router \in Seq(Nat)
        /\ <<g>> \o forms.push \in Seq(Nat)
    BY <1>1, <1>2
  <2>2. /\ [forms.form EXCEPT ![g] = f] \in [1 .. MaxGuards -> Nat]
        /\ [forms.origR EXCEPT ![g] = forms.router] \in [1 .. MaxGuards -> Seq(Nat)]
        /\ [forms.origP EXCEPT ![g] = forms.push] \in [1 .. MaxGuards -> Seq(Nat)]
    BY <1>1, <1>2 DEF Pages
  <2>3. g \in 0 .. MaxGuards BY <1>1
  <2>4. (IF forms.hasRouter THEN <<g>> \o forms.router ELSE forms.router) \in Seq(Nat) BY <1>2, <2>1
  <2>5. (IF forms.navigation THEN forms.push ELSE <<g>> \o forms.push) \in Seq(Nat) BY <1>2, <2>1
  <2> HIDE DEF g
  <2>6. forms' = [forms EXCEPT !.made = g, !.form = [forms.form EXCEPT ![g] = f],
                    !.guards = Append(forms.guards, g),
                    !.origR = [forms.origR EXCEPT ![g] = forms.router],
                    !.router = IF forms.hasRouter THEN <<g>> \o forms.router ELSE forms.router,
                    !.origP = [forms.origP EXCEPT ![g] = forms.push],
                    !.push = IF forms.navigation THEN forms.push ELSE <<g>> \o forms.push]
    BY DEF Install, Pages, g
  <2> QED BY <2>1, <2>2, <2>3, <2>4, <2>5, <2>6 DEF Pages
<1>5. \A h \in 1 .. forms.made : /\ h # g /\ h \in 1 .. g /\ h \in 1 .. MaxGuards
                                /\ forms'.origR[h] = forms.origR[h] /\ forms'.origP[h] = forms.origP[h]
                                /\ forms'.form[h] = forms.form[h]
  <2> SUFFICES ASSUME NEW h \in 1 .. forms.made
               PROVE  /\ h # g /\ h \in 1 .. g /\ h \in 1 .. MaxGuards
                      /\ forms'.origR[h] = forms.origR[h] /\ forms'.origP[h] = forms.origP[h]
                      /\ forms'.form[h] = forms.form[h]
    OBVIOUS
  <2>1. forms.made \in Nat BY DEF Pages
  <2>2. h # g /\ h \in 1 .. g /\ h \in 1 .. MaxGuards
    <3>1. MaxGuards \in Nat /\ forms.made + 1 <= MaxGuards /\ h \in Nat /\ h >= 1 /\ h <= forms.made
      BY <1>1, <2>1, FormsAssumption
    <3> QED BY <2>1, <3>1
  <2>3. /\ forms.origR \in [1 .. MaxGuards -> Seq(Nat)] /\ forms.origP \in [1 .. MaxGuards -> Seq(Nat)]
        /\ forms.form \in [1 .. MaxGuards -> Nat]
    BY DEF Pages
  <2> HIDE DEF g
  <2> QED BY <1>3, <2>2, <2>3
<1>6. forms'.origR[g] = forms.router /\ forms'.origP[g] = forms.push /\ forms'.form[g] = f
  BY <1>1, <1>3 DEF Pages
<1> HIDE DEF g, n
<1>7. /\ Len(forms'.guards) = n + 1 /\ DOMAIN forms'.guards = 1 .. n + 1 /\ forms'.guards[n + 1] = g
      /\ \A i \in 1 .. n : forms'.guards[i] = forms.guards[i]
  BY <1>1, <1>2, <1>3 DEF n
<1>8. Installed(forms') = Installed(forms) \cup {g}
  <2>1. Installed(forms') = {forms'.guards[i] : i \in 1 .. n + 1} BY <1>7 DEF Installed, Methods!ToSet
  <2>2. Installed(forms) = {forms.guards[i] : i \in 1 .. n} BY <1>2 DEF Installed, Methods!ToSet
  <2>3. \A i \in 1 .. n + 1 : forms'.guards[i] \in Installed(forms) \cup {g}
    <3>1. \A i \in 1 .. n + 1 : i \in 1 .. n \/ i = n + 1 BY <1>2
    <3> QED BY <1>7, <2>2, <3>1
  <2>4. \A i \in 1 .. n : i \in 1 .. n + 1 BY <1>2
  <2>5. n + 1 \in 1 .. n + 1 BY <1>2
  <2> QED BY <1>7, <2>1, <2>2, <2>3, <2>4, <2>5
<1>9. \A h \in Installed(forms) : h \in 1 .. forms.made /\ h < g /\ forms.form[h] \in Forms
  BY DEF GuardsOK, Pages, g
<1>10. GuardsOK(forms')
  <2>1. ASSUME NEW i \in 1 .. n + 1, NEW j \in 1 .. n + 1, i < j PROVE forms'.guards[i] < forms'.guards[j]
    <3>1. i \in 1 .. n /\ forms'.guards[i] = forms.guards[i] BY <1>2, <1>7, <2>1
    <3>2. CASE j = n + 1
      <4>1. forms.guards[i] \in Installed(forms) BY <1>2, <3>1 DEF Installed, Methods!ToSet
      <4> QED BY <1>7, <1>9, <3>1, <3>2, <4>1
    <3>3. CASE j # n + 1
      <4>1. j \in 1 .. n BY <1>2, <3>3
      <4>2. \A a, b \in DOMAIN forms.guards : a < b => forms.guards[a] < forms.guards[b] BY DEF GuardsOK
      <4> QED BY <1>2, <1>7, <2>1, <3>1, <4>1, <4>2
    <3> QED BY <3>2, <3>3
  <2>2. \A h \in Installed(forms') : h \in 1 .. forms'.made /\ forms'.form[h] \in Forms
    BY <1>1, <1>3, <1>5, <1>6, <1>8, <1>9
  <2>3. ASSUME NEW h \in Installed(forms'), NEW k \in Installed(forms'), forms'.form[h] = forms'.form[k]
        PROVE  h = k
    <3>1. \A x \in Installed(forms) : forms'.form[x] = forms.form[x] /\ forms.form[x] # f BY <1>1, <1>5, <1>9
    <3>2. \A x, y \in Installed(forms) : forms.form[x] = forms.form[y] => x = y BY DEF GuardsOK
    <3> QED BY <1>6, <1>8, <2>3, <3>1, <3>2
  <2>4. 0 \notin forms'.leaving BY <1>3 DEF GuardsOK
  <2> QED BY <1>7, <2>1, <2>2, <2>3, <2>4 DEF GuardsOK
<1>11. ASSUME NEW orig, NEW orig2, NEW method \in Seq(Nat), Wraps(forms, orig, method),
              \A h \in 1 .. forms.made : orig2[h] = orig[h], orig2[g] = method
       PROVE  Wraps(forms', orig2, method) /\ Wraps(forms', orig2, <<g>> \o method)
  <2>1. \A h \in 1 .. forms.made : h \in 1 .. forms'.made BY <1>3, <1>5
  <2>2. Wraps(forms', orig2, method) BY <1>11, <2>1 DEF Wraps
  <2> DEFINE longer == <<g>> \o method
  <2>3. /\ DOMAIN longer = 1 .. Len(method) + 1 /\ Len(longer) = Len(method) + 1 /\ longer[1] = g
        /\ \A i \in 1 .. Len(method) : longer[i + 1] = method[i]
        /\ longer \in Seq(Nat) /\ Len(method) \in Nat
    BY <1>1
  <2> HIDE DEF longer
  <2>4. ASSUME NEW i \in 1 .. Len(method) + 1
        PROVE  /\ SubSeq(longer, i + 1, Len(longer)) =
                     IF i = 1 THEN method ELSE SubSeq(method, (i - 1) + 1, Len(method))
    <3> DEFINE a == SubSeq(longer, i + 1, Len(longer))
               b == IF i = 1 THEN method ELSE SubSeq(method, (i - 1) + 1, Len(method))
    <3>1. a \in Seq(Nat) /\ Len(a) = Len(method) + 1 - i /\ \A k \in 1 .. Len(a) : a[k] = longer[i + k]
      <4>1. i + 1 \in 1 .. Len(longer) + 1 /\ Len(longer) \in i + 1 - 1 .. Len(longer) BY <2>3
      <4>2. /\ a \in Seq(Nat) /\ Len(a) = Len(longer) - (i + 1) + 1
            /\ \A k \in 1 .. Len(longer) - (i + 1) + 1 : a[k] = longer[(i + 1) + k - 1]
        BY <2>3, <4>1, SubSeqProperties
      <4> HIDE DEF a
      <4>3. Len(longer) - (i + 1) + 1 = Len(method) + 1 - i BY <2>3
      <4>4. \A k \in 1 .. Len(a) : (i + 1) + k - 1 = i + k BY <2>3, <4>2
      <4> QED BY <4>2, <4>3, <4>4
    <3>2. b \in Seq(Nat) /\ Len(b) = Len(method) + 1 - i /\ \A k \in 1 .. Len(b) : b[k] = method[i - 1 + k]
      <4>1. CASE i = 1 BY <2>3, <4>1
      <4>2. CASE i # 1
        <5>1. i - 1 \in 1 .. Len(method) BY <2>3, <4>2
        <5> QED BY <2>3, <4>2, <5>1
      <4> QED BY <4>1, <4>2
    <3> HIDE DEF a, b
    <3>3. ASSUME NEW k \in 1 .. Len(a) PROVE a[k] = b[k]
      <4>1. i - 1 + k \in 1 .. Len(method) /\ (i - 1 + k) + 1 = i + k
        <5>1. i \in Nat /\ i >= 1 /\ k \in Nat /\ k >= 1 /\ Len(method) \in Nat BY <2>3
        <5>2. k <= Len(method) + 1 - i BY <3>1, <5>1
        <5> QED BY <5>1, <5>2
      <4> QED BY <2>3, <3>1, <3>2, <4>1
    <3>4. a = b BY <3>1, <3>2, <3>3, SeqEqual
    <3> QED BY <3>4 DEF a, b
  <2>5. ASSUME NEW i \in 1 .. Len(method) + 1
        PROVE  longer[i] \in 1 .. forms'.made /\ orig2[longer[i]] = SubSeq(longer, i + 1, Len(longer))
    <3>1. CASE i = 1
      <4>1. SubSeq(longer, i + 1, Len(longer)) = method BY <2>4, <3>1
      <4>2. longer[i] = g /\ g \in 1 .. forms'.made BY <1>1, <1>3, <2>3, <3>1
      <4> QED BY <1>11, <4>1, <4>2
    <3>2. CASE i # 1
      <4>1. i - 1 \in 1 .. Len(method) /\ (i - 1) + 1 = i /\ DOMAIN method = 1 .. Len(method) BY <2>3, <3>2
      <4>2. longer[i] = method[i - 1] BY <2>3, <4>1
      <4>3. method[i - 1] \in 1 .. forms.made /\ orig[method[i - 1]] = SubSeq(method, (i - 1) + 1, Len(method))
        BY <1>11, <4>1 DEF Wraps
      <4> QED BY <1>11, <2>1, <2>4, <3>2, <4>2, <4>3
    <3> QED BY <3>1, <3>2
  <2> QED BY <2>2, <2>3, <2>5 DEF Wraps, longer
<1>12. MethodsOK(forms')
  <2>1. /\ Wraps(forms, forms.origR, forms.router) /\ Wraps(forms, forms.origP, forms.push)
        /\ \A h \in 1 .. forms.made : /\ Wraps(forms, forms.origR, forms.origR[h])
                                      /\ Wraps(forms, forms.origP, forms.origP[h])
    BY DEF MethodsOK
  <2>2. Wraps(forms', forms'.origR, forms'.router) /\ Wraps(forms', forms'.origR, forms.router)
    <3> DEFINE method == forms.router  orig == forms.origR  orig2 == forms'.origR
    <3>1. /\ method \in Seq(Nat) /\ Wraps(forms, orig, method) /\ orig2[g] = method
          /\ \A h \in 1 .. forms.made : orig2[h] = orig[h]
      BY <1>2, <1>5, <1>6, <2>1
    <3>2. forms'.router = method \/ forms'.router = <<g>> \o method BY <1>3
    <3> HIDE DEF method, orig, orig2
    <3>3. Wraps(forms', orig2, method) /\ Wraps(forms', orig2, <<g>> \o method) BY <1>11, <3>1
    <3> QED BY <3>2, <3>3 DEF method, orig2
  <2>3. Wraps(forms', forms'.origP, forms'.push) /\ Wraps(forms', forms'.origP, forms.push)
    <3> DEFINE method == forms.push  orig == forms.origP  orig2 == forms'.origP
    <3>1. /\ method \in Seq(Nat) /\ Wraps(forms, orig, method) /\ orig2[g] = method
          /\ \A h \in 1 .. forms.made : orig2[h] = orig[h]
      BY <1>2, <1>5, <1>6, <2>1
    <3>2. forms'.push = method \/ forms'.push = <<g>> \o method BY <1>3
    <3> HIDE DEF method, orig, orig2
    <3>3. Wraps(forms', orig2, method) /\ Wraps(forms', orig2, <<g>> \o method) BY <1>11, <3>1
    <3> QED BY <3>2, <3>3 DEF method, orig2
  <2>4. ASSUME NEW h \in 1 .. forms'.made
        PROVE  Wraps(forms', forms'.origR, forms'.origR[h]) /\ Wraps(forms', forms'.origP, forms'.origP[h])
    <3>1. CASE h = g BY <1>6, <2>2, <2>3, <3>1
    <3>2. CASE h # g
      <4>1. h \in 1 .. forms.made BY <1>1, <1>3, <3>2 DEF g, Pages
      <4>2. Wraps(forms, forms.origR, forms'.origR[h]) /\ Wraps(forms, forms.origP, forms'.origP[h])
        BY <1>5, <2>1, <4>1
      <4>3. \A k \in 1 .. forms.made : k \in 1 .. forms'.made BY <1>3, <1>5
      <4> QED BY <1>5, <4>2, <4>3 DEF Wraps
    <3> QED BY <3>1, <3>2
  <2>5. \A h \in 1 .. forms'.made : h = g \/ h \in 1 .. forms.made BY <1>1, <1>3 DEF g, Pages
  <2>6. ~forms'.hasRouter => forms'.router = <<>> /\ \A h \in 1 .. forms'.made : forms'.origR[h] = <<>>
    BY <1>3, <1>5, <1>6, <2>5 DEF MethodsOK
  <2>7. forms'.navigation => forms'.push = <<>> /\ \A h \in 1 .. forms'.made : forms'.origP[h] = <<>>
    BY <1>3, <1>5, <1>6, <2>5 DEF MethodsOK
  <2>8. ASSUME ~forms'.navigation PROVE Installed(forms') \subseteq Methods!ToSet(forms'.push)
    <3>1. Installed(forms) \subseteq Methods!ToSet(forms.push) BY <1>3, <2>8 DEF MethodsOK
    <3>2. forms'.push = <<g>> \o forms.push BY <1>3, <2>8
    <3>3. /\ DOMAIN forms'.push = 1 .. Len(forms.push) + 1 /\ forms'.push[1] = g
          /\ \A i \in DOMAIN forms.push : i + 1 \in 1 .. Len(forms.push) + 1 /\ forms'.push[i + 1] = forms.push[i]
          /\ Len(forms.push) \in Nat
      <4> DEFINE old == forms.push  new == <<g>> \o old
      <4>1. old \in Seq(Nat) /\ g \in Nat BY <1>1, <1>2
      <4> HIDE DEF old
      <4>2. /\ DOMAIN new = 1 .. Len(old) + 1 /\ new[1] = g /\ Len(old) \in Nat
            /\ \A i \in DOMAIN old : i + 1 \in 1 .. Len(old) + 1 /\ new[i + 1] = old[i]
        BY <4>1
      <4> QED BY <3>2, <4>2 DEF old
    <3> QED BY <1>8, <3>1, <3>3 DEF Methods!ToSet
  <2> QED BY <2>2, <2>3, <2>4, <2>6, <2>7, <2>8 DEF MethodsOK
<1>13. ASSUME NEW method \in Seq(Nat), Stacked(forms, method) PROVE Stacked(forms', <<g>> \o method)
  <2> DEFINE longer == <<g>> \o method
  <2>1. /\ DOMAIN longer = 1 .. Len(method) + 1 /\ Len(longer) = Len(method) + 1 /\ longer[1] = g
        /\ \A i \in 1 .. Len(method) : longer[i + 1] = method[i]
        /\ DOMAIN method = 1 .. Len(method) /\ Len(method) \in Nat
    BY <1>1
  <2> HIDE DEF longer
  <2>2. /\ n <= Len(method)
        /\ \A i \in DOMAIN method : IF i <= n THEN method[i] = forms.guards[n + 1 - i] ELSE method[i] \in forms.leaving
    BY <1>13 DEF Stacked, n
  <2>3. ASSUME NEW i \in 1 .. Len(method) + 1
        PROVE  IF i <= n + 1 THEN longer[i] = forms'.guards[n + 1 + 1 - i] ELSE longer[i] \in forms'.leaving
    <3>1. CASE i = 1 BY <1>2, <1>7, <2>1, <3>1
    <3>2. CASE i # 1
      <4>1. i - 1 \in 1 .. Len(method) /\ (i - 1) + 1 = i BY <2>1, <3>2
      <4>2. longer[i] = method[i - 1] BY <2>1, <4>1
      <4>3. CASE i <= n + 1
        <5>1. i - 1 <= n /\ n + 1 - (i - 1) \in 1 .. n /\ n + 1 + 1 - i = n + 1 - (i - 1) BY <1>2, <4>1, <4>3
        <5>2. method[i - 1] = forms.guards[n + 1 - (i - 1)] BY <2>1, <2>2, <4>1, <5>1
        <5> QED BY <1>7, <4>2, <4>3, <5>1, <5>2
      <4>4. CASE ~(i <= n + 1)
        <5>1. ~(i - 1 <= n) BY <1>2, <4>1, <4>4
        <5> QED BY <1>3, <2>1, <2>2, <4>1, <4>2, <4>4, <5>1
      <4> QED BY <4>3, <4>4
    <3> QED BY <3>1, <3>2
  <2>4. n + 1 <= Len(method) + 1 BY <1>2, <2>1, <2>2
  <2> QED BY <1>7, <2>1, <2>3, <2>4 DEF Stacked, longer
<1>14. StackOK(forms')
  <2> SUFFICES ASSUME forms'.straight
               PROVE  /\ forms'.hasRouter => Stacked(forms', forms'.router)
                      /\ ~forms'.navigation => Stacked(forms', forms'.push)
    BY DEF StackOK
  <2>1. /\ forms.hasRouter => Stacked(forms, forms.router)
        /\ ~forms.navigation => Stacked(forms, forms.push)
    BY <1>3 DEF StackOK
  <2>2. forms.hasRouter => Stacked(forms', <<g>> \o forms.router) BY <1>2, <1>13, <2>1
  <2>3. ~forms.navigation => Stacked(forms', <<g>> \o forms.push) BY <1>2, <1>13, <2>1
  <2> QED BY <1>3, <2>2, <2>3
<1> QED BY <1>3, <1>4, <1>10, <1>12, <1>14
\* A form is saved.
LEMMA FormSaved ==
  ASSUME forms \in Pages, GuardsOK(forms), MethodsOK(forms), StackOK(forms),
         NEW g \in Installed(forms), SaveForm(g)
  PROVE  /\ forms' \in Pages /\ GuardsOK(forms') /\ MethodsOK(forms') /\ StackOK(forms')
         /\ forms'.last = forms.last /\ (forms'.straight => forms.straight)
<1> DEFINE n == Len(forms.guards)
           q == RemoveGuard(forms, g)
<1>1. /\ q \in Pages /\ GuardsOK(q) /\ MethodsOK(q)
      /\ \A k \in {"navigation", "hasRouter", "made", "form", "leaving", "origR", "origP", "straight", "last"} :
           q[k] = forms[k]
      /\ Len(q.guards) = n - 1
      /\ g = forms.guards[n] => \A i \in 1 .. n - 1 : q.guards[i] = forms.guards[i]
      /\ q.router = forms.origR[g] /\ q.push \in {forms.push, forms.origP[g]}
      /\ forms.push # <<>> /\ forms.push[1] = g => q.push = forms.origP[g]
  BY GuardRemoved
<1>2. /\ n \in Nat /\ forms.router \in Seq(Nat) /\ forms.push \in Seq(Nat) /\ DOMAIN forms.guards = 1 .. n
  BY DEF Pages
<1>3. forms' = [q EXCEPT !.straight = q.straight /\ g = forms.guards[n]] BY DEF SaveForm, Methods!Last
<1> HIDE DEF q, n
<1>4. (q.straight /\ g = forms.guards[n]) \in BOOLEAN BY <1>1 DEF Pages
<1>5. /\ forms' \in Pages /\ forms'.straight = (q.straight /\ g = forms.guards[n])
      /\ forms'.guards = q.guards /\ forms'.made = q.made /\ forms'.form = q.form
      /\ forms'.origR = q.origR /\ forms'.origP = q.origP /\ forms'.router = q.router
      /\ forms'.push = q.push /\ forms'.last = q.last /\ forms'.leaving = q.leaving
      /\ forms'.navigation = q.navigation /\ forms'.hasRouter = q.hasRouter
  BY <1>1, <1>3, <1>4 DEF Pages
<1>6. Installed(forms') = Installed(q) BY <1>5 DEF Installed
<1>7. GuardsOK(forms') BY <1>1, <1>5, <1>6 DEF GuardsOK
<1>8. MethodsOK(forms')
  <2>1. \A orig, method : Wraps(forms', orig, method) <=> Wraps(q, orig, method) BY <1>5 DEF Wraps
  <2> QED BY <1>1, <1>5, <1>6, <2>1 DEF MethodsOK
<1>9. /\ q.leaving = forms.leaving /\ q.straight = forms.straight /\ q.hasRouter = forms.hasRouter
      /\ q.navigation = forms.navigation /\ q.last = forms.last
  BY <1>1
<1>10. ASSUME g = forms.guards[n], NEW orig, NEW method \in Seq(Nat),
              Stacked(forms, method), Wraps(forms, orig, method)
       PROVE  method # <<>> /\ method[1] = g /\ Stacked(forms', orig[g])
  <2>1. n >= 1
    <3>1. PICK i \in 1 .. n : forms.guards[i] = g BY <1>2 DEF Installed, Methods!ToSet
    <3> QED BY <1>2, <3>1
  <2>2. /\ n <= Len(method) /\ DOMAIN method = 1 .. Len(method) /\ Len(method) \in Nat
        /\ \A i \in DOMAIN method : IF i <= n THEN method[i] = forms.guards[n + 1 - i] ELSE method[i] \in forms.leaving
    BY <1>10 DEF Stacked, n
  <2>3. 1 \in DOMAIN method /\ 1 <= n /\ n + 1 - 1 = n BY <1>2, <2>1, <2>2
  <2>4. method[1] = g BY <1>10, <2>2, <2>3
  <2>5. orig[g] = SubSeq(method, 2, Len(method))
    <3>1. orig[method[1]] = SubSeq(method, 1 + 1, Len(method)) BY <1>10, <2>3 DEF Wraps
    <3>2. 1 + 1 = 2 OBVIOUS
    <3> QED BY <2>4, <3>1, <3>2
  <2> DEFINE rest == SubSeq(method, 2, Len(method))
  <2>6. /\ Len(rest) = Len(method) - 1 /\ DOMAIN rest = 1 .. Len(method) - 1
        /\ \A i \in 1 .. Len(method) - 1 : rest[i] = method[i + 1]
    BY <2>2, <2>3
  <2> HIDE DEF rest
  <2>7. ASSUME NEW i \in 1 .. Len(method) - 1
        PROVE  IF i <= n - 1 THEN rest[i] = forms'.guards[n - 1 + 1 - i] ELSE rest[i] \in forms'.leaving
    <3>1. i + 1 \in DOMAIN method /\ rest[i] = method[i + 1] BY <2>2, <2>6
    <3>2. CASE i <= n - 1
      <4>1. i + 1 <= n /\ n + 1 - (i + 1) = n - i /\ n - i \in 1 .. n - 1 /\ n - 1 + 1 - i = n - i
        BY <1>2, <3>2
      <4>2. method[i + 1] = forms.guards[n - i] BY <2>2, <3>1, <4>1
      <4>3. forms'.guards[n - i] = forms.guards[n - i] BY <1>1, <1>5, <1>10, <4>1
      <4> QED BY <3>1, <3>2, <4>1, <4>2, <4>3
    <3>3. CASE ~(i <= n - 1)
      <4>1. ~(i + 1 <= n) BY <1>2, <3>3
      <4>2. method[i + 1] \in forms.leaving BY <2>2, <3>1, <4>1
      <4> QED BY <1>5, <1>9, <3>1, <3>3, <4>2
    <3> QED BY <3>2, <3>3
  <2>8. n - 1 <= Len(method) - 1 BY <1>2, <2>2
  <2>9. Stacked(forms', rest) BY <1>1, <1>5, <2>6, <2>7, <2>8 DEF Stacked
  <2> QED BY <2>3, <2>4, <2>5, <2>9 DEF rest
<1>11. StackOK(forms')
  <2> SUFFICES ASSUME forms'.straight
               PROVE  /\ forms'.hasRouter => Stacked(forms', forms'.router)
                      /\ ~forms'.navigation => Stacked(forms', forms'.push)
    BY DEF StackOK
  <2>1. forms.straight /\ g = forms.guards[n] BY <1>5, <1>9
  <2>2. Wraps(forms, forms.origR, forms.router) /\ Wraps(forms, forms.origP, forms.push) BY DEF MethodsOK
  <2>3. forms.hasRouter => Stacked(forms', forms.origR[g])
    <3>1. forms.hasRouter => Stacked(forms, forms.router) BY <2>1 DEF StackOK
    <3> QED BY <1>2, <1>10, <2>1, <2>2, <3>1
  <2>4. ~forms.navigation => forms.push # <<>> /\ forms.push[1] = g /\ Stacked(forms', forms.origP[g])
    <3>1. ~forms.navigation => Stacked(forms, forms.push) BY <2>1 DEF StackOK
    <3> QED BY <1>2, <1>10, <2>1, <2>2, <3>1
  <2> QED BY <1>1, <1>5, <1>9, <2>3, <2>4
<1> QED BY <1>5, <1>7, <1>8, <1>9, <1>11

-----------------------------------------------------------------------------
(* Who is asked.                                                           *)

\* A call that runs through every installed guard.
LEMMA AllConsulted ==
  ASSUME forms \in Pages, GuardsOK(forms), NEW yes,
         NEW gates \in Seq(Nat), 0 \notin Methods!ToSet(gates), Installed(forms) \subseteq Methods!ToSet(gates)
  PROVE  LET c == Consult(yes, gates) IN
         /\ c.asked \in SUBSET Nat /\ c.asked \subseteq Methods!ToSet(gates) \ forms.leaving
         /\ c.no \in Nat /\ (c.no = 0 => Unasked \subseteq c.asked \cap yes)
         /\ Unasked # {} => c.asked # {}
<1> DEFINE c == Consult(yes, gates)
<1>1. 0 \notin forms.leaving BY DEF GuardsOK
<1>2. /\ c.asked \subseteq Methods!ToSet(gates) \ forms.leaving /\ c.no \in Int
      /\ c.no < 0 => 0 \in Methods!ToSet(gates)
      /\ c.no = 0 => (Methods!ToSet(gates) \ forms.leaving) \ {0} \subseteq c.asked \cap yes
      /\ (Methods!ToSet(gates) \ forms.leaving) \ {0} # {} => c.asked # {}
  BY <1>1, Consulted
<1> HIDE DEF c
<1>3. Unasked \subseteq (Methods!ToSet(gates) \ forms.leaving) \ {0} BY DEF Unasked
<1>4. Methods!ToSet(gates) \subseteq Nat BY DEF Methods!ToSet
<1>5. c.no \in Nat BY <1>2
<1> QED BY <1>2, <1>3, <1>4, <1>5 DEF c

\* A push runs through every installed guard, and, if forms were saved in order, through
\* no other that was not told.
LEMMA PushConsults ==
  ASSUME forms \in Pages, GuardsOK(forms), MethodsOK(forms), StackOK(forms)
  PROVE  /\ OfPush \in Seq(Nat) /\ 0 \notin Methods!ToSet(OfPush) /\ Installed(forms) \subseteq Methods!ToSet(OfPush)
         /\ forms.straight => Methods!ToSet(OfPush) \ forms.leaving \subseteq Unasked
<1> DEFINE a == forms.router
           b == IF forms.navigation THEN forms.guards ELSE forms.push
<1>1. a \in Seq(Nat) /\ b \in Seq(Nat) BY DEF Pages
<1>2. OfPush = a \o b BY DEF OfPush
<1>3. 0 \notin Methods!ToSet(a)
  <2>1. Wraps(forms, forms.origR, forms.router) BY DEF MethodsOK
  <2> QED BY <2>1 DEF Wraps, Methods!ToSet
<1>4. 0 \notin Methods!ToSet(b) /\ Installed(forms) \subseteq Methods!ToSet(b)
  <2>1. CASE forms.navigation
    <3>1. Methods!ToSet(b) = Installed(forms) BY <2>1 DEF Installed
    <3> QED BY <3>1 DEF GuardsOK
  <2>2. CASE ~forms.navigation
    <3>1. Wraps(forms, forms.origP, b) /\ Installed(forms) \subseteq Methods!ToSet(b) BY <2>2 DEF MethodsOK
    <3> QED BY <3>1 DEF Wraps, Methods!ToSet
  <2> QED BY <2>1, <2>2
<1>5. ASSUME forms.straight
      PROVE  Methods!ToSet(a) \subseteq Installed(forms) \cup forms.leaving /\ Methods!ToSet(b) \subseteq Installed(forms) \cup forms.leaving
  <2>1. Methods!ToSet(a) \subseteq Installed(forms) \cup forms.leaving
    <3>1. CASE forms.hasRouter
      <4>1. Stacked(forms, a) BY <1>5, <3>1 DEF StackOK
      <4> QED BY <1>1, <4>1, StackedGuards
    <3>2. CASE ~forms.hasRouter
      <4>1. a = <<>> BY <3>2 DEF MethodsOK
      <4> QED BY <4>1 DEF Methods!ToSet
    <3> QED BY <3>1, <3>2
  <2>2. Methods!ToSet(b) \subseteq Installed(forms) \cup forms.leaving
    <3>1. CASE ~forms.navigation
      <4>1. Stacked(forms, b) BY <1>5, <3>1 DEF StackOK
      <4> QED BY <1>1, <4>1, StackedGuards
    <3>2. CASE forms.navigation BY <3>2 DEF Installed
    <3> QED BY <3>1, <3>2
  <2> QED BY <2>1, <2>2
<1> HIDE DEF a, b
<1>6. /\ a \o b \in Seq(Nat) /\ DOMAIN (a \o b) = 1 .. Len(a) + Len(b)
      /\ Len(a) \in Nat /\ Len(b) \in Nat /\ DOMAIN a = 1 .. Len(a) /\ DOMAIN b = 1 .. Len(b)
      /\ \A i \in 1 .. Len(a) : (a \o b)[i] = a[i] /\ i \in 1 .. Len(a) + Len(b)
      /\ \A i \in 1 .. Len(b) : (a \o b)[Len(a) + i] = b[i] /\ Len(a) + i \in 1 .. Len(a) + Len(b)
      /\ \A i \in 1 .. Len(a) + Len(b) : i \in 1 .. Len(a) \/ \E j \in 1 .. Len(b) : i = Len(a) + j
  <2>1. /\ a \o b \in Seq(Nat) /\ DOMAIN (a \o b) = 1 .. Len(a) + Len(b)
        /\ Len(a) \in Nat /\ Len(b) \in Nat /\ DOMAIN a = 1 .. Len(a) /\ DOMAIN b = 1 .. Len(b)
    BY <1>1
  <2>2. \A i \in 1 .. Len(a) : (a \o b)[i] = a[i] /\ i \in 1 .. Len(a) + Len(b) BY <1>1, <2>1
  <2>3. \A i \in 1 .. Len(b) : (a \o b)[Len(a) + i] = b[i] /\ Len(a) + i \in 1 .. Len(a) + Len(b)
    BY <1>1, <2>1
  <2>4. ASSUME NEW i \in 1 .. Len(a) + Len(b), i \notin 1 .. Len(a)
        PROVE  \E j \in 1 .. Len(b) : i = Len(a) + j
    <3>1. i - Len(a) \in 1 .. Len(b) /\ i = Len(a) + (i - Len(a)) BY <2>1, <2>4
    <3> QED BY <3>1
  <2> QED BY <2>1, <2>2, <2>3, <2>4
<1>7. Methods!ToSet(a \o b) = Methods!ToSet(a) \cup Methods!ToSet(b)
  <2>1. Methods!ToSet(a \o b) = {(a \o b)[i] : i \in 1 .. Len(a) + Len(b)} BY <1>6 DEF Methods!ToSet
  <2>2. Methods!ToSet(a) = {a[i] : i \in 1 .. Len(a)} /\ Methods!ToSet(b) = {b[i] : i \in 1 .. Len(b)}
    BY <1>6 DEF Methods!ToSet
  <2>3. ASSUME NEW i \in 1 .. Len(a) + Len(b) PROVE (a \o b)[i] \in Methods!ToSet(a) \cup Methods!ToSet(b)
    <3>1. CASE i \in 1 .. Len(a) BY <1>6, <2>2, <3>1
    <3>2. ASSUME NEW j \in 1 .. Len(b), i = Len(a) + j PROVE (a \o b)[i] \in Methods!ToSet(b)
      BY <1>6, <2>2, <3>2
    <3> QED BY <1>6, <3>1, <3>2
  <2>4. \A i \in 1 .. Len(a) : a[i] \in Methods!ToSet(a \o b) BY <1>6, <2>1
  <2>5. \A i \in 1 .. Len(b) : b[i] \in Methods!ToSet(a \o b) BY <1>6, <2>1
  <2> QED BY <2>1, <2>2, <2>3, <2>4, <2>5
<1> QED BY <1>2, <1>3, <1>4, <1>5, <1>6, <1>7 DEF Unasked

\* What a step promises of the leave it is: the questions are those that are due.
LeaveIsDue(c, document, torn) ==
  /\ c.no = 0 => Unasked \subseteq c.asked \/ 0 \in c.asked
  /\ forms.straight \/ document =>
       /\ c.asked \subseteq Unasked \cup {0} /\ ~torn
       /\ Unasked = {} => c.asked = {}
       /\ \A g : Unasked = {g} => \E h : c.asked = {h}

\* A leave with due questions keeps the invariant.
LEMMA LeaveKeeps ==
  ASSUME FormsInv, NEW yes, NEW c, NEW document \in BOOLEAN, NEW torn \in BOOLEAN,
         c.asked \in SUBSET Nat,
         forms.straight /\ c.no = 0 /\ ~document => Unasked \subseteq c.asked \cap yes,
         LeaveIsDue(c, document, torn), Leave(yes, c, document, torn)
  PROVE  FormsInv'
<1>1. /\ forms' \in Pages /\ GuardsOK(forms') /\ MethodsOK(forms') /\ StackOK(forms')
      /\ forms'.last = [open |-> Unasked, asked |-> c.asked, left |-> c.no = 0, torn |-> torn]
      /\ forms'.straight => forms.straight \/ document
  BY PageLeft DEF FormsInv
<1> DEFINE l == forms'.last
<1>2. l.open = Unasked /\ l.asked = c.asked /\ l.left = (c.no = 0) /\ l.torn = torn BY <1>1
<1>3. IsFiniteSet(Unasked)
  <2>1. Unasked \subseteq 1 .. forms.made BY DEF FormsInv, GuardsOK, Unasked
  <2>2. forms.made \in Nat BY DEF FormsInv, Pages
  <2>3. IsFiniteSet(1 .. forms.made) BY <2>2, FS_Interval
  <2> QED BY <2>1, <2>3, FS_Subset
<1>4. ASSUME forms.straight \/ document, Cardinality(Unasked) <= 1
      PROVE  Cardinality(c.asked) = Cardinality(Unasked)
  <2>1. Cardinality(Unasked) \in Nat BY <1>3, FS_CardinalityType
  <2>2. CASE Cardinality(Unasked) = 0
    <3>1. Unasked = {} BY <1>3, <2>2, FS_EmptySet
    <3> QED BY <1>4, <3>1 DEF LeaveIsDue
  <2>3. CASE Cardinality(Unasked) = 1
    <3>1. PICK g : Unasked = {g} BY <1>3, <2>3, FS_Singleton
    <3>2. PICK h : c.asked = {h} BY <1>4, <3>1 DEF LeaveIsDue
    <3>3. Cardinality({h}) = 1 BY FS_Singleton
    <3> QED BY <2>3, <3>2, <3>3
  <2> QED BY <1>4, <2>1, <2>2, <2>3
<1>5. l.left => l.open \subseteq l.asked \/ 0 \in l.asked BY <1>2 DEF LeaveIsDue
<1>6. forms'.straight => /\ l.asked \subseteq l.open \cup {0} /\ ~l.torn
                         /\ Cardinality(l.open) <= 1 => Cardinality(l.asked) = Cardinality(l.open)
  BY <1>1, <1>2, <1>4 DEF LeaveIsDue
<1>7. LeavingIsAsked' BY <1>5, <1>6 DEF LeavingIsAsked
<1> QED BY <1>1, <1>7 DEF FormsInv

\* A push of the router, and a click when nobody is left to ask.
LEMMA PushIsDue ==
  ASSUME FormsInv, NEW yes
  PROVE  LET c == Consult(yes, OfPush) IN
         /\ c.asked \in SUBSET Nat /\ (c.no = 0 => Unasked \subseteq c.asked \cap yes)
         /\ LeaveIsDue(c, FALSE, FALSE)
<1> DEFINE c == Consult(yes, OfPush)
<1>1. /\ OfPush \in Seq(Nat) /\ 0 \notin Methods!ToSet(OfPush) /\ Installed(forms) \subseteq Methods!ToSet(OfPush)
      /\ forms.straight => Methods!ToSet(OfPush) \ forms.leaving \subseteq Unasked
  BY PushConsults DEF FormsInv
<1>2. /\ c.asked \in SUBSET Nat /\ c.asked \subseteq Methods!ToSet(OfPush) \ forms.leaving
      /\ c.no \in Nat /\ (c.no = 0 => Unasked \subseteq c.asked \cap yes)
      /\ Unasked # {} => c.asked # {}
  BY <1>1, AllConsulted DEF FormsInv
<1> HIDE DEF c
<1>3. forms.straight => c.asked \subseteq Unasked BY <1>1, <1>2
<1>4. ASSUME forms.straight, NEW g, Unasked = {g} PROVE c.asked = {g} BY <1>2, <1>3, <1>4
<1>5. LeaveIsDue(c, FALSE, FALSE) BY <1>2, <1>3, <1>4 DEF LeaveIsDue
<1> QED BY <1>2, <1>5 DEF c

\* A click that somebody has to be asked for leaves the document.
LEMMA ClickIsDue ==
  ASSUME FormsInv, NEW yes, Unasked # {}
  PROVE  LET c == Consult(yes, OfClick) IN c.asked \in SUBSET Nat /\ LeaveIsDue(c, TRUE, FALSE)
<1> DEFINE asking == {i \in DOMAIN forms.guards : forms.guards[i] \in Unasked}
           x == forms.guards[Methods!Min(asking)]
           m == IF forms.navigation THEN forms.guards ELSE <<>>
           gates == <<x>> \o m \o <<0>>
           c == Consult(yes, OfClick)
<1>1. forms.guards \in Seq(Nat) /\ 0 \notin forms.leaving /\ 0 \notin Installed(forms)
  BY DEF FormsInv, GuardsOK, Pages
<1>2. asking \in SUBSET Nat /\ asking # {}
  <2>1. asking # {} BY DEF Unasked, Installed, Methods!ToSet
  <2> QED BY <1>1, <2>1
<1>3. x \in Unasked
  <2>1. Methods!Min(asking) \in asking BY <1>2, Least DEF Methods!Min
  <2> QED BY <2>1
<1>4. OfClick = gates BY <1>2 DEF OfClick
<1>5. m \in Seq(Nat) /\ Methods!ToSet(m) \subseteq Installed(forms) BY <1>1 DEF Installed, Methods!ToSet
<1>6. x \in Nat /\ x # 0 /\ x \in Installed(forms) \ forms.leaving
  <2>1. x \in Installed(forms) \ forms.leaving BY <1>3 DEF Unasked
  <2>2. Installed(forms) \subseteq Nat BY <1>1 DEF Installed, Methods!ToSet
  <2> QED BY <1>1, <2>1, <2>2
<1> HIDE DEF x, m, asking
<1>7. /\ gates \in Seq(Nat) /\ Len(gates) = Len(m) + 2 /\ DOMAIN gates = 1 .. Len(m) + 2 /\ Len(m) \in Nat
      /\ gates[1] = x /\ gates[Len(m) + 2] = 0
      /\ \A i \in 1 .. Len(m) : gates[i + 1] = m[i] /\ m[i] \in Installed(forms)
  <2>1. DOMAIN m = 1 .. Len(m) /\ Len(m) \in Nat BY <1>5
  <2>2. \A i \in 1 .. Len(m) : m[i] \in Installed(forms) BY <1>5, <2>1 DEF Methods!ToSet
  <2> DEFINE a == <<x>> \o m
  <2>3. /\ a \in Seq(Nat) /\ Len(a) = Len(m) + 1 /\ a[1] = x
        /\ \A i \in 1 .. Len(m) : a[i + 1] = m[i]
    BY <1>5, <1>6, <2>1
  <2> HIDE DEF a
  <2>4. /\ a \o <<0>> \in Seq(Nat) /\ Len(a \o <<0>>) = Len(m) + 2
        /\ \A i \in 1 .. Len(m) + 1 : (a \o <<0>>)[i] = a[i]
        /\ (a \o <<0>>)[Len(m) + 2] = 0
    BY <2>1, <2>3
  <2>5. gates = a \o <<0>> BY DEF a
  <2>6. DOMAIN (a \o <<0>>) = 1 .. Len(m) + 2 BY <2>1, <2>4
  <2>7. 1 \in 1 .. Len(m) + 1 /\ \A i \in 1 .. Len(m) : i + 1 \in 1 .. Len(m) + 1 BY <2>1
  <2> QED BY <2>1, <2>2, <2>3, <2>4, <2>5, <2>6, <2>7
<1> HIDE DEF gates
<1>8. Methods!ToSet(gates) \subseteq Installed(forms) \cup {0} /\ 0 \in Methods!ToSet(gates) /\ x \in Methods!ToSet(gates)
  <2>1. ASSUME NEW i \in 1 .. Len(m) + 2 PROVE gates[i] \in Installed(forms) \cup {0}
    <3>1. CASE i = 1 BY <1>6, <1>7, <3>1
    <3>2. CASE i = Len(m) + 2 BY <1>7, <3>2
    <3>3. CASE i # 1 /\ i # Len(m) + 2
      <4>1. i - 1 \in 1 .. Len(m) /\ (i - 1) + 1 = i BY <1>7, <3>3
      <4>2. gates[(i - 1) + 1] = m[i - 1] /\ m[i - 1] \in Installed(forms) BY <1>7, <4>1
      <4> QED BY <4>1, <4>2
    <3> QED BY <3>1, <3>2, <3>3
  <2>2. 1 \in 1 .. Len(m) + 2 /\ Len(m) + 2 \in 1 .. Len(m) + 2 BY <1>7
  <2> QED BY <1>7, <2>1, <2>2 DEF Methods!ToSet
<1>9. LET G == Methods!ToSet(gates) \ forms.leaving
      IN  /\ c.asked \subseteq G
          /\ c.no = 0 => /\ G \ {0} \subseteq c.asked \cap yes
                         /\ 0 \in G => 0 \in c.asked \/ Unasked \subseteq Methods!ToSet(gates)
          /\ G \ {0} # {} => c.asked # {}
          /\ 0 \in c.asked => \E i \in DOMAIN gates : gates[i] = 0 /\ ~(Unasked \subseteq GatesBefore(gates, i))
  BY <1>1, <1>4, <1>7, Consulted
<1> HIDE DEF c
<1>10. c.asked \in SUBSET Nat BY <1>7, <1>9 DEF Methods!ToSet
<1>11. c.asked \subseteq Unasked \cup {0} BY <1>8, <1>9 DEF Unasked
<1>12. ASSUME c.no = 0 PROVE Unasked \subseteq c.asked \/ 0 \in c.asked
  <2>1. 0 \in c.asked \/ Unasked \subseteq Methods!ToSet(gates) BY <1>1, <1>8, <1>9, <1>12
  <2>2. 0 \notin Unasked /\ Unasked \cap forms.leaving = {} BY <1>1 DEF Unasked
  <2> QED BY <1>9, <1>12, <2>1, <2>2
<1>13. ASSUME NEW g, Unasked = {g} PROVE c.asked = {x}
  <2>1. g = x BY <1>3, <1>13
  <2>2. c.asked # {} BY <1>6, <1>8, <1>9
  <2>3. 0 \notin c.asked
    <3> SUFFICES ASSUME 0 \in c.asked PROVE FALSE OBVIOUS
    <3>1. PICK i \in DOMAIN gates : gates[i] = 0 /\ ~(Unasked \subseteq GatesBefore(gates, i)) BY <1>9
    <3>2. i # 1 BY <1>6, <1>7, <3>1
    <3>3. 1 \in 1 .. i - 1 BY <1>7, <3>1, <3>2
    <3>4. x \in GatesBefore(gates, i) BY <1>7, <3>3 DEF GatesBefore
    <3> QED BY <1>13, <2>1, <3>1, <3>4
  <2> QED BY <1>11, <1>13, <2>1, <2>2, <2>3
<1>14. LeaveIsDue(c, TRUE, FALSE) BY <1>11, <1>12, <1>13 DEF LeaveIsDue
<1> QED BY <1>10, <1>14 DEF c

\* The browser asks for all of them.
LEMMA ReloadIsDue ==
  ASSUME FormsInv, NEW yes
  PROVE  LET c == Consult(yes, <<0>>) IN c.asked \in SUBSET Nat /\ LeaveIsDue(c, TRUE, FALSE)
<1> DEFINE gates == <<0>>
           c == Consult(yes, gates)
<1>1. /\ gates \in Seq(Nat) /\ DOMAIN gates = {1} /\ gates[1] = 0 /\ Methods!ToSet(gates) = {0}
      /\ GatesBefore(gates, 1) = {}
  BY DEF Methods!ToSet, GatesBefore
<1>2. 0 \notin forms.leaving /\ 0 \notin Unasked BY DEF FormsInv, GuardsOK, Unasked
<1>3. Unasked # {} => Asks(gates, 1) BY <1>1, <1>2 DEF Asks
<1>4. LET G == Methods!ToSet(gates) \ forms.leaving
      IN  /\ c.asked \subseteq G
          /\ c.no = 0 => (0 \in G => 0 \in c.asked \/ Unasked \subseteq Methods!ToSet(gates))
          /\ (\E i \in DOMAIN gates : Asks(gates, i)) => c.asked # {}
          /\ 0 \in c.asked => \E i \in DOMAIN gates : gates[i] = 0 /\ ~(Unasked \subseteq GatesBefore(gates, i))
  BY <1>1, <1>2, Consulted
<1> HIDE DEF c, gates
<1>5. c.asked \subseteq {0} BY <1>1, <1>4
<1>6. Unasked # {} => c.asked = {0} BY <1>1, <1>3, <1>4, <1>5
<1>7. Unasked = {} => c.asked = {} BY <1>1, <1>4, <1>5
<1>8. LeaveIsDue(c, TRUE, FALSE) BY <1>5, <1>6, <1>7 DEF LeaveIsDue
<1>9. c.asked \in SUBSET Nat BY <1>5
<1> QED BY <1>8, <1>9 DEF c, gates

\* A step back asks every guard, and the guard that is told no calls on older ones only,
\* which agreed, as long as forms are saved in order.
LEMMA BackIsDue ==
  ASSUME FormsInv, NEW yes
  PROVE  LET c == Consult(yes, forms.guards)
             back == IF forms.navigation \/ c.no = 0 THEN [asked |-> {}, no |-> 0]
                     ELSE Consult(yes, forms.origP[c.no])
             d == [c EXCEPT !.asked = @ \cup back.asked]
         IN  /\ d.asked \in SUBSET Nat /\ (d.no = 0 => Unasked \subseteq d.asked \cap yes)
             /\ LeaveIsDue(d, FALSE, back.no \notin c.asked \cup {0})
<1> DEFINE gates == forms.guards
           c == Consult(yes, gates)
           old == forms.origP[c.no]
           back == IF forms.navigation \/ c.no = 0 THEN [asked |-> {}, no |-> 0] ELSE Consult(yes, old)
           d == [c EXCEPT !.asked = @ \cup back.asked]
<1>1. /\ gates \in Seq(Nat) /\ Methods!ToSet(gates) = Installed(forms) /\ 0 \notin Methods!ToSet(gates)
      /\ 0 \notin forms.leaving
  BY DEF FormsInv, GuardsOK, Pages, Installed
<1>2. /\ c.asked \in SUBSET Nat /\ c.asked \subseteq Methods!ToSet(gates) \ forms.leaving
      /\ c.no \in Nat /\ (c.no = 0 => Unasked \subseteq c.asked \cap yes)
      /\ Unasked # {} => c.asked # {}
  BY <1>1, AllConsulted DEF FormsInv
<1>3. c.no > 0 =>
        \E n \in DOMAIN gates :
          /\ gates[n] = c.no /\ c.no \in c.asked
          /\ \A j \in 1 .. n - 1 : gates[j] \in forms.leaving \cup {0} \cup (c.asked \cap yes)
  BY <1>1, Consulted
<1>4. /\ d.asked = c.asked \cup back.asked /\ d.no = c.no
      /\ forms.navigation \/ c.no = 0 => back.asked = {} /\ back.no = 0
      /\ ~(forms.navigation \/ c.no = 0) => back = Consult(yes, old)
  BY DEF Consult
<1> HIDE DEF c, back, d
<1>5. CASE forms.navigation \/ c.no = 0
  <2>1. d.asked = c.asked /\ back.no = 0 BY <1>4, <1>5
  <2>2. c.asked \subseteq Unasked BY <1>1, <1>2 DEF Unasked
  <2>3. \A g : Unasked = {g} => c.asked = {g} BY <1>2, <2>2
  <2>4. LeaveIsDue(d, FALSE, back.no \notin c.asked \cup {0}) BY <1>2, <1>4, <2>1, <2>2, <2>3 DEF LeaveIsDue
  <2> QED BY <1>2, <1>4, <2>1, <2>4 DEF c, back, d
<1>6. CASE ~(forms.navigation \/ c.no = 0)
  <2>1. PICK n \in DOMAIN gates :
          /\ gates[n] = c.no /\ c.no \in c.asked
          /\ \A j \in 1 .. n - 1 : gates[j] \in forms.leaving \cup {0} \cup (c.asked \cap yes)
    BY <1>2, <1>3, <1>6
  <2>2. c.no \in Installed(forms) BY <1>1, <1>2, <2>1
  <2>3. c.no \in 1 .. forms.made BY <2>2 DEF FormsInv, GuardsOK
  <2>4. old \in Seq(Nat)
    <3>1. c.no \in 1 .. MaxGuards BY <2>3, FormsAssumption DEF FormsInv, Pages
    <3> QED BY <3>1 DEF FormsInv, Pages
  <2> HIDE DEF old
  <2>5. back.asked \subseteq Methods!ToSet(old) \ forms.leaving /\ back.no \in Int
        /\ (back.no < 0 => 0 \in Methods!ToSet(old)) /\ (back.no > 0 => back.no \in back.asked)
    <3>1. LET G == Methods!ToSet(old) \ forms.leaving
              k == Consult(yes, old)
          IN  /\ k.asked \subseteq G /\ k.no \in Int /\ (k.no < 0 => 0 \in Methods!ToSet(old))
              /\ k.no > 0 => k.no \in k.asked
      BY <1>1, <2>4, Consulted
    <3> QED BY <1>4, <1>6, <3>1
  <2>6. 0 \notin Methods!ToSet(old)
    <3>1. Wraps(forms, forms.origP, old) BY <2>3 DEF FormsInv, MethodsOK, old
    <3> QED BY <3>1 DEF Wraps, Methods!ToSet
  <2>7. d.asked \in SUBSET Nat
    <3>1. Methods!ToSet(old) \subseteq Nat BY <2>4 DEF Methods!ToSet
    <3> QED BY <1>2, <1>4, <2>5, <3>1
  <2>8. ASSUME forms.straight PROVE Methods!ToSet(old) \subseteq forms.leaving \cup c.asked
    <3> DEFINE m == forms.push  k == Len(gates)  i == k + 1 - n
    <3>1. /\ m \in Seq(Nat) /\ DOMAIN m = 1 .. Len(m) /\ Len(m) \in Nat
          /\ k \in Nat /\ DOMAIN gates = 1 .. k /\ n \in 1 .. k
      BY <1>1 DEF FormsInv, Pages
    <3>2. Stacked(forms, m) /\ Wraps(forms, forms.origP, m)
      BY <1>6, <2>8 DEF FormsInv, StackOK, MethodsOK
    <3>3. /\ k <= Len(m)
          /\ \A j \in DOMAIN m : IF j <= k THEN m[j] = gates[k + 1 - j] ELSE m[j] \in forms.leaving
      BY <3>2 DEF Stacked
    <3> HIDE DEF m, k, gates
    <3>4. i \in DOMAIN m /\ i <= k /\ k + 1 - i = n BY <3>1, <3>3
    <3>5. m[i] = c.no BY <2>1, <3>3, <3>4
    <3> HIDE DEF i
    <3>6. old = SubSeq(m, i + 1, Len(m)) BY <3>2, <3>4, <3>5 DEF Wraps, old
    <3>7. ASSUME NEW j \in DOMAIN old PROVE old[j] \in forms.leaving \cup c.asked
      <4>1. DOMAIN old = 1 .. Len(m) - i BY <3>1, <3>4, <3>6, AfterPlace
      <4>2. old[j] = m[i + j] /\ i + j \in DOMAIN m BY <3>1, <3>4, <3>6, AfterPlace
      <4>3. CASE i + j <= k
        <5>1. m[i + j] = gates[k + 1 - (i + j)] BY <3>3, <4>2, <4>3
        <5>2. k + 1 - (i + j) \in 1 .. n - 1
          <6>1. k \in Nat /\ n \in Nat /\ i \in Nat /\ j \in Nat /\ j >= 1 BY <3>1, <3>4, <4>1
          <6>2. i + j <= k /\ n = k + 1 - i BY <3>4, <4>3
          <6> QED BY <6>1, <6>2
        <5>3. gates[k + 1 - (i + j)] \in forms.leaving \cup {0} \cup (c.asked \cap yes) BY <2>1, <5>2
        <5>4. old[j] # 0 BY <2>6 DEF Methods!ToSet
        <5> QED BY <4>2, <5>1, <5>3, <5>4
      <4>4. CASE ~(i + j <= k) BY <3>3, <4>2, <4>4
      <4> QED BY <4>3, <4>4
    <3> QED BY <3>7 DEF Methods!ToSet
  <2>9. ASSUME forms.straight PROVE d.asked = c.asked /\ back.no \in c.asked \cup {0}
    <3>1. back.asked \subseteq c.asked BY <2>5, <2>8, <2>9
    <3>2. back.no = 0 \/ back.no \in back.asked BY <2>5, <2>6
    <3> QED BY <1>4, <3>1, <3>2
  <2>10. c.asked \subseteq Unasked BY <1>1, <1>2 DEF Unasked
  <2>11. \A g : Unasked = {g} => c.asked = {g} BY <1>2, <2>10
  <2>12. LeaveIsDue(d, FALSE, back.no \notin c.asked \cup {0}) BY <1>2, <1>4, <1>6, <2>9, <2>10, <2>11 DEF LeaveIsDue
  <2> QED BY <1>4, <1>6, <2>7, <2>12 DEF c, back, d, old, gates
<1> QED BY <1>5, <1>6

\* Nobody leaves a page with unsaved changes without having been asked.
THEOREM LeavesAreAsked == FormsSpec => []LeavingIsAsked
<1>1. FormsInit => FormsInv
  <2> SUFFICES ASSUME NEW n \in BOOLEAN, NEW r \in BOOLEAN, forms = FreshPage(n, r) PROVE FormsInv
    BY DEF FormsInit
  <2>1. forms \in Pages
    <3>1. 0 \in 0 .. MaxGuards /\ <<>> \in Seq(Nat) BY FormsAssumption
    <3>2. /\ [g \in 1 .. MaxGuards |-> 0] \in [1 .. MaxGuards -> Nat]
          /\ [g \in 1 .. MaxGuards |-> <<>>] \in [1 .. MaxGuards -> Seq(Nat)]
      BY <3>1
    <3> QED BY <3>1, <3>2 DEF FreshPage, Pages
  <2>2. /\ forms.guards = <<>> /\ forms.router = <<>> /\ forms.push = <<>> /\ forms.made = 0
        /\ forms.leaving = {} /\ forms.last = [open |-> {}, asked |-> {}, left |-> FALSE, torn |-> FALSE]
    BY DEF FreshPage
  <2>3. Installed(forms) = {} BY <2>2 DEF Installed, Methods!ToSet
  <2>4. GuardsOK(forms) BY <2>2, <2>3 DEF GuardsOK
  <2>5. MethodsOK(forms) BY <2>2, <2>3 DEF MethodsOK, Wraps
  <2>6. StackOK(forms) BY <2>2 DEF StackOK, Stacked
  <2>7. LeavingIsAsked BY <2>2 DEF LeavingIsAsked
  <2> QED BY <2>1, <2>4, <2>5, <2>6, <2>7 DEF FormsInv
<1>2. FormsInv /\ [FormsNext]_forms => FormsInv'
  <2> SUFFICES ASSUME FormsInv, [FormsNext]_forms PROVE FormsInv' OBVIOUS
  <2>1. /\ forms \in Pages /\ GuardsOK(forms) /\ MethodsOK(forms) /\ StackOK(forms) /\ LeavingIsAsked
    BY DEF FormsInv
  <2>2. CASE UNCHANGED forms
    BY <2>1, <2>2 DEF FormsInv, GuardsOK, MethodsOK, StackOK, LeavingIsAsked, Installed, Wraps, Stacked
  <2>3. ASSUME NEW f \in Forms, Install(f) PROVE FormsInv'
    <3>1. /\ forms' \in Pages /\ GuardsOK(forms') /\ MethodsOK(forms') /\ StackOK(forms')
          /\ forms'.last = forms.last /\ forms'.straight = forms.straight
      BY <2>1, <2>3, FormInstalled
    <3> QED BY <2>1, <3>1 DEF FormsInv, LeavingIsAsked
  <2>4. ASSUME NEW g \in Installed(forms), SaveForm(g) PROVE FormsInv'
    <3>1. /\ forms' \in Pages /\ GuardsOK(forms') /\ MethodsOK(forms') /\ StackOK(forms')
          /\ forms'.last = forms.last /\ (forms'.straight => forms.straight)
      BY <2>1, <2>4, FormSaved
    <3> QED BY <2>1, <3>1 DEF FormsInv, LeavingIsAsked
  <2>5. ASSUME NEW yes, Push(yes) PROVE FormsInv'
    BY <2>5, PushIsDue, LeaveKeeps DEF Push
  <2>6. ASSUME NEW yes, Click(yes) PROVE FormsInv'
    <3>1. CASE Unasked = {}
      <4>1. OfClick = OfPush BY <3>1 DEF OfClick
      <4>2. Leave(yes, Consult(yes, OfPush), FALSE, FALSE) BY <2>6, <3>1, <4>1 DEF Click
      <4> QED BY <4>2, PushIsDue, LeaveKeeps
    <3>2. CASE Unasked # {}
      <4>1. Leave(yes, Consult(yes, OfClick), TRUE, FALSE) BY <2>6, <3>2 DEF Click
      <4> QED BY <3>2, <4>1, ClickIsDue, LeaveKeeps
    <3> QED BY <3>1, <3>2
  <2>7. ASSUME NEW yes, ReloadPage(yes) PROVE FormsInv'
    BY <2>7, ReloadIsDue, LeaveKeeps DEF ReloadPage
  <2>8. ASSUME NEW yes, Back(yes) PROVE FormsInv'
    <3> DEFINE c == Consult(yes, forms.guards)
               back == IF forms.navigation \/ c.no = 0 THEN [asked |-> {}, no |-> 0]
                       ELSE Consult(yes, forms.origP[c.no])
               d == [c EXCEPT !.asked = @ \cup back.asked]
               torn == back.no \notin c.asked \cup {0}
    <3>1. /\ d.asked \in SUBSET Nat /\ (d.no = 0 => Unasked \subseteq d.asked \cap yes)
          /\ LeaveIsDue(d, FALSE, torn)
      BY <2>1, <2>8, BackIsDue
    <3>2. Leave(yes, d, FALSE, torn) BY <2>8 DEF Back
    <3>3. torn \in BOOLEAN OBVIOUS
    <3> HIDE DEF c, back, d, torn
    <3> QED BY <3>1, <3>2, <3>3, LeaveKeeps
  <2> QED BY <2>2, <2>3, <2>4, <2>5, <2>6, <2>7, <2>8 DEF FormsNext
<1>3. FormsInv => LeavingIsAsked BY DEF FormsInv
<1> QED BY <1>1, <1>2, <1>3, PTL DEF FormsSpec
=============================================================================
