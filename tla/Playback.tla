------------------------------ MODULE Playback ------------------------------
(***************************************************************************)
(* From the stored file to the screen: how the server answers a request    *)
(* for a range of a local file (videos.service.ts), and the player of the  *)
(* detail page (video-player.tsx), which asks for a signed address and,    *)
(* where there is none, fetches the whole file into a blob of the browser. *)
(*                                                                         *)
(* A file does not change once it is stored.  A request of the player is   *)
(* answered, fails, or is given up after 30 seconds; when it is given up   *)
(* its answer may have arrived already, and waits to be taken.             *)
(***************************************************************************)
EXTENDS Integers, FiniteSets

CONSTANTS
  Absent,     \* no number, no header
  Huge,       \* a number that is no safe integer
  Other,      \* a header that is not understood
  MaxSize,    \* bound on the size of a file
  MaxRequests \* bound on the requests of the player

VARIABLES
  served,  \* the last request for a range: [size, range, answer]
  player   \* the player

playbackVars == <<served, player>>

-----------------------------------------------------------------------------
(* Ranges.                                                                 *)

\* What a Range header can say: nothing that is understood, or two numbers, of
\* which one or both may be missing.  Bound: numbers just beyond the file.
Numbers == {Absent, Huge} \cup 0 .. MaxSize + 1
Ranges == {Absent, Other} \cup [first : Numbers, last : Numbers]

\* Neither of the first three is a number, nor a pair of them.
ASSUME PlaybackAssumption ==
  /\ MaxSize \in Nat /\ MaxRequests \in Nat \ {0}
  /\ Absent \notin Int \cup {Huge, Other} /\ Huge \notin Int
  /\ {Absent, Other} \cap [first : Numbers, last : Numbers] = {}

Refused == [status |-> 416, start |-> 0, end |-> -1]
Part(s, e) == [status |-> 206, start |-> s, end |-> e]

Smaller(a, b) == IF a < b THEN a ELSE b

\* Wrong variant: the first byte may be the one after the last.
SingleRangeInclusive(r, size) ==
  LET last == IF r.last = Absent THEN size - 1 ELSE r.last IN
  IF r.first = Huge \/ last = Huge \/ r.first > size \/ last < r.first THEN Refused
  ELSE Part(r.first, Smaller(last, size - 1))

\* parseSingleRange with a first byte.
SingleRange(r, size) ==
  LET last == IF r.last = Absent THEN size - 1 ELSE r.last IN
  IF r.first = Huge \/ last = Huge \/ r.first >= size \/ last < r.first THEN Refused
  ELSE Part(r.first, Smaller(last, size - 1))

\* parseSingleRange without one: the last bytes of the file.
Suffix(n, size) ==
  IF n \in {Huge, 0} THEN Refused ELSE Part(IF n >= size THEN 0 ELSE size - n, size - 1)

\* streamVideoFile
Respond(r, size) ==
  IF r = Absent THEN [status |-> 200, start |-> 0, end |-> size - 1]
  ELSE IF r = Other \/ size = 0 THEN Refused
  ELSE IF r.first # Absent THEN SingleRange(r, size)
  ELSE IF r.last # Absent THEN Suffix(r.last, size) ELSE Refused

Stream(r, size) == served' = [size |-> size, range |-> r, answer |-> Respond(r, size)]

RangesNext == \E r \in Ranges, size \in 0 .. MaxSize : Stream(r, size)

-----------------------------------------------------------------------------
(* The player.  Its fields:                                                *)
(*   mounted   it is on the page                                           *)
(*   request   its current request, 0 for none                             *)
(*   phase     of each request: "none", "address", "file", "done"          *)
(*   aborted   requests whose controller was aborted                       *)
(*   loading, error   what the user is told                                *)
(*   source    the request whose answer is shown, 0 for none               *)
(*   blob      blobUrl: the request whose blob is shown, 0 for none        *)
(*   urls      blobs that take memory                                      *)
(*   broken    the source cannot be played                                 *)
(*   retries   automaticRetries                                            *)
(*   silent    the current request was given up when its answer was there   *)

FreshPlayer ==
  [mounted |-> TRUE, request |-> 1,
   phase |-> [q \in 1 .. MaxRequests |-> IF q = 1 THEN "address" ELSE "none"],
   aborted |-> {}, loading |-> TRUE, error |-> FALSE, source |-> 0, blob |-> 0,
   urls |-> {}, broken |-> FALSE, retries |-> 0,
   silent |-> FALSE]

PlaybackInit ==
  /\ served = [size |-> 0, range |-> Absent, answer |-> Respond(Absent, 0)]
  /\ player = FreshPlayer

Playing(p) == player' = p

\* load: the request before is aborted.
LoadVideo(p) ==
  LET q == p.request + 1 IN
  [p EXCEPT !.request = q, !.phase[q] = "address", !.aborted = @ \cup {p.request},
            !.loading = TRUE, !.error = FALSE, !.silent = FALSE]

\* controller.signal.aborted
Usable(q) == q \notin player.aborted

\* The end of a load: what finally does.
Over(p, q) == [p EXCEPT !.phase[q] = "done", !.loading = @ /\ p.request # q]

\* The new source is set, and the blob of the old one released.
Show(q, isBlob) ==
  Over([player EXCEPT !.source = q, !.broken = FALSE,
          !.urls = (@ \ {player.blob}) \cup (IF isBlob THEN {q} ELSE {}),
          !.blob = IF isBlob THEN q ELSE 0], q)

\* An answer is there: load shows it, or returns without a word.
Take(q, isBlob) ==
  Playing(IF Usable(q) THEN Show(q, isBlob)
          ELSE [Over(player, q) EXCEPT !.silent = @ \/ player.request = q])

\* The server names a signed address, or none: then the file is fetched.
Address(q) == player.phase[q] = "address" /\ Take(q, FALSE)

NoAddress(q) == player.phase[q] = "address" /\ Playing([player EXCEPT !.phase[q] = "file"])

File(q) == player.phase[q] = "file" /\ Take(q, TRUE)

\* Refused, lost or aborted; only the current request tells the user.
LoadFails(q) ==
  /\ player.phase[q] \in {"address", "file"}
  /\ Playing(Over([player EXCEPT !.error = @ \/ player.request = q], q))

\* 30 seconds have passed.
Timeout(q) ==
  /\ player.phase[q] \in {"address", "file"} /\ q \notin player.aborted
  /\ Playing([player EXCEPT !.aborted = @ \cup {q}])

\* The browser cannot play the source, or not any longer: recover, once by itself.
MediaError ==
  /\ player.mounted /\ player.source # 0 /\ player.request < MaxRequests
  /\ LET p == [player EXCEPT !.broken = TRUE] IN
     Playing(IF player.loading THEN p
             ELSE IF player.retries < 1 THEN LoadVideo([p EXCEPT !.retries = 1])
             ELSE [p EXCEPT !.error = TRUE])

\* The button that is there with an error.
Retry ==
  /\ player.mounted /\ player.error /\ ~player.loading /\ player.request < MaxRequests
  /\ Playing(LoadVideo([player EXCEPT !.retries = 0]))

\* The user leaves the page.
LeavePage ==
  /\ player.mounted
  /\ Playing([player EXCEPT !.mounted = FALSE, !.request = 0, !.urls = @ \ {player.blob},
                !.aborted = @ \cup {player.request}])

PlayerNext ==
  \/ \E q \in 1 .. MaxRequests :
       Address(q) \/ NoAddress(q) \/ File(q) \/ LoadFails(q) \/ Timeout(q)
  \/ MediaError \/ Retry \/ LeavePage

PlaybackNext == (RangesNext /\ UNCHANGED player) \/ (PlayerNext /\ UNCHANGED served)

PlaybackSpec == PlaybackInit /\ [][PlaybackNext]_playbackVars

-----------------------------------------------------------------------------
(* Properties.                                                             *)

\* The bytes of the file that a range asks for, as HTTP defines it.
Wanted(r, size) ==
  IF r.first = Absent
  THEN {b \in 0 .. size - 1 : b >= size - r.last}
  ELSE {b \in 0 .. size - 1 : b >= r.first /\ (r.last # Absent => b <= r.last)}

Understood(r) ==
  /\ r # Other /\ Huge \notin {r.first, r.last} /\ {r.first, r.last} # {Absent}
  /\ Absent \notin {r.first, r.last} => r.first <= r.last

\* What is sent are the bytes that were asked for, all of them and no other, of
\* files of every size and at both ends of the file; where there are none, or the
\* range makes no sense or has numbers out of reach, it is refused.
RangeIsExact ==
  LET a == served.answer  r == served.range IN
  IF r = Absent THEN a.status = 200 /\ a.start .. a.end = 0 .. served.size - 1
  ELSE IF Understood(r) /\ Wanted(r, served.size) # {}
  THEN a.status = 206 /\ a.start .. a.end = Wanted(r, served.size)
  ELSE a = Refused

\* Whatever is aborted, late or broken, the user of the player sees a video, is told
\* that it loads, or has an error with the button to load again; a source that
\* cannot be played never stays without one of the last two.  It is otherwise only
\* when the 30 seconds end between the arrival of an answer and its use.  What is
\* shown is not released, and what is not shown takes no memory, after the page was
\* left either.
PlayerIsSound ==
  LET p == player IN
  /\ p.mounted => /\ p.loading <=> p.phase[p.request] \in {"address", "file"}
                  /\ p.loading \/ p.error \/ (p.source # 0 /\ ~p.broken) \/ p.silent
  /\ p.urls = (IF p.mounted /\ p.blob # 0 THEN {p.blob} ELSE {})
  /\ p.blob \in {0, p.source}

PlaybackIsSound == RangeIsExact /\ PlayerIsSound

-----------------------------------------------------------------------------
(* The inductive invariant the proofs in BrowserProofs rest on.            *)

Waiting(p, q) == p.phase[q] \in {"address", "file"}

\* The last answer is that to the last request, and every request of the player that
\* has no answer yet is the current one or was aborted.
PlaybackOK ==
  /\ served.range \in Ranges /\ served.size \in 0 .. MaxSize
  /\ served.answer = Respond(served.range, served.size)
  /\ DOMAIN player = DOMAIN FreshPlayer
  /\ player.mounted \in BOOLEAN /\ player.loading \in BOOLEAN
  /\ player.request \in IF player.mounted THEN 1 .. MaxRequests ELSE {0}
  /\ player.phase \in [1 .. MaxRequests -> {"none", "address", "file", "done"}]
  /\ \A q \in 1 .. MaxRequests : Waiting(player, q) => q \in player.aborted \cup {player.request}

PlaybackInv == PlaybackOK /\ PlayerIsSound
=============================================================================
