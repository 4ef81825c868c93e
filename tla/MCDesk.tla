------------------------------- MODULE MCDesk -------------------------------
(***************************************************************************)
(* What people read, enter and are told: the assessment, the figures, the  *)
(* tabs of the browser with their lists, player and unsaved forms, and     *)
(* what administrators set; each explored on its own.  They share no       *)
(* variable, and a behaviour is one of one of them.                        *)
(***************************************************************************)
EXTENDS MCAssessment, ResultMetrics, DetailPage, Configuration,
        Listings, Playback, UnsavedChanges, TLC

VARIABLE focus

Focuses == {"assessment", "figures", "page", "settings", "benchmarks", "profiles",
            "lists", "ranges", "player", "forms"}

Init ==
  /\ focus \in Focuses
  /\ AssessmentInit /\ MetricsInit /\ PageInit /\ ConfigurationInit
  /\ ListingsInit /\ PlaybackInit /\ FormsInit
  /\ focus # "assessment" => context = CHOOSE c \in Contexts : TRUE
  /\ focus # "figures" => video = CHOOSE v \in Videos : TRUE
  /\ focus # "page" => tab.stage = "review"
  /\ focus # "benchmarks" => rows = <<>>
  /\ focus # "lists" => listing.kind = "cases"
  /\ focus # "forms" => forms.navigation /\ forms.hasRouter

pageVars == <<pipelineVars, tab>>
readingVars == <<listing, playbackVars, forms>>
workVars == <<assessmentVars, metricsVars, pageVars>>

Next ==
  \/ focus = "assessment" /\ AssessmentNext
     /\ UNCHANGED <<focus, metricsVars, pageVars, configurationVars, readingVars>>
  \/ focus = "figures" /\ MetricsNext
     /\ UNCHANGED <<focus, assessmentVars, pageVars, configurationVars, readingVars>>
  \/ focus = "page" /\ PageNext
     /\ UNCHANGED <<focus, assessmentVars, metricsVars, configurationVars, readingVars>>
  \/ focus = "settings" /\ SettingsNext
     /\ UNCHANGED <<focus, workVars, benchmarkVars, readingVars>>
  \/ focus = "benchmarks" /\ BenchmarksNext
     /\ UNCHANGED <<focus, workVars, settingVars, readingVars>>
  \/ focus = "profiles" /\ ProfilesNext
     /\ UNCHANGED <<focus, workVars, settingVars, readingVars>>
  \/ focus = "lists" /\ ListingsNext
     /\ UNCHANGED <<focus, workVars, configurationVars, playbackVars, forms>>
  \/ focus = "ranges" /\ RangesNext
     /\ UNCHANGED <<focus, workVars, configurationVars, listing, player, forms>>
  \/ focus = "player" /\ PlayerNext
     /\ UNCHANGED <<focus, workVars, configurationVars, listing, served, forms>>
  \/ focus = "forms" /\ FormsNext
     /\ UNCHANGED <<focus, workVars, configurationVars, listing, playbackVars>>

Spec == Init /\ [][Next]_<<focus, workVars, configurationVars, readingVars>>

-----------------------------------------------------------------------------
(* Videos, and what a person does to the form of one.                      *)

MCVideos == { [type |-> "qianchuan_ad", ads |-> TRUE], [type |-> "live_room_traffic", ads |-> FALSE],
              [type |-> "organic", ads |-> FALSE] }

Period == [dataStartDate |-> 1, dataEndDate |-> 3]
With(r, s) == [f \in DOMAIN r \cup DOMAIN s |-> IF f \in DOMAIN s THEN s[f] ELSE r[f]]

\* Complete first entries, corrections, quotients entered by hand, cleared fields,
\* zeros, and entries that are refused.
MCEdits ==
  { With(Period, [spend |-> 200, clicks |-> 3]), With(Period, [spend |-> 0, clicks |-> 0, gmv |-> 400]),
    With(Period, [liveRoomEntries |-> 5, spend |-> 200, roi |-> 20000]), With(Period, [views |-> 7]),
    Period, [spend |-> 1000], [spend |-> 50], [clicks |-> Nothing], [clicks |-> 2], [likes |-> 1],
    [cpc |-> 70], [cpc |-> Nothing], [roi |-> 30000], [gmv |-> 900], [spend |-> 300, cpc |-> 500],
    [dataEndDate |-> 0], [publishDate |-> 4], [ctr |-> 1000001] }
-----------------------------------------------------------------------------
(* Parameters; benchmarks of two metrics, general and of a brand.          *)

MCParameters == { [stage |-> "result", model |-> "m2"], [stage |-> "final", model |-> "m1"] }

MCEntries == { [metric |-> "views", brand |-> "none", level |-> 1, on |-> TRUE],
               [metric |-> "views", brand |-> "own", level |-> 1, on |-> TRUE],
               [metric |-> "views", brand |-> "own", level |-> 2, on |-> FALSE],
               [metric |-> "gmv", brand |-> "none", level |-> 1, on |-> TRUE] }

\* Which of the administrators at the benchmarks it is does not matter.
Symmetry == Permutations(Managers)
=============================================================================
