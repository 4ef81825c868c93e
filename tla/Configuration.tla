---------------------------- MODULE Configuration ----------------------------
(***************************************************************************)
(* What administrators set: runtime settings, from the form of the         *)
(* operations console to saveSetting, the platform benchmarks, and the     *)
(* benchmark profiles of V1.1.  Every change leaves a row of               *)
(* configuration_revisions.                                                *)
(*                                                                         *)
(* One console is open; the other administrators save behind its back.     *)
(* Versions of a setting are never reused, so that one stands for its      *)
(* value.  What is typed is left out, but for the version of the setting   *)
(* it started from.  Transactions on benchmarks and profiles are split     *)
(* where another one can come between (read committed).                    *)
(***************************************************************************)
EXTENDS Integers, Sequences, FiniteSets

Ext == INSTANCE SequencesExt

CONSTANTS
  NoData,        \* the page has no settings to show
  Inline,        \* keys whose form the console itself holds
  Policies,      \* keys with a PolicyForm, evaluation_parameters among them
  Parameters,    \* values of evaluation_parameters: [stage, model]
  Seed,          \* the model both stages are installed with
  Entries,       \* benchmarks for one platform and one kind of video:
                 \* [metric, brand, level, on]
  Brand,         \* the brand of the video that benchmarks are selected for
  General,       \* no brand
  Managers,      \* administrators at the benchmarks
  MaxVersions,   \* bound: saves of a setting
  MaxOrphans,    \* bound: requests in flight whose form is gone
  MaxEntries,    \* bound: revisions of benchmarks
  MaxProfiles    \* bound: profiles, and approvals

ASSUME ConfigurationAssumption ==
  /\ {MaxVersions, MaxOrphans, MaxEntries, MaxProfiles} \subseteq Nat
  /\ "evaluation_parameters" \in Policies /\ Inline \cap Policies = {}
  /\ \A p \in Parameters : p.stage \in {"result", "final"}

VARIABLES
  settings,   \* runtime_settings: [version, value], version 0 for no row
  models,     \* the enabled rows of ai_model_configs: [stage, model]
  revisions,  \* configuration_revisions: of settings: [target, version, value, origin],
              \* with the version that was on the form it was entered in
  changes,    \* configuration_revisions of benchmarks: [row, version, value]
  console,    \* the settings of the operations console
  rows,       \* platform_benchmarks
  profiles,   \* v11_benchmark_profiles of one platform, brand and kind of video,
              \* a profile's place is its version: [at, enabled], at is its place
              \* among the approvals, 0 for a draft
  work        \* the open transaction of each manager

settingVars == <<settings, models, revisions, console>>
benchmarkVars == <<rows, changes, profiles, work>>
configurationVars == <<settings, models, revisions, console, rows, changes, profiles, work>>

SettingKeys == Inline \cup Policies
Stages == {"result", "final"}
NoValue == [stage |-> "none", model |-> "none"]
Values(k) == IF k = "evaluation_parameters" THEN Parameters ELSE {NoValue}

Idle == [op |-> "none"]
NoPut == [at |-> "none", base |-> 0, origin |-> 0]

ConfigurationInit ==
  /\ settings = [k \in SettingKeys |-> [version |-> 0, value |-> NoValue]]
  /\ models = [stage : Stages, model : {Seed}]
  /\ revisions = {}
  /\ console = [data |-> NoData, loaded |-> FALSE, fetch |-> "asked", answer |-> NoData,
                orphans |-> {},
                forms |-> [k \in SettingKeys |-> [base |-> 0, origin |-> 0, dirty |-> FALSE, put |-> NoPut]]]
  /\ rows \in {<<>>} \cup {<<e>> : e \in Entries}
  /\ changes = {} /\ profiles = <<>>
  /\ work = [a \in Managers |-> Idle]

-----------------------------------------------------------------------------
(* saveSetting: one at a time under its advisory lock.                     *)

\* Wrong variant: the version the form was opened with is not compared.
UnchangedAnyway(k, version) == settings[k].version < MaxVersions

Unchanged(k, version) == settings[k].version = version /\ version < MaxVersions

\* Wrong variant: the model that was in force stays enabled.
AddModel(k, value) == IF k = "evaluation_parameters" THEN models \cup {value} ELSE models

\* The one enabled model of the stage is replaced.
TakeModel(k, value) ==
  IF k = "evaluation_parameters" THEN {m \in models : m.stage # value.stage} \cup {value} ELSE models

Save(k, value, form) ==
  LET version == settings[k].version + 1 IN
  /\ Unchanged(k, form.base)
  /\ settings' = [settings EXCEPT ![k] = [version |-> version, value |-> value]]
  /\ models' = TakeModel(k, value)
  /\ revisions' = revisions \cup
       {[target |-> k, version |-> version, value |-> value, origin |-> form.origin]}

\* Another administrator, or a script, who has read the newest version.
SaveElsewhere(k) ==
  /\ \E value \in Values(k) :
       Save(k, value, [base |-> settings[k].version, origin |-> settings[k].version])
  /\ UNCHANGED console

-----------------------------------------------------------------------------
(* The console.  Its own forms share one flag "busy", a PolicyForm has its *)
(* own; only the former keeps the page in place.                           *)

sheet(k) == console.forms[k]
Free(k) == IF k \in Inline THEN \A i \in Inline : sheet(i).put = NoPut ELSE sheet(k).put = NoPut

\* A form on a version: what it shows and the version it is sent with.
FormOn(version) == [base |-> version, origin |-> version, dirty |-> FALSE, put |-> NoPut]
Rebase(f, version) == [f EXCEPT !.base = version, !.origin = version]

\* Wrong variant: a new version is taken over below what has been typed.
InlineFormBelow(f, row) == IF f.dirty THEN [f EXCEPT !.base = row] ELSE Rebase(f, row)

\* The settings arrived: a form of the console that is not being edited, and every
\* one after a reload, takes the row.
InlineForm(f, row) ==
  IF ~console.loaded \/ (~f.dirty /\ row >= f.base) THEN Rebase(f, row) ELSE f

\* A PolicyForm is mounted with the row, and then follows it unless it is edited.
PolicyForm(f, row) ==
  CASE console.data = NoData -> FormOn(row)
    [] console.data # NoData /\ ~f.dirty /\ row > f.base -> Rebase(f, row)
    [] OTHER -> f

Ask(c) == [c EXCEPT !.fetch = "asked", !.answer = NoData]
WithForms(c, F(_)) == [c EXCEPT !.forms = [k \in SettingKeys |-> F(k)]]

ReadSettings ==
  /\ console.fetch = "asked"
  /\ console' = [console EXCEPT !.fetch = "read", !.answer = [k \in SettingKeys |-> settings[k].version]]
  /\ UNCHANGED <<settings, models, revisions>>

DeliverSettings ==
  LET row == console.answer
      F(k) == IF k \in Inline THEN InlineForm(sheet(k), row[k]) ELSE PolicyForm(sheet(k), row[k])
  IN
  /\ console.fetch = "read"
  /\ console' = [WithForms(console, F) EXCEPT !.data = row, !.loaded = TRUE,
                                             !.fetch = "none", !.answer = NoData]
  /\ UNCHANGED <<settings, models, revisions>>

\* The page keeps what it shows, with an error.
LoseSettings ==
  /\ console.fetch # "none"
  /\ console' = [console EXCEPT !.fetch = "none", !.answer = NoData]
  /\ UNCHANGED <<settings, models, revisions>>

SetForm(k, f) == [console EXCEPT !.forms[k] = f]

Edit(k) ==
  /\ console.data # NoData /\ Free(k) /\ ~sheet(k).dirty
  /\ console' = SetForm(k, [sheet(k) EXCEPT !.dirty = TRUE])
  /\ UNCHANGED <<settings, models, revisions>>

\* A PolicyForm cannot be sent untouched: its reason is one of its fields.
SendForm(k) ==
  /\ console.data # NoData /\ Free(k) /\ k \in Policies => sheet(k).dirty
  /\ console' = SetForm(k, [sheet(k) EXCEPT !.put =
                  [at |-> "sent", base |-> sheet(k).base, origin |-> sheet(k).origin]])
  /\ UNCHANGED <<settings, models, revisions>>

\* The request is served, or the server refuses it: another version, or an account
\* that is no longer an active administrator.
Serve(k) ==
  /\ sheet(k).put.at = "sent"
  /\ \E value \in Values(k) : Save(k, value, sheet(k).put)
  /\ console' = SetForm(k, [sheet(k) EXCEPT !.put.at = "saved"])

\* A refusal, or an answer that is lost: the form stays as it is.
Fail(k) ==
  /\ sheet(k).put # NoPut
  /\ console' = SetForm(k, [sheet(k) EXCEPT !.put = NoPut])
  /\ UNCHANGED <<settings, models, revisions>>

\* The answer puts the form on the version saved, and the settings are asked for again.
Saved(k) ==
  /\ sheet(k).put.at = "saved"
  /\ console' = Ask(SetForm(k, FormOn(sheet(k).put.base + 1)))
  /\ UNCHANGED <<settings, models, revisions>>

\* The notice of a newer version offers to drop what was typed.
ReloadForm(k) ==
  /\ console.data # NoData /\ Free(k) /\ console.data[k] > sheet(k).base
  /\ console' = SetForm(k, FormOn(console.data[k]))
  /\ UNCHANGED <<settings, models, revisions>>

InlineFree == \A k \in Inline : sheet(k).put = NoPut

\* Requests whose form is taken from the page.
Orphans == {k \in Policies : sheet(k).put # NoPut}

Abandoned == console.orphans \cup {[key |-> k, put |-> sheet(k).put] : k \in Orphans}

Abandon(data) ==
  LET F(k) == IF k \in Policies THEN FormOn(IF data = NoData THEN 0 ELSE data[k])
              ELSE [sheet(k) EXCEPT !.dirty = FALSE]
  IN  /\ Cardinality(Abandoned) <= MaxOrphans
      /\ console' = Ask([WithForms(console, F) EXCEPT !.data = data, !.loaded = FALSE, !.orphans = Abandoned])

\* Refresh keeps the rows that are shown until the new ones arrive, another
\* section and back does not.
Refresh ==
  /\ console.fetch = "none" /\ InlineFree
  /\ Abandon(console.data)
  /\ UNCHANGED <<settings, models, revisions>>

ChooseSettings ==
  /\ InlineFree
  /\ Abandon(NoData)
  /\ UNCHANGED <<settings, models, revisions>>

ServeOrphan(o) ==
  /\ o.put.at = "sent"
  /\ \E value \in Values(o.key) : Save(o.key, value, o.put)
  /\ console' = [console EXCEPT !.orphans = (@ \ {o}) \cup {[o EXCEPT !.put.at = "saved"]}]

\* The answer finds no form, but the settings are asked for again.
SavedOrphan(o) ==
  /\ o.put.at = "saved"
  /\ console' = Ask([console EXCEPT !.orphans = @ \ {o}])
  /\ UNCHANGED <<settings, models, revisions>>

LoseOrphan(o) ==
  /\ console' = [console EXCEPT !.orphans = @ \ {o}]
  /\ UNCHANGED <<settings, models, revisions>>

SettingsNext ==
  \/ \E k \in SettingKeys : \/ SaveElsewhere(k) \/ Edit(k) \/ SendForm(k) \/ Serve(k) \/ Fail(k) \/ Saved(k)
                     \/ ReloadForm(k)
  \/ ReadSettings \/ DeliverSettings \/ LoseSettings \/ Refresh \/ ChooseSettings
  \/ \E o \in console.orphans : ServeOrphan(o) \/ SavedOrphan(o) \/ LoseOrphan(o)

-----------------------------------------------------------------------------
(* Platform benchmarks.  No index keeps them apart: the check for another  *)
(* one and the insertion are two statements.                               *)

Same(e, f) == e.metric = f.metric /\ e.brand = f.brand
Distinct == \A i, j \in DOMAIN rows : Same(rows[i], rows[j]) => i = j

Open(a, t) == work[a] = Idle /\ work' = [work EXCEPT ![a] = t]
Close(a) == work' = [work EXCEPT ![a] = Idle]

CheckNew(a, e) ==
  /\ Open(a, [op |-> "create", entry |-> e])
  /\ \A i \in DOMAIN rows : ~Same(rows[i], e)
  /\ Cardinality(changes) + Cardinality(Managers) < MaxEntries
  /\ UNCHANGED <<rows, changes, profiles>>

InsertNew(a) ==
  /\ work[a].op = "create"
  /\ rows' = Append(rows, work[a].entry)
  /\ changes' = changes \cup {[row |-> Len(rows) + 1, version |-> 1, value |-> work[a].entry]}
  /\ Close(a)
  /\ UNCHANGED profiles

Locked(i) == \E a \in Managers : work[a].op = "replace" /\ work[a].row = i

LockRow(a, i, e) ==
  /\ Open(a, [op |-> "replace", row |-> i, entry |-> e])
  /\ ~Locked(i)
  /\ \A j \in DOMAIN rows \ {i} : ~Same(rows[j], e)
  /\ Cardinality(changes) + 2 < MaxEntries
  /\ UNCHANGED <<rows, changes, profiles>>

VersionsOf(i) == {c.version : c \in {d \in changes : d.row = i}}

\* Wrong variant: a row from before the revisions gets no baseline.
NoBaseline(i) == {}

\* A row from before the revisions gets the value it had as its first version.
Baseline(i) == IF VersionsOf(i) = {} THEN {[row |-> i, version |-> 1, value |-> rows[i]]} ELSE {}

UpdateRow(a) ==
  LET i == work[a].row  known == changes \cup Baseline(i)
      last == Ext!Max({c.version : c \in {d \in known : d.row = i}})
  IN
  /\ work[a].op = "replace"
  /\ rows' = [rows EXCEPT ![i] = work[a].entry]
  /\ changes' = known \cup {[row |-> i, version |-> last + 1, value |-> work[a].entry]}
  /\ Close(a)
  /\ UNCHANGED profiles

\* What a trigger reads for its snapshot, in any order.
Applicable == {i \in DOMAIN rows : rows[i].on /\ rows[i].brand \in {Brand, General}}
Metrics == {rows[i].metric : i \in Applicable}

\* Places of a metric in the order.
PlacesOf(order, metric) == {n \in DOMAIN order : rows[order[n]].metric = metric}

\* Wrong variant: any later row replaces the one that was found.
ChosenLast(order, metric) == order[Ext!Max(PlacesOf(order, metric))]

\* selectApplicableBenchmarks: of the rows of a metric the first one of the video's
\* brand, or the first one if there is none.
Chosen(order, metric) ==
  LET mine == PlacesOf(order, metric)
      exact == {n \in mine : rows[order[n]].brand = Brand}
  IN  order[Ext!Min(IF exact # {} THEN exact ELSE mine)]

-----------------------------------------------------------------------------
(* Profiles of V1.1.  An approval locks its row and then the key of the    *)
(* profile; the row of the profile it takes out of force comes last.       *)

InForce == {i \in DOMAIN profiles : profiles[i].at > 0 /\ profiles[i].enabled}
Approvals == Ext!Max({0} \cup {profiles[i].at : i \in DOMAIN profiles})

Approving(a, i) == work[a].op = "approve" /\ work[a].row = i
HasKey(a) == work[a].op = "approve" /\ work[a].key
KeyFree == \A a \in Managers : ~HasKey(a)

CreateProfile(a) ==
  /\ work[a] = Idle /\ KeyFree /\ Len(profiles) < MaxProfiles
  /\ profiles' = Append(profiles, [at |-> 0, enabled |-> FALSE])
  /\ UNCHANGED <<rows, changes, work>>

LockProfile(a, i) ==
  /\ Open(a, [op |-> "approve", row |-> i, key |-> FALSE])
  /\ \A b \in Managers : ~Approving(b, i)
  /\ Approvals < MaxProfiles
  /\ UNCHANGED <<rows, changes, profiles>>

LockKey(a) ==
  /\ work[a].op = "approve" /\ KeyFree
  /\ work' = [work EXCEPT ![a].key = TRUE]
  /\ UNCHANGED <<rows, changes, profiles>>

\* The profile in force is locked by an approval of its own, which waits for the key.
Stuck(a) == HasKey(a) /\ \E b \in Managers \ {a}, i \in InForce : Approving(b, i)

\* Wrong variant: the profile in force stays.
BesideOthers(i) ==
  [profiles EXCEPT ![i] = [at |-> Approvals + 1, enabled |-> TRUE]]

InsteadOfOthers(i) ==
  [j \in DOMAIN profiles |->
    IF j = i THEN [at |-> Approvals + 1, enabled |-> TRUE]
    ELSE [profiles[j] EXCEPT !.enabled = FALSE]]

ApproveProfile(a) ==
  /\ HasKey(a) /\ ~Stuck(a)
  /\ profiles' = InsteadOfOthers(work[a].row)
  /\ Close(a)
  /\ UNCHANGED <<rows, changes>>

\* The database ends one of the two.
BreakDeadlock(a) ==
  /\ work[a].op = "approve" /\ \E b \in Managers : Stuck(b)
  /\ Close(a)
  /\ UNCHANGED <<rows, changes, profiles>>

BenchmarksNext ==
  \E a \in Managers :
    \/ \E e \in Entries : CheckNew(a, e) \/ \E i \in DOMAIN rows : LockRow(a, i, e)
    \/ InsertNew(a) \/ UpdateRow(a)

ProfilesNext ==
  \E a \in Managers :
    \/ CreateProfile(a) \/ \E i \in DOMAIN profiles : LockProfile(a, i)
    \/ LockKey(a) \/ ApproveProfile(a) \/ BreakDeadlock(a)

ConfigurationNext ==
  \/ SettingsNext /\ UNCHANGED benchmarkVars
  \/ (BenchmarksNext \/ ProfilesNext) /\ UNCHANGED settingVars

ConfigurationSpec == ConfigurationInit /\ [][ConfigurationNext]_configurationVars

-----------------------------------------------------------------------------
(* Properties.                                                             *)

SettingHistory(k) ==
  LET S == {r \in revisions : r.target = k} IN
  /\ {r.version : r \in S} = 1 .. settings[k].version /\ Cardinality(S) = settings[k].version
  /\ \A r \in S : r.version = settings[k].version => r.value = settings[k].value

BenchmarkHistory(i) ==
  LET S == {c \in changes : c.row = i} IN
  /\ {c.version : c \in S} = 1 .. Cardinality(S)
  /\ \A c \in S : c.version = Cardinality(S) => c.value = rows[i]

\* The audit of configuration_revisions has every version of a setting or a
\* benchmark without a gap, and its last one is the value in force.
RevisionsTellTheHistory ==
  (\A k \in SettingKeys : SettingHistory(k)) /\ \A i \in DOMAIN rows : BenchmarkHistory(i)

\* Nobody overwrites a setting that was not on the form: each version was entered
\* over its predecessor, whatever loads, reloads and late answers did to the page.
NothingOverwrittenUnseen == \A r \in revisions : r.origin = r.version - 1

\* The model a trigger finds for a stage is the last one saved for it, although
\* the setting only keeps the stage that was saved last.
OneModelInForce ==
  \A s \in Stages :
    LET S == {r \in revisions : r.target = "evaluation_parameters" /\ r.value.stage = s} IN
    /\ Cardinality({m \in models : m.stage = s}) = 1
    /\ \A r \in S : (\A q \in S : q.version <= r.version) => r.value \in models

\* In whichever order the rows come, the benchmark of the brand beats the general
\* one; the choice depends on the order only where two rows are the same benchmark.
SelectionAgrees ==
  \A order \in Ext!SetToSeqs(Applicable), m \in Metrics :
    LET i == Chosen(order, m) IN
    /\ rows[i].metric = m
    /\ (\E j \in Applicable : rows[j].metric = m /\ rows[j].brand = Brand) => rows[i].brand = Brand
    /\ Same(rows[i], rows[Chosen(Ext!SetToSeq(Applicable), m)])

\* Once a profile has been approved, a rating always finds exactly one in force, the
\* one approved last, however approvals overlap and deadlock.
OneProfileInForce == Approvals > 0 =>
  \E i \in DOMAIN profiles : InForce = {i} /\ profiles[i].at = Approvals

\* The configuration is what was last decided, by somebody who saw what it was.
ConfigurationAgrees ==
  /\ RevisionsTellTheHistory /\ NothingOverwrittenUnseen /\ OneModelInForce
  /\ SelectionAgrees /\ OneProfileInForce

-----------------------------------------------------------------------------
(* The inductive invariant the proofs in DeskProofs rest on.               *)

\* The version a form is sent with is the one it shows, also when nobody waits for
\* the answer any more.
Requests == {p \in [at : {"none", "sent", "saved"}, base : Nat, origin : Nat] : p.base = p.origin}
Sheets == {f \in [base : Nat, origin : Nat, dirty : BOOLEAN, put : Requests] : f.base = f.origin}
Shown == {NoData} \cup [SettingKeys -> Nat]

ConsoleOK ==
  /\ console \in [data : Shown, loaded : BOOLEAN, fetch : {"none", "asked", "read"}, answer : Shown,
                  orphans : SUBSET [key : Policies, put : Requests], forms : [SettingKeys -> Sheets]]
  /\ console.fetch = "read" => console.answer \in [SettingKeys -> Nat]

SettingsOK ==
  /\ settings \in [SettingKeys -> [version : Nat, value : Parameters \cup {NoValue}]]
  /\ IsFiniteSet(revisions)
  /\ revisions \subseteq
       [target : SettingKeys, version : Nat, value : Parameters \cup {NoValue}, origin : Nat]
  /\ \A s \in Stages : \E m \in models : {n \in models : n.stage = s} = {m}

WorkRows ==
  {Idle} \cup [op : {"create"}, entry : Entries]
  \cup [op : {"replace"}, row : DOMAIN rows, entry : Entries]
  \cup [op : {"approve"}, row : DOMAIN profiles, key : BOOLEAN]

BenchmarksOK ==
  /\ rows \in Seq(Entries) /\ work \in [Managers -> WorkRows]
  /\ IsFiniteSet(changes)
  /\ changes \subseteq [row : DOMAIN rows, version : Nat, value : Entries]

ProfileRows == [at : Nat, enabled : BOOLEAN]

\* Approvals is the place of the last approval.
ProfilesOK ==
  /\ profiles \in Seq(ProfileRows)
  /\ Approvals \in Nat
  /\ \A i \in DOMAIN profiles : profiles[i].at <= Approvals

ConfigurationInv ==
  /\ ConsoleOK /\ SettingsOK /\ BenchmarksOK /\ ProfilesOK
  /\ RevisionsTellTheHistory /\ NothingOverwrittenUnseen /\ OneModelInForce /\ OneProfileInForce
=============================================================================
